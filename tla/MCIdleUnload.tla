---------------------------- MODULE MCIdleUnload ----------------------------
(***************************************************************************)
(* TLC instance of IdleUnload: the recognize pool and its sweep.           *)
(***************************************************************************)
EXTENDS IdleUnload

MCRunners == 1..2

\* Request threads are anonymous: the first to call is number 1.
NumberedInOrderOfArrival ==
    \A r \in Runners : (calls[r] = 0 /\ calls'[r] # 0)
                           => \A s \in 1..(r - 1) : calls[s] # 0
=============================================================================
