----------------------------- MODULE MCPageRuns -----------------------------
(***************************************************************************)
(* TLC instance of PageRuns.                                               *)
(***************************************************************************)
EXTENDS PageRuns

MCTasks == 1..3

\* Requests are anonymous: the first to ask is number 1, the next number 2.
\* This picks one of the renamings of a behaviour, and unlike a symmetry set
\* it is sound for the liveness property.
NumberedInOrderOfArrival ==
    \A t \in Tasks : (pc[t] = "new" /\ pc'[t] # "new")
                        => \A u \in 1..(t - 1) : pc[u] # "new"
=============================================================================
