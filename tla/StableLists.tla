---------------------------- MODULE StableLists ----------------------------
(* Lists as the server's Python makes them: comprehensions that filter, and   *)
(* sorted, which is stable.                                                   *)
EXTENDS Integers, Sequences, FiniteSets

\* The elements of a sequence that stand at some positions, in its order.
Pick(s, at) ==
  [k \in 1 .. Cardinality(at) |->
     s[CHOOSE i \in at : Cardinality({j \in at : j <= i}) = k]]
Where(s, Test(_)) == Pick(s, {i \in DOMAIN s : Test(s[i])})

(* The k-th element is the one with k - 1 elements before it: lesser ones,    *)
(* and equal ones that stood earlier.                                         *)
StableSort(s, Before(_, _)) ==
  LET Rank(i) == Cardinality({j \in DOMAIN s : \/ Before(s[j], s[i])
                                               \/ j <= i /\ ~Before(s[i], s[j])})
  IN [k \in DOMAIN s |-> s[CHOOSE i \in DOMAIN s : Rank(i) = k]]
=============================================================================
