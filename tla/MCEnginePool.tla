---------------------------- MODULE MCEnginePool ----------------------------
(***************************************************************************)
(* TLC instances of EnginePool.  The runners are interchangeable, and so   *)
(* are the admin threads.                                                  *)
(***************************************************************************)
EXTENDS EnginePool, TLC

Symmetry == Permutations(Runners) \cup Permutations(Admins)
=============================================================================
