------------------------------ MODULE MCDispatch ------------------------------
(* TLC instances of Dispatch: the hubs are interchangeable.  With two hubs   *)
(* and one attempt, a hub takes over from another; with one hub and two      *)
(* attempts, an entry is retried.                                            *)
EXTENDS Dispatch, TLC

Symmetry == Permutations(Hubs)
===============================================================================
