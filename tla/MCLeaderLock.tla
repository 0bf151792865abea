----------------------------- MODULE MCLeaderLock -----------------------------
(* TLC instance of LeaderLock: a holder, its successor, and for the runs of  *)
(* the lock's recovery a third hub; the hubs are interchangeable.            *)
EXTENDS LeaderLock, TLC

Symmetry == Permutations(Hubs)
===============================================================================
