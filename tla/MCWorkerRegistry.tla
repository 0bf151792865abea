--------------------------- MODULE MCWorkerRegistry ---------------------------
(* TLC instance of WorkerRegistry: workers and attempts are interchangeable. *)
EXTENDS WorkerRegistry, TLC

Symmetry == Permutations(Workers) \cup Permutations(Attempts)
===============================================================================
