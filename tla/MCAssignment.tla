----------------------------- MODULE MCAssignment -----------------------------
(* TLC instance of Assignment: two leaders that may overlap, two attempts    *)
(* and one token more than attempts, so that createAttempt can crash once    *)
(* and write the same attempt number again.                                  *)
EXTENDS Assignment, TLC

Symmetry == Permutations(Dispatchers)
===============================================================================
