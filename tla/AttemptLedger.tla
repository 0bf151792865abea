----------------------------- MODULE AttemptLedger -----------------------------
(***************************************************************************)
(* What the AssignmentStore promises of the attempts of one assignment:    *)
(* attempts are numbered in order; an outcome is chosen for an attempt at  *)
(* most once; and only the current attempt's outcome is ever learned, and  *)
(* then it is the chosen one.  An attempt superseded before its outcome    *)
(* was learned never has one, even if a late worker still chooses it.      *)
(***************************************************************************)
EXTENDS Integers

CONSTANTS MaxAttempts, Outcomes

VARIABLES
  current,  \* the current attempt, 0 before the first
  chosen,   \* the outcome chosen for each attempt
  learned   \* the outcome recorded for each attempt

ledger == <<current, chosen, learned>>

None == "none"
Attempts == 1 .. MaxAttempts

Init ==
  /\ current = 0
  /\ chosen = [n \in Attempts |-> None]
  /\ learned = [n \in Attempts |-> None]

NewAttempt ==
  /\ current < MaxAttempts
  /\ current' = current + 1
  /\ UNCHANGED <<chosen, learned>>

Choose(n, o) ==
  /\ n <= current /\ chosen[n] = None
  /\ chosen' = [chosen EXCEPT ![n] = o]
  /\ UNCHANGED <<current, learned>>

Learn(n) ==
  /\ n = current /\ chosen[n] # None /\ learned[n] = None
  /\ learned' = [learned EXCEPT ![n] = chosen[n]]
  /\ UNCHANGED <<current, chosen>>

(* An outcome chosen by the store itself is learned with it.                 *)
Decide(n, o) ==
  /\ n = current /\ chosen[n] = None /\ learned[n] = None
  /\ chosen' = [chosen EXCEPT ![n] = o]
  /\ learned' = [learned EXCEPT ![n] = o]
  /\ UNCHANGED current

Next ==
  \/ NewAttempt
  \/ \E n \in Attempts : (\E o \in Outcomes : Choose(n, o) \/ Decide(n, o)) \/ Learn(n)

Spec == Init /\ [][Next]_ledger
===============================================================================
