---------------------------- MODULE MCDagExecution -----------------------------
(* One executor; two reviews that run together and then three, of which one  *)
(* depends on, and one conflicts with, the first two; a verifier and an      *)
(* adversarial verifier.                                                     *)
EXTENDS DagExecution

MCPlan == <<"execute", "review_a", "review_b", "review_c", "review_d", "review_e",
            "verify", "adversarial">>
MCPhaseOf ==
  [n \in ToSet(MCPlan) |->
     CASE n = "execute" -> "execute"
       [] n = "verify" -> "verify"
       [] n = "adversarial" -> "adversarial_verify"
       [] OTHER -> "review"]
MCDependsOn ==
  [n \in ToSet(MCPlan) |->
     CASE n = "execute" -> {}
       [] n = "review_c" -> {"execute", "review_b"}
       [] n = "verify" -> {"review_a", "review_b"}
       [] n = "adversarial" -> {"verify", "review_d"}
       [] OTHER -> {"execute"}]
MCConflictKeys ==
  [n \in ToSet(MCPlan) |-> IF n \in {"review_a", "review_d"} THEN {"fixtures"} ELSE {}]
MCResumeSets == {{}, {"execute"}}
===============================================================================
