----------------------------- MODULE MCEvaluator -----------------------------
(* Small instances of Evaluator for TLC. *)
EXTENDS Evaluator

CONSTANTS check1, check2

(* Any validations with no run stored before, or the task's command alone  *)
(* with runs of two configurations and two tasks.                          *)
SomeTasks == {"t1", "t2"}
Results == {[terminal |-> "resolved", score |-> "passed", category |-> "null"],
            [terminal |-> "task_failed", score |-> "failed", category |-> "regression"],
            [terminal |-> "environment_error", score |-> "null",
             category |-> "environment_failure"]}
Cancelled == [terminal |-> "cancelled", score |-> "null", category |-> "null"]
PastRun(configurations, results) ==
  {StoredRun(c, t, m, 2 * m, r) :
     c \in configurations, t \in SomeTasks, m \in {1, 3}, r \in results}
Alone == [validations : {<<>>},
          past : {<<a, b>> : a \in PastRun({"left"}, Results \cup {Cancelled}),
                             b \in PastRun({"left", "right"}, Results)}]
Listed == [validations : UNION {[1..n -> Spec1] : n \in 0..2}, past : {<<>>}]
Scenarios == Alone \cup Listed

(* What the edit study asks for: no validations of its own. *)
Unlisted == [validations : {<<>>}, past : {<<>>}]
=============================================================================
