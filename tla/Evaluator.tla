------------------------------- MODULE Evaluator -------------------------------
(***************************************************************************)
(* evaluateTask (packages/evaluator/src/index.ts): the validation commands *)
(* are run one after the other, the diff is read, and terminal state,      *)
(* score and failure category are derived from what was seen.  A command   *)
(* may pass, fail, fail to run (exit code null: it could not be started,   *)
(* was killed by a signal, or runCommand threw) or run out of time, and it *)
(* may itself change files of the workspace before the diff is read.  The  *)
(* evaluated run is stored, a reviewer may correct its category, and it is *)
(* measured together with the runs that were stored before (Measures).     *)
(***************************************************************************)
EXTENDS Measures

CONSTANTS
  Command,         \* validation commands
  TaskCommand,     \* the task's evaluation command
  Scenario,        \* inputs: [validations, past], what the caller asks for
                   \* besides the task's command, and the runs stored before
  Configuration,   \* configurations a run may be of
  EditConfiguration, \* those of the edit study
  Task,            \* tasks
  Latency, Moment  \* latencies and starting times of runs

Kinds == {"syntax", "build", "repository", "task"}
Spec1 == [kind : Kinds, command : Command]

TerminalState == {"resolved", "task_failed", "provider_error", "environment_error", "timeout",
                  "budget_exhausted", "cancelled"}

(* The failure categories, the first of which prevails. *)
Ordered == <<"environment_failure", "provider_failure", "retrieval_failure",
             "interpretation_failure", "planning_failure", "generation_failure",
             "application_failure", "verification_failure", "regression",
             "context_loss_failure", "loop_stagnation", "budget_exhaustion">>

(* What a command stores as the score of a result: the edit study scores   *)
(* one that has none as a failure, the others leave it without.            *)
StoredScore(configuration, score) ==
  IF score = "null" /\ configuration \in EditConfiguration THEN "failed" ELSE score

(* A stored run; its latency and starting time are numbers.  Every command *)
(* that stores one gives a category to what was not resolved, unless it    *)
(* was cancelled, and an environment that failed has no score of its own.  *)
Stored == [configuration : Configuration, task : Task, startedAt : Nat, latency : Nat,
           terminal : TerminalState, score : {"null", "passed", "failed"},
           category : ToSet(Ordered) \cup {"null"},
           manual : ToSet(Ordered) \cup {"null", "absent"}]

Agrees(run) ==
  /\ run.terminal = "resolved" => run.category = "null"
  /\ run.category = "null" => run.terminal \in {"resolved", "cancelled"}
  /\ run.terminal = "environment_error" =>
        run.score = StoredScore(run.configuration, "null")

ASSUME EvaluatorAssumption ==
  /\ TaskCommand \in Command
  /\ Latency \subseteq Nat /\ Moment \subseteq Nat
  /\ \A scenario \in Scenario :
        /\ scenario.validations \in Seq(Spec1)
        /\ scenario.past \in Seq(Stored) /\ \A run \in ToSet(scenario.past) : Agrees(run)

TaskSpec == [kind |-> "task", command |-> TaskCommand]

(* A command that is stopped by the timer may still exit with a code of its own. *)
Outcome == [exit : {"zero", "nonzero", "null"}, timedOut : BOOLEAN]

VARIABLES
  pending,      \* the specs still to be run
  validations,  \* what the others gave, in order
  outside,      \* the diff has a file that is not in allowedChangedFiles
  evaluation,   \* the result, once there is one
  runs,         \* the stored runs, in the order their files are read
  report        \* what was made of them, once it was

evaluating == <<pending, validations, outside, evaluation>>
vars == <<evaluating, runs, report>>

NoEvaluation == [terminal |-> "none", score |-> "null", category |-> "null"]
NoReport == [aggregate |-> <<>>, analysis |-> <<>>]

(* uniqueSpecs: of equal specs the first is kept. *)
Unique(specs) ==
  LET kept[n \in 0..Len(specs)] ==
        IF n = 0 THEN <<>>
        ELSE IF \E j \in 1..(n - 1) : specs[j] = specs[n] THEN kept[n - 1]
        ELSE Append(kept[n - 1], specs[n])
  IN  kept[Len(specs)]

Init ==
  /\ \E scenario \in Scenario :
        /\ pending = Unique(Append(scenario.validations, TaskSpec))
        /\ runs = scenario.past
  /\ validations = <<>>
  /\ outside \in BOOLEAN
  /\ evaluation = NoEvaluation
  /\ report = NoReport

-----------------------------------------------------------------------------
Passed(v) == v.exit = "zero" /\ ~v.timedOut

Some(test(_)) == \E i \in DOMAIN validations : test(validations[i])

(* Mutant: a command that could not run counts as a failed one. *)
TerminalWithoutNull ==
  IF Some(LAMBDA v : v.timedOut) THEN "timeout"
  ELSE IF ~Some(LAMBDA v : ~Passed(v)) THEN "resolved" ELSE "task_failed"

(* terminalStateFromValidations *)
TerminalFromValidations ==
  IF Some(LAMBDA v : v.timedOut) THEN "timeout"
  ELSE IF Some(LAMBDA v : v.exit = "null") THEN "environment_error"
  ELSE IF ~Some(LAMBDA v : ~Passed(v)) THEN "resolved"
  ELSE "task_failed"

(* evaluateTask: a file out of scope turns a success into a failure. *)
Terminal ==
  IF TerminalFromValidations = "resolved" /\ outside THEN "task_failed"
  ELSE TerminalFromValidations

(* classifyFailure: the first of the categories there is evidence for. *)
ClassifyFailure(evidence) ==
  IF evidence = {} THEN "null"
  ELSE Ordered[SelectInSeq(Ordered, LAMBDA category : category \in evidence)]

(* classifyEvaluation: the evidence it finds first is all it passes on. *)
EvidenceOf(terminal) ==
  LET failed == SelectInSeq(validations, LAMBDA v : ~Passed(v))
  IN  IF outside THEN {"regression"}
      ELSE IF terminal = "timeout" THEN {"budget_exhaustion"}
      ELSE IF terminal = "environment_error" THEN {"environment_failure"}
      ELSE IF failed = 0 THEN {}
      ELSE IF validations[failed].kind = "repository" THEN {"regression"}
      ELSE {"verification_failure"}

CategoryOf(terminal) == ClassifyFailure(EvidenceOf(terminal))

ScoreOf(terminal) ==
  IF terminal = "environment_error" THEN "null"
  ELSE IF terminal = "resolved" THEN "passed" ELSE "failed"

-----------------------------------------------------------------------------
(* Every command is run, whatever the ones before it gave. *)
RunValidation ==
  /\ pending # <<>>
  /\ \E o \in Outcome :
        validations' = Append(validations,
          [kind |-> Head(pending).kind, command |-> Head(pending).command,
           exit |-> o.exit, timedOut |-> o.timedOut])
  /\ outside' \in BOOLEAN
  /\ pending' = Tail(pending)
  /\ UNCHANGED <<evaluation, runs, report>>

(* The run is stored with its result; its file is anywhere among the others. *)
StoredRun(configuration, task, startedAt, latency, result) ==
  [configuration |-> configuration, task |-> task, startedAt |-> startedAt,
   latency |-> latency, terminal |-> result.terminal,
   score |-> StoredScore(configuration, result.score),
   category |-> result.category, manual |-> "absent"]

Evaluate ==
  /\ pending = <<>>
  /\ evaluation = NoEvaluation
  /\ evaluation' = [terminal |-> Terminal, score |-> ScoreOf(Terminal),
                    category |-> CategoryOf(Terminal)]
  /\ \E c \in Configuration, t \in Task, m \in Moment, l \in Latency :
     \E i \in 1..(Len(runs) + 1) :
        runs' = InsertAt(runs, i, StoredRun(c, t, m, l, evaluation'))
  /\ UNCHANGED <<pending, validations, outside, report>>

Done == evaluation # NoEvaluation

(* applyManualFailureCorrection: the automatic category is kept beside it. *)
CorrectManually ==
  /\ Done /\ report = NoReport
  /\ \E i \in DOMAIN runs, category \in {"null", "regression"} :
        /\ \A j \in DOMAIN runs : runs[j].manual = "absent"
        /\ runs' = [runs EXCEPT ![i].manual = category]
  /\ UNCHANGED <<evaluating, report>>

Measure ==
  /\ Done /\ report = NoReport
  /\ report' = [aggregate |-> Aggregated(runs), analysis |-> Analysed(runs)]
  /\ UNCHANGED <<evaluating, runs>>

Measured == report # NoReport

Ended == Measured /\ UNCHANGED vars

Next == RunValidation \/ Evaluate \/ CorrectManually \/ Measure \/ Ended

Spec == Init /\ [][Next]_vars

-----------------------------------------------------------------------------
\* The task's own command is run exactly once, and so is every other distinct
\* validation, however often and in whatever order the caller listed them.
EachCheckOnce ==
  LET all == [i \in DOMAIN validations |->
                [kind |-> validations[i].kind, command |-> validations[i].command]] \o pending
  IN  /\ \A i, j \in DOMAIN all : all[i] = all[j] => i = j
      /\ \E i \in DOMAIN all : all[i] = TaskSpec

\* A run passes only on complete evidence: every command, the task's among
\* them, exited with 0 in time and no file out of scope was changed; and
\* complete evidence always passes.
PassedIsProved ==
  Done =>
    (evaluation.score = "passed"
       <=> /\ ~outside
           /\ \A i \in DOMAIN validations :
                 validations[i].exit = "zero" /\ ~validations[i].timedOut)

\* A run is scored as failed only on evidence against it: a check that failed
\* or ran out of time, or a file out of scope.  A command that merely could
\* not be run never does it alone.
FailedIsProved ==
  Done /\ evaluation.score = "failed" =>
     \/ outside
     \/ \E i \in DOMAIN validations :
           validations[i].exit = "nonzero" \/ validations[i].timedOut

\* A regression is claimed only for a file out of scope or when the first
\* check that failed was the repository's own; a category is missing exactly
\* for a run that passed.
CategoryIsProved ==
  Done =>
    /\ evaluation.category = "regression" /\ ~outside =>
         \E i \in DOMAIN validations :
            /\ validations[i].kind = "repository" /\ ~Passed(validations[i])
            /\ \A j \in 1..(i - 1) : Passed(validations[j])
    /\ evaluation.category = "null" <=> evaluation.terminal = "resolved"

\* A verdict rests on evidence, and on all of it.
VerdictIsProved == EachCheckOnce /\ PassedIsProved /\ FailedIsProved /\ CategoryIsProved

\* The dashboard's measures stand for all runs and for nothing else: those of
\* the configurations add up to the whole, a run whose environment failed
\* leaves every rate of correctness as it was ("without treating unscorable
\* environment failures as wrong answers", packages/evaluator/src/index.ts:174)
\* except where the edit study scored it (EnvironmentIsNotBlamed), each run that was not resolved, or was corrected, is counted under one
\* category, except a cancelled one that has none, and the two medians, of the
\* dashboard and of the reports, are the same.
AggregateIsHonest ==
  Measured =>
    LET whole == report.aggregate
        parts == whole.byConfiguration
        Sum(f(_), counts) == LET keys == SetToSeq(DOMAIN counts)
                             IN  Total([i \in DOMAIN keys |-> f(counts[keys[i]])])
        Scores(tally) == IF tally.correctness = <<>> THEN <<0, 0>> ELSE tally.correctness
        failed == {i \in DOMAIN runs :
                     \/ runs[i].terminal \notin {"resolved", "cancelled"}
                     \/ runs[i].category # "null" \/ runs[i].manual \notin {"absent", "null"}}
        ran == {i \in DOMAIN runs :
                  \/ runs[i].terminal # "environment_error"
                  \/ runs[i].configuration \in EditConfiguration}
    IN  /\ whole.overall.total = Len(runs)
        /\ whole.overall.total = Sum(LAMBDA tally : tally.total, parts)
        /\ whole.overall.resolved = Sum(LAMBDA tally : tally.resolved, parts)
        /\ \A n \in {1, 2} :
              Scores(whole.overall)[n] = Sum(LAMBDA tally : Scores(tally)[n], parts)
        /\ whole.overall.correctness = Correctness(runs, ran)
        /\ Sum(LAMBDA count : count, whole.categories) = Cardinality(failed)
        /\ 5 * whole.medianRuntime[1] = report.analysis.latency.median

Ascending(summary) ==
  summary.count > 0 => /\ summary.min <= summary.p10 /\ summary.p10 <= summary.median
                       /\ summary.median <= summary.p90 /\ summary.p90 <= summary.max

\* A comparison of two configurations does not depend on which is on the left
\* nor on the order files were read in: it pairs each run with the run that
\* was started as the same one in turn for the same task ("Paired comparisons
\* align runs by task and occurrence order within each configuration.",
\* packages/evaluator/src/analysis.ts:176), no run twice even if some were
\* started at the same moment, and leaves out only runs for which the other
\* configuration has none.  The quantiles of every summary are in order.
ComparisonIsPaired ==
  Measured =>
    LET Turn(i) == Cardinality({j \in Group(runs, runs[i].configuration, runs[i].task) :
                                  runs[j].startedAt < runs[i].startedAt})
        Distinct == \A i, j \in DOMAIN runs : runs[i].startedAt = runs[j].startedAt => i = j
        Partners(left, right) ==
          {pair \in Belonging(left, runs) \X Belonging(right, runs) :
             runs[pair[1]].task = runs[pair[2]].task /\ Turn(pair[1]) = Turn(pair[2])}
        analysis == report.analysis
    IN  /\ Ascending(analysis.latency)
        /\ \A c \in DOMAIN analysis.byConfiguration :
              Ascending(analysis.byConfiguration[c].latency)
        /\ \A p \in DOMAIN analysis.compared :
              LET there == analysis.compared[p]
                  back == analysis.compared[<<p[2], p[1]>>]
                  pairs == Range(Pairs(runs, p[1], p[2]))
              IN  /\ Ascending(there.latency) /\ Ascending(there.score)
                  /\ there.latency.count = back.latency.count
                  /\ there.pairedTasks = back.pairedTasks
                  /\ there.latency.count > 0 =>
                       /\ there.latency.median = -back.latency.median
                       /\ there.latency.p10 = -back.latency.p90
                  /\ \A a, b \in pairs : a[1] = b[1] <=> a[2] = b[2]
                  /\ Distinct => pairs = Partners(p[1], p[2])

\* A stored run whose environment failed is told from a wrong answer at least
\* by its category or by its score.  Both are said of it: "Environment and
\* provider failures are kept separate from verification, regression, and
\* agent-action categories.  A failed environment produces a `null` score"
\* (docs/decisions/0005-evaluation-and-scoring.md, 15-17).
EnvironmentIsNotBlamed ==
  \A i \in DOMAIN runs :
     runs[i].terminal = "environment_error" =>
        runs[i].category = "environment_failure" \/ runs[i].score = "null"
=============================================================================
