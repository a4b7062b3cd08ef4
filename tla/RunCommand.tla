------------------------------ MODULE RunCommand ------------------------------
(***************************************************************************)
(* The life of `morphscope run' (apps/cli/src/index.ts, main) from the     *)
(* look for an existing run.json to the finally block: what it leaves in   *)
(* the output directory, in the trace database and in the sandbox, in      *)
(* which order, and what remains of it after an exception, an interrupt or *)
(* a crash between two steps.  Several processes may be started with the   *)
(* same --output; each has its own run and trace identifiers.              *)
(*                                                                         *)
(* The agent's own spans are ReasoningAgent's subject; here only the root  *)
(* span counts.  Apart from the reasoning agent's awaits main is           *)
(* synchronous, so that is the only place an interrupt is noticed.         *)
(***************************************************************************)
EXTENDS Naturals

CONSTANTS
  Process,     \* runs started with the same output directory
  Nobody,      \* no process
  Configs,     \* which agents: subset of {"baseline", "groq"}
  Concurrent,  \* may two of them overlap?
  Faults       \* subset of {"step", "store", "file"}: what may throw, among it
               \* the database and the writing of a file

ASSUME RunAssumption ==
  /\ Nobody \notin Process
  /\ Configs \subseteq {"baseline", "groq"} /\ Configs # {}
  /\ Concurrent \in BOOLEAN
  /\ Faults \subseteq {"step", "store", "file"}

VARIABLES
  proc,    \* the state of each process, see Fresh
  runJson  \* run.json in the output directory: whose, whole, and the run in it

vars == <<proc, runJson>>

NoResult == [terminal |-> "none", category |-> "null", score |-> "null"]

(* What runBaselineAgent may return: it knows no failure category, and its *)
(* plan is run to its end before the event loop turns.                     *)
BaselineResult ==
  [terminal : {"resolved", "task_failed", "timeout", "budget_exhausted"},
   category : {"null"}, score : {"null"}]

(* What runReasoningAgent may return (ReasoningAgent says when). *)
ReasoningResult ==
  {[terminal |-> "resolved", category |-> "null", score |-> "null"],
   [terminal |-> "task_failed", category |-> "interpretation_failure", score |-> "null"],
   [terminal |-> "task_failed", category |-> "application_failure", score |-> "null"],
   [terminal |-> "provider_error", category |-> "provider_failure", score |-> "null"]}
  \cup [terminal : {"timeout", "budget_exhausted", "cancelled"},
        category : {"budget_exhaustion"}, score : {"null"}]

AgentResult(config) == IF config = "baseline" THEN BaselineResult ELSE ReasoningResult

(* What an evaluation may return (Evaluator says when). *)
EvaluationResult ==
  {[terminal |-> "resolved", category |-> "null", score |-> "passed"],
   [terminal |-> "environment_error", category |-> "environment_failure", score |-> "null"],
   [terminal |-> "task_failed", category |-> "verification_failure", score |-> "failed"],
   [terminal |-> "timeout", category |-> "budget_exhaustion", score |-> "failed"],
   [terminal |-> "environment_error", category |-> "regression", score |-> "null"]}
  \cup [terminal : {"task_failed", "timeout"}, category : {"regression"},
        score : {"failed"}]

Stages == {"idle", "open", "acquire", "setup", "agent", "await", "evaluate", "collect",
           "persist", "end", "write", "writing", "catch", "finally"}
Over == {"done", "refused", "escaped", "crashed"}
InTry == {"acquire", "setup", "agent", "await", "evaluate", "collect", "persist",
          "end", "write"}

Outcome ==
  [terminal : {"none", "resolved", "task_failed", "provider_error", "environment_error",
               "timeout", "budget_exhausted", "cancelled"},
   category : {"null", "environment_failure", "provider_failure", "interpretation_failure",
               "application_failure", "verification_failure", "regression",
               "budget_exhaustion"},
   score : {"null", "failed", "passed"}]

(* What came of the writing of a file, by a process that lives or not. *)
FileState == {"none", "part", "whole"}

ProcessState ==
  [config : Configs, stage : Stages \cup Over, signal : BOOLEAN, cancelled : BOOLEAN,
   result : Outcome, runRow : Outcome, handle : {"none", "live", "ended"},
   rootRow : {"absent", "running", "ok", "error"}, workspace : BOOLEAN,
   artifact : FileState, report : FileState, exit : {"ok", "failed"},
   lost : SUBSET {"database", "file"}]

Fresh(config) ==
  [config |-> config,
   stage |-> "idle",
   signal |-> FALSE,       \* an interrupt arrived while the agent worked
   cancelled |-> FALSE,    \* ... and onInterrupt ran
   result |-> NoResult,    \* terminalState, agentCategory and evaluation
   handle |-> "none",      \* the root span's handle
   rootRow |-> "absent",   \* the root span's row
   workspace |-> FALSE,    \* it holds a sandbox that is not disposed of
   artifact |-> "none",    \* the patch in the artifact store
   runRow |-> NoResult,    \* the row of the runs table
   report |-> "none",      \* the error.json it wrote (a later failing run on
                           \* the same directory puts its own in its place)
   exit |-> "ok",          \* process.exitCode
   lost |-> {}]            \* history: where what was to tell of it failed

Init ==
  /\ proc \in [Process -> {Fresh(c) : c \in Configs}]
  /\ runJson = [owner |-> Nobody, whole |-> FALSE, run |-> NoResult]

At(p, s) == proc[p].stage = s
Goto(p, next) == proc' = [proc EXCEPT ![p].stage = next]
Fail(p, next) == proc' = [proc EXCEPT ![p].stage = next, ![p].exit = "failed"]

(* The process is gone, and with it what it had in memory. *)
Gone(r, how) == [r EXCEPT !.stage = how, !.signal = FALSE, !.result = NoResult,
                          !.handle = "none"]

-----------------------------------------------------------------------------
(* Only sequential use is meant unless Concurrent. *)
MayBegin(p) == Concurrent \/ \A q \in Process \ {p} : proc[q].stage \in Over \cup {"idle"}

(* Mutant: an existing file is not looked for. *)
BeginUnchecked(p) ==
  /\ At(p, "idle")
  /\ MayBegin(p)
  /\ Goto(p, "open")
  /\ UNCHANGED runJson

(* existsSync(run.json): refuse. *)
Begin(p) ==
  /\ At(p, "idle")
  /\ MayBegin(p)
  /\ IF runJson.owner = Nobody THEN Goto(p, "open") ELSE Fail(p, "refused")
  /\ UNCHANGED runJson

(* The database is opened and the root span started before the try block. *)
Open(p) ==
  /\ At(p, "open")
  /\ \/ proc' = [proc EXCEPT ![p].stage = "acquire", ![p].handle = "live",
                             ![p].rootRow = "running"]
     \/ "store" \in Faults /\ Fail(p, "escaped")
  /\ UNCHANGED runJson

(* A step inside the try block throws and leaves nothing behind. *)
Throw(p) ==
  /\ Faults # {}
  /\ proc[p].stage \in InTry
  /\ Goto(p, "catch")
  /\ UNCHANGED runJson

(* createLocalWorkspace or createDockerWorkspace, then rootSpan.update. *)
Acquire(p) ==
  /\ At(p, "acquire")
  /\ proc' = [proc EXCEPT ![p].workspace = TRUE, ![p].stage = "setup"]
  /\ UNCHANGED runJson

(* runSetup: the agent starts only after a setup that exits with 0. *)
Setup(p) ==
  /\ At(p, "setup")
  /\ \/ Goto(p, "agent")
     \/ \E t \in {"timeout", "environment_error"} :
           proc' = [proc EXCEPT ![p].result.terminal = t, ![p].stage = "collect"]
  /\ UNCHANGED runJson

(* The baseline agent is synchronous; the reasoning agent awaits. *)
RunAgent(p) ==
  /\ \/ At(p, "agent") /\ proc[p].config = "baseline"
     \/ At(p, "await")
  /\ \E r \in AgentResult(proc[p].config) :
        /\ r.terminal = "cancelled" => proc[p].cancelled
        /\ proc' = [proc EXCEPT ![p].result = r, ![p].stage = "evaluate"]
  /\ UNCHANGED runJson

AwaitAgent(p) ==
  /\ At(p, "agent")
  /\ proc[p].config = "groq"
  /\ Goto(p, "await")
  /\ UNCHANGED runJson

(* An interrupt arrives while the agent works ... *)
Signal(p) ==
  /\ proc[p].stage \in {"agent", "await"}
  /\ proc' = [proc EXCEPT ![p].signal = TRUE]
  /\ UNCHANGED runJson

(* ... and is noticed when the event loop turns. *)
OnInterrupt(p) ==
  /\ At(p, "await")
  /\ proc[p].signal
  /\ proc' = [proc EXCEPT ![p].cancelled = TRUE]
  /\ UNCHANGED runJson

(* Mutant: the cancellation is looked at after the evaluation only. *)
EvaluateFirst(p) ==
  /\ At(p, "evaluate")
  /\ IF proc[p].result.terminal = "resolved"
     THEN \E e \in EvaluationResult :
             proc' = [proc EXCEPT ![p].result = e, ![p].stage = "collect"]
     ELSE IF proc[p].cancelled
     THEN proc' = [proc EXCEPT ![p].result.terminal = "cancelled", ![p].stage = "collect"]
     ELSE Goto(p, "collect")
  /\ UNCHANGED runJson

(* A cancelled run is not evaluated, whatever its agent returned. *)
Evaluate(p) ==
  /\ At(p, "evaluate")
  /\ IF proc[p].cancelled
     THEN proc' = [proc EXCEPT ![p].result.terminal = "cancelled", ![p].stage = "collect"]
     ELSE IF proc[p].result.terminal = "resolved"
     THEN \E e \in EvaluationResult :
             proc' = [proc EXCEPT ![p].result = e, ![p].stage = "collect"]
     ELSE Goto(p, "collect")
  /\ UNCHANGED runJson

(* p, whose run was never recorded, left its patch cut in the store. *)
Cut(p) ==
  /\ proc[p].artifact = "part" /\ proc[p].runRow = NoResult
  /\ proc[p].stage \in {"catch", "finally"} \cup Over

(* The patch becomes an artifact before the root span refers to it.  It is  *)
(* written with wx under its hash: the same patch of another run is taken   *)
(* for written (EEXIST), whole or not.  A write that fails may leave a part. *)
Collect(p) ==
  /\ At(p, "collect")
  /\ \E a \in {"part", "whole"}, next \in {"persist", "catch"} :
        /\ proc' = [proc EXCEPT ![p].artifact = a, ![p].stage = next]
        /\ next = "persist" /\ a = "part" => \E q \in Process \ {p} : Cut(q)
        /\ next = "catch" => Faults \cap {"store", "file"} # {}
  /\ UNCHANGED runJson

(* Mutant: the default case falls through to the terminal state. *)
CategoryOrState(r) ==
  IF r.category # "null" THEN r.category
  ELSE IF r.terminal = "environment_error" THEN "environment_failure"
  ELSE IF r.terminal \in {"budget_exhausted", "timeout"} THEN "budget_exhaustion"
  ELSE r.terminal

(* failureCategory *)
Category(r) ==
  IF r.category # "null" THEN r.category
  ELSE CASE r.terminal = "environment_error" -> "environment_failure"
         [] r.terminal \in {"budget_exhausted", "timeout"} -> "budget_exhaustion"
         [] r.terminal = "task_failed" -> "application_failure"
         [] OTHER -> "null"

Recorded(r) == [r EXCEPT !.category = Category(r)]

(* RunSchema.parse and upsertRun. *)
Persist(p) ==
  /\ At(p, "persist")
  /\ proc' = [proc EXCEPT ![p].runRow = Recorded(proc[p].result),
                          ![p].stage = "end"]
  /\ UNCHANGED runJson

RootStatus(r) == IF r.terminal = "resolved" THEN "ok" ELSE "error"

(* Mutant: run.json is written before the root span is ended. *)
WriteFirst(p) ==
  /\ At(p, "end")
  /\ Goto(p, "writing")
  /\ runJson' = [owner |-> p, whole |-> FALSE, run |-> NoResult]

(* rootSpan.end: a failed final write spends the handle all the same. *)
EndRoot(p) ==
  /\ At(p, "end")
  /\ \/ proc' = [proc EXCEPT ![p].handle = "ended", ![p].stage = "write",
                              ![p].rootRow = RootStatus(proc[p].result)]
     \/ /\ "store" \in Faults
        /\ proc' = [proc EXCEPT ![p].handle = "ended", ![p].stage = "catch",
                                ![p].lost = @ \cup {"database"}]
  /\ UNCHANGED runJson

(* writeFileSync truncates, then writes; an error or a crash in between *)
(* leaves a part of the file.                                           *)
Write(p) ==
  /\ At(p, "write")
  /\ Goto(p, "writing")
  /\ runJson' = [owner |-> p, whole |-> FALSE, run |-> NoResult]

Written(p) ==
  /\ At(p, "writing")
  /\ \/ /\ IF proc[p].result.terminal = "resolved" THEN Goto(p, "finally")
           ELSE Fail(p, "finally")
        /\ runJson' = IF runJson.owner = p
                      THEN [owner |-> p, whole |-> TRUE, run |-> Recorded(proc[p].result)]
                      ELSE runJson
     \/ "file" \in Faults /\ Goto(p, "catch") /\ UNCHANGED runJson

(* error.json is written, or fails after it was opened or before. *)
Reported(p, s) ==
  proc' = [proc EXCEPT ![p].handle = "ended", ![p].rootRow = "error", ![p].report = s,
                       ![p].lost = IF s = "whole" THEN @ ELSE @ \cup {"file"},
                       ![p].exit = "failed", ![p].stage = "finally"]

(* Mutant: the failure of a run that was interrupted is not reported. *)
CatchCancelled(p) ==
  /\ At(p, "catch")
  /\ IF proc[p].handle = "live" /\ ~proc[p].cancelled THEN Reported(p, "whole")
     ELSE Fail(p, "finally")
  /\ UNCHANGED runJson

(* The catch block traces the error before it writes error.json, so when   *)
(* the root span has ended, or the database still fails, there is none;    *)
(* what the catch block throws passes through finally to the outer catch.  *)
Catch(p) ==
  /\ At(p, "catch")
  /\ \/ /\ proc[p].handle = "live"
        /\ \E s \in IF "file" \in Faults THEN FileState ELSE {"whole"} : Reported(p, s)
     \/ proc[p].handle = "ended" /\ Fail(p, "finally")
     \/ /\ proc[p].handle = "live" /\ "store" \in Faults
        /\ \E h \in {"live", "ended"} :
             proc' = [proc EXCEPT ![p].handle = h, ![p].lost = @ \cup {"database"},
                                  ![p].exit = "failed", ![p].stage = "finally"]
  /\ UNCHANGED runJson

(* dispose may throw, which the outer catch reports as any other failure. *)
Finally(p) ==
  /\ At(p, "finally")
  /\ \/ proc' = [proc EXCEPT ![p] = Gone([proc[p] EXCEPT !.workspace = FALSE], "done")]
     \/ /\ "file" \in Faults /\ proc[p].workspace
        /\ proc' = [proc EXCEPT ![p] = Gone([proc[p] EXCEPT !.exit = "failed"], "done")]
  /\ UNCHANGED runJson

(* The process is killed (a second interrupt does that, too), perhaps while *)
(* it writes its patch.                                                    *)
Crash(p) ==
  /\ proc[p].stage \notin Over \cup {"idle"}
  /\ \/ proc' = [proc EXCEPT ![p] = Gone(proc[p], "crashed")]
     \/ /\ At(p, "collect")
        /\ proc' = [proc EXCEPT ![p] = Gone([proc[p] EXCEPT !.artifact = "part"], "crashed")]
  /\ UNCHANGED runJson

AllOver ==
  /\ \A p \in Process : proc[p].stage \in Over
  /\ UNCHANGED vars

(* What the process itself goes on to do; its agent's return is not among it. *)
Step(p) ==
  \/ Begin(p) \/ Open(p) \/ Acquire(p) \/ Setup(p) \/ AwaitAgent(p)
  \/ (proc[p].config = "baseline" /\ RunAgent(p))
  \/ Evaluate(p) \/ Collect(p) \/ Persist(p) \/ EndRoot(p)
  \/ Write(p) \/ Written(p) \/ Catch(p) \/ Finally(p)

Next ==
  \/ \E p \in Process :
       \/ Step(p) \/ RunAgent(p)
       \/ Throw(p) \/ Signal(p) \/ OnInterrupt(p) \/ Crash(p)
  \/ AllOver

Spec == Init /\ [][Next]_vars

-----------------------------------------------------------------------------
\* The processes' states and the output directory keep their shape.
TypeOK ==
  /\ proc \in [Process -> ProcessState]
  /\ runJson \in [owner : Process \cup {Nobody}, whole : BOOLEAN, run : Outcome]

\* run.json is the last thing written: whenever a whole one exists, also
\* after a crash at any later step, the database holds the same run with a
\* root span that ended accordingly, and its patch is in the artifact store,
\* whole unless another run, never recorded, had left the same patch cut.
RunJsonIsBacked ==
  runJson.whole =>
    LET r == proc[runJson.owner]
    IN  /\ r.runRow = runJson.run /\ r.runRow # NoResult
        /\ r.rootRow = RootStatus(r.runRow)
        /\ \/ r.artifact = "whole"
           \/ r.artifact = "part" /\ \E q \in Process \ {runJson.owner} : Cut(q)

\* Every recorded run explains itself: resolved exactly when it passed its
\* evaluation, and then without a failure category; with a category otherwise,
\* but for a cancelled run; and a failed environment is never scored.
FailuresExplained ==
  \A p \in Process :
     LET r == proc[p].runRow
     IN  r # NoResult =>
           /\ r.terminal = "resolved" <=> r.score = "passed"
           /\ r.terminal = "resolved" => r.category = "null"
           /\ r.category = "null" => r.terminal \in {"resolved", "cancelled"}
           /\ r.terminal = "environment_error" => r.score = "null"

\* A record that can be read is a true one: the run.json of a run is backed by
\* the database, and every row of the runs table explains itself.
RecordIsTrue == RunJsonIsBacked /\ FailuresExplained

\* "Run output directories cannot overwrite an existing persisted run.json"
\* (README.md 242-243): the file stays with the run that wrote it.
NeverOverwritten == [][runJson.owner # Nobody => runJson'.owner = runJson.owner]_vars

\* An interrupt that was noticed decides the run: whatever the agent
\* returned and whatever failed later, the recorded state is "cancelled" and
\* the run is neither evaluated nor scored.
CancelWins ==
  \A p \in Process :
     proc[p].cancelled /\ proc[p].runRow # NoResult =>
        proc[p].runRow.terminal = "cancelled" /\ proc[p].runRow.score = "null"

\* The end of a run is told truly.  A command that exits with 0 resolved its
\* task, and the database says so.  A run that ended without a whole error.json
\* of its own and without its run.json is found in the database all the same:
\* by a root span still running only when the database itself failed under it,
\* else by a recorded run, unless the writing of error.json failed, too.
EndIsTold ==
  \A p \in Process :
     LET r == proc[p]
     IN  /\ r.stage \in Over \ {"crashed"} /\ r.exit = "ok" =>
              r.runRow.terminal = "resolved" /\ r.rootRow = "ok"
         /\ r.stage = "done" /\ r.report # "whole" /\ ~(runJson.owner = p /\ runJson.whole) =>
              IF r.rootRow = "running" THEN "database" \in r.lost
              ELSE r.runRow # NoResult \/ "file" \in r.lost

\* "records an interrupted run as `cancelled'" (README.md 244).
InterruptedIsCancelled ==
  \A p \in Process :
     proc[p].signal /\ proc[p].runRow # NoResult => proc[p].runRow.terminal = "cancelled"
=============================================================================
