-------------------------------- MODULE Study --------------------------------
(***************************************************************************)
(* `morphscope experiment run ...' (apps/cli/src/*-study.ts): the four     *)
(* studies, what an invocation leaves in its output directory, and who     *)
(* reads it: `experiment resume' (product.ts), the dashboard's pages       *)
(* (apps/web/src/lib/data.ts) and scripts/publish-dashboard.ts.            *)
(*                                                                         *)
(* A study runs its configurations one after the other.  They share the    *)
(* life of a run (open, acquire, work, record) and differ in the work and  *)
(* in what they make of an exception, which is what this module follows.   *)
(* An invocation may be killed at any step, and the command may be given   *)
(* again with the same --output: each configuration's directory, its trace *)
(* database and its artifacts are then those of the first invocation.      *)
(*                                                                         *)
(* Configuration 1 stands for the local ones, configuration 2 for Morph's. *)
(* Identifiers of runs are the number of the invocation that made them.    *)
(***************************************************************************)
EXTENDS Naturals, Sequences

CONSTANTS
  Commands,   \* the commands an instance is checked under: [kind, optIn, faults],
              \* with the readers of their directories
  MaxStarts   \* bound: invocations with the same output directory

Config == 1..2

(* "step": a provider, a plan, a tool or the sandbox throws.  "disk": a    *)
(* write to the database or to a file throws.  "message": the schema       *)
(* rejects the text of an error (empty, or longer than 8192 characters).   *)
ASSUME StudyAssumption ==
  /\ Commands # {} /\ MaxStarts \in Nat \ {0}
  /\ Commands \subseteq [kind : {"search", "edit", "context", "adaptive"},
                          optIn : BOOLEAN, faults : SUBSET {"step", "disk", "message"},
                          readers : SUBSET {"resume", "page", "publish"}]
  /\ \A c \in Commands : c.kind = "search" => ~c.optIn

VARIABLES
  command,    \* the study, its --include option, what may throw, who reads
  inv,        \* invocations so far: the running or last one's number
  at,         \* the configuration it works on
  stage,      \* where it stands
  cur,        \* the run it works on, see FreshRun
  entries,    \* results of its finished configurations
  morph,      \* history: it has called a Morph provider
  runJson, errorJson,   \* of each configuration's directory
  rows,       \* the runs in each configuration's database
  artifacts,  \* each configuration's artifact store: how whole a content is
  left,       \* each configuration's workspace directory exists
  experimentJson,       \* the manifest
  reader      \* a reader of the directory at work, see NoReader

kind == command.kind
optIn == command.optIn
faults == command.faults

process == <<inv, at, stage, cur, entries, morph>>
files == <<runJson, errorJson, rows, artifacts, left, experimentJson>>
vars == <<command, process, files, reader>>

Rules == INSTANCE Controller

NoEvaluation == [passed |-> "null", category |-> "null"]

FreshRun ==
  [root |-> "none",       \* the root span: "live", final, or "stuck"
   state |-> "environment_error",
   evaluation |-> NoEvaluation,
   edit |-> "none",       \* the edit study's result: "ok", "failed", "invalid" (syntax)
   patch |-> FALSE,       \* it names a content of the artifact store
   workspace |-> FALSE]   \* the run holds its workspace

NoFile == [inv |-> 0, whole |-> FALSE, state |-> "none", passed |-> "null",
           category |-> "null", root |-> "none", patch |-> FALSE]

NoEntries == [c \in Config |-> "none"]

Unseen == [inv |-> 0, state |-> "none", patch |-> "none"]
NoReader ==
  [by |-> "nobody",      \* "resume", "page" or "publish"
   inv |-> 0,            \* the invocation whose runs it looks for
   next |-> 1,           \* the configuration it reads next
   missing |-> FALSE,    \* resume: a linked run was not found
   seen |-> [c \in Config |-> Unseen],   \* the others: the runs they show
   linked |-> NoEntries,  \* and what the manifest says of these
   answer |-> "none"]

Over == {"idle", "done", "escaped", "dead"}

(* The local configurations, and Morph's when it was asked for. *)
Configurations ==
  IF kind = "search" \/ (kind \in {"edit", "context"} /\ optIn) THEN Config ELSE {1}

Init ==
  /\ command \in Commands
  /\ inv = 0 /\ at = 1 /\ stage = "idle" /\ cur = FreshRun
  /\ entries = NoEntries
  /\ morph = FALSE
  /\ runJson = [c \in Config |-> NoFile]
  /\ errorJson = [c \in Config |-> 0]
  /\ rows = [c \in Config |-> {}]
  /\ artifacts = [c \in Config |-> "absent"]
  /\ left = [c \in Config |-> FALSE]
  /\ experimentJson = [inv |-> 0, whole |-> FALSE, entries |-> entries]
  /\ reader = NoReader

-----------------------------------------------------------------------------
(* What follows each step of a configuration (runConfiguration). *)
SearchFlow == [open |-> "acquire", acquire |-> "setup", setup |-> "search",
               search |-> "agent", agent |-> "collect"]
EditFlow == [open |-> "acquire", acquire |-> "edit", edit |-> "evaluate",
             evaluate |-> "collect"]
AdaptiveFlow == [open |-> "acquire", acquire |-> "setup", setup |-> "search",
                 search |-> "edit", edit |-> "compact", compact |-> "agent",
                 agent |-> "collect"]
ContextFlow == [open |-> "compact", compact |-> "judge", judge |-> "collect"]
Ending == [collect |-> "put", put |-> "row", row |-> "close", close |-> "write",
           write |-> "filling", filling |-> "leave"]

Flow == CASE kind = "search" -> SearchFlow [] kind = "edit" -> EditFlow
          [] kind = "adaptive" -> AdaptiveFlow [] kind = "context" -> ContextFlow

After(s) == IF s \in DOMAIN Ending THEN Ending[s] ELSE Flow[s]
Goto(next) == stage' = next
Advance == Goto(After(stage))

(* The context study's try block ends before the run is recorded; the      *)
(* others' reaches to the end of runConfiguration.                         *)
InTry ==
  IF kind = "context" THEN {"compact", "judge", "collect", "put"}
  ELSE {"acquire", "setup", "search", "edit", "compact", "agent", "evaluate",
        "collect", "put", "row", "close", "write", "filling"}

Thrown == Goto(IF stage \in InTry THEN "catch" ELSE "abort")

(* The process is gone, and its memory with it. *)
Exits(how) ==
  /\ Goto(how)
  /\ at' = 1 /\ cur' = FreshRun /\ entries' = NoEntries /\ morph' = FALSE

Begin ==
  /\ stage \in Over
  /\ inv < MaxStarts
  /\ inv' = inv + 1
  /\ Goto("open")
  /\ UNCHANGED <<command, at, cur, entries, morph, files, reader>>

(* The run's directory, its database and its root span come before the     *)
(* try block: a failure here leaves the study.                             *)
Open ==
  /\ stage = "open"
  /\ \/ Advance /\ cur' = [cur EXCEPT !.root = "live"]
     \/ "disk" \in faults /\ Goto("abort") /\ UNCHANGED cur
  /\ UNCHANGED <<command, inv, at, entries, morph, files, reader>>

(* A step throws and leaves nothing behind. *)
Throw ==
  /\ \/ "step" \in faults /\ stage \in {"acquire", "setup", "edit", "compact",
                                        "agent", "evaluate", "judge", "collect"}
     \/ "disk" \in faults /\ stage \in {"setup", "agent", "evaluate", "judge",
                                        "collect", "row", "write"}
  /\ Thrown
  /\ UNCHANGED <<command, inv, at, cur, entries, morph, files, reader>>

(* Mutant: a directory that is already there is used. *)
AcquireAdopts ==
  /\ stage = "acquire"
  /\ Advance
  /\ cur' = [cur EXCEPT !.workspace = TRUE]
  /\ left' = [left EXCEPT ![at] = TRUE]
  /\ UNCHANGED <<command, inv, at, entries, morph, runJson, errorJson, rows, artifacts,
                 experimentJson, reader>>

(* createLocalWorkspace refuses a directory that is already there. *)
Acquire ==
  /\ stage = "acquire"
  /\ IF left[at] THEN Thrown /\ UNCHANGED <<cur, left>>
     ELSE /\ Advance
          /\ cur' = [cur EXCEPT !.workspace = TRUE]
          /\ left' = [left EXCEPT ![at] = TRUE]
  /\ UNCHANGED <<command, inv, at, entries, morph, runJson, errorJson, rows, artifacts,
                 experimentJson, reader>>

(* A setup that fails is an outcome of its own: no work is begun. *)
Setup ==
  /\ stage = "setup"
  /\ \/ Advance /\ UNCHANGED cur
     \/ \E s \in {"timeout", "environment_error"} :
           cur' = [cur EXCEPT !.state = s] /\ Goto("collect")
  /\ UNCHANGED <<command, inv, at, entries, morph, files, reader>>

-----------------------------------------------------------------------------
(* The features the adaptive study measures, at the values that its rules  *)
(* tell apart.  It never reports a failure of an earlier search or edit.   *)
MeasuredSearch ==
  [exactIdentifierExists : {TRUE}, repositoryFileCount : {250, 251},
   cheapMatchCount : {0, 1}, crossFileEstimate : {1, 2},
   previousSearchFailure : {FALSE}, warpGrepAvailable : {optIn}]
MeasuredEdit ==
  [changedLineEstimate : {3, 4, 21}, nonContiguousRegions : {0},
   exactOldStringAvailable : BOOLEAN, previousApplyFailure : {FALSE},
   fastApplyAvailable : {optIn}]
MeasuredContext ==
  [contextBytes : {2000, 2001}, growthRate : {45, 71}, toolOutputShare : {65, 71},
   duplicationRatio : {10}, relevanceScore : {90}, morphCompactAvailable : {optIn}]

AdaptiveRoutes(s) ==
  CASE s = "search"  -> {Rules!DecideSearch(f) : f \in MeasuredSearch}
    [] s = "edit"    -> {Rules!DecideEdit(f) : f \in MeasuredEdit}
    [] s = "compact" -> {Rules!DecideCompaction(f) : f \in MeasuredContext}

(* The providers a step may use: createSearchProvider, createEditProvider, *)
(* createProvider for a fixed configuration; the rules' choice otherwise.  *)
Routes(s) ==
  IF kind = "adaptive" THEN AdaptiveRoutes(s)
  ELSE IF at = 1 THEN {"local"}
  ELSE {[search |-> "warpgrep", edit |-> "fast-apply", compact |-> "morph-compact"][s]}

(* A provider is called and does its work, within a span of its own. *)
Provided(s) ==
  /\ stage = s
  /\ \E route \in Routes(s) : morph' = (morph \/ route \in Rules!Specialist)
  /\ UNCHANGED <<command, inv, at, entries, files, reader>>

(* The search study takes a provider's failure for the run's outcome,      *)
(* unless the search span was already ended; a failure after the result    *)
(* arrived does not keep the agent from running.                           *)
SearchStudySearches ==
  /\ kind = "search"
  /\ Provided("search")
  /\ \/ Advance /\ UNCHANGED cur
     \/ /\ "step" \in faults \/ "disk" \in faults
        /\ cur' = [cur EXCEPT !.state = "provider_error"]
        /\ stage' \in {"collect", "agent"}
     \/ "disk" \in faults /\ Thrown /\ UNCHANGED cur

(* The edit study records an edit that failed, whose result does not parse *)
(* or is an empty file, as the run's outcome.                              *)
EditStudyEdits ==
  /\ kind = "edit"
  /\ Provided("edit")
  /\ \/ cur' = [cur EXCEPT !.edit = "ok"] /\ Advance
     \/ /\ \E e \in {"ok", "failed", "invalid"} :
             cur' = [cur EXCEPT !.edit = e, !.state = "task_failed"]
        /\ Goto("collect")
     \/ "step" \in faults /\ Thrown /\ UNCHANGED cur

(* The adaptive study's three steps: whatever fails ends the run. *)
AdaptiveStudySearches ==
  /\ kind = "adaptive"
  /\ Provided("search")
  /\ UNCHANGED cur
  /\ Advance \/ ("step" \in faults /\ Thrown)

AdaptiveStudyEdits ==
  /\ kind = "adaptive"
  /\ Provided("edit")
  /\ UNCHANGED cur
  /\ Advance \/ ("step" \in faults /\ Thrown)

AdaptiveStudyCompacts ==
  /\ kind = "adaptive"
  /\ Provided("compact")
  /\ UNCHANGED cur
  /\ Advance \/ ("step" \in faults /\ Thrown)

(* All batches of growing context; the first failure ends the run. *)
ContextStudyCompacts ==
  /\ kind = "context"
  /\ Provided("compact")
  /\ UNCHANGED cur
  /\ Advance \/ ("step" \in faults /\ Thrown)

Await ==
  \/ SearchStudySearches \/ EditStudyEdits \/ ContextStudyCompacts
  \/ AdaptiveStudySearches \/ AdaptiveStudyEdits \/ AdaptiveStudyCompacts

(* What an evaluation may return (Evaluator says when): passed, and one    *)
(* of the failures, whose state and category are copied whatever they are. *)
Evaluations ==
  {[state |-> "resolved", passed |-> "true", category |-> "null"],
   [state |-> "timeout", passed |-> "false", category |-> "regression"]}

EvaluateRun ==
  \E e \in Evaluations :
     cur' = [cur EXCEPT !.state = e.state,
                        !.evaluation = [passed |-> e.passed, category |-> e.category]]

(* runBaselineAgent, and the evaluation of what it resolved; its timeout   *)
(* and its exhausted budget are recorded as a setup's timeout is.          *)
Agent ==
  /\ stage = "agent"
  /\ \/ EvaluateRun
     \/ cur' = [cur EXCEPT !.state = "task_failed"]
  /\ Advance
  /\ UNCHANGED <<command, inv, at, entries, morph, files, reader>>

Evaluate ==
  /\ stage = "evaluate"
  /\ EvaluateRun
  /\ Advance
  /\ UNCHANGED <<command, inv, at, entries, morph, files, reader>>

(* The context study's own judgement: was the marker retained? *)
Judge ==
  /\ stage = "judge"
  /\ \E kept \in BOOLEAN :
        cur' = [cur EXCEPT !.state = IF kept THEN "resolved" ELSE "task_failed",
                           !.evaluation.passed = IF kept THEN "true" ELSE "false"]
  /\ Advance
  /\ UNCHANGED <<command, inv, at, entries, morph, files, reader>>

-----------------------------------------------------------------------------
(* ContentAddressedArtifactStore.put: an exclusive open, then the content; *)
(* a file that is already there is taken for the content it is named for.  *)
Collect ==
  /\ stage = "collect"
  /\ cur' = [cur EXCEPT !.patch = TRUE]
  /\ IF artifacts[at] = "absent"
     THEN Advance /\ artifacts' = [artifacts EXCEPT ![at] = "partial"]
     ELSE /\ UNCHANGED artifacts
          /\ Goto(After("put")) \/ ("disk" \in faults /\ Thrown)
  /\ UNCHANGED <<command, inv, at, entries, morph, runJson, errorJson, rows, left,
                 experimentJson, reader>>

(* Mutant: the run names its artifact before the content is stored. *)
PutNamesFirst ==
  /\ stage = "put"
  /\ \/ artifacts' = [artifacts EXCEPT ![at] = "whole"] /\ Advance
     \/ "disk" \in faults /\ Thrown /\ UNCHANGED artifacts
  /\ UNCHANGED <<command, inv, at, cur, entries, morph, runJson, errorJson, rows, left,
                 experimentJson, reader>>

(* The run names the artifact once it is stored; tracing that may fail.    *)
PutContent ==
  /\ stage = "put"
  /\ \/ /\ artifacts' = [artifacts EXCEPT ![at] = "whole"]
        /\ Advance \/ ("disk" \in faults /\ Thrown)
        /\ UNCHANGED cur
     \/ /\ "disk" \in faults /\ Thrown
        /\ cur' = [cur EXCEPT !.patch = FALSE]
        /\ UNCHANGED artifacts
  /\ UNCHANGED <<command, inv, at, entries, morph, runJson, errorJson, rows, left,
                 experimentJson, reader>>

(* The failure category each study records. *)
SearchCategory ==
  IF cur.evaluation.category # "null" THEN cur.evaluation.category
  ELSE CASE cur.state = "environment_error" -> "environment_failure"
         [] cur.state = "provider_error" -> "provider_failure"
         [] cur.state \in {"budget_exhausted", "timeout"} -> "budget_exhaustion"
         [] cur.state = "task_failed" -> "application_failure"
         [] OTHER -> "null"

EditCategory ==
  IF cur.evaluation.category # "null" THEN cur.evaluation.category
  ELSE CASE cur.state = "provider_error" -> "provider_failure"
         [] cur.state = "task_failed" ->
              CASE cur.edit = "invalid" -> "generation_failure"
                [] cur.edit = "failed" -> "application_failure"
                [] OTHER -> "verification_failure"
         [] OTHER -> "null"

AdaptiveCategory ==
  IF cur.evaluation.category # "null" THEN cur.evaluation.category
  ELSE CASE cur.state = "provider_error" -> "provider_failure"
         [] cur.state = "environment_error" -> "environment_failure"
         [] cur.state \in {"budget_exhausted", "timeout"} -> "budget_exhaustion"
         [] cur.state = "task_failed" -> "verification_failure"
         [] OTHER -> "null"

ContextCategory ==
  CASE cur.state = "resolved" -> "null"
    [] cur.state = "provider_error" -> "provider_failure"
    [] OTHER -> "context_loss_failure"

Category ==
  CASE kind = "search" -> SearchCategory
    [] kind = "edit" -> EditCategory
    [] kind = "adaptive" -> AdaptiveCategory
    [] kind = "context" -> ContextCategory

Recorded(whole) ==
  [inv |-> inv, whole |-> whole, state |-> cur.state, passed |-> cur.evaluation.passed,
   category |-> Category, root |-> cur.root, patch |-> cur.patch]

(* RunSchema.parse and upsertRun. *)
RecordRow ==
  /\ stage = "row"
  /\ rows' = [rows EXCEPT ![at] = @ \cup {inv}]
  /\ Advance
  /\ UNCHANGED <<command, inv, at, cur, entries, morph, runJson, errorJson, artifacts, left,
                 experimentJson, reader>>

(* The root span is ended; a failing end spends its handle all the same.   *)
(* The context study ended it already when a provider failed.              *)
CloseRoot ==
  /\ stage = "close"
  /\ \/ /\ cur' = IF kind = "context" /\ cur.state = "provider_error" THEN cur
                  ELSE [cur EXCEPT !.root = IF cur.state = "resolved" THEN "ok" ELSE "error"]
        /\ Advance
     \/ "disk" \in faults /\ cur' = [cur EXCEPT !.root = "stuck"] /\ Thrown
  /\ UNCHANGED <<command, inv, at, entries, morph, files, reader>>

(* writeFileSync truncates run.json, then writes it. *)
WriteRun ==
  /\ stage = "write"
  /\ runJson' = [runJson EXCEPT ![at] = Recorded(FALSE)]
  /\ Advance
  /\ UNCHANGED <<command, inv, at, cur, entries, morph, errorJson, rows, artifacts, left,
                 experimentJson, reader>>

FillRun ==
  /\ stage = "filling"
  /\ \/ Advance /\ runJson' = [runJson EXCEPT ![at].whole = TRUE]
     \/ "disk" \in faults /\ Thrown /\ UNCHANGED runJson
  /\ UNCHANGED <<command, inv, at, cur, entries, morph, errorJson, rows, artifacts, left,
                 experimentJson, reader>>

-----------------------------------------------------------------------------
(* What each study's catch block takes the run for. *)
SearchCaught == [cur EXCEPT !.root = "error", !.state = "environment_error"]
EditCaught == [cur EXCEPT !.root = "error", !.state = "provider_error"]
ContextCaught == [cur EXCEPT !.root = "error", !.state = "provider_error"]
AdaptiveCaught ==
  [cur EXCEPT !.root = "error", !.state = "provider_error", !.evaluation = NoEvaluation]

Caught ==
  CASE kind = "search" -> SearchCaught [] kind = "edit" -> EditCaught
    [] kind = "context" -> ContextCaught [] kind = "adaptive" -> AdaptiveCaught

(* The catch block traces the error before it writes error.json: when the  *)
(* root span was ended already, or tracing fails, the exception leaves the *)
(* study.                                                                  *)
Catch ==
  /\ stage = "catch"
  /\ \/ /\ cur.root = "live"
        /\ cur' = Caught
        /\ Goto("report")
     \/ /\ cur.root # "live" \/ "disk" \in faults
        /\ Goto("abort") /\ UNCHANGED cur
     \/ /\ cur.root = "live" /\ {"disk", "message"} \cap faults # {}
        /\ cur' = [cur EXCEPT !.root = "stuck"]
        /\ Goto("abort")
  /\ UNCHANGED <<command, inv, at, entries, morph, files, reader>>

(* error.json; the context study records the run besides. *)
Report ==
  /\ stage = "report"
  /\ \/ /\ errorJson' = [errorJson EXCEPT ![at] = inv]
        /\ Goto(IF kind = "context" THEN "row" ELSE "leave")
     \/ "disk" \in faults /\ Goto("abort") /\ UNCHANGED errorJson
  /\ UNCHANGED <<command, inv, at, cur, entries, morph, runJson, rows, artifacts, left,
                 experimentJson, reader>>

(* The finally block. *)
Dispose == left' = [left EXCEPT ![at] = @ /\ ~cur.workspace]

(* Mutant: the loop over the configurations goes one too far. *)
LeaveOnward ==
  /\ stage = "leave"
  /\ Dispose
  /\ entries' = [entries EXCEPT ![at] = "failed"]
  /\ at' = at + 1 /\ cur' = FreshRun /\ Goto("open")
  /\ UNCHANGED <<command, inv, morph, runJson, errorJson, rows, artifacts,
                 experimentJson, reader>>

(* A configuration's result is kept, and the next one is begun. *)
Leave ==
  /\ stage = "leave"
  /\ Dispose
  /\ entries' = [entries EXCEPT ![at] = IF cur.state = "resolved" THEN "resolved" ELSE "failed"]
  /\ IF at + 1 \in Configurations
     THEN at' = at + 1 /\ cur' = FreshRun /\ Goto("open")
     ELSE at' = 1 /\ cur' = FreshRun /\ Goto("manifest")
  /\ UNCHANGED <<command, inv, morph, runJson, errorJson, rows, artifacts,
                 experimentJson, reader>>

Abort ==
  /\ stage = "abort"
  /\ Dispose
  /\ Exits("escaped")
  /\ UNCHANGED <<command, inv, runJson, errorJson, rows, artifacts, experimentJson, reader>>

(* experiment.json: truncated, then written. *)
OpenManifest ==
  /\ stage = "manifest"
  /\ experimentJson' = [inv |-> inv, whole |-> FALSE, entries |-> entries]
  /\ Goto("manifesting")
  /\ UNCHANGED <<command, inv, at, cur, entries, morph, runJson, errorJson, rows, artifacts,
                 left, reader>>

FillManifest ==
  /\ stage = "manifesting"
  /\ \/ experimentJson' = [experimentJson EXCEPT !.whole = TRUE] /\ Exits("done")
     \/ "disk" \in faults /\ Exits("escaped") /\ UNCHANGED experimentJson
  /\ UNCHANGED <<command, inv, runJson, errorJson, rows, artifacts, left, reader>>

(* The process is killed: no finally block runs. *)
Crash ==
  /\ stage \notin Over
  /\ Exits("dead")
  /\ UNCHANGED <<command, inv, files, reader>>

-----------------------------------------------------------------------------
(* resumeExperiment finds the manifest by the experiment's id ... *)
ReadManifest ==
  /\ reader.by = "nobody" /\ "resume" \in command.readers
  /\ experimentJson.whole
  /\ reader' = [reader EXCEPT !.by = "resume", !.inv = experimentJson.inv]
  /\ UNCHANGED <<command, process, files>>

Reading(who) == reader.by = who /\ reader.answer = "none"

(* Mutant: any run.json that parses counts, whatever its run's identifier. *)
ReadAnyRun ==
  /\ Reading("resume")
  /\ reader.next \in Configurations
  /\ reader' = [reader EXCEPT !.next = @ + 1,
                              !.missing = @ \/ ~runJson[reader.next].whole]
  /\ UNCHANGED <<command, process, files>>

(* ... and reads one run.json after the other (loadRunPayloads), skipping  *)
(* what does not parse, while the study may be running again ...           *)
ReadRun ==
  /\ Reading("resume")
  /\ reader.next \in Configurations
  /\ LET found == runJson[reader.next]
     IN  reader' = [reader EXCEPT !.next = @ + 1,
                      !.missing = @ \/ ~(found.whole /\ found.inv = reader.inv)]
  /\ UNCHANGED <<command, process, files>>

(* ... and answers.  A whole manifest has one of the two complete states.  *)
Answer ==
  /\ Reading("resume")
  /\ reader.next \notin Configurations
  /\ reader' = IF reader.missing THEN NoReader   \* resume_required
               ELSE [reader EXCEPT !.answer = "already_complete"]
  /\ UNCHANGED <<command, process, files>>

(* A page shows every run it finds; the publisher those of its allowlist,  *)
(* which names the runs of one invocation.                                 *)
BeginShowing ==
  /\ reader.by = "nobody" /\ inv > 0
  /\ \/ "page" \in command.readers /\ reader' = [reader EXCEPT !.by = "page"]
     \/ /\ "publish" \in command.readers
        /\ \E i \in 1..inv : reader' = [reader EXCEPT !.by = "publish", !.inv = i]
  /\ UNCHANGED <<command, process, files>>

(* A run.json with the artifact it names; what does not parse is skipped. *)
StoredRun(c) ==
  IF ~runJson[c].whole THEN Unseen
  ELSE [inv |-> runJson[c].inv, state |-> runJson[c].state,
        patch |-> IF runJson[c].patch THEN artifacts[c] ELSE "none"]

(* One file after the other; the publisher gives up when a run is missing. *)
LoadRun ==
  /\ Reading("page") \/ Reading("publish")
  /\ reader.next \in Configurations
  /\ LET run == StoredRun(reader.next)
     IN  reader' = IF reader.by = "publish" /\ run.inv # reader.inv THEN NoReader
                   ELSE [reader EXCEPT !.next = @ + 1, !.seen[reader.next] = run]
  /\ UNCHANGED <<command, process, files>>

(* The manifest's entries are linked by their runs' identifiers. *)
Linked(c) ==
  IF experimentJson.whole /\ reader.seen[c].inv = experimentJson.inv
  THEN experimentJson.entries[c] ELSE "none"

(* The manifest is read after all the runs. *)
LinkExperiment ==
  /\ Reading("page") \/ Reading("publish")
  /\ reader.next \notin Configurations
  /\ reader' = [reader EXCEPT !.answer = "shown", !.linked = [c \in Config |-> Linked(c)]]
  /\ UNCHANGED <<command, process, files>>

Step ==
  \/ Open \/ Acquire \/ Setup \/ Agent \/ Evaluate \/ Judge \/ Collect \/ PutContent
  \/ RecordRow \/ CloseRoot \/ WriteRun \/ FillRun \/ Catch \/ Report \/ Leave \/ Abort
  \/ OpenManifest \/ FillManifest

Resume == ReadManifest \/ ReadRun \/ Answer
Show == BeginShowing \/ LoadRun \/ LinkExperiment

AllOver == stage \in Over /\ inv = MaxStarts /\ UNCHANGED vars

Next == Begin \/ Step \/ Await \/ Throw \/ Crash \/ Resume \/ Show \/ AllOver

Spec == Init /\ [][Next]_vars

-----------------------------------------------------------------------------
\* The study's variables keep their types.
TypeOK ==
  /\ command \in Commands /\ morph \in BOOLEAN
  /\ inv \in 0..MaxStarts /\ at \in Config
  /\ stage \in Over \cup DOMAIN Flow \cup DOMAIN Ending
                    \cup {"leave", "catch", "report", "abort", "manifest", "manifesting"}
  /\ cur.root \in {"none", "live", "ok", "error", "stuck"}
  /\ \A c \in Config :
        /\ runJson[c].inv \in 0..inv /\ errorJson[c] \in 0..inv
        /\ rows[c] \subseteq 1..inv
        /\ artifacts[c] \in {"absent", "partial", "whole"}
        /\ left[c] \in BOOLEAN
  /\ experimentJson.inv \in 0..inv

\* run.json is written last: a whole one is backed by a row of the same run,
\* its trace is over, its state, its evaluation and its
\* category agree, and its patch is in the store.  The content is whole in a
\* fresh directory; a repeated invocation may take over a torn one (EEXIST).
\* The context study alone may record a provider error of a run that passed:
\* its own evidence is what could not be stored.
EvidenceIsWhole ==
  \A c \in Config :
     LET r == runJson[c]
     IN  r.whole =>
           /\ r.inv \in rows[c]
           /\ r.root = IF r.state = "resolved" THEN "ok" ELSE "error"
           /\ r.state = "resolved" <=> r.category = "null"
           /\ r.state = "resolved" => r.passed = "true"
           /\ r.passed = "true" => r.state = "resolved"
                                   \/ (kind = "context" /\ r.state = "provider_error")
           /\ r.patch => artifacts[c] # "absent"
           /\ r.patch /\ r.inv = 1 => artifacts[c] = "whole"
           /\ ~r.patch => kind = "context" /\ r.state = "provider_error"

\* What the manifest says of a configuration can be looked up, as long as no
\* later invocation worked there: a run.json of that run with that state, or
\* an error.json of it.
EntriesAreBacked ==
  experimentJson.whole =>
    LET i == experimentJson.inv
    IN  \A c \in Configurations :
          LET e == experimentJson.entries[c]
          IN  \/ /\ runJson[c].whole /\ runJson[c].inv = i
                 /\ (runJson[c].state = "resolved") = (e = "resolved")
              \/ errorJson[c] >= i /\ (errorJson[c] = i => e # "resolved")
              \/ runJson[c].inv > i

\* "a completed manifest with all linked runs present is reported as complete"
\* (docs/decisions/0012, 16-17): the answer is given only of a study whose
\* every run was recorded, although its files are read one by one and the
\* study may be running again in the same directory.
CompleteIsTrue ==
  reader.answer = "already_complete" =>
    \A c \in Configurations : reader.inv \in rows[c]

\* What a page or the published snapshot shows was put together from files
\* that another invocation may have been replacing: still every run it shows is
\* in its database, with a whole patch in a fresh directory, and an experiment
\* says of a run it links what that run says of itself.
ShownIsTrue ==
  reader.answer = "shown" =>
    \A c \in Configurations :
      LET run == reader.seen[c]
      IN  run # Unseen =>
            /\ run.inv \in rows[c]
            /\ run.inv = 1 => run.patch # "partial"
            /\ reader.linked[c] # "none" =>
                  (run.state = "resolved") = (reader.linked[c] = "resolved")

\* What a reader learns from the manifest is true of the runs it links.
ManifestIsTrue == EntriesAreBacked /\ CompleteIsTrue /\ ShownIsTrue

\* Providers that cost quota are called only when the command asked for them:
\* by an option, or by being the search study, whose subject they are.
MorphIsOptIn == morph => optIn \/ kind = "search"

\* A workspace that a killed invocation left behind is never adopted and never
\* removed: its configuration records no further run in that directory.
LeftoverBlocks ==
  [][\A c \in Config :
       left[c] /\ ~(cur.workspace /\ at = c) =>
          left'[c] /\ ~(cur'.workspace /\ at' = c) /\ runJson'[c] = runJson[c]]_vars

\* "The runner refuses to overwrite an output directory that already contains
\* `run.json'" (docs/decisions/0012, 14).
ResultsAreKept == [][\A c \in Config : runJson[c].whole => runJson'[c] = runJson[c]]_vars
=============================================================================
