----------------------------- MODULE StudyProofs -----------------------------
(***************************************************************************)
(* Proofs about the studies: which providers the routing rules may choose  *)
(* and that none which costs quota is called unless the command asked;     *)
(* that a whole run.json is backed by the stores it names; that a          *)
(* workspace left behind blocks its configuration; and that what is read   *)
(* of a study's runs while it may run again is true.                       *)
(***************************************************************************)
EXTENDS Study, TLAPS

-----------------------------------------------------------------------------
(* The rules of the controller. *)

\* Whatever was measured, the search rule chooses Morph's search only when it
\* is available.
THEOREM SearchIsAvailable ==
  ASSUME NEW f, Rules!DecideSearch(f) \in Rules!Specialist
  PROVE  f.warpGrepAvailable
  BY DEF Rules!DecideSearch, Rules!Specialist

\* The edit rule chooses Morph's apply only when it is available, and never
\* before another edit failed to apply.
THEOREM EditIsAvailable ==
  ASSUME NEW f, Rules!DecideEdit(f) \in Rules!Specialist
  PROVE  f.fastApplyAvailable /\ f.previousApplyFailure
<1>1. CASE f.fastApplyAvailable /\ f.previousApplyFailure
  BY <1>1
<1>2. CASE ~(f.fastApplyAvailable /\ f.previousApplyFailure)
  <2>1. Rules!DecideEdit(f) \in {"deterministic-edit", "unified-diff", "full-file"}
    BY <1>2 DEF Rules!DecideEdit
  <2> QED BY <2>1 DEF Rules!Specialist
<1> QED BY <1>1, <1>2

\* The compaction rule chooses Morph's compaction only when it is available.
THEOREM CompactionIsAvailable ==
  ASSUME NEW f, Rules!DecideCompaction(f) \in Rules!Specialist
  PROVE  f.morphCompactAvailable
  BY DEF Rules!DecideCompaction, Rules!Specialist

-----------------------------------------------------------------------------
(* An adaptive study measures what is available from its option, and the   *)
(* other studies work on Morph's configuration only when there is one.     *)
Inv ==
  /\ command \in Commands
  /\ at \in Configurations
  /\ MorphIsOptIn

LEMMA FirstIsConfigured == 1 \in Configurations
  BY DEF Configurations, Config

LEMMA AdaptiveRoutesAreOptIn ==
  ASSUME command \in Commands, NEW s \in {"search", "edit", "compact"},
         NEW route \in AdaptiveRoutes(s), route \in Rules!Specialist
  PROVE  optIn
<1>1. CASE s = "search"
  <2>1. PICK f \in MeasuredSearch : route = Rules!DecideSearch(f)
    BY <1>1 DEF AdaptiveRoutes
  <2>2. f.warpGrepAvailable = optIn
    BY <2>1 DEF MeasuredSearch
  <2> QED BY <2>1, <2>2, SearchIsAvailable
<1>2. CASE s = "edit"
  <2>1. PICK f \in MeasuredEdit : route = Rules!DecideEdit(f)
    BY <1>2 DEF AdaptiveRoutes
  <2>2. f.fastApplyAvailable = optIn
    BY <2>1 DEF MeasuredEdit
  <2> QED BY <2>1, <2>2, EditIsAvailable
<1>3. CASE s = "compact"
  <2>1. PICK f \in MeasuredContext : route = Rules!DecideCompaction(f)
    BY <1>3 DEF AdaptiveRoutes
  <2>2. f.morphCompactAvailable = optIn
    BY <2>1 DEF MeasuredContext
  <2> QED BY <2>1, <2>2, CompactionIsAvailable
<1> QED BY <1>1, <1>2, <1>3

(* A provider of Morph is one of the routes only where it was asked for. *)
LEMMA RoutesAreOptIn ==
  ASSUME Inv, NEW s \in {"search", "edit", "compact"},
         NEW route \in Routes(s), route \in Rules!Specialist
  PROVE  optIn \/ kind = "search"
<1>1. CASE kind = "adaptive"
  BY <1>1, AdaptiveRoutesAreOptIn DEF Inv, Routes
<1>2. CASE kind # "adaptive" /\ at = 1
  <2>1. route = "local"
    BY <1>2 DEF Routes
  <2> QED BY <2>1 DEF Rules!Specialist
<1>3. CASE kind # "adaptive" /\ at # 1
  BY <1>3 DEF Inv, Configurations
<1> QED BY <1>1, <1>2, <1>3

LEMMA ProvidedKeeps ==
  ASSUME Inv, NEW s \in {"search", "edit", "compact"}, Provided(s)
  PROVE  Inv'
<1>1. PICK route \in Routes(s) : morph' = (morph \/ route \in Rules!Specialist)
  BY DEF Provided
<1>2. command' = command /\ at' = at
  BY DEF Provided
<1>3. morph' => optIn \/ kind = "search"
  <2>1. CASE morph
    BY <2>1 DEF Inv, MorphIsOptIn
  <2>2. CASE route \in Rules!Specialist
    BY <2>2, RoutesAreOptIn
  <2> QED BY <1>1, <2>1, <2>2
<1> QED BY <1>2, <1>3 DEF Inv, MorphIsOptIn, Configurations, kind, optIn

(* A step that stays with the command and the configuration, or leaves it. *)
LEMMA OthersKeep ==
  ASSUME Inv, command' = command, at' = at \/ at' \in Configurations, morph' = morph \/ ~morph'
  PROVE  Inv'
<1>1. Configurations' = Configurations
  BY DEF Configurations, kind, optIn
<1>2. MorphIsOptIn'
  BY DEF Inv, MorphIsOptIn, kind, optIn
<1> QED BY <1>1, <1>2 DEF Inv

LEMMA InitHolds == Init => Inv
  BY FirstIsConfigured DEF Init, Inv, MorphIsOptIn

LEMMA NextKeeps == Inv /\ [Next]_vars => Inv'
<1> SUFFICES ASSUME Inv, [Next]_vars PROVE Inv'
  OBVIOUS
<1>1. CASE Begin
  BY <1>1, OthersKeep DEF Begin
<1>2. CASE Step
  <2>1. CASE Open \/ Acquire \/ Setup \/ Agent \/ Evaluate \/ Judge
    BY <2>1, OthersKeep DEF Open, Acquire, Setup, Agent, Evaluate, Judge
  <2>2. CASE Collect \/ PutContent \/ RecordRow \/ CloseRoot \/ WriteRun \/ FillRun
    BY <2>2, OthersKeep DEF Collect, PutContent, RecordRow, CloseRoot, WriteRun, FillRun
  <2>3. CASE Catch \/ Report \/ OpenManifest
    BY <2>3, OthersKeep DEF Catch, Report, OpenManifest
  <2>4. CASE Leave
    BY <2>4, FirstIsConfigured, OthersKeep DEF Leave
  <2>5. CASE Abort
    BY <2>5, FirstIsConfigured, OthersKeep DEF Abort, Exits
  <2>6. CASE FillManifest
    BY <2>6, FirstIsConfigured, OthersKeep DEF FillManifest, Exits
  <2> QED BY <1>2, <2>1, <2>2, <2>3, <2>4, <2>5, <2>6 DEF Step
<1>3. CASE Await
  <2>1. PICK s \in {"search", "edit", "compact"} : Provided(s)
    BY <1>3 DEF Await, SearchStudySearches, EditStudyEdits, ContextStudyCompacts,
                AdaptiveStudySearches, AdaptiveStudyEdits, AdaptiveStudyCompacts
  <2> QED BY <2>1, ProvidedKeeps
<1>4. CASE Throw
  BY <1>4, OthersKeep DEF Throw
<1>5. CASE Crash
  BY <1>5, FirstIsConfigured, OthersKeep DEF Crash, Exits
<1>6. CASE Resume \/ Show
  BY <1>6, OthersKeep DEF Resume, ReadManifest, ReadRun, Answer, Show, BeginShowing, LoadRun,
                         LinkExperiment, process
<1>7. CASE AllOver \/ UNCHANGED vars
  BY <1>7, OthersKeep DEF AllOver, vars, process
<1> QED BY <1>1, <1>2, <1>3, <1>4, <1>5, <1>6, <1>7 DEF Next

\* For any set of commands and any number of invocations, killed at any step, a
\* provider that costs quota is called only when the command asked for it.
THEOREM QuotaIsOptIn == Spec => []MorphIsOptIn
<1>1. Inv => MorphIsOptIn
  BY DEF Inv
<1>2. Spec => []Inv
  BY InitHolds, NextKeeps, PTL DEF Spec
<1> QED BY <1>1, <1>2, PTL

-----------------------------------------------------------------------------
(* What a whole run.json stands on.  The stages of a configuration: until  *)
(* its result is there, while the result is recorded, and around it.       *)
Early == {"open", "acquire", "setup", "search", "edit", "compact", "agent", "evaluate", "judge"}
Kept == {"collect", "put", "row", "close", "write", "filling"}
Around == {"leave", "catch", "report", "abort", "manifest", "manifesting"}

RunRecord ==
  [root : {"none", "live", "ok", "error", "stuck"},
   state : {"resolved", "timeout", "task_failed", "environment_error", "provider_error"},
   evaluation : [passed : {"null", "true", "false"}, category : {"null", "regression"}],
   edit : {"none", "ok", "failed", "invalid"}, patch : BOOLEAN, workspace : BOOLEAN]

Control ==
  /\ command \in Commands /\ morph \in BOOLEAN
  /\ inv \in 0..MaxStarts /\ at \in Config
  /\ stage \in Over \cup DOMAIN Flow \cup Kept \cup Around
  /\ stage \notin Over => inv > 0

RunTypes == cur \in RunRecord /\ entries \in [Config -> {"none", "resolved", "failed"}]

FileTypes ==
  /\ DOMAIN runJson = Config /\ \A c \in Config : runJson[c].inv \in 0..inv
  /\ errorJson \in [Config -> 0..inv]
  /\ rows \in [Config -> SUBSET (1..inv)]
  /\ artifacts \in [Config -> {"absent", "partial", "whole"}]
  /\ left \in [Config -> BOOLEAN]
  /\ experimentJson \in [inv : 0..inv, whole : BOOLEAN,
                         entries : [Config -> {"none", "resolved", "failed"}]]

Types == Control /\ RunTypes /\ FileTypes

(* Before there is a result: nothing that the run could be taken for. *)
Blank(run) ==
  /\ run.evaluation = NoEvaluation /\ ~run.patch
  /\ run.state = "environment_error" \/ (run.state = "provider_error" /\ kind = "search")

Unjudged ==
  /\ stage \in Over => cur = FreshRun
  /\ stage \in Early => Blank(cur)

(* With it: state, evaluation and what the study makes of a failure agree. *)
Agree(run) ==
  /\ run.state = "resolved" => run.evaluation = [passed |-> "true", category |-> "null"]
  /\ run.evaluation.passed = "true" => run.state = "resolved"
                                       \/ (kind = "context" /\ run.state = "provider_error")
  /\ kind = "edit" => \/ run.state \in {"resolved", "task_failed"}
                      \/ run.evaluation.category # "null"
  /\ kind = "context" /\ run.state = "provider_error" => run.root = "error"

Judged ==
  /\ stage \in Kept => Agree(cur)
  /\ stage = "report" /\ kind = "context" => cur.state = "provider_error" /\ cur.root = "error"

(* The artifact of the patch, when the run has been, or will be, recorded. *)
ToRecord == \/ stage \in {"row", "close", "write", "filling"}
            \/ stage \in {"catch", "report"} /\ kind = "context"

Stored ==
  /\ stage = "collect" => ~cur.patch
  /\ stage = "put" => cur.patch /\ artifacts[at] # "absent"
  /\ stage \in {"row", "close", "write", "filling"} /\ ~cur.patch =>
       kind = "context" /\ cur.state = "provider_error"
  /\ ToRecord /\ cur.patch => artifacts[at] # "absent" /\ (inv = 1 => artifacts[at] = "whole")

(* A fresh directory has no artifact of a configuration not yet run. *)
Fresh ==
  /\ inv = 0 => artifacts = [c \in Config |-> "absent"]
  /\ inv = 1 /\ at = 1 /\ stage \in Early \cup Kept \cup {"catch", "report", "leave"} =>
       artifacts[2] = "absent"
  /\ inv = 1 /\ stage \in Early \cup {"collect"} => artifacts[at] = "absent"

Written ==
  /\ stage \in {"close", "write", "filling"} => inv \in rows[at]
  /\ stage \in {"write", "filling"} => cur.root = IF cur.state = "resolved" THEN "ok" ELSE "error"
  /\ stage = "filling" => runJson[at] = Recorded(FALSE)

Stands == Unjudged /\ Judged /\ Stored /\ Fresh /\ Written

IInv == Types /\ Stands /\ EvidenceIsWhole

LEMMA EndSteps ==
  /\ DOMAIN Ending = Kept
  /\ After("collect") = "put" /\ After("put") = "row" /\ After("row") = "close"
  /\ After("close") = "write" /\ After("write") = "filling" /\ After("filling") = "leave"
  BY DEF After, Ending, Kept

(* Each configuration's steps are early ones, and the last has a result. *)
LEMMA FlowSteps ==
  ASSUME command \in Commands, NEW s \in DOMAIN Flow
  PROVE  /\ s \in Early
         /\ After(s) \in DOMAIN Flow \cup {"collect"}
         /\ After(s) = "collect" <=> s \in {"agent", "evaluate", "judge"}
         /\ s = "setup" => kind \in {"search", "adaptive"}
         /\ s \in {"acquire", "setup", "agent", "evaluate"} => kind # "context"
         /\ After(s) # "open" /\ (After(s) = "acquire" => s = "open")
         /\ s = "open" /\ kind # "context" => After(s) = "acquire"
         /\ s = "judge" => kind = "context"
<1>1. kind \in {"search", "edit", "context", "adaptive"}
  BY StudyAssumption DEF kind
<1>2. CASE kind = "search"
  BY <1>2 DEF Flow, SearchFlow, After, Ending, Early
<1>3. CASE kind = "edit"
  BY <1>3 DEF Flow, EditFlow, After, Ending, Early
<1>4. CASE kind = "adaptive"
  BY <1>4 DEF Flow, AdaptiveFlow, After, Ending, Early
<1>5. CASE kind = "context"
  BY <1>5 DEF Flow, ContextFlow, After, Ending, Early
<1> QED BY <1>1, <1>2, <1>3, <1>4, <1>5

LEMMA Frame ==
  ASSUME command' = command
  PROVE  kind' = kind /\ optIn' = optIn /\ faults' = faults /\ Flow' = Flow
  BY DEF kind, optIn, faults, Flow

-----------------------------------------------------------------------------
(* Types are kept: one step per action. *)
LEMMA FreshTypes == FreshRun \in RunRecord /\ NoEntries \in [Config -> {"none", "resolved", "failed"}]
  BY DEF FreshRun, RunRecord, NoEvaluation, NoEntries

LEMMA InitTypes == Init => Types
<1> SUFFICES ASSUME Init PROVE Types
  OBVIOUS
<1>1. NoFile.inv = 0
  BY DEF NoFile
<1>2. FileTypes
  BY <1>1, FreshTypes, StudyAssumption DEF Init, FileTypes
<1>3. RunTypes
  BY FreshTypes DEF Init, RunTypes
<1>4. command \in Commands /\ morph \in BOOLEAN
  BY Zenon DEF Init
<1>5. Control
  BY <1>4, StudyAssumption DEF Init, Control, Config, Over
<1> QED BY <1>2, <1>3, <1>5 DEF Types

(* What a step that leaves the files alone keeps. *)
LEMMA FilesStay ==
  ASSUME FileTypes, inv \in Nat, UNCHANGED files, inv' = inv \/ inv' = inv + 1
  PROVE  FileTypes'
<1>1. inv <= inv' /\ inv' \in Nat
  OBVIOUS
<1>2. DOMAIN runJson' = Config /\ \A c \in Config : runJson'[c].inv \in 0..inv'
  BY <1>1 DEF FileTypes, files
<1>3. errorJson' \in [Config -> 0..inv']
  BY <1>1 DEF FileTypes, files
<1>4. rows' \in [Config -> SUBSET (1..inv')]
  BY <1>1 DEF FileTypes, files
<1>5. experimentJson' \in [inv : 0..inv', whole : BOOLEAN,
                           entries : [Config -> {"none", "resolved", "failed"}]]
  BY <1>1 DEF FileTypes, files
<1> QED BY <1>2, <1>3, <1>4, <1>5 DEF FileTypes, files

LEMMA BeginTypes == Types /\ Begin => Types'
<1> SUFFICES ASSUME Types, Begin PROVE Types'
  OBVIOUS
<1>1. inv \in Nat /\ inv' = inv + 1 /\ inv' \in 0..MaxStarts
  BY StudyAssumption DEF Types, Control, Begin
<1>2. FileTypes'
  BY <1>1, FilesStay DEF Types, Begin
<1>3. stage' \in DOMAIN Flow /\ stage' \notin Over
  BY StudyAssumption DEF Types, Control, Begin, Goto, Flow, SearchFlow, EditFlow, AdaptiveFlow,
                         ContextFlow, kind, Over
<1>4. Control'
  BY <1>1, <1>3, Frame DEF Types, Control, Begin
<1> QED BY <1>2, <1>4 DEF Types, RunTypes, Begin

(* What the steps of a configuration leave alone, and where they may go. *)
Steady == command' = command /\ inv' = inv /\ at' = at /\ entries' = entries

LEMMA ControlStays ==
  ASSUME Control, command' = command, inv' = inv, at' \in Config, morph' \in BOOLEAN,
         stage \notin Over, stage' \in DOMAIN Flow \cup Kept \cup Around \cup Over
  PROVE  Control'
  BY Frame DEF Control

LEMMA StepTypes ==
  ASSUME Types, Steady, morph' \in BOOLEAN,
         stage' \in DOMAIN Flow \cup Kept \cup Around, stage \notin Over,
         cur' \in RunRecord, UNCHANGED files
  PROVE  Types'
<1>1. Control'
  BY ControlStays DEF Types, Steady, Control
<1>2. FileTypes'
  BY FilesStay, StudyAssumption DEF Types, Control, Steady
<1> QED BY <1>1, <1>2 DEF Types, RunTypes, Steady

LEMMA Proceeds ==
  ASSUME Types, stage \in DOMAIN Flow \cup Kept
  PROVE  /\ After(stage) \in DOMAIN Flow \cup Kept \cup Around
         /\ stage \notin Over
<1>1. CASE stage \in DOMAIN Flow
  BY <1>1, FlowSteps DEF Types, Control, Kept, Over, Early
<1>2. CASE stage \in Kept
  BY <1>2, EndSteps DEF Kept, Around, Over
<1> QED BY <1>1, <1>2

LEMMA ThrownAround == Thrown => stage' \in Around
  BY DEF Thrown, Goto, Around

LEMMA EvaluatedTypes ==
  ASSUME cur \in RunRecord, EvaluateRun
  PROVE  cur' \in RunRecord
<1>1. PICK e \in Evaluations :
        cur' = [cur EXCEPT !.state = e.state,
                           !.evaluation = [passed |-> e.passed, category |-> e.category]]
  BY DEF EvaluateRun
<1>2. e.state \in {"resolved", "timeout"} /\ e.passed \in {"true", "false"}
      /\ e.category \in {"null", "regression"}
  BY DEF Evaluations
<1>3. [passed |-> e.passed, category |-> e.category]
        \in [passed : {"null", "true", "false"}, category : {"null", "regression"}]
  BY <1>2
<1> QED BY <1>1, <1>2, <1>3 DEF RunRecord


(* The steps that leave the files alone. *)
LEMMA OpenTypes == Types /\ Open => Types'
<1> SUFFICES ASSUME Types, Open PROVE Types'
  OBVIOUS
<1>1. Steady /\ UNCHANGED files /\ stage \notin Over /\ morph' \in BOOLEAN
  BY DEF Open, Steady, Over, Types, Control
<1>2. cur' \in RunRecord
  BY DEF Open, Types, RunTypes, RunRecord
<1>3. stage \in DOMAIN Flow
  BY DEF Open, Types, Control, Kept, Over, Around
<1>4. stage' \in DOMAIN Flow \cup Kept \cup Around
  BY <1>3, Proceeds DEF Open, Advance, Goto, Around
<1> QED BY <1>1, <1>2, <1>4, StepTypes

LEMMA ThrowTypes == Types /\ Throw => Types'
<1> SUFFICES ASSUME Types, Throw PROVE Types'
  OBVIOUS
<1>1. Steady /\ UNCHANGED files /\ stage \notin Over /\ morph' \in BOOLEAN /\ cur' \in RunRecord
  BY DEF Throw, Steady, Over, Types, Control, RunTypes
<1>2. stage' \in Around
  BY ThrownAround DEF Throw
<1> QED BY <1>1, <1>2, StepTypes

LEMMA SetupTypes == Types /\ Setup => Types'
<1> SUFFICES ASSUME Types, Setup PROVE Types'
  OBVIOUS
<1>1. Steady /\ UNCHANGED files /\ stage \notin Over /\ morph' \in BOOLEAN
  BY DEF Setup, Steady, Over, Types, Control
<1>2. cur' \in RunRecord
  BY DEF Setup, Types, RunTypes, RunRecord
<1>3. stage \in DOMAIN Flow
  BY DEF Setup, Types, Control, Kept, Over, Around
<1>4. stage' \in DOMAIN Flow \cup Kept \cup Around
  BY <1>3, Proceeds DEF Setup, Advance, Goto, Kept
<1> QED BY <1>1, <1>2, <1>4, StepTypes

LEMMA JudgeTypes ==
  ASSUME cur \in RunRecord, Judge
  PROVE  cur' \in RunRecord
<1>1. PICK kept \in BOOLEAN :
        cur' = [cur EXCEPT !.state = IF kept THEN "resolved" ELSE "task_failed",
                           !.evaluation.passed = IF kept THEN "true" ELSE "false"]
  BY DEF Judge
<1>2. cur.evaluation \in [passed : {"null", "true", "false"}, category : {"null", "regression"}]
  BY DEF RunRecord
<1>3. [cur.evaluation EXCEPT !.passed = IF kept THEN "true" ELSE "false"]
        \in [passed : {"null", "true", "false"}, category : {"null", "regression"}]
  BY <1>2
<1>4. cur' = [[cur EXCEPT !.state = IF kept THEN "resolved" ELSE "task_failed"]
                  EXCEPT !.evaluation = [cur.evaluation EXCEPT !.passed =
                                            IF kept THEN "true" ELSE "false"]]
  BY <1>1 DEF RunRecord
<1> QED BY <1>3, <1>4 DEF RunRecord

LEMMA JudgedTypes == Types /\ (Agent \/ Evaluate \/ Judge) => Types'
<1> SUFFICES ASSUME Types, Agent \/ Evaluate \/ Judge PROVE Types'
  OBVIOUS
<1>1. Steady /\ UNCHANGED files /\ stage \notin Over /\ morph' \in BOOLEAN
  BY DEF Agent, Evaluate, Judge, Steady, Over, Types, Control
<1>2. cur' \in RunRecord
  <2>1. CASE EvaluateRun
    BY <2>1, EvaluatedTypes DEF Types, RunTypes
  <2>2. CASE Agent /\ ~EvaluateRun
    BY <2>2 DEF Agent, Types, RunTypes, RunRecord
  <2>3. CASE Judge
    BY <2>3, JudgeTypes DEF Types, RunTypes
  <2> QED BY <2>1, <2>2, <2>3 DEF Evaluate
<1>3. stage \in DOMAIN Flow
  BY DEF Agent, Evaluate, Judge, Types, Control, Kept, Over, Around
<1>4. stage' \in DOMAIN Flow \cup Kept \cup Around
  BY <1>3, Proceeds DEF Agent, Evaluate, Judge, Advance, Goto
<1> QED BY <1>1, <1>2, <1>4, StepTypes

(* The six steps that call a provider differ in the study and in what they *)
(* make of its failure.                                                    *)
LEMMA Awaits ==
  ASSUME Await
  PROVE  /\ \E s \in {"search", "edit", "compact"} : Provided(s)
         /\ \/ Advance /\ UNCHANGED cur
            \/ Thrown /\ UNCHANGED cur
            \/ /\ stage = "search" /\ kind = "search"
               /\ cur' = [cur EXCEPT !.state = "provider_error"]
               /\ stage' \in {"collect", "agent"}
            \/ /\ stage = "edit" /\ kind = "edit"
               /\ cur' = [cur EXCEPT !.edit = "ok"] /\ Advance
            \/ /\ stage = "edit" /\ kind = "edit"
               /\ \E e \in {"ok", "failed", "invalid"} :
                     cur' = [cur EXCEPT !.edit = e, !.state = "task_failed"]
               /\ stage' = "collect"
<1>1. CASE SearchStudySearches
  BY <1>1 DEF SearchStudySearches, Provided
<1>2. CASE EditStudyEdits
  BY <1>2 DEF EditStudyEdits, Provided, Goto
<1>3. CASE AdaptiveStudySearches \/ AdaptiveStudyEdits \/ AdaptiveStudyCompacts
           \/ ContextStudyCompacts
  BY <1>3 DEF AdaptiveStudySearches, AdaptiveStudyEdits, AdaptiveStudyCompacts,
              ContextStudyCompacts
<1> QED BY <1>1, <1>2, <1>3 DEF Await

LEMMA AwaitTypes == Types /\ Await => Types'
<1> SUFFICES ASSUME Types, Await PROVE Types'
  OBVIOUS
<1>1. PICK s \in {"search", "edit", "compact"} : Provided(s)
  BY Awaits
<1>2. Steady /\ UNCHANGED files /\ stage \in {"search", "edit", "compact"}
  BY <1>1 DEF Provided, Steady
<1>3. stage \in DOMAIN Flow /\ stage \notin Over
  BY <1>2 DEF Types, Control, Kept, Over, Around
<1>4. morph' \in BOOLEAN
  <2>1. PICK route \in Routes(s) : morph' = (morph \/ route \in Rules!Specialist)
    BY <1>1 DEF Provided
  <2> QED BY <2>1, Zenon
<1>5. cur' \in RunRecord
  BY Awaits DEF Types, RunTypes, RunRecord
<1>6. "agent" \in DOMAIN Flow \/ kind # "search"
  BY DEF Flow, SearchFlow
<1>7. stage' \in DOMAIN Flow \cup Kept \cup Around
  BY <1>3, <1>6, Awaits, Proceeds, ThrownAround DEF Advance, Goto, Kept
<1> QED BY <1>2, <1>3, <1>4, <1>5, <1>7, StepTypes

LEMMA CatchTypes == Types /\ Catch => Types'
<1> SUFFICES ASSUME Types, Catch PROVE Types'
  OBVIOUS
<1>1. Steady /\ UNCHANGED files /\ stage \notin Over /\ morph' \in BOOLEAN
  BY DEF Catch, Steady, Over, Types, Control
<1>2. kind \in {"search", "edit", "context", "adaptive"}
  BY StudyAssumption DEF Types, Control, kind
<1>3. Caught \in RunRecord
  BY <1>2 DEF Caught, SearchCaught, EditCaught, ContextCaught, AdaptiveCaught, NoEvaluation,
              Types, RunTypes, RunRecord
<1>4. cur' \in RunRecord
  BY <1>3 DEF Catch, Types, RunTypes, RunRecord
<1>5. stage' \in Around
  BY DEF Catch, Goto, Around
<1> QED BY <1>1, <1>4, <1>5, StepTypes

LEMMA CloseTypes == Types /\ CloseRoot => Types'
<1> SUFFICES ASSUME Types, CloseRoot PROVE Types'
  OBVIOUS
<1>1. Steady /\ UNCHANGED files /\ stage \notin Over /\ morph' \in BOOLEAN
  BY DEF CloseRoot, Steady, Over, Types, Control
<1>2. cur' \in RunRecord
  BY DEF CloseRoot, Types, RunTypes, RunRecord
<1>3. stage' \in Kept \cup Around
  BY EndSteps, ThrownAround DEF CloseRoot, Advance, Goto, Kept
<1> QED BY <1>1, <1>2, <1>3, StepTypes

(* The steps that change a file. *)
LEMMA AcquireTypes == Types /\ Acquire => Types'
<1> SUFFICES ASSUME Types, Acquire PROVE Types'
  OBVIOUS
<1>1. Steady /\ stage \notin Over /\ morph' \in BOOLEAN
  BY DEF Acquire, Steady, Over, Types, Control
<1>2. stage \in DOMAIN Flow
  BY DEF Acquire, Types, Control, Kept, Over, Around
<1>3. stage' \in DOMAIN Flow \cup Kept \cup Around
  BY <1>2, Proceeds, ThrownAround DEF Acquire, Advance, Goto
<1>4. RunTypes'
  <2>1. cur' = cur \/ cur' = [cur EXCEPT !.workspace = TRUE]
    BY DEF Acquire
  <2>2. cur' \in RunRecord
    BY <2>1 DEF Types, RunTypes, RunRecord
  <2> QED BY <1>1, <2>2 DEF Types, RunTypes, Steady
<1>5. FileTypes'
  BY <1>1 DEF Acquire, Types, FileTypes, Steady
<1> QED BY <1>1, <1>3, <1>4, <1>5, ControlStays DEF Types, Control, Steady

LEMMA CollectTypes == Types /\ Collect => Types'
<1> SUFFICES ASSUME Types, Collect PROVE Types'
  OBVIOUS
<1>1. Steady /\ stage \notin Over /\ morph' \in BOOLEAN
  BY DEF Collect, Steady, Over, Types, Control
<1>2. stage' \in Kept \cup Around
  BY EndSteps, ThrownAround DEF Collect, Advance, Goto, Kept
<1>3. RunTypes'
  BY <1>1 DEF Collect, Types, RunTypes, RunRecord, Steady
<1>4. FileTypes'
  BY <1>1 DEF Collect, Types, FileTypes, Steady
<1> QED BY <1>1, <1>2, <1>3, <1>4, ControlStays DEF Types, Control, Steady

LEMMA PutContentTypes == Types /\ PutContent => Types'
<1> SUFFICES ASSUME Types, PutContent PROVE Types'
  OBVIOUS
<1>1. Steady /\ stage \notin Over /\ morph' \in BOOLEAN
  BY DEF PutContent, Steady, Over, Types, Control
<1>2. stage' \in Kept \cup Around
  BY EndSteps, ThrownAround DEF PutContent, Advance, Goto, Kept
<1>3. RunTypes'
  BY <1>1 DEF PutContent, Types, RunTypes, RunRecord, Steady
<1>4. FileTypes'
  BY <1>1 DEF PutContent, Types, FileTypes, Steady
<1> QED BY <1>1, <1>2, <1>3, <1>4, ControlStays DEF Types, Control, Steady

LEMMA RecordRowTypes == Types /\ RecordRow => Types'
<1> SUFFICES ASSUME Types, RecordRow PROVE Types'
  OBVIOUS
<1>1. Steady /\ stage \notin Over /\ morph' \in BOOLEAN
  BY DEF RecordRow, Steady, Over, Types, Control
<1>2. stage' \in Kept \cup Around
  BY EndSteps DEF RecordRow, Advance, Goto, Kept
<1>3. inv \in 1..inv
  BY <1>1, StudyAssumption DEF Types, Control
<1>4. FileTypes'
  BY <1>1, <1>3 DEF RecordRow, Types, FileTypes, Steady
<1> QED BY <1>1, <1>2, <1>4, ControlStays DEF RecordRow, Types, RunTypes, Control, Steady

LEMMA WriteRunTypes == Types /\ WriteRun => Types'
<1> SUFFICES ASSUME Types, WriteRun PROVE Types'
  OBVIOUS
<1>1. Steady /\ stage \notin Over /\ morph' \in BOOLEAN
  BY DEF WriteRun, Steady, Over, Types, Control
<1>2. stage' \in Kept \cup Around
  BY EndSteps DEF WriteRun, Advance, Goto, Kept
<1>3. Recorded(FALSE).inv = inv /\ inv \in 0..inv
  BY StudyAssumption DEF Recorded, Types, Control
<1>4. FileTypes'
  BY <1>1, <1>3 DEF WriteRun, Types, FileTypes, Steady
<1> QED BY <1>1, <1>2, <1>4, ControlStays DEF WriteRun, Types, RunTypes, Control, Steady

LEMMA FillRunTypes == Types /\ Written /\ FillRun => Types'
<1> SUFFICES ASSUME Types, Written, FillRun PROVE Types'
  OBVIOUS
<1>1. Steady /\ stage \notin Over /\ morph' \in BOOLEAN
  BY DEF FillRun, Steady, Over, Types, Control
<1>2. stage' \in Kept \cup Around
  BY EndSteps, ThrownAround DEF FillRun, Advance, Goto, Kept, Around
<1>3. [Recorded(FALSE) EXCEPT !.whole = TRUE].inv = inv /\ inv \in 0..inv
  BY StudyAssumption DEF Recorded, Types, Control
<1>4. DOMAIN runJson' = Config /\ \A c \in Config : runJson'[c].inv \in 0..inv
  BY <1>3 DEF FillRun, Types, FileTypes, Written
<1>5. FileTypes'
  BY <1>1, <1>4 DEF FillRun, Types, FileTypes, Steady
<1> QED BY <1>1, <1>2, <1>5, ControlStays DEF FillRun, Types, RunTypes, Control, Steady

LEMMA ReportTypes == Types /\ Report => Types'
<1> SUFFICES ASSUME Types, Report PROVE Types'
  OBVIOUS
<1>1. Steady /\ stage \notin Over /\ morph' \in BOOLEAN
  BY DEF Report, Steady, Over, Types, Control
<1>2. stage' \in Kept \cup Around
  BY DEF Report, Goto, Kept, Around
<1>3. inv \in 0..inv
  BY StudyAssumption DEF Types, Control
<1>4. FileTypes'
  BY <1>1, <1>3 DEF Report, Types, FileTypes, Steady
<1> QED BY <1>1, <1>2, <1>4, ControlStays DEF Report, Types, RunTypes, Control, Steady

LEMMA LeaveTypes == Types /\ Leave => Types'
<1> SUFFICES ASSUME Types, Leave PROVE Types'
  OBVIOUS
<1>1. command' = command /\ inv' = inv /\ stage \notin Over /\ morph' \in BOOLEAN
  BY DEF Leave, Over, Types, Control
<1>2. at' \in Config
  BY DEF Leave, Configurations, Config
<1>3. "open" \in DOMAIN Flow
  BY StudyAssumption DEF Types, Control, Flow, SearchFlow, EditFlow, AdaptiveFlow, ContextFlow, kind
<1>4. stage' \in DOMAIN Flow \cup Around
  BY <1>3 DEF Leave, Goto, Around
<1>5. RunTypes'
  BY FreshTypes DEF Leave, Types, RunTypes
<1>6. FileTypes'
  BY <1>1 DEF Leave, Dispose, Types, FileTypes
<1> QED BY <1>1, <1>2, <1>4, <1>5, <1>6, ControlStays DEF Types

LEMMA ExitTypes ==
  ASSUME Types, NEW how \in Over, Exits(how), command' = command, inv' = inv,
         stage \notin Over
  PROVE  Control' /\ RunTypes'
<1>1. stage' \in Over /\ at' \in Config
  BY DEF Exits, Goto, Config
<1>2. morph' \in BOOLEAN
  BY Zenon DEF Exits
<1>3. RunTypes'
  BY FreshTypes DEF Exits, RunTypes
<1> QED BY <1>1, <1>2, <1>3, ControlStays DEF Types

LEMMA AbortTypes == Types /\ Abort => Types'
<1> SUFFICES ASSUME Types, Abort PROVE Types'
  OBVIOUS
<1>1. Control' /\ RunTypes'
  BY ExitTypes DEF Abort, Over
<1>2. FileTypes'
  BY DEF Abort, Dispose, Types, FileTypes
<1> QED BY <1>1, <1>2 DEF Types

LEMMA OpenManifestTypes == Types /\ OpenManifest => Types'
<1> SUFFICES ASSUME Types, OpenManifest PROVE Types'
  OBVIOUS
<1>1. Steady /\ stage \notin Over /\ morph' \in BOOLEAN
  BY DEF OpenManifest, Steady, Over, Types, Control
<1>2. stage' \in Around
  BY DEF OpenManifest, Goto, Around
<1>3. inv \in 0..inv
  BY StudyAssumption DEF Types, Control
<1>4. FileTypes'
  BY <1>1, <1>3 DEF OpenManifest, Types, RunTypes, FileTypes, Steady
<1> QED BY <1>1, <1>2, <1>4, ControlStays DEF OpenManifest, Types, RunTypes, Control, Steady

LEMMA FillManifestTypes == Types /\ FillManifest => Types'
<1> SUFFICES ASSUME Types, FillManifest PROVE Types'
  OBVIOUS
<1>1. PICK how \in {"done", "escaped"} : Exits(how)
  BY DEF FillManifest
<1>2. Control' /\ RunTypes'
  BY <1>1, ExitTypes DEF FillManifest, Over
<1>3. FileTypes'
  BY DEF FillManifest, Types, FileTypes
<1> QED BY <1>2, <1>3 DEF Types

LEMMA CrashTypes == Types /\ Crash => Types'
<1> SUFFICES ASSUME Types, Crash PROVE Types'
  OBVIOUS
<1>1. Control' /\ RunTypes'
  BY ExitTypes DEF Crash, Over
<1>2. FileTypes'
  BY FilesStay, StudyAssumption DEF Crash, Types, Control
<1> QED BY <1>1, <1>2 DEF Types

(* The readers change nothing of it. *)
LEMMA ReadersStay ==
  ASSUME Resume \/ Show \/ AllOver \/ UNCHANGED vars
  PROVE  UNCHANGED <<command, process, files>>
  BY DEF Resume, ReadManifest, ReadRun, Answer, Show, BeginShowing, LoadRun, LinkExperiment,
         AllOver, vars

LEMMA ReaderTypes ==
  ASSUME Types, UNCHANGED <<command, process, files>>
  PROVE  Types'
<1>1. Control'
  BY Frame DEF Types, Control, process
<1>2. FileTypes'
  BY FilesStay, StudyAssumption DEF Types, Control, process
<1> QED BY <1>1, <1>2 DEF Types, RunTypes, process

LEMMA NextTypes == Types /\ Written /\ [Next]_vars => Types'
<1> SUFFICES ASSUME Types, Written, [Next]_vars PROVE Types'
  OBVIOUS
<1>1. CASE Begin \/ Await \/ Throw \/ Crash
  BY <1>1, BeginTypes, AwaitTypes, ThrowTypes, CrashTypes
<1>2. CASE Step
  BY <1>2, OpenTypes, AcquireTypes, SetupTypes, JudgedTypes, CollectTypes, PutContentTypes,
     RecordRowTypes, CloseTypes, WriteRunTypes, FillRunTypes, CatchTypes, ReportTypes,
     LeaveTypes, AbortTypes, OpenManifestTypes, FillManifestTypes DEF Step
<1>3. CASE Resume \/ Show \/ AllOver \/ UNCHANGED vars
  BY <1>3, ReadersStay, ReaderTypes
<1> QED BY <1>1, <1>2, <1>3 DEF Next

-----------------------------------------------------------------------------
(* The evidence is kept.  A run.json is as well backed as before when its  *)
(* configuration's rows and artifacts only grow.                           *)
LEMMA EvidenceStays ==
  ASSUME EvidenceIsWhole, command' = command, runJson' = runJson,
         \A c \in Config :
            /\ rows[c] \subseteq rows'[c]
            /\ artifacts[c] # "absent" => artifacts'[c] # "absent"
            /\ artifacts[c] = "whole" => artifacts'[c] = "whole"
  PROVE  EvidenceIsWhole'
<1> SUFFICES ASSUME NEW c \in Config, runJson'[c].whole
             PROVE  /\ runJson[c].inv \in rows'[c]
                    /\ runJson[c].root = IF runJson[c].state = "resolved" THEN "ok" ELSE "error"
                    /\ runJson[c].state = "resolved" <=> runJson[c].category = "null"
                    /\ runJson[c].state = "resolved" => runJson[c].passed = "true"
                    /\ runJson[c].passed = "true" => runJson[c].state = "resolved"
                          \/ (kind = "context" /\ runJson[c].state = "provider_error")
                    /\ runJson[c].patch => artifacts'[c] # "absent"
                    /\ runJson[c].patch /\ runJson[c].inv = 1 => artifacts'[c] = "whole"
                    /\ ~runJson[c].patch => kind = "context" /\ runJson[c].state = "provider_error"
  BY Frame DEF EvidenceIsWhole
<1> QED BY DEF EvidenceIsWhole

LEMMA FilesStayEvident ==
  ASSUME EvidenceIsWhole, command' = command, UNCHANGED files
  PROVE  EvidenceIsWhole'
  BY EvidenceStays DEF files

LEMMA InitStands == Init => Stands /\ EvidenceIsWhole
<1> SUFFICES ASSUME Init PROVE Stands /\ EvidenceIsWhole
  OBVIOUS
<1>1. Unjudged /\ Judged /\ Stored /\ Written
  BY DEF Init, Unjudged, Judged, Stored, Written, ToRecord, Early, Kept
<1>2. Fresh
  BY DEF Init, Fresh
<1>3. EvidenceIsWhole
  BY DEF Init, EvidenceIsWhole, NoFile
<1> QED BY <1>1, <1>2, <1>3 DEF Stands

LEMMA BeginStands == IInv /\ Begin => Stands' /\ EvidenceIsWhole'
<1> SUFFICES ASSUME IInv, Begin PROVE Stands' /\ EvidenceIsWhole'
  OBVIOUS
<1>1. stage' = "open" /\ cur' = cur /\ cur = FreshRun /\ command' = command
  BY DEF Begin, Goto, IInv, Stands, Unjudged
<1>2. Unjudged' /\ Judged' /\ Stored' /\ Written'
  BY <1>1 DEF Unjudged, Judged, Stored, Written, ToRecord, Early, Kept, Over, Blank, FreshRun
<1>3. inv \in Nat /\ inv' = inv + 1 /\ at \in Config /\ at' = at /\ artifacts' = artifacts
  BY StudyAssumption DEF Begin, IInv, Types, Control, files
<1>4. Fresh'
  BY <1>3 DEF IInv, Stands, Fresh, Config
<1>5. EvidenceIsWhole'
  BY <1>1, FilesStayEvident DEF IInv, Begin
<1> QED BY <1>2, <1>4, <1>5 DEF Stands

(* The configurations not yet run stay without an artifact. *)
LEMMA FreshStays ==
  ASSUME Types, Fresh, Steady,
         stage \in Early \cup Kept \cup {"catch", "report"},
         stage' \in Early \cup {"collect"} => stage \in Early /\ artifacts' = artifacts,
         \A c \in Config \ {at} : artifacts'[c] = artifacts[c]
  PROVE  Fresh'
<1>1. inv > 0
  BY DEF Types, Control, Early, Kept, Over
<1> QED BY <1>1 DEF Fresh, Steady, Types, Control, Config

(* A step before there is a result. *)
LEMMA EarlyStands ==
  ASSUME IInv, Steady, UNCHANGED <<runJson, rows, artifacts>>, stage \in Early,
         \/ stage' \in Early /\ Blank(cur)'
         \/ stage' = "collect" /\ Agree(cur)' /\ ~cur'.patch
         \/ stage' \in {"catch", "abort"} /\ ~cur'.patch
  PROVE  Stands' /\ EvidenceIsWhole'
<1>1. Unjudged' /\ Judged' /\ Stored' /\ Written'
  BY DEF Unjudged, Judged, Stored, Written, ToRecord, Early, Kept, Over
<1>2. Fresh'
  BY FreshStays DEF IInv, Stands
<1>3. EvidenceIsWhole'
  BY EvidenceStays DEF IInv, Steady
<1> QED BY <1>1, <1>2, <1>3 DEF Stands

LEMMA EarlyStage ==
  ASSUME Types, stage \in Early
  PROVE  stage \in DOMAIN Flow
  BY DEF Types, Control, Early, Kept, Around, Over

LEMMA Thrower == Thrown => stage' \in {"catch", "abort"}
  BY DEF Thrown, Goto

LEMMA OpenStands == IInv /\ Open => Stands' /\ EvidenceIsWhole'
<1> SUFFICES ASSUME IInv, Open PROVE Stands' /\ EvidenceIsWhole'
  OBVIOUS
<1>1. Steady /\ UNCHANGED <<runJson, rows, artifacts>> /\ stage \in Early
  BY DEF Open, Steady, Early, files
<1>2. Blank(cur)'
  BY <1>1, Frame DEF Open, IInv, Types, RunTypes, RunRecord, Stands, Unjudged, Blank
<1>3. stage' \in Early \cup {"abort"}
  BY <1>1, EarlyStage, FlowSteps DEF Open, Advance, Goto, IInv, Types, Control
<1> QED BY <1>1, <1>2, <1>3, EarlyStands DEF Blank

LEMMA SetupStands == IInv /\ Setup => Stands' /\ EvidenceIsWhole'
<1> SUFFICES ASSUME IInv, Setup PROVE Stands' /\ EvidenceIsWhole'
  OBVIOUS
<1>1. Steady /\ UNCHANGED <<runJson, rows, artifacts>> /\ stage \in Early
  BY DEF Setup, Steady, Early, files
<1>2. kind \in {"search", "adaptive"} /\ kind' = kind
  BY <1>1, EarlyStage, FlowSteps, Frame DEF Setup, IInv, Types, Control
<1>3. CASE Advance /\ cur' = cur
  <2>1. stage' \in Early
    BY <1>1, <1>3, EarlyStage, FlowSteps DEF Setup, Advance, Goto, IInv, Types, Control
  <2>2. Blank(cur)'
    BY <1>1, <1>2, <1>3 DEF IInv, Stands, Unjudged, Blank
  <2> QED BY <1>1, <2>1, <2>2, EarlyStands
<1>4. CASE \E s \in {"timeout", "environment_error"} :
              cur' = [cur EXCEPT !.state = s] /\ Goto("collect")
  <2>1. PICK s \in {"timeout", "environment_error"} :
           cur' = [cur EXCEPT !.state = s] /\ stage' = "collect"
    BY <1>4 DEF Goto
  <2>2. cur'.state = s /\ cur'.evaluation = NoEvaluation /\ ~cur'.patch
    BY <1>1, <2>1 DEF IInv, Types, RunTypes, RunRecord, Stands, Unjudged, Blank
  <2>3. Agree(cur)'
    BY <1>2, <2>2 DEF Agree, NoEvaluation
  <2> QED BY <1>1, <2>1, <2>2, <2>3, EarlyStands
<1> QED BY <1>3, <1>4 DEF Setup

LEMMA AcquireStands == IInv /\ Acquire => Stands' /\ EvidenceIsWhole'
<1> SUFFICES ASSUME IInv, Acquire PROVE Stands' /\ EvidenceIsWhole'
  OBVIOUS
<1>1. Steady /\ UNCHANGED <<runJson, rows, artifacts>> /\ stage \in Early
  BY DEF Acquire, Steady, Early
<1>2. Blank(cur)'
  <2>1. cur' = cur \/ cur' = [cur EXCEPT !.workspace = TRUE]
    BY DEF Acquire
  <2> QED BY <1>1, <2>1, Frame DEF Steady, IInv, Types, RunTypes, RunRecord, Stands, Unjudged, Blank
<1>3. stage' \in Early \cup {"catch", "abort"}
  BY <1>1, EarlyStage, FlowSteps, Thrower DEF Acquire, Advance, Goto, IInv, Types, Control
<1> QED BY <1>1, <1>2, <1>3, EarlyStands DEF Blank

(* An evaluation's result, and the agent's without one. *)
LEMMA EvaluatedAgrees ==
  ASSUME Types, Blank(cur), EvaluateRun, kind' = kind, kind # "context"
  PROVE  Agree(cur)' /\ ~cur'.patch
<1>1. PICK e \in Evaluations :
        cur' = [cur EXCEPT !.state = e.state,
                           !.evaluation = [passed |-> e.passed, category |-> e.category]]
  BY DEF EvaluateRun
<1>2. /\ cur'.state = e.state /\ cur'.patch = cur.patch
      /\ cur'.evaluation = [passed |-> e.passed, category |-> e.category]
  BY <1>1 DEF Types, RunTypes, RunRecord
<1>3. \/ e.state = "resolved" /\ e.passed = "true" /\ e.category = "null"
      \/ e.state = "timeout" /\ e.passed = "false" /\ e.category = "regression"
  BY DEF Evaluations
<1> QED BY <1>2, <1>3 DEF Agree, Blank

LEMMA AgentStands == IInv /\ (Agent \/ Evaluate) => Stands' /\ EvidenceIsWhole'
<1> SUFFICES ASSUME IInv, Agent \/ Evaluate PROVE Stands' /\ EvidenceIsWhole'
  OBVIOUS
<1>1. Steady /\ UNCHANGED <<runJson, rows, artifacts>> /\ stage \in {"agent", "evaluate"}
  BY DEF Agent, Evaluate, Steady, files
<1>2. stage \in Early /\ stage \in DOMAIN Flow
  BY <1>1, EarlyStage DEF Early, IInv
<1>3. stage' = "collect" /\ kind # "context" /\ kind' = kind
  BY <1>1, <1>2, FlowSteps, Frame DEF Agent, Evaluate, Advance, Goto, IInv, Types, Control, Steady
<1>4. Blank(cur)
  BY <1>2 DEF IInv, Stands, Unjudged
<1>5. Agree(cur)' /\ ~cur'.patch
  <2>1. CASE EvaluateRun
    BY <2>1, <1>3, <1>4, EvaluatedAgrees DEF IInv
  <2>2. CASE cur' = [cur EXCEPT !.state = "task_failed"]
    <3>1. cur'.state = "task_failed" /\ cur'.evaluation = NoEvaluation /\ ~cur'.patch
      BY <2>2, <1>4 DEF IInv, Types, RunTypes, RunRecord, Blank
    <3> QED BY <3>1, <1>3 DEF Agree, NoEvaluation
  <2> QED BY <2>1, <2>2 DEF Agent, Evaluate
<1> QED BY <1>1, <1>2, <1>3, <1>5, EarlyStands

LEMMA JudgeStands == IInv /\ Judge => Stands' /\ EvidenceIsWhole'
<1> SUFFICES ASSUME IInv, Judge PROVE Stands' /\ EvidenceIsWhole'
  OBVIOUS
<1>1. Steady /\ UNCHANGED <<runJson, rows, artifacts>> /\ stage \in Early
  BY DEF Judge, Steady, files, Early
<1>2. stage' = "collect" /\ kind = "context" /\ kind' = kind
  BY <1>1, EarlyStage, FlowSteps, Frame DEF Judge, Advance, Goto, IInv, Types, Control, Steady
<1>3. Blank(cur)
  BY <1>1 DEF IInv, Stands, Unjudged
<1>4. PICK kept \in BOOLEAN :
        cur' = [cur EXCEPT !.state = IF kept THEN "resolved" ELSE "task_failed",
                           !.evaluation.passed = IF kept THEN "true" ELSE "false"]
  BY DEF Judge
<1>5. /\ cur'.state = IF kept THEN "resolved" ELSE "task_failed"
      /\ cur'.evaluation = [NoEvaluation EXCEPT !.passed = IF kept THEN "true" ELSE "false"]
      /\ ~cur'.patch
  BY <1>3, <1>4 DEF IInv, Types, RunTypes, RunRecord, Blank
<1>6. Agree(cur)'
  BY <1>2, <1>5 DEF Agree, NoEvaluation
<1> QED BY <1>1, <1>2, <1>5, <1>6, EarlyStands

LEMMA AwaitStands == IInv /\ Await => Stands' /\ EvidenceIsWhole'
<1> SUFFICES ASSUME IInv, Await PROVE Stands' /\ EvidenceIsWhole'
  OBVIOUS
<1>1. PICK s \in {"search", "edit", "compact"} : Provided(s)
  BY Awaits
<1>2. Steady /\ UNCHANGED <<runJson, rows, artifacts>> /\ stage \in {"search", "edit", "compact"}
  BY <1>1 DEF Provided, Steady, files
<1>3. stage \in Early /\ stage \in DOMAIN Flow /\ kind' = kind
  BY <1>2, EarlyStage, Frame DEF Early, IInv, Steady
<1>4. Blank(cur)
  BY <1>3 DEF IInv, Stands, Unjudged
<1>5. After(stage) \in Early
  BY <1>2, <1>3, FlowSteps DEF IInv, Types, Control
<1>6. CASE Advance /\ UNCHANGED cur
  BY <1>2, <1>3, <1>4, <1>5, <1>6, EarlyStands DEF Advance, Goto, Blank
<1>7. CASE Thrown /\ UNCHANGED cur
  BY <1>2, <1>3, <1>4, <1>7, Thrower, EarlyStands DEF Blank
<1>8. CASE /\ kind = "search"
           /\ cur' = [cur EXCEPT !.state = "provider_error"]
           /\ stage' \in {"collect", "agent"}
  <2>1. cur'.state = "provider_error" /\ cur'.evaluation = NoEvaluation /\ ~cur'.patch
    BY <1>8, <1>4 DEF IInv, Types, RunTypes, RunRecord, Blank
  <2>2. Blank(cur)' /\ Agree(cur)'
    BY <1>3, <1>8, <2>1 DEF Blank, Agree, NoEvaluation
  <2>3. stage' \in Early \cup {"collect"}
    BY <1>8 DEF Early
  <2> QED BY <1>2, <1>3, <2>1, <2>2, <2>3, EarlyStands
<1>9. CASE cur' = [cur EXCEPT !.edit = "ok"] /\ Advance
  <2>1. Blank(cur)'
    BY <1>3, <1>4, <1>9 DEF IInv, Types, RunTypes, RunRecord, Blank
  <2> QED BY <1>2, <1>3, <1>5, <1>9, <2>1, EarlyStands DEF Advance, Goto
<1>10. CASE /\ \E e \in {"ok", "failed", "invalid"} :
                 cur' = [cur EXCEPT !.edit = e, !.state = "task_failed"]
            /\ kind = "edit" /\ stage' = "collect"
  <2>1. cur'.state = "task_failed" /\ cur'.evaluation = NoEvaluation /\ ~cur'.patch
    BY <1>10, <1>4 DEF IInv, Types, RunTypes, RunRecord, Blank
  <2>2. Agree(cur)'
    BY <1>3, <1>10, <2>1 DEF Agree, NoEvaluation
  <2> QED BY <1>2, <1>3, <1>10, <2>1, <2>2, EarlyStands
<1> QED BY Awaits, <1>6, <1>7, <1>8, <1>9, <1>10

(* A step with which an exception leaves the study, or its configuration.  *)
LEMMA AbortedStands ==
  ASSUME IInv, Steady, stage' = "abort", UNCHANGED <<runJson, rows, artifacts>>
  PROVE  Stands' /\ EvidenceIsWhole'
<1>1. Unjudged' /\ Judged' /\ Stored' /\ Written'
  BY DEF Unjudged, Judged, Stored, Written, ToRecord, Early, Kept, Over
<1>2. Fresh'
  BY DEF IInv, Stands, Fresh, Early, Kept, Steady
<1>3. EvidenceIsWhole'
  BY EvidenceStays DEF IInv, Steady
<1> QED BY <1>1, <1>2, <1>3 DEF Stands

(* Only the context study records a run after its catch block. *)
LEMMA CaughtStands ==
  ASSUME IInv, Steady, stage \in Kept, stage' = "catch", UNCHANGED <<runJson, rows>>,
         kind = "context" /\ cur'.patch =>
            artifacts'[at] # "absent" /\ (inv = 1 => artifacts'[at] = "whole"),
         \A c \in Config \ {at} : artifacts'[c] = artifacts[c],
         artifacts'[at] = artifacts[at] \/ artifacts'[at] = "whole"
  PROVE  Stands' /\ EvidenceIsWhole'
<1>1. Unjudged' /\ Judged' /\ Written'
  BY DEF Unjudged, Judged, Written, Early, Kept, Over
<1>2. Stored'
  BY Frame DEF Stored, ToRecord, Steady
<1>3. Fresh'
  BY FreshStays DEF IInv, Stands, Early, Kept
<1>4. EvidenceIsWhole'
  BY EvidenceStays DEF IInv, Steady
<1> QED BY <1>1, <1>2, <1>3, <1>4 DEF Stands

LEMMA ThrowStands == IInv /\ Throw => Stands' /\ EvidenceIsWhole'
<1> SUFFICES ASSUME IInv, Throw PROVE Stands' /\ EvidenceIsWhole'
  OBVIOUS
<1>1. /\ Steady /\ UNCHANGED <<runJson, rows, artifacts>> /\ cur' = cur
      /\ stage' = "abort" \/ (stage' = "catch" /\ stage \in InTry)
      /\ stage \in Early \cup {"collect", "row", "write"}
  BY DEF Throw, Steady, files, Early, Thrown, Goto
<1>2. CASE stage' = "abort"
  BY <1>1, <1>2, AbortedStands
<1>3. CASE stage' = "catch" /\ stage \in Early
  BY <1>1, <1>3, EarlyStands DEF IInv, Stands, Unjudged, Blank
<1>4. CASE stage' = "catch" /\ stage \in {"collect", "row", "write"}
  <2>1. kind = "context" => ~cur.patch
    BY <1>1, <1>4 DEF InTry, IInv, Stands, Stored
  <2> QED BY <1>1, <1>4, <2>1, CaughtStands DEF Kept
<1> QED BY <1>1, <1>2, <1>3, <1>4

(* A step that records the run and leaves the artifacts alone. *)
LEMMA RecordStands ==
  ASSUME IInv, Steady, stage \in Kept, stage' \in {"close", "write", "filling"},
         UNCHANGED <<artifacts>>, Agree(cur)', Stored', Written'
  PROVE  Stands'
<1>1. Unjudged' /\ Judged'
  BY DEF Unjudged, Judged, Early, Kept, Over
<1>2. Fresh'
  BY FreshStays DEF IInv, Stands, Early, Kept
<1> QED BY <1>1, <1>2 DEF Stands

LEMMA CollectStands == IInv /\ Collect => Stands' /\ EvidenceIsWhole'
<1> SUFFICES ASSUME IInv, Collect PROVE Stands' /\ EvidenceIsWhole'
  OBVIOUS
<1>1. Steady /\ UNCHANGED <<runJson, rows>> /\ stage = "collect" /\ kind' = kind
  BY Frame DEF Collect, Steady
<1>2. /\ cur'.patch /\ cur'.state = cur.state /\ cur'.root = cur.root
      /\ cur'.evaluation = cur.evaluation
  BY DEF Collect, IInv, Types, RunTypes, RunRecord
<1>3. Agree(cur)'
  BY <1>1, <1>2 DEF IInv, Stands, Judged, Kept, Agree
<1>4. /\ at \in Config /\ \A c \in Config \ {at} : artifacts'[c] = artifacts[c]
      /\ artifacts'[at] = IF artifacts[at] = "absent" THEN "partial" ELSE artifacts[at]
  BY DEF Collect, IInv, Types, Control, FileTypes
<1>5. /\ stage' \in {"put", "row", "catch", "abort"}
      /\ stage' # "put" => artifacts[at] # "absent"
  BY EndSteps, Thrower DEF Collect, Advance, Goto
<1>6. inv = 1 => artifacts[at] = "absent"
  BY <1>1 DEF IInv, Stands, Fresh
<1>7. Unjudged' /\ Judged' /\ Written'
  BY <1>3, <1>5 DEF Unjudged, Judged, Written, Early, Kept, Over
<1>8. Stored'
  BY <1>1, <1>2, <1>4, <1>5, <1>6 DEF Stored, ToRecord, Steady
<1>9. Fresh'
  BY <1>1, <1>4, <1>5, FreshStays DEF IInv, Stands, Early, Kept
<1>10. EvidenceIsWhole'
  BY <1>1, <1>4, EvidenceStays DEF IInv, Steady
<1> QED BY <1>7, <1>8, <1>9, <1>10 DEF Stands

LEMMA PutContentStands == IInv /\ PutContent => Stands' /\ EvidenceIsWhole'
<1> SUFFICES ASSUME IInv, PutContent PROVE Stands' /\ EvidenceIsWhole'
  OBVIOUS
<1>1. /\ Steady /\ UNCHANGED <<runJson, rows>> /\ stage = "put" /\ stage \in Kept /\ kind' = kind
      /\ cur.patch /\ Agree(cur) /\ at \in Config
  BY Frame DEF PutContent, Steady, Kept, IInv, Stands, Stored, Judged, Types, Control
<1>2. CASE stage' = "abort"
  <2>1. Unjudged' /\ Judged' /\ Stored' /\ Written'
    BY <1>2 DEF Unjudged, Judged, Stored, Written, ToRecord, Early, Kept, Over
  <2>2. \A c \in Config : artifacts'[c] = artifacts[c] \/ artifacts'[c] = "whole"
    BY DEF PutContent, IInv, Types, FileTypes
  <2>3. Fresh'
    BY <1>1, <1>2 DEF IInv, Stands, Fresh, Types, Control, Early, Kept, Steady, Over
  <2>4. EvidenceIsWhole'
    BY <1>1, <2>2, EvidenceStays DEF IInv, Steady
  <2> QED BY <2>1, <2>3, <2>4 DEF Stands
<1>3. CASE artifacts' = [artifacts EXCEPT ![at] = "whole"] /\ cur' = cur /\ stage' # "abort"
  <2>1. /\ \A c \in Config \ {at} : artifacts'[c] = artifacts[c]
        /\ artifacts'[at] = "whole"
    BY <1>1, <1>3 DEF IInv, Types, FileTypes
  <2>2. stage' \in {"row", "catch"}
    BY <1>1, <1>3, EndSteps, Thrower DEF PutContent, Advance, Goto
  <2>3. CASE stage' = "catch"
    BY <1>1, <2>1, <2>3, CaughtStands
  <2>4. CASE stage' = "row"
    <3>1. Unjudged' /\ Judged' /\ Stored' /\ Written'
      BY <1>1, <1>3, <2>1, <2>4
         DEF Unjudged, Judged, Stored, Written, ToRecord, Early, Kept, Over, Agree, Steady
    <3>2. Fresh'
      BY <1>1, <2>1, <2>4, FreshStays DEF IInv, Stands, Early
    <3>3. EvidenceIsWhole'
      BY <1>1, <2>1, EvidenceStays DEF IInv, Steady
    <3> QED BY <3>1, <3>2, <3>3 DEF Stands
  <2> QED BY <2>2, <2>3, <2>4
<1>4. CASE cur' = [cur EXCEPT !.patch = FALSE] /\ artifacts' = artifacts /\ Thrown /\ stage' # "abort"
  <2>1. ~cur'.patch /\ stage' = "catch"
    BY <1>4, Thrower DEF IInv, Types, RunTypes, RunRecord
  <2> QED BY <1>1, <1>4, <2>1, CaughtStands
<1> QED BY <1>2, <1>3, <1>4 DEF PutContent

LEMMA RecordRowStands == IInv /\ RecordRow => Stands' /\ EvidenceIsWhole'
<1> SUFFICES ASSUME IInv, RecordRow PROVE Stands' /\ EvidenceIsWhole'
  OBVIOUS
<1>1. /\ Steady /\ UNCHANGED <<runJson, artifacts>> /\ stage = "row" /\ stage \in Kept
      /\ cur' = cur /\ kind' = kind /\ stage' = "close" /\ at \in Config
  BY Frame, EndSteps DEF RecordRow, Steady, Kept, Advance, Goto, IInv, Types, Control
<1>2. \A c \in Config : rows'[c] = IF c = at THEN rows[c] \cup {inv} ELSE rows[c]
  BY DEF RecordRow, IInv, Types, FileTypes
<1>3. Agree(cur)'
  BY <1>1 DEF IInv, Stands, Judged, Agree
<1>4. Stored' /\ Written'
  BY <1>1, <1>2 DEF IInv, Stands, Stored, ToRecord, Written, Steady
<1>5. EvidenceIsWhole'
  BY <1>1, <1>2, EvidenceStays DEF IInv, Steady
<1> QED BY <1>1, <1>3, <1>4, <1>5, RecordStands

LEMMA CloseRootStands == IInv /\ CloseRoot => Stands' /\ EvidenceIsWhole'
<1> SUFFICES ASSUME IInv, CloseRoot PROVE Stands' /\ EvidenceIsWhole'
  OBVIOUS
<1>1. /\ Steady /\ UNCHANGED <<runJson, rows, artifacts>> /\ stage = "close" /\ stage \in Kept
      /\ kind' = kind /\ at \in Config /\ Agree(cur)
  BY Frame DEF CloseRoot, Steady, Kept, files, IInv, Types, Control, Stands, Judged
<1>2. /\ cur'.patch = cur.patch /\ cur'.state = cur.state /\ cur'.evaluation = cur.evaluation
  BY DEF CloseRoot, IInv, Types, RunTypes, RunRecord
<1>3. CASE stage' = "abort"
  BY <1>1, <1>3, AbortedStands
<1>4. CASE stage' = "catch"
  <2>1. kind # "context"
    BY <1>1, <1>4, EndSteps DEF CloseRoot, Advance, Thrown, Goto, InTry
  <2> QED BY <1>1, <1>4, <2>1, CaughtStands
<1>5. CASE stage' = "write" /\ cur'.root = IF cur.state = "resolved" THEN "ok" ELSE "error"
  <2>1. Agree(cur)'
    BY <1>1, <1>2, <1>5 DEF Agree
  <2>2. Stored' /\ Written'
    BY <1>1, <1>2, <1>5 DEF IInv, Stands, Stored, ToRecord, Written, Steady
  <2>3. EvidenceIsWhole'
    BY <1>1, EvidenceStays DEF IInv, Steady
  <2> QED BY <1>1, <1>5, <2>1, <2>2, <2>3, RecordStands
<1>6. \/ stage' \in {"abort", "catch"}
      \/ stage' = "write" /\ cur'.root = IF cur.state = "resolved" THEN "ok" ELSE "error"
  <2>1. CASE Thrown
    BY <2>1, Thrower
  <2>2. CASE Advance /\ cur' = cur /\ kind = "context" /\ cur.state = "provider_error"
    BY <1>1, <2>2, EndSteps DEF Advance, Goto, Agree
  <2>3. CASE Advance /\ cur' = [cur EXCEPT !.root = IF cur.state = "resolved" THEN "ok" ELSE "error"]
    BY <1>1, <2>3, EndSteps DEF Advance, Goto, IInv, Types, RunTypes, RunRecord
  <2> QED BY <2>1, <2>2, <2>3 DEF CloseRoot
<1> QED BY <1>3, <1>4, <1>5, <1>6

LEMMA WriteRunStands == IInv /\ WriteRun => Stands' /\ EvidenceIsWhole'
<1> SUFFICES ASSUME IInv, WriteRun PROVE Stands' /\ EvidenceIsWhole'
  OBVIOUS
<1>1. /\ Steady /\ UNCHANGED <<rows, artifacts>> /\ stage = "write" /\ stage \in Kept
      /\ cur' = cur /\ kind' = kind /\ stage' = "filling" /\ at \in Config
  BY Frame, EndSteps DEF WriteRun, Steady, Kept, Advance, Goto, IInv, Types, Control
<1>2. /\ runJson'[at] = Recorded(FALSE)
      /\ \A c \in Config \ {at} : runJson'[c] = runJson[c]
  BY <1>1 DEF WriteRun, IInv, Types, FileTypes
<1>3. Recorded(FALSE)' = Recorded(FALSE) /\ ~Recorded(FALSE).whole
  BY <1>1 DEF Recorded, Category, SearchCategory, EditCategory, AdaptiveCategory,
              ContextCategory, Steady
<1>4. Agree(cur)'
  BY <1>1 DEF IInv, Stands, Judged, Agree
<1>5. Stored' /\ Written'
  BY <1>1, <1>2, <1>3 DEF IInv, Stands, Stored, ToRecord, Written, Steady
<1>6. EvidenceIsWhole'
  <2> SUFFICES ASSUME NEW c \in Config, runJson'[c].whole
               PROVE  c # at /\ runJson'[c] = runJson[c]
    BY <1>1 DEF IInv, EvidenceIsWhole
  <2> QED BY <1>2, <1>3
<1> QED BY <1>1, <1>4, <1>5, <1>6, RecordStands

(* What is recorded of a run whose state and evaluation agree. *)
LEMMA CategoryFits ==
  ASSUME Types, Agree(cur)
  PROVE  cur.state = "resolved" <=> Category = "null"
<1>1. kind \in {"search", "edit", "context", "adaptive"}
  BY StudyAssumption DEF Types, Control, kind
<1>2. /\ cur.state \in {"resolved", "timeout", "task_failed", "environment_error", "provider_error"}
      /\ cur.evaluation.category \in {"null", "regression"}
      /\ cur.state = "resolved" => cur.evaluation.category = "null"
  BY DEF Types, RunTypes, RunRecord, Agree
<1>3. CASE kind = "search"
  <2>1. cur.state = "resolved" <=> SearchCategory = "null"
    BY <1>2 DEF SearchCategory
  <2> QED BY <1>3, <2>1 DEF Category
<1>4. CASE kind = "edit"
  <2>1. cur.state = "resolved" <=> EditCategory = "null"
    BY <1>2, <1>4 DEF EditCategory, Agree
  <2> QED BY <1>4, <2>1 DEF Category
<1>5. CASE kind = "adaptive"
  <2>1. cur.state = "resolved" <=> AdaptiveCategory = "null"
    BY <1>2 DEF AdaptiveCategory
  <2> QED BY <1>5, <2>1 DEF Category
<1>6. CASE kind = "context"
  <2>1. cur.state = "resolved" <=> ContextCategory = "null"
    BY <1>2 DEF ContextCategory
  <2> QED BY <1>6, <2>1 DEF Category
<1> QED BY <1>1, <1>3, <1>4, <1>5, <1>6

LEMMA FillRunStands == IInv /\ FillRun => Stands' /\ EvidenceIsWhole'
<1> SUFFICES ASSUME IInv, FillRun PROVE Stands' /\ EvidenceIsWhole'
  OBVIOUS
<1>1. /\ Steady /\ UNCHANGED <<rows, artifacts>> /\ stage = "filling" /\ stage \in Kept
      /\ cur' = cur /\ kind' = kind /\ at \in Config /\ Agree(cur)
      /\ runJson[at] = Recorded(FALSE)
  BY Frame DEF FillRun, Steady, Kept, IInv, Types, Control, Stands, Judged, Written
<1>2. CASE runJson' = runJson /\ Thrown
  <2>1. CASE stage' = "abort"
    BY <1>1, <1>2, <2>1, AbortedStands
  <2>2. CASE stage' = "catch"
    <3>1. kind # "context"
      BY <1>1, <1>2, <2>2 DEF Thrown, Goto, InTry
    <3> QED BY <1>1, <1>2, <2>2, <3>1, CaughtStands
  <2> QED BY <1>2, <2>1, <2>2, Thrower
<1>3. CASE runJson' = [runJson EXCEPT ![at].whole = TRUE] /\ stage' = "leave"
  <2>1. Unjudged' /\ Judged' /\ Stored' /\ Written'
    BY <1>3 DEF Unjudged, Judged, Stored, Written, ToRecord, Early, Kept, Over
  <2>2. Fresh'
    BY <1>1, <1>3 DEF IInv, Stands, Fresh, Types, Control, Early, Kept, Steady, Over
  <2>3. /\ \A c \in Config \ {at} : runJson'[c] = runJson[c]
        /\ runJson'[at].inv = inv /\ runJson'[at].state = cur.state
        /\ runJson'[at].passed = cur.evaluation.passed /\ runJson'[at].category = Category
        /\ runJson'[at].root = cur.root /\ runJson'[at].patch = cur.patch
    <3>1. runJson'[at] = [Recorded(FALSE) EXCEPT !.whole = TRUE]
          /\ \A c \in Config \ {at} : runJson'[c] = runJson[c]
      BY <1>1, <1>3 DEF IInv, Types, FileTypes
    <3> QED BY <3>1 DEF Recorded
  <2>4. /\ inv \in rows[at]
        /\ cur.root = IF cur.state = "resolved" THEN "ok" ELSE "error"
        /\ cur.patch => artifacts[at] # "absent" /\ (inv = 1 => artifacts[at] = "whole")
        /\ ~cur.patch => kind = "context" /\ cur.state = "provider_error"
    BY <1>1 DEF IInv, Stands, Written, Stored, ToRecord
  <2>5. /\ cur.state = "resolved" <=> Category = "null"
        /\ cur.state = "resolved" => cur.evaluation.passed = "true"
        /\ cur.evaluation.passed = "true" => cur.state = "resolved"
              \/ (kind = "context" /\ cur.state = "provider_error")
    BY <1>1, CategoryFits DEF IInv, Agree
  <2>6. ASSUME NEW c \in Config, c # at
        PROVE  rows'[c] = rows[c] /\ artifacts'[c] = artifacts[c] /\ runJson'[c] = runJson[c]
    BY <1>1, <2>3, <2>6
  <2>7. EvidenceIsWhole'
    BY <1>1, <2>3, <2>4, <2>5, <2>6 DEF IInv, EvidenceIsWhole
  <2> QED BY <2>1, <2>2, <2>7 DEF Stands
<1> QED BY <1>1, <1>2, <1>3, EndSteps DEF FillRun, Advance, Goto

LEMMA CatchStands == IInv /\ Catch => Stands' /\ EvidenceIsWhole'
<1> SUFFICES ASSUME IInv, Catch PROVE Stands' /\ EvidenceIsWhole'
  OBVIOUS
<1>1. /\ Steady /\ UNCHANGED <<runJson, rows, artifacts>> /\ stage = "catch" /\ kind' = kind
  BY Frame DEF Catch, Steady, files
<1>2. CASE stage' = "abort"
  BY <1>1, <1>2, AbortedStands
<1>3. CASE cur' = Caught /\ stage' = "report"
  <2>1. kind = "context" => /\ cur'.state = "provider_error" /\ cur'.root = "error"
                            /\ cur'.patch = cur.patch
    BY <1>3 DEF Caught, ContextCaught, IInv, Types, RunTypes, RunRecord
  <2>2. Unjudged' /\ Judged' /\ Written'
    BY <1>1, <1>3, <2>1 DEF Unjudged, Judged, Written, Early, Kept, Over
  <2>3. Stored'
    BY <1>1, <1>3, <2>1 DEF IInv, Stands, Stored, ToRecord, Steady
  <2>4. Fresh'
    BY <1>1, <1>3, FreshStays DEF IInv, Stands, Early
  <2>5. EvidenceIsWhole'
    BY <1>1, EvidenceStays DEF IInv, Steady
  <2> QED BY <2>2, <2>3, <2>4, <2>5 DEF Stands
<1> QED BY <1>2, <1>3 DEF Catch, Goto

LEMMA ReportStands == IInv /\ Report => Stands' /\ EvidenceIsWhole'
<1> SUFFICES ASSUME IInv, Report PROVE Stands' /\ EvidenceIsWhole'
  OBVIOUS
<1>1. /\ Steady /\ UNCHANGED <<runJson, rows, artifacts>> /\ stage = "report" /\ kind' = kind
      /\ cur' = cur
  BY Frame DEF Report, Steady
<1>2. CASE stage' = "abort"
  BY <1>1, <1>2, AbortedStands
<1>3. CASE stage' = "row" /\ kind = "context"
  <2>1. cur.state = "provider_error" /\ cur.root = "error"
    BY <1>1, <1>3 DEF IInv, Stands, Judged
  <2>2. Unjudged' /\ Judged' /\ Written'
    BY <1>1, <1>3, <2>1 DEF Unjudged, Judged, Written, Early, Kept, Over, Agree
  <2>3. Stored'
    BY <1>1, <1>3, <2>1 DEF IInv, Stands, Stored, ToRecord, Steady
  <2>4. Fresh'
    BY <1>1, <1>3, FreshStays DEF IInv, Stands, Early
  <2>5. EvidenceIsWhole'
    BY <1>1, EvidenceStays DEF IInv, Steady
  <2> QED BY <2>2, <2>3, <2>4, <2>5 DEF Stands
<1>4. CASE stage' = "leave"
  <2>1. Unjudged' /\ Judged' /\ Stored' /\ Written'
    BY <1>4 DEF Unjudged, Judged, Stored, Written, ToRecord, Early, Kept, Over
  <2>2. Fresh'
    BY <1>1, <1>4, FreshStays DEF IInv, Stands, Early
  <2>3. EvidenceIsWhole'
    BY <1>1, EvidenceStays DEF IInv, Steady
  <2> QED BY <2>1, <2>2, <2>3 DEF Stands
<1> QED BY <1>2, <1>3, <1>4 DEF Report, Goto

LEMMA LeaveStands == IInv /\ Leave => Stands' /\ EvidenceIsWhole'
<1> SUFFICES ASSUME IInv, Leave PROVE Stands' /\ EvidenceIsWhole'
  OBVIOUS
<1>1. /\ command' = command /\ inv' = inv /\ UNCHANGED <<runJson, rows, artifacts>>
      /\ stage = "leave" /\ kind' = kind /\ cur' = FreshRun
  BY Frame DEF Leave
<1>2. \/ stage' = "open" /\ at = 1 /\ at' = 2
      \/ stage' = "manifest"
  BY DEF Leave, Goto, Configurations, Config, IInv, Types, Control
<1>3. Unjudged' /\ Judged' /\ Stored' /\ Written'
  BY <1>1, <1>2 DEF Unjudged, Judged, Stored, Written, ToRecord, Early, Kept, Over, Blank,
                    FreshRun
<1>4. inv > 0
  BY <1>1 DEF IInv, Types, Control, Over
<1>5. Fresh'
  BY <1>1, <1>2, <1>4 DEF IInv, Stands, Fresh, Early, Kept
<1>6. EvidenceIsWhole'
  BY <1>1, EvidenceStays DEF IInv
<1> QED BY <1>3, <1>5, <1>6 DEF Stands

(* A process that ends keeps nothing but its files. *)
LEMMA ExitStands ==
  ASSUME IInv, NEW how \in Over, Exits(how), command' = command, inv' = inv, stage \notin Over,
         UNCHANGED <<runJson, rows, artifacts>>
  PROVE  Stands' /\ EvidenceIsWhole'
<1>1. stage' \in Over /\ cur' = FreshRun
  BY DEF Exits, Goto
<1>2. Unjudged' /\ Judged' /\ Stored' /\ Written'
  BY <1>1 DEF Unjudged, Judged, Stored, Written, ToRecord, Early, Kept, Over
<1>3. Fresh'
  BY <1>1 DEF IInv, Stands, Fresh, Early, Kept, Over
<1>4. EvidenceIsWhole'
  BY EvidenceStays DEF IInv
<1> QED BY <1>2, <1>3, <1>4 DEF Stands

LEMMA EndStands ==
  ASSUME IInv, Abort \/ OpenManifest \/ FillManifest \/ Crash
  PROVE  Stands' /\ EvidenceIsWhole'
<1>1. CASE Abort
  BY <1>1, ExitStands DEF Abort, Over
<1>2. CASE OpenManifest
  <2>1. /\ Steady /\ UNCHANGED <<runJson, rows, artifacts>> /\ stage = "manifest"
        /\ stage' = "manifesting" /\ cur' = cur
    BY <1>2 DEF OpenManifest, Steady, Goto
  <2>2. Unjudged' /\ Judged' /\ Stored' /\ Written'
    BY <2>1 DEF Unjudged, Judged, Stored, Written, ToRecord, Early, Kept, Over
  <2>3. Fresh'
    BY <2>1 DEF IInv, Stands, Fresh, Early, Kept, Steady
  <2>4. EvidenceIsWhole'
    BY <2>1, EvidenceStays DEF IInv, Steady
  <2> QED BY <2>2, <2>3, <2>4 DEF Stands
<1>3. CASE FillManifest
  BY <1>3, ExitStands DEF FillManifest, Over
<1>4. CASE Crash
  BY <1>4, ExitStands DEF Crash, files, Over
<1> QED BY <1>1, <1>2, <1>3, <1>4

LEMMA ReaderStands ==
  ASSUME IInv, UNCHANGED <<command, process, files>>
  PROVE  Stands' /\ EvidenceIsWhole'
<1>1. kind' = kind
  BY Frame
<1>2. Recorded(FALSE)' = Recorded(FALSE)
  BY <1>1 DEF Recorded, Category, SearchCategory, EditCategory, AdaptiveCategory,
              ContextCategory, process
<1>3. Unjudged' /\ Judged'
  BY <1>1 DEF IInv, Stands, Unjudged, Judged, Blank, Agree, process
<1>4. Stored' /\ Fresh' /\ Written'
  BY <1>1, <1>2 DEF IInv, Stands, Stored, ToRecord, Fresh, Written, process, files
<1>5. EvidenceIsWhole'
  BY FilesStayEvident DEF IInv
<1> QED BY <1>3, <1>4, <1>5 DEF Stands

LEMMA InitInv == Init => IInv
  BY InitTypes, InitStands DEF IInv

LEMMA NextInv == IInv /\ [Next]_vars => IInv'
<1> SUFFICES ASSUME IInv, [Next]_vars PROVE IInv'
  OBVIOUS
<1>1. Types'
  BY NextTypes DEF IInv, Stands
<1> SUFFICES Stands' /\ EvidenceIsWhole'
  BY <1>1 DEF IInv
<1>2. CASE Begin \/ Await \/ Throw \/ Crash
  BY <1>2, BeginStands, AwaitStands, ThrowStands, EndStands
<1>3. CASE Step
  BY <1>3, OpenStands, AcquireStands, SetupStands, AgentStands, JudgeStands, CollectStands,
     PutContentStands, RecordRowStands, CloseRootStands, WriteRunStands, FillRunStands,
     CatchStands, ReportStands, LeaveStands, EndStands DEF Step
<1>4. CASE Resume \/ Show \/ AllOver \/ UNCHANGED vars
  BY <1>4, ReadersStay, ReaderStands
<1> QED BY <1>2, <1>3, <1>4 DEF Next

LEMMA Invariance == Spec => []IInv
  BY InitInv, NextInv, PTL DEF Spec

\* A study's variables keep their types for any commands and failures.
THEOREM TypeCorrect == Spec => []TypeOK
<1>1. IInv => TypeOK
  <2> SUFFICES ASSUME IInv PROVE TypeOK
    OBVIOUS
  <2>1. command \in Commands /\ morph \in BOOLEAN
    BY DEF IInv, Types, Control
  <2>2. \A c \in Config : /\ runJson[c].inv \in 0..inv /\ errorJson[c] \in 0..inv
                          /\ rows[c] \subseteq 1..inv
                          /\ artifacts[c] \in {"absent", "partial", "whole"}
                          /\ left[c] \in BOOLEAN
    BY DEF IInv, Types, FileTypes
  <2>3. stage \in Over \cup DOMAIN Flow \cup DOMAIN Ending
                    \cup {"leave", "catch", "report", "abort", "manifest", "manifesting"}
    BY EndSteps DEF IInv, Types, Control, Around
  <2>4. cur.root \in {"none", "live", "ok", "error", "stuck"} /\ experimentJson.inv \in 0..inv
    BY DEF IInv, Types, RunTypes, RunRecord, FileTypes
  <2> QED BY <2>1, <2>2, <2>3, <2>4 DEF IInv, Types, Control, TypeOK
<1> QED BY <1>1, Invariance, PTL

\* For any commands and any number of invocations in one directory, whatever
\* fails and wherever they are killed, a run.json that parses is backed by the
\* database and the artifact store, and its parts agree.
THEOREM EvidenceCorrect == Spec => []EvidenceIsWhole
<1>1. IInv => EvidenceIsWhole
  BY DEF IInv
<1> QED BY <1>1, Invariance, PTL

-----------------------------------------------------------------------------
(* A configuration works in a workspace of its own making, and the context *)
(* study has none.                                                         *)
Working == (Early \ {"open", "acquire"}) \cup Kept

Holding ==
  /\ kind = "context" => \A c \in Config : ~left[c]
  /\ kind # "context" /\ stage \in Working => cur.workspace
  /\ stage \in {"open", "acquire", "manifest", "manifesting"} => ~cur.workspace

Untouched ==
  \A c \in Config :
     left[c] /\ ~(cur.workspace /\ at = c) =>
        left'[c] /\ ~(cur'.workspace /\ at' = c) /\ runJson'[c] = runJson[c]

(* Most steps neither take a workspace nor give one back. *)
LEMMA WorkingStep ==
  ASSUME IInv, Holding, Steady, left' = left, cur'.workspace = cur.workspace,
         stage' \in Working => stage \in Working \/ kind = "context",
         stage' \notin {"open", "acquire", "manifest", "manifesting"} \/ stage = "open"
            \/ stage = "manifest",
         \A c \in Config \ {at} : runJson'[c] = runJson[c],
         runJson' = runJson \/ stage \in Kept
  PROVE  Holding' /\ Untouched
<1>1. kind' = kind
  BY Frame DEF Steady
<1>2. Holding'
  BY <1>1 DEF Holding
<1>3. stage \in Kept => cur.workspace \/ kind = "context"
  BY DEF Holding, Working
<1>4. Untouched
  BY <1>3 DEF Holding, Untouched, Steady
<1> QED BY <1>2, <1>4

LEMMA InitHolding == Init => Holding
  BY DEF Init, Holding, Working, Early, Kept, FreshRun

LEMMA EarlyHolding ==
  ASSUME IInv, Holding, Open \/ Setup \/ Agent \/ Evaluate \/ Judge \/ Throw \/ Await
  PROVE  Holding' /\ Untouched
<1>1. Steady /\ UNCHANGED files
  BY DEF Open, Setup, Agent, Evaluate, Judge, Throw, Await, Steady, SearchStudySearches,
         EditStudyEdits, AdaptiveStudySearches, AdaptiveStudyEdits, AdaptiveStudyCompacts,
         ContextStudyCompacts, Provided
<1>2. CASE Open
  <2>1. stage = "open" /\ stage \in DOMAIN Flow
    BY <1>2, EarlyStage DEF Open, Early, IInv
  <2>2. stage' \in {"acquire", "abort"} \/ kind = "context"
    BY <1>2, <2>1, FlowSteps DEF Open, Advance, Goto, IInv, Types, Control
  <2>3. cur'.workspace = cur.workspace
    BY <1>2 DEF Open, IInv, Types, RunTypes, RunRecord
  <2> QED BY <1>1, <2>1, <2>2, <2>3, WorkingStep DEF files, Working, Early, Kept
<1>3. CASE Throw
  <2>1. cur' = cur /\ stage' \in {"catch", "abort"}
    BY <1>3, Thrower DEF Throw
  <2> QED BY <1>1, <2>1, WorkingStep DEF files, Working, Early, Kept
<1>4. CASE Setup \/ Agent \/ Evaluate \/ Judge \/ Await
  <2>1. stage \in Early \ {"open", "acquire"} /\ stage \in DOMAIN Flow
    BY <1>4, Awaits, EarlyStage DEF Setup, Agent, Evaluate, Judge, Provided, Early, IInv
  <2>2. cur'.workspace = cur.workspace
    <3>1. CASE Await
      BY <3>1, Awaits DEF IInv, Types, RunTypes, RunRecord
    <3>2. CASE EvaluateRun
      BY <3>2 DEF EvaluateRun, IInv, Types, RunTypes, RunRecord
    <3>3. CASE Setup \/ (Agent /\ ~EvaluateRun)
      BY <3>3 DEF Setup, Agent, IInv, Types, RunTypes, RunRecord
    <3>4. CASE Judge
      BY <3>4 DEF Judge, IInv, Types, RunTypes, RunRecord
    <3> QED BY <1>4, <3>1, <3>2, <3>3, <3>4 DEF Evaluate
  <2>3. stage' \notin {"open", "acquire", "manifest", "manifesting"}
    <3>1. After(stage) \in Early \cup {"collect"} /\ After(stage) \notin {"open", "acquire"}
      BY <2>1, FlowSteps DEF IInv, Types, Control
    <3> QED BY <1>4, <3>1, Awaits, Thrower DEF Setup, Agent, Evaluate, Judge, Advance, Goto, Early
  <2> QED BY <1>1, <2>1, <2>2, <2>3, WorkingStep DEF files, Working
<1> QED BY <1>2, <1>3, <1>4

LEMMA AcquireHolding == IInv /\ Holding /\ Acquire => Holding' /\ Untouched
<1> SUFFICES ASSUME IInv, Holding, Acquire PROVE Holding' /\ Untouched
  OBVIOUS
<1>1. stage = "acquire" /\ ~cur.workspace /\ runJson' = runJson /\ at' = at /\ at \in Config
  BY DEF Acquire, Holding, IInv, Types, Control
<1>2. kind # "context" /\ kind' = kind
  BY <1>1, EarlyStage, FlowSteps, Frame DEF Acquire, Early, IInv, Types, Control
<1>3. CASE left[at]
  BY <1>1, <1>2, <1>3, Thrower DEF Acquire, Holding, Untouched, Working, Early, Kept
<1>4. CASE ~left[at]
  <2>1. cur'.workspace /\ \A c \in Config \ {at} : left'[c] = left[c]
    BY <1>4 DEF Acquire, IInv, Types, RunTypes, RunRecord, FileTypes
  <2>2. stage' \notin {"open", "acquire", "manifest", "manifesting"}
    <3>1. stage \in DOMAIN Flow
      BY <1>1, EarlyStage DEF Early, IInv
    <3>2. After(stage) \in Early \cup {"collect"} /\ After(stage) \notin {"open", "acquire"}
      BY <1>1, <3>1, FlowSteps DEF IInv, Types, Control
    <3> QED BY <1>4, <3>2 DEF Acquire, Advance, Goto, Early
  <2> QED BY <1>1, <1>2, <1>4, <2>1, <2>2 DEF Holding, Untouched
<1> QED BY <1>3, <1>4

LEMMA KeptHolding ==
  ASSUME IInv, Holding,
         Collect \/ PutContent \/ RecordRow \/ CloseRoot \/ WriteRun \/ FillRun \/ Catch \/ Report
            \/ OpenManifest
  PROVE  Holding' /\ Untouched
<1>1. Steady /\ left' = left
  BY DEF Collect, PutContent, RecordRow, CloseRoot, WriteRun, FillRun, Catch, Report,
         OpenManifest, Steady, files
<1>2. cur'.workspace = cur.workspace
  <2>1. kind \in {"search", "edit", "context", "adaptive"}
    BY StudyAssumption DEF IInv, Types, Control, kind
  <2>2. Caught.workspace = cur.workspace
    BY <2>1 DEF Caught, SearchCaught, EditCaught, ContextCaught, AdaptiveCaught, IInv, Types,
                RunTypes, RunRecord
  <2> QED BY <2>2 DEF Collect, PutContent, RecordRow, CloseRoot, WriteRun, FillRun, Catch, Report,
                      OpenManifest, IInv, Types, RunTypes, RunRecord
<1>3. /\ \A c \in Config \ {at} : runJson'[c] = runJson[c]
      /\ runJson' = runJson \/ stage \in Kept
  BY DEF Collect, PutContent, RecordRow, CloseRoot, WriteRun, FillRun, Catch, Report,
         OpenManifest, files, Kept, IInv, Types, FileTypes
<1>4. /\ stage' \notin {"open", "acquire", "manifest", "manifesting"} \/ stage = "manifest"
      /\ stage' \in Working => stage \in Kept \/ kind = "context"
  <2>1. CASE Collect \/ PutContent \/ RecordRow \/ CloseRoot \/ WriteRun \/ FillRun
    BY <2>1, EndSteps, Thrower DEF Collect, PutContent, RecordRow, CloseRoot, WriteRun, FillRun,
                                   Advance, Goto, Kept
  <2>2. CASE Catch \/ Report \/ OpenManifest
    BY <2>2 DEF Catch, Report, OpenManifest, Goto, Working, Early, Kept
  <2> QED BY <2>1, <2>2
<1> QED BY <1>1, <1>2, <1>3, <1>4, WorkingStep DEF Working

LEMMA EndHolding ==
  ASSUME IInv, Holding, Begin \/ Leave \/ Abort \/ FillManifest \/ Crash
  PROVE  Holding' /\ Untouched
<1>1. command' = command /\ kind' = kind /\ runJson' = runJson
  BY Frame DEF Begin, Leave, Abort, FillManifest, Crash, files
<1>2. ~cur'.workspace
  BY DEF Begin, Leave, Abort, FillManifest, Crash, Exits, FreshRun, IInv, Stands, Unjudged
<1>3. stage' \notin Working
  BY DEF Begin, Leave, Abort, FillManifest, Crash, Exits, Goto, Working, Early, Kept
<1>4. \/ left' = left
      \/ left' = [left EXCEPT ![at] = left[at] /\ ~cur.workspace]
  BY DEF Begin, Leave, Abort, FillManifest, Crash, Dispose, files
<1>5. left \in [Config -> BOOLEAN]
  BY DEF IInv, Types, FileTypes
<1>6. \A c \in Config : /\ left'[c] => left[c]
                        /\ left[c] /\ ~(cur.workspace /\ at = c) => left'[c]
  BY <1>4, <1>5
<1> QED BY <1>1, <1>2, <1>3, <1>6 DEF Holding, Untouched

LEMMA NextHolding == IInv /\ Holding /\ [Next]_vars => Holding' /\ [Untouched]_vars
<1> SUFFICES ASSUME IInv, Holding, [Next]_vars PROVE Holding' /\ [Untouched]_vars
  OBVIOUS
<1>1. CASE Begin \/ Await \/ Throw \/ Crash
  BY <1>1, EndHolding, EarlyHolding
<1>2. CASE Step
  BY <1>2, EarlyHolding, AcquireHolding, KeptHolding, EndHolding DEF Step
<1>3. CASE Resume \/ Show \/ AllOver \/ UNCHANGED vars
  <2>1. UNCHANGED <<command, process, files>> /\ kind' = kind
    BY <1>3, ReadersStay, Frame
  <2> QED BY <2>1 DEF Holding, Untouched, process, files
<1> QED BY <1>1, <1>2, <1>3 DEF Next

\* For any commands and invocations, a workspace that a killed invocation left
\* behind is never adopted or removed, and blocks what would be written there.
THEOREM LeftoverStays == Spec => LeftoverBlocks
<1>1. Spec => [](IInv /\ Holding)
  BY InitInv, NextInv, InitHolding, NextHolding, PTL DEF Spec
<1>2. IInv /\ Holding /\ [Next]_vars => [Untouched]_vars
  BY NextHolding
<1>3. Spec => [][Untouched]_vars
  BY <1>1, <1>2, PTL DEF Spec
<1> QED BY <1>3 DEF LeftoverBlocks, Untouched

-----------------------------------------------------------------------------
(* What a study's manifest and its readers say: an entry of a whole        *)
(* manifest is backed by files, and what `experiment resume', a page or a  *)
(* published snapshot shows is true although its files are read one by one *)
(* while the study may be running again.                                   *)
Running == stage \notin Over

(* The invocation has a result for the configuration. *)
Finished(c) == stage \in {"manifest", "manifesting"} \/ c < at

(* A run of the configuration is the one that the invocation under way, or *)
(* the manifest, has a result of: they say the same of it.                 *)
Told(c, run) ==
  /\ Running /\ run.inv = inv =>
       \/ Finished(c) /\ (entries[c] = "resolved" <=> run.state = "resolved")
       \/ stage = "leave" /\ c = at /\ run.state = cur.state
  /\ run.inv = experimentJson.inv =>
       (experimentJson.entries[c] = "resolved" <=> run.state = "resolved")

(* The manifest is the last file of its invocation. *)
ManifestIsLast ==
  /\ Running => (experimentJson.inv = inv <=> stage = "manifesting")
  /\ experimentJson.inv = 0 => ~experimentJson.whole

RunsTold == \A c \in Config : runJson[c].whole => Told(c, runJson[c])

(* An entry of the invocation can be looked up in its configuration's directory. *)
Supported(c, i, entry) ==
  \/ /\ runJson[c].whole /\ runJson[c].inv = i
     /\ (runJson[c].state = "resolved") = (entry = "resolved")
  \/ errorJson[c] >= i /\ (errorJson[c] = i => entry # "resolved")
  \/ runJson[c].inv > i

Result == IF cur.state = "resolved" THEN "resolved" ELSE "failed"

EntriesSupported ==
  /\ experimentJson.inv > 0 =>
       \A c \in Configurations : Supported(c, experimentJson.inv, experimentJson.entries[c])
  /\ Running => \A c \in Configurations : Finished(c) => Supported(c, inv, entries[c])
  /\ stage = "leave" => Supported(at, inv, Result)
  /\ stage = "report" /\ kind # "context" => cur.state # "resolved"

(* Between two invocations the first configuration is next. *)
StartsAtFirst == ~Running => at = 1

ManifestInv == ManifestIsLast /\ RunsTold /\ EntriesSupported /\ StartsAtFirst

(* What a reader has seen so far. *)
SeenTold ==
  \A c \in Config : reader.seen[c] # Unseen =>
     /\ reader.seen[c].inv \in rows[c]
     /\ reader.seen[c].inv = 1 => reader.seen[c].patch # "partial"
     /\ Told(c, reader.seen[c])

LinkedTold ==
  \A c \in Config : reader.seen[c] # Unseen /\ reader.linked[c] # "none" =>
     (reader.seen[c].state = "resolved" <=> reader.linked[c] = "resolved")

LookedUp ==
  reader.by = "resume" /\ ~reader.missing =>
    \A c \in Configurations : c < reader.next => reader.inv \in rows[c]

ReaderTypesInv ==
  /\ reader = [by |-> reader.by, inv |-> reader.inv, next |-> reader.next,
                missing |-> reader.missing, seen |-> reader.seen, linked |-> reader.linked,
                answer |-> reader.answer]
  /\ reader.seen = [c \in Config |-> reader.seen[c]]
  /\ reader.next \in 1..3
  /\ reader.by = "nobody" => reader = NoReader
  /\ reader.answer = "already_complete" =>
       reader.by = "resume" /\ ~reader.missing /\ reader.next \notin Configurations
  /\ reader.by = "resume" => reader.answer # "shown"
  /\ reader.answer # "shown" => reader.linked = NoEntries

ReaderInv == ReaderTypesInv /\ SeenTold /\ LinkedTold /\ LookedUp

-----------------------------------------------------------------------------
(* Most steps finish no configuration and change no result. *)
Aside ==
  /\ Steady /\ experimentJson' = experimentJson /\ reader' = reader
  /\ stage \notin Over \cup {"leave", "manifest", "manifesting"}
  /\ stage' \notin Over \cup {"leave", "manifest", "manifesting"}
  /\ \A c \in Config : rows[c] \subseteq rows'[c]

LEMMA EarlyAside ==
  ASSUME IInv, Open \/ Acquire \/ Setup \/ Agent \/ Evaluate \/ Judge \/ Throw \/ Await
  PROVE  /\ Aside /\ runJson' = runJson /\ errorJson' = errorJson
         /\ stage' # "report"
<1>1. /\ Steady /\ reader' = reader
      /\ runJson' = runJson /\ errorJson' = errorJson /\ rows' = rows
      /\ experimentJson' = experimentJson
  BY DEF Open, Acquire, Setup, Agent, Evaluate, Judge, Throw, Await, Steady, SearchStudySearches,
         EditStudyEdits, AdaptiveStudySearches, AdaptiveStudyEdits, AdaptiveStudyCompacts,
         ContextStudyCompacts, Provided, files
<1>2. stage \in Early \cup {"collect", "row", "write"}
  BY Awaits DEF Open, Acquire, Setup, Agent, Evaluate, Judge, Throw, Provided, Early
<1>3. stage' \in Early \cup {"collect", "catch", "abort"}
  <2>1. CASE Throw
    BY <2>1, Thrower DEF Throw
  <2>2. CASE Open \/ Acquire \/ Setup \/ Agent \/ Evaluate \/ Judge \/ Await
    <3>1. stage \in DOMAIN Flow
      BY <2>2, Awaits, EarlyStage
         DEF Open, Acquire, Setup, Agent, Evaluate, Judge, Provided, Early, IInv
    <3>2. After(stage) \in Early \cup {"collect"}
      BY <3>1, FlowSteps DEF IInv, Types, Control
    <3> QED BY <2>2, <3>2, Awaits, Thrower
               DEF Open, Acquire, Setup, Agent, Evaluate, Judge, Advance, Goto, Early
  <2> QED BY <2>1, <2>2
<1> QED BY <1>1, <1>2, <1>3 DEF Aside, Early, Over

LEMMA KeptAside ==
  ASSUME IInv, Collect \/ PutContent \/ RecordRow \/ CloseRoot \/ Catch
  PROVE  /\ Aside /\ runJson' = runJson /\ errorJson' = errorJson
         /\ stage' = "report" => kind = "context" \/ cur'.state # "resolved"
<1>1. /\ Steady /\ reader' = reader
      /\ runJson' = runJson /\ errorJson' = errorJson
      /\ experimentJson' = experimentJson
  BY DEF Collect, PutContent, RecordRow, CloseRoot, Catch, Steady, files
<1>2. \A c \in Config : rows[c] \subseteq rows'[c]
  BY DEF Collect, PutContent, RecordRow, CloseRoot, Catch, files, IInv, Types, FileTypes
<1>3. stage \in Kept \cup {"catch"}
  BY DEF Collect, PutContent, RecordRow, CloseRoot, Catch, Kept
<1>4. stage' \in {"put", "row", "close", "write", "catch", "abort", "report"}
  BY EndSteps, Thrower DEF Collect, PutContent, RecordRow, CloseRoot, Catch, Advance, Goto
<1>5. stage' = "report" => cur'.state # "resolved"
  <2> SUFFICES ASSUME stage' = "report" PROVE cur'.state # "resolved"
    OBVIOUS
  <2>1. cur' = Caught
    BY EndSteps, Thrower DEF Collect, PutContent, RecordRow, CloseRoot, Catch, Advance, Goto
  <2>2. kind \in {"search", "edit", "context", "adaptive"}
    BY StudyAssumption DEF IInv, Types, Control, kind
  <2> QED BY <2>1, <2>2 DEF Caught, SearchCaught, EditCaught, ContextCaught, AdaptiveCaught,
                            IInv, Types, RunTypes, RunRecord
<1> QED BY <1>1, <1>2, <1>3, <1>4, <1>5 DEF Aside, Kept, Over

LEMMA WriteAside ==
  ASSUME IInv, WriteRun
  PROVE  /\ Aside /\ stage' # "report" /\ errorJson' = errorJson
         /\ at \in Config /\ runJson'[at].inv = inv /\ ~runJson'[at].whole
         /\ \A c \in Config \ {at} : runJson'[c] = runJson[c]
<1>1. Steady /\ rows' = rows /\ reader' = reader /\ errorJson' = errorJson
      /\ experimentJson' = experimentJson /\ at \in Config
  BY DEF WriteRun, Steady, IInv, Types, Control
<1>2. stage = "write" /\ stage' = "filling"
  BY EndSteps DEF WriteRun, Advance, Goto
<1>3. runJson'[at] = Recorded(FALSE) /\ \A c \in Config \ {at} : runJson'[c] = runJson[c]
  BY <1>1 DEF WriteRun, IInv, Types, FileTypes
<1> QED BY <1>1, <1>2, <1>3 DEF Aside, Over, Recorded

(* What was told stays told, whatever the study does. *)
LEMMA AsideTold ==
  ASSUME Aside, NEW c \in Config, NEW r, Told(c, r)
  PROVE  Told(c, r)'
  BY DEF Aside, Steady, Told, Running, Finished

LEMMA BeginTold ==
  ASSUME Begin, inv \in Nat, NEW c \in Config, NEW r, r.inv \in 0..inv, Told(c, r)
  PROVE  Told(c, r)'
  BY DEF Begin, Told, files

LEMMA FillRunTold ==
  ASSUME FillRun, NEW c \in Config, NEW r, Told(c, r), ManifestIsLast
  PROVE  Told(c, r)'
<1>1. stage = "filling" /\ stage' \in {"leave", "catch", "abort"}
  BY EndSteps, Thrower DEF FillRun, Advance, Goto
<1>2. inv' = inv /\ at' = at /\ entries' = entries /\ experimentJson' = experimentJson
  BY DEF FillRun
<1> QED BY <1>1, <1>2 DEF Told, Running, Finished, Over

LEMMA LeaveTold ==
  ASSUME IInv, Leave, NEW c \in Config, NEW r, Told(c, r)
  PROVE  Told(c, r)'
<1>1. /\ stage = "leave" /\ inv' = inv /\ experimentJson' = experimentJson
      /\ stage' = "manifest" \/ at' = at + 1
      /\ at \in Config /\ c \in Nat
  BY DEF Leave, Goto, IInv, Types, Control, Config
<1>2. /\ entries'[at] = Result
      /\ c # at => entries'[c] = entries[c]
  BY <1>1 DEF Leave, Result, IInv, Types, RunTypes
<1>3. CASE r.inv = inv
  <2>1. c < at \/ c = at
    BY <1>1, <1>3 DEF Told, Running, Finished, Over, Config
  <2>2. Finished(c)'
    BY <1>1, <2>1 DEF Finished, Config
  <2>3. entries'[c] = "resolved" <=> r.state = "resolved"
    BY <1>1, <1>2, <1>3 DEF Told, Running, Finished, Over, Config, Result
  <2> QED BY <1>1, <2>2, <2>3 DEF Told
<1>4. CASE r.inv # inv
  BY <1>1, <1>4 DEF Told
<1> QED BY <1>3, <1>4

LEMMA OpenManifestTold ==
  ASSUME OpenManifest, NEW c \in Config, NEW r, Told(c, r)
  PROVE  Told(c, r)'
<1>1. /\ stage = "manifest" /\ stage' = "manifesting" /\ inv' = inv /\ entries' = entries
      /\ experimentJson'.inv = inv /\ experimentJson'.entries = entries
  BY DEF OpenManifest, Goto
<1> QED BY <1>1 DEF Told, Running, Finished, Over

LEMMA ExitTold ==
  ASSUME IInv, Abort \/ FillManifest \/ Crash, NEW c \in Config, NEW r, Told(c, r)
  PROVE  Told(c, r)'
<1>1. stage' \in Over
  BY DEF Abort, FillManifest, Crash, Exits, Goto, Over
<1>2. /\ experimentJson'.inv = experimentJson.inv
      /\ experimentJson'.entries = experimentJson.entries
  BY DEF Abort, FillManifest, Crash, files, IInv, Types, FileTypes
<1> QED BY <1>1, <1>2 DEF Told, Running

LEMMA ReportTold ==
  ASSUME Report, NEW c \in Config, NEW r, Told(c, r), ManifestIsLast
  PROVE  Told(c, r)'
<1>1. /\ stage = "report" /\ stage' \in {"row", "leave", "abort"} /\ inv' = inv /\ at' = at
      /\ entries' = entries /\ experimentJson' = experimentJson
  BY DEF Report, Goto
<1> QED BY <1>1 DEF Told, Running, Finished, Over

-----------------------------------------------------------------------------
(* An entry that can be looked up still can when a later invocation writes. *)
LEMMA SupportStays ==
  ASSUME inv \in Nat, NEW c \in Config, NEW i \in Nat, NEW entry, Supported(c, i, entry),
         \/ runJson'[c] = runJson[c] /\ errorJson'[c] = errorJson[c]
         \/ runJson'[c].inv = inv /\ i < inv
         \/ runJson'[c] = runJson[c] /\ errorJson'[c] = inv /\ i < inv
  PROVE  Supported(c, i, entry)'
  BY DEF Supported

LEMMA InvNat == IInv => inv \in Nat /\ at \in Config /\ experimentJson.inv \in 0..inv
  BY StudyAssumption DEF IInv, Types, Control, FileTypes

LEMMA SupportUnchanged ==
  ASSUME IInv, EntriesSupported, Configurations' = Configurations,
         runJson' = runJson, errorJson' = errorJson, experimentJson' = experimentJson
  PROVE  experimentJson'.inv > 0 => \A c \in Configurations' :
            Supported(c, experimentJson.inv, experimentJson.entries[c])'
  BY DEF EntriesSupported, Supported

LEMMA AsideSupported ==
  ASSUME IInv, ManifestInv, Aside,
         \/ runJson' = runJson
         \/ runJson'[at].inv = inv /\ \A c \in Config \ {at} : runJson'[c] = runJson[c],
         errorJson' = errorJson,
         stage' = "report" => kind = "context" \/ cur'.state # "resolved"
  PROVE  EntriesSupported'
<1>1. /\ inv \in Nat /\ inv' = inv /\ at' = at /\ entries' = entries /\ at \in Config
      /\ experimentJson' = experimentJson /\ experimentJson.inv \in 0..inv
  BY InvNat DEF Aside, Steady
<1>2. Configurations' = Configurations /\ Configurations \subseteq Config /\ kind' = kind
  BY Frame DEF Configurations, Config, Aside, Steady
<1>3. Running /\ Running' /\ experimentJson.inv < inv
  <2>1. Running /\ Running' /\ stage # "manifesting"
    BY DEF Aside, Running
  <2> QED BY <1>1, <2>1 DEF ManifestInv, ManifestIsLast
<1>4. ASSUME NEW c \in Configurations, experimentJson.inv > 0
      PROVE  Supported(c, experimentJson.inv, experimentJson.entries[c])'
  <2>1. Supported(c, experimentJson.inv, experimentJson.entries[c]) /\ c \in Config
    BY <1>2, <1>4 DEF ManifestInv, EntriesSupported
  <2> QED BY <1>1, <1>3, <2>1, SupportStays DEF Supported
<1>5. ASSUME NEW c \in Configurations, Finished(c)'
      PROVE  Supported(c, inv, entries[c])'
  <2>1. c # at /\ Finished(c) /\ c \in Config
    BY <1>1, <1>2, <1>5 DEF Finished, Aside, Config
  <2>2. Supported(c, inv, entries[c])
    BY <1>3, <1>5, <2>1 DEF ManifestInv, EntriesSupported
  <2> QED BY <1>1, <2>1, <2>2 DEF Supported
<1> QED BY <1>1, <1>2, <1>4, <1>5 DEF EntriesSupported, Aside

LEMMA AsideManifest ==
  ASSUME IInv, ManifestInv, Aside,
         \/ runJson' = runJson
         \/ /\ runJson'[at].inv = inv /\ ~runJson'[at].whole
            /\ \A c \in Config \ {at} : runJson'[c] = runJson[c],
         errorJson' = errorJson,
         stage' = "report" => kind = "context" \/ cur'.state # "resolved"
  PROVE  ManifestInv'
<1>1. EntriesSupported'
  BY AsideSupported
<1>2. ManifestIsLast'
  BY DEF ManifestInv, ManifestIsLast, Aside, Steady, Running
<1>3. RunsTold'
  <2> SUFFICES ASSUME NEW c \in Config, runJson'[c].whole PROVE Told(c, runJson[c])'
    BY DEF RunsTold
  <2>1. runJson'[c] = runJson[c]
    OBVIOUS
  <2>2. Told(c, runJson[c])
    BY <2>1 DEF ManifestInv, RunsTold
  <2> QED BY <2>1, <2>2 DEF Aside, Steady, Told, Running, Finished
<1>4. StartsAtFirst'
  BY DEF StartsAtFirst, Running, Aside
<1> QED BY <1>1, <1>2, <1>3, <1>4 DEF ManifestInv

LEMMA BeginManifest == IInv /\ ManifestInv /\ Begin => ManifestInv'
<1> SUFFICES ASSUME IInv, ManifestInv, Begin PROVE ManifestInv'
  OBVIOUS
<1>1. /\ inv \in Nat /\ inv' = inv + 1 /\ at' = at /\ at \in Config /\ entries' = entries
      /\ runJson' = runJson /\ errorJson' = errorJson /\ experimentJson' = experimentJson
      /\ experimentJson.inv \in 0..inv /\ stage' = "open"
  BY InvNat DEF Begin, files, Goto
<1>2. Configurations' = Configurations
  BY Frame DEF Configurations, Begin
<1>3. ManifestIsLast'
  BY <1>1 DEF ManifestInv, ManifestIsLast
<1>4. RunsTold'
  <2> SUFFICES ASSUME NEW c \in Config, runJson[c].whole PROVE Told(c, runJson[c])'
    BY <1>1 DEF RunsTold
  <2>1. Told(c, runJson[c]) /\ runJson[c].inv \in 0..inv
    BY DEF ManifestInv, RunsTold, IInv, Types, FileTypes
  <2> QED BY <1>1, <2>1 DEF Told
<1>5. \A c \in Configurations : ~Finished(c)'
  BY <1>1 DEF Finished, Begin, Configurations, Config, ManifestInv, StartsAtFirst, Running
<1>6. EntriesSupported'
  BY <1>1, <1>2, <1>5, SupportUnchanged DEF ManifestInv, EntriesSupported
<1>7. StartsAtFirst'
  BY <1>1 DEF StartsAtFirst, Running, Over
<1> QED BY <1>3, <1>4, <1>6, <1>7 DEF ManifestInv

LEMMA ReportManifest == IInv /\ ManifestInv /\ Report => ManifestInv'
<1> SUFFICES ASSUME IInv, ManifestInv, Report PROVE ManifestInv'
  OBVIOUS
<1>1. /\ inv \in Nat /\ inv' = inv /\ at' = at /\ at \in Config /\ entries' = entries
      /\ cur' = cur /\ runJson' = runJson /\ experimentJson' = experimentJson
      /\ experimentJson.inv \in 0..inv
      /\ stage = "report" /\ stage' \in {"row", "leave", "abort"}
      /\ stage' = "row" => kind = "context"
      /\ stage' = "leave" => kind # "context"
  BY InvNat DEF Report, Goto
<1>2. Configurations' = Configurations /\ Configurations \subseteq Config /\ kind' = kind
  BY Frame DEF Configurations, Config, Report
<1>3. /\ \A c \in Config : errorJson'[c] = errorJson[c] \/ (c = at /\ errorJson'[c] = inv)
      /\ stage' = "leave" => errorJson'[at] = inv
  BY <1>1 DEF Report, Goto, IInv, Types, FileTypes
<1>4. Running /\ Running' /\ experimentJson.inv < inv
  <2>1. Running /\ Running'
    BY <1>1 DEF Running, Over
  <2> QED BY <1>1, <2>1 DEF ManifestInv, ManifestIsLast
<1>5. ASSUME NEW c \in Configurations, experimentJson.inv > 0
      PROVE  Supported(c, experimentJson.inv, experimentJson.entries[c])'
  <2>1. Supported(c, experimentJson.inv, experimentJson.entries[c]) /\ c \in Config
    BY <1>2, <1>5 DEF ManifestInv, EntriesSupported
  <2> QED BY <1>1, <1>3, <1>4, <2>1 DEF Supported
<1>6. ASSUME NEW c \in Configurations, Finished(c)'
      PROVE  Supported(c, inv, entries[c])'
  <2>1. c # at /\ Finished(c) /\ c \in Config
    BY <1>1, <1>2, <1>6 DEF Finished, Config
  <2>2. Supported(c, inv, entries[c])
    BY <1>4, <1>6, <2>1 DEF ManifestInv, EntriesSupported
  <2> QED BY <1>1, <1>3, <2>1, <2>2 DEF Supported
<1>7. stage' = "leave" => Supported(at, inv, Result)'
  BY <1>1, <1>3 DEF ManifestInv, EntriesSupported, Supported, Result
<1>8. EntriesSupported'
  BY <1>1, <1>2, <1>5, <1>6, <1>7 DEF EntriesSupported
<1>9. ManifestIsLast' /\ StartsAtFirst'
  BY <1>1, <1>4 DEF ManifestInv, ManifestIsLast, StartsAtFirst
<1>10. RunsTold'
  <2> SUFFICES ASSUME NEW c \in Config, runJson[c].whole PROVE Told(c, runJson[c])'
    BY <1>1 DEF RunsTold
  <2>1. Told(c, runJson[c])
    BY DEF ManifestInv, RunsTold
  <2> QED BY <1>1, <1>4, <2>1 DEF Told, Finished
<1> QED BY <1>8, <1>9, <1>10 DEF ManifestInv

LEMMA FillRunManifest == IInv /\ ManifestInv /\ FillRun => ManifestInv'
<1> SUFFICES ASSUME IInv, ManifestInv, FillRun PROVE ManifestInv'
  OBVIOUS
<1>1. /\ inv \in Nat /\ inv' = inv /\ at' = at /\ at \in Config /\ entries' = entries
      /\ cur' = cur /\ errorJson' = errorJson /\ experimentJson' = experimentJson
      /\ experimentJson.inv \in 0..inv
      /\ stage = "filling" /\ stage' \in {"leave", "catch", "abort"}
  BY InvNat, EndSteps, Thrower DEF FillRun, Advance, Goto
<1>2. Configurations' = Configurations /\ Configurations \subseteq Config /\ kind' = kind
  BY Frame DEF Configurations, Config, FillRun
<1>3. /\ \A c \in Config \ {at} : runJson'[c] = runJson[c]
      /\ runJson[at].inv = inv /\ runJson'[at].inv = inv
      /\ runJson[at].state = cur.state /\ runJson'[at].state = cur.state
      /\ runJson'[at].whole => stage' = "leave"
      /\ stage' = "leave" => runJson'[at].whole
  <2>1. runJson[at] = Recorded(FALSE)
    BY <1>1 DEF IInv, Stands, Written
  <2>2. \/ runJson' = runJson /\ stage' \in {"catch", "abort"}
        \/ /\ runJson'[at] = [Recorded(FALSE) EXCEPT !.whole = TRUE]
           /\ \A c \in Config \ {at} : runJson'[c] = runJson[c]
           /\ stage' = "leave"
    BY <1>1, <2>1, EndSteps, Thrower DEF FillRun, Advance, Goto, IInv, Types, FileTypes
  <2> QED BY <2>1, <2>2 DEF Recorded
<1>4. Running /\ Running' /\ experimentJson.inv < inv
  <2>1. Running /\ Running'
    BY <1>1 DEF Running, Over
  <2> QED BY <1>1, <2>1 DEF ManifestInv, ManifestIsLast
<1>5. ASSUME NEW c \in Configurations, experimentJson.inv > 0
      PROVE  Supported(c, experimentJson.inv, experimentJson.entries[c])'
  <2>1. Supported(c, experimentJson.inv, experimentJson.entries[c]) /\ c \in Config
    BY <1>2, <1>5 DEF ManifestInv, EntriesSupported
  <2> QED BY <1>1, <1>3, <1>4, <2>1 DEF Supported
<1>6. ASSUME NEW c \in Configurations, Finished(c)'
      PROVE  Supported(c, inv, entries[c])'
  <2>1. c # at /\ Finished(c) /\ c \in Config
    BY <1>1, <1>2, <1>6 DEF Finished, Config
  <2>2. Supported(c, inv, entries[c])
    BY <1>4, <1>6, <2>1 DEF ManifestInv, EntriesSupported
  <2> QED BY <1>1, <1>3, <2>1, <2>2 DEF Supported
<1>7. stage' = "leave" => Supported(at, inv, Result)'
  BY <1>1, <1>3 DEF Supported, Result
<1>8. EntriesSupported'
  BY <1>1, <1>2, <1>5, <1>6, <1>7 DEF EntriesSupported
<1>9. ManifestIsLast' /\ StartsAtFirst'
  BY <1>1, <1>4 DEF ManifestInv, ManifestIsLast, StartsAtFirst
<1>10. RunsTold'
  <2> SUFFICES ASSUME NEW c \in Config, runJson'[c].whole PROVE Told(c, runJson[c])'
    BY DEF RunsTold
  <2>1. CASE c = at
    <3>1. stage' = "leave" /\ runJson'[c].inv = inv /\ runJson'[c].state = cur.state
      BY <1>3, <2>1
    <3> QED BY <1>1, <1>4, <2>1, <3>1 DEF Told
  <2>2. CASE c # at
    <3>1. runJson'[c] = runJson[c]
      BY <1>3, <2>2
    <3>2. Told(c, runJson[c])
      BY <3>1 DEF ManifestInv, RunsTold
    <3> QED BY <1>1, <1>4, <3>1, <3>2 DEF Told, Finished
  <2> QED BY <2>1, <2>2
<1> QED BY <1>8, <1>9, <1>10 DEF ManifestInv

LEMMA LeaveManifest == IInv /\ ManifestInv /\ Leave => ManifestInv'
<1> SUFFICES ASSUME IInv, ManifestInv, Leave PROVE ManifestInv'
  OBVIOUS
<1>1. /\ inv \in Nat /\ inv' = inv /\ at \in Config /\ runJson' = runJson
      /\ errorJson' = errorJson /\ experimentJson' = experimentJson
      /\ experimentJson.inv \in 0..inv
      /\ stage = "leave"
      /\ \/ stage' = "open" /\ at' = at + 1
         \/ stage' = "manifest" /\ at' = 1 /\ at + 1 \notin Configurations
  BY InvNat DEF Leave, Goto
<1>2. Configurations' = Configurations /\ Configurations \in {{1}, {1, 2}}
  BY Frame DEF Configurations, Config, Leave
<1>3. /\ entries'[at] = Result
      /\ \A c \in Config \ {at} : entries'[c] = entries[c]
  BY <1>1 DEF Leave, Result, IInv, Types, RunTypes
<1>4. Running /\ Running'
  BY <1>1 DEF Running, Over
<1>5. ASSUME NEW c \in Configurations, Finished(c)'
      PROVE  Supported(c, inv, entries[c])'
  <2>1. c < at \/ c = at
    BY <1>1, <1>2, <1>5 DEF Finished, Config
  <2>2. CASE c = at
    BY <1>1, <1>3, <2>2 DEF ManifestInv, EntriesSupported, Supported
  <2>3. CASE c < at
    <3>1. entries'[c] = entries[c]
      BY <1>1, <1>2, <1>3, <2>3 DEF Config
    <3>2. Supported(c, inv, entries[c])
      BY <1>4, <2>3 DEF ManifestInv, EntriesSupported, Finished
    <3> QED BY <1>1, <3>1, <3>2 DEF Supported
  <2> QED BY <2>1, <2>2, <2>3
<1>6. EntriesSupported'
  BY <1>1, <1>2, <1>5, SupportUnchanged DEF ManifestInv, EntriesSupported
<1>7. ManifestIsLast' /\ StartsAtFirst'
  BY <1>1, <1>4 DEF ManifestInv, ManifestIsLast, StartsAtFirst
<1>8. RunsTold'
  <2> SUFFICES ASSUME NEW c \in Config, runJson[c].whole PROVE Told(c, runJson[c])'
    BY <1>1 DEF RunsTold
  <2>1. Told(c, runJson[c])
    BY DEF ManifestInv, RunsTold
  <2> QED BY <1>1, <2>1, LeaveTold DEF Told
<1> QED BY <1>6, <1>7, <1>8 DEF ManifestInv

LEMMA OpenManifestManifest == IInv /\ ManifestInv /\ OpenManifest => ManifestInv'
<1> SUFFICES ASSUME IInv, ManifestInv, OpenManifest PROVE ManifestInv'
  OBVIOUS
<1>1. /\ inv \in Nat /\ inv' = inv /\ at' = at /\ runJson' = runJson /\ entries' = entries
      /\ errorJson' = errorJson /\ stage = "manifest" /\ stage' = "manifesting"
      /\ experimentJson'.inv = inv /\ experimentJson'.entries = entries
      /\ ~experimentJson'.whole
  BY InvNat DEF OpenManifest, Goto
<1>2. Configurations' = Configurations
  BY Frame DEF Configurations, OpenManifest
<1>3. \A c \in Configurations : Supported(c, inv, entries[c])
  BY <1>1 DEF ManifestInv, EntriesSupported, Running, Over, Finished
<1>4. EntriesSupported'
  BY <1>1, <1>2, <1>3 DEF EntriesSupported, Supported
<1>5. ManifestIsLast' /\ StartsAtFirst'
  BY <1>1 DEF ManifestIsLast, StartsAtFirst, Running, Over
<1>6. RunsTold'
  <2> SUFFICES ASSUME NEW c \in Config, runJson[c].whole PROVE Told(c, runJson[c])'
    BY <1>1 DEF RunsTold
  <2>1. Told(c, runJson[c])
    BY DEF ManifestInv, RunsTold
  <2> QED BY <1>1, <2>1 DEF Told, Running, Finished, Over
<1> QED BY <1>4, <1>5, <1>6 DEF ManifestInv

LEMMA ExitManifest ==
  ASSUME IInv, ManifestInv, Abort \/ FillManifest \/ Crash
  PROVE  ManifestInv'
<1>1. /\ inv \in Nat /\ inv' = inv /\ at' = 1 /\ runJson' = runJson
      /\ errorJson' = errorJson /\ stage' \in Over
  BY InvNat DEF Abort, FillManifest, Crash, Exits, Goto, Over, files
<1>2. /\ experimentJson'.inv = experimentJson.inv
      /\ experimentJson'.entries = experimentJson.entries
      /\ experimentJson'.whole => experimentJson.whole \/ experimentJson.inv > 0
      /\ experimentJson.inv \in 0..inv
  <2>1. CASE FillManifest
    <3>1. stage = "manifesting" /\ Running /\ inv > 0
      BY <2>1 DEF FillManifest, Running, Over, IInv, Types, Control
    <3>2. experimentJson.inv = inv
      BY <3>1 DEF ManifestInv, ManifestIsLast
    <3> QED BY <2>1, <3>1, <3>2, InvNat DEF FillManifest, IInv, Types, FileTypes
  <2>2. CASE Abort \/ Crash
    BY <2>2, InvNat DEF Abort, Crash, files
  <2> QED BY <2>1, <2>2
<1>3. Configurations' = Configurations
  BY Frame DEF Configurations, Abort, FillManifest, Crash
<1>4. EntriesSupported'
  BY <1>1, <1>2, <1>3 DEF ManifestInv, EntriesSupported, Supported, Running, Over
<1>5. ManifestIsLast' /\ StartsAtFirst'
  BY <1>1, <1>2 DEF ManifestInv, ManifestIsLast, StartsAtFirst, Running, IInv, Types, Control
<1>6. RunsTold'
  <2> SUFFICES ASSUME NEW c \in Config, runJson[c].whole PROVE Told(c, runJson[c])'
    BY <1>1 DEF RunsTold
  <2>1. Told(c, runJson[c])
    BY DEF ManifestInv, RunsTold
  <2> QED BY <1>1, <1>2, <2>1 DEF Told, Running
<1> QED BY <1>4, <1>5, <1>6 DEF ManifestInv

LEMMA ReaderManifest ==
  ASSUME IInv, ManifestInv, UNCHANGED <<command, process, files>>
  PROVE  ManifestInv'
<1>1. kind' = kind /\ Configurations' = Configurations
  BY Frame DEF Configurations
<1>2. EntriesSupported'
  BY <1>1 DEF ManifestInv, EntriesSupported, Supported, Running, Finished, Result, process, files
<1>3. ManifestIsLast' /\ StartsAtFirst'
  BY DEF ManifestInv, ManifestIsLast, StartsAtFirst, Running, process, files
<1>4. RunsTold'
  BY DEF ManifestInv, RunsTold, Told, Running, Finished, process, files
<1> QED BY <1>2, <1>3, <1>4 DEF ManifestInv

LEMMA InitManifest == Init => ManifestInv
<1> SUFFICES ASSUME Init PROVE ManifestInv
  OBVIOUS
<1>1. ManifestIsLast /\ StartsAtFirst /\ EntriesSupported
  BY DEF Init, ManifestIsLast, StartsAtFirst, EntriesSupported, Running, Over
<1>2. RunsTold
  BY DEF Init, RunsTold, NoFile
<1> QED BY <1>1, <1>2 DEF ManifestInv

LEMMA NextManifest == IInv /\ ManifestInv /\ [Next]_vars => ManifestInv'
<1> SUFFICES ASSUME IInv, ManifestInv, [Next]_vars PROVE ManifestInv'
  OBVIOUS
<1>1. CASE Begin
  BY <1>1, BeginManifest
<1>2. CASE Open \/ Acquire \/ Setup \/ Agent \/ Evaluate \/ Judge \/ Throw \/ Await
  BY <1>2, EarlyAside, AsideManifest
<1>3. CASE Collect \/ PutContent \/ RecordRow \/ CloseRoot \/ Catch
  BY <1>3, KeptAside, AsideManifest
<1>4. CASE WriteRun
  BY <1>4, WriteAside, AsideManifest
<1>5. CASE FillRun \/ Report \/ Leave \/ OpenManifest
  BY <1>5, FillRunManifest, ReportManifest, LeaveManifest, OpenManifestManifest
<1>6. CASE Abort \/ FillManifest \/ Crash
  BY <1>6, ExitManifest
<1>7. CASE Resume \/ Show \/ AllOver \/ UNCHANGED vars
  BY <1>7, ReadersStay, ReaderManifest
<1> QED BY <1>1, <1>2, <1>3, <1>4, <1>5, <1>6, <1>7 DEF Next, Step

-----------------------------------------------------------------------------
(* The study runs while the reader reads: what it has seen stays true.     *)
Process == Begin \/ Step \/ Await \/ Throw \/ Crash

LEMMA ProcessTold ==
  ASSUME IInv, ManifestInv, Process, NEW c \in Config, NEW r, r.inv \in 0..inv, Told(c, r)
  PROVE  Told(c, r)'
<1>1. CASE Begin
  BY <1>1, BeginTold, InvNat
<1>2. CASE Open \/ Acquire \/ Setup \/ Agent \/ Evaluate \/ Judge \/ Throw \/ Await
  BY <1>2, EarlyAside, AsideTold
<1>3. CASE Collect \/ PutContent \/ RecordRow \/ CloseRoot \/ Catch
  BY <1>3, KeptAside, AsideTold
<1>4. CASE WriteRun
  BY <1>4, WriteAside, AsideTold
<1>5. CASE FillRun \/ Report \/ Leave \/ OpenManifest
  BY <1>5, FillRunTold, ReportTold, LeaveTold, OpenManifestTold DEF ManifestInv
<1>6. CASE Abort \/ FillManifest \/ Crash
  BY <1>6, ExitTold
<1> QED BY <1>1, <1>2, <1>3, <1>4, <1>5, <1>6 DEF Process, Step

LEMMA ProcessRows ==
  ASSUME IInv, Process
  PROVE  /\ command' = command /\ reader' = reader
         /\ \A c \in Config : rows[c] \subseteq rows'[c]
<1>1. CASE Begin \/ Crash
  BY <1>1 DEF Begin, Crash, files
<1>2. CASE Open \/ Acquire \/ Setup \/ Agent \/ Evaluate \/ Judge \/ Throw \/ Await
  BY <1>2, EarlyAside DEF Aside, Steady
<1>3. CASE Collect \/ PutContent \/ RecordRow \/ CloseRoot \/ Catch
  BY <1>3, KeptAside DEF Aside, Steady
<1>4. CASE WriteRun \/ FillRun \/ Report \/ Leave \/ OpenManifest \/ Abort \/ FillManifest
  BY <1>4 DEF WriteRun, FillRun, Report, Leave, OpenManifest, Abort, FillManifest
<1> QED BY <1>1, <1>2, <1>3, <1>4 DEF Process, Step

LEMMA ProcessReader == IInv /\ ManifestInv /\ ReaderInv /\ Process => ReaderInv'
<1> SUFFICES ASSUME IInv, ManifestInv, ReaderInv, Process PROVE ReaderInv'
  OBVIOUS
<1>1. /\ reader' = reader /\ Configurations' = Configurations /\ Configurations \subseteq Config
      /\ \A c \in Config : rows[c] \subseteq rows'[c]
  BY ProcessRows, Frame DEF Configurations, Config
<1>2. SeenTold'
  <2> SUFFICES ASSUME NEW c \in Config, reader.seen[c] # Unseen
               PROVE  /\ reader.seen[c].inv \in rows'[c]
                      /\ reader.seen[c].inv = 1 => reader.seen[c].patch # "partial"
                      /\ Told(c, reader.seen[c])'
    BY <1>1 DEF SeenTold
  <2>1. /\ reader.seen[c].inv \in rows[c]
        /\ reader.seen[c].inv = 1 => reader.seen[c].patch # "partial"
        /\ Told(c, reader.seen[c])
    BY DEF ReaderInv, SeenTold
  <2>2. reader.seen[c].inv \in 0..inv
    BY <2>1 DEF IInv, Types, FileTypes
  <2>3. Told(c, reader.seen[c])'
    BY <1>1, <2>1, <2>2, ProcessTold DEF Told
  <2> QED BY <1>1, <2>1, <2>3
<1>3. ReaderTypesInv' /\ LinkedTold' /\ LookedUp'
  BY <1>1 DEF ReaderInv, ReaderTypesInv, LinkedTold, LookedUp
<1> QED BY <1>2, <1>3 DEF ReaderInv

(* The reader's own steps. *)
LEMMA NoReaderInv ==
  ASSUME reader' = NoReader
  PROVE  ReaderInv'
<1>1. /\ reader'.by = "nobody" /\ reader'.next = 1 /\ reader'.answer = "none"
      /\ reader'.seen = [c \in Config |-> Unseen] /\ reader'.linked = NoEntries
      /\ reader' = [by |-> reader'.by, inv |-> reader'.inv, next |-> reader'.next,
                    missing |-> reader'.missing, seen |-> reader'.seen,
                    linked |-> reader'.linked, answer |-> reader'.answer]
  BY DEF NoReader
<1>2. SeenTold' /\ LinkedTold'
  BY <1>1 DEF SeenTold, LinkedTold
<1>3. ReaderTypesInv' /\ LookedUp'
  BY <1>1 DEF ReaderTypesInv, LookedUp
<1> QED BY <1>2, <1>3 DEF ReaderInv

LEMMA InitReader == Init => ReaderInv
<1> SUFFICES ASSUME Init PROVE ReaderInv
  OBVIOUS
<1>1. /\ reader.by = "nobody" /\ reader.next = 1 /\ reader.answer = "none"
      /\ reader.seen = [c \in Config |-> Unseen] /\ reader.linked = NoEntries
      /\ reader = [by |-> reader.by, inv |-> reader.inv, next |-> reader.next,
                   missing |-> reader.missing, seen |-> reader.seen,
                   linked |-> reader.linked, answer |-> reader.answer]
      /\ reader = NoReader
  BY DEF Init, NoReader
<1>2. SeenTold /\ LinkedTold
  BY <1>1 DEF SeenTold, LinkedTold
<1>3. ReaderTypesInv /\ LookedUp
  BY <1>1 DEF ReaderTypesInv, LookedUp
<1> QED BY <1>2, <1>3 DEF ReaderInv

(* A step of the reader that leaves what it saw alone. *)
LEMMA SeenStays ==
  ASSUME ReaderInv, UNCHANGED <<command, process, files>>, reader'.seen = reader.seen
  PROVE  SeenTold'
  BY DEF ReaderInv, SeenTold, Told, Running, Finished, process, files

LEMMA ReadManifestReader == IInv /\ ReaderInv /\ ReadManifest => ReaderInv'
<1> SUFFICES ASSUME IInv, ReaderInv, ReadManifest PROVE ReaderInv'
  OBVIOUS
<1>1. UNCHANGED <<command, process, files>> /\ reader = NoReader
  BY DEF ReadManifest, ReaderInv, ReaderTypesInv
<1>2. reader' = [by |-> "resume", inv |-> experimentJson.inv, next |-> 1, missing |-> FALSE,
                 seen |-> [c \in Config |-> Unseen], linked |-> NoEntries, answer |-> "none"]
  BY <1>1 DEF ReadManifest, NoReader
<1>3. SeenTold' /\ LinkedTold'
  BY <1>2 DEF SeenTold, LinkedTold
<1>4. LookedUp' /\ ReaderTypesInv'
  BY <1>2 DEF LookedUp, ReaderTypesInv, Configurations, Config
<1> QED BY <1>3, <1>4 DEF ReaderInv

LEMMA ReadRunReader == IInv /\ ReaderInv /\ ReadRun => ReaderInv'
<1> SUFFICES ASSUME IInv, ReaderInv, ReadRun PROVE ReaderInv'
  OBVIOUS
<1>1. /\ UNCHANGED <<command, process, files>> /\ Configurations' = Configurations
      /\ Configurations \in {{1}, {1, 2}} /\ rows' = rows
      /\ reader.by = "resume" /\ reader.answer = "none" /\ reader.next \in Configurations
  BY Frame DEF ReadRun, Reading, Configurations, Config, files
<1>2. /\ reader' = [by |-> reader.by, inv |-> reader.inv, next |-> reader.next + 1,
                    missing |-> reader'.missing, seen |-> reader.seen,
                    linked |-> reader.linked, answer |-> reader.answer]
      /\ ~reader'.missing => /\ ~reader.missing /\ runJson[reader.next].whole
                             /\ runJson[reader.next].inv = reader.inv
  BY DEF ReadRun, ReaderInv, ReaderTypesInv
<1>3. SeenTold' /\ LinkedTold'
  BY <1>1, <1>2, SeenStays DEF ReaderInv, LinkedTold
<1>4. ReaderTypesInv'
  BY <1>1, <1>2 DEF ReaderInv, ReaderTypesInv
<1>5. LookedUp'
  <2> SUFFICES ASSUME ~reader'.missing, NEW c \in Configurations, c < reader.next + 1
               PROVE  reader.inv \in rows[c]
    BY <1>1, <1>2 DEF LookedUp
  <2>1. CASE c = reader.next
    BY <1>1, <1>2, <2>1 DEF IInv, EvidenceIsWhole, Config
  <2>2. CASE c < reader.next
    BY <1>1, <1>2, <2>2 DEF ReaderInv, LookedUp
  <2> QED BY <1>1, <2>1, <2>2
<1> QED BY <1>3, <1>4, <1>5 DEF ReaderInv

LEMMA AnswerReader == IInv /\ ReaderInv /\ Answer => ReaderInv'
<1> SUFFICES ASSUME IInv, ReaderInv, Answer PROVE ReaderInv'
  OBVIOUS
<1>1. /\ UNCHANGED <<command, process, files>> /\ Configurations' = Configurations
      /\ rows' = rows /\ reader.by = "resume" /\ reader.next \notin Configurations
  BY Frame DEF Answer, Reading, Configurations, files
<1>2. CASE reader.missing
  BY <1>2, NoReaderInv DEF Answer
<1>3. CASE ~reader.missing
  <2>1. reader' = [by |-> reader.by, inv |-> reader.inv, next |-> reader.next,
                   missing |-> reader.missing, seen |-> reader.seen,
                   linked |-> reader.linked, answer |-> "already_complete"]
    BY <1>3 DEF Answer, ReaderInv, ReaderTypesInv
  <2>2. SeenTold' /\ LinkedTold'
    BY <1>1, <2>1, SeenStays DEF ReaderInv, LinkedTold
  <2>3. ReaderTypesInv' /\ LookedUp'
    BY <1>1, <1>3, <2>1 DEF ReaderInv, ReaderTypesInv, LookedUp
  <2> QED BY <2>2, <2>3 DEF ReaderInv
<1> QED BY <1>2, <1>3

LEMMA BeginShowingReader == IInv /\ ReaderInv /\ BeginShowing => ReaderInv'
<1> SUFFICES ASSUME IInv, ReaderInv, BeginShowing PROVE ReaderInv'
  OBVIOUS
<1>1. UNCHANGED <<command, process, files>> /\ reader = NoReader
  BY DEF BeginShowing, ReaderInv, ReaderTypesInv
<1>2. PICK who \in {"page", "publish"}, i \in Nat :
        reader' = [by |-> who, inv |-> i, next |-> 1, missing |-> FALSE,
                   seen |-> [c \in Config |-> Unseen], linked |-> NoEntries, answer |-> "none"]
  <2>1. CASE reader' = [reader EXCEPT !.by = "page"]
    BY <1>1, <2>1 DEF NoReader
  <2>2. CASE \E i \in 1..inv : reader' = [reader EXCEPT !.by = "publish", !.inv = i]
    <3>1. PICK i \in 1..inv : reader' = [reader EXCEPT !.by = "publish", !.inv = i]
      BY <2>2
    <3>2. i \in Nat
      BY InvNat
    <3> QED BY <1>1, <3>1, <3>2 DEF NoReader
  <2> QED BY <2>1, <2>2 DEF BeginShowing
<1>3. SeenTold' /\ LinkedTold'
  BY <1>2 DEF SeenTold, LinkedTold
<1>4. LookedUp' /\ ReaderTypesInv'
  BY <1>2 DEF LookedUp, ReaderTypesInv
<1> QED BY <1>3, <1>4 DEF ReaderInv

LEMMA LoadRunReader == IInv /\ ManifestInv /\ ReaderInv /\ LoadRun => ReaderInv'
<1> SUFFICES ASSUME IInv, ManifestInv, ReaderInv, LoadRun PROVE ReaderInv'
  OBVIOUS
<1>1. /\ UNCHANGED <<command, process, files>> /\ Configurations' = Configurations
      /\ Configurations \in {{1}, {1, 2}} /\ rows' = rows
      /\ reader.by \in {"page", "publish"} /\ reader.answer = "none"
      /\ reader.next \in Configurations
  BY Frame DEF LoadRun, Reading, Configurations, Config, files
<1>2. CASE reader' = NoReader
  BY <1>2, NoReaderInv
<1>3. CASE reader' = [reader EXCEPT !.next = @ + 1, !.seen[reader.next] = StoredRun(reader.next)]
  <2>1. reader' = [by |-> reader.by, inv |-> reader.inv, next |-> reader.next + 1,
                   missing |-> reader.missing,
                   seen |-> [reader.seen EXCEPT ![reader.next] = StoredRun(reader.next)],
                   linked |-> reader.linked, answer |-> reader.answer]
    BY <1>3 DEF ReaderInv, ReaderTypesInv
  <2>2. /\ reader'.seen = [c \in Config |-> IF c = reader.next THEN StoredRun(c)
                                            ELSE reader.seen[c]]
    BY <1>1, <2>1 DEF ReaderInv, ReaderTypesInv
  <2>3. ASSUME NEW c \in Config, StoredRun(c) # Unseen
        PROVE  /\ StoredRun(c).inv \in rows[c]
               /\ StoredRun(c).inv = 1 => StoredRun(c).patch # "partial"
               /\ Told(c, StoredRun(c))
    <3>1. runJson[c].whole
      BY <2>3 DEF StoredRun
    <3>2. /\ runJson[c].inv \in rows[c]
          /\ runJson[c].patch /\ runJson[c].inv = 1 => artifacts[c] = "whole"
          /\ Told(c, runJson[c])
      BY <3>1 DEF IInv, EvidenceIsWhole, ManifestInv, RunsTold
    <3>3. /\ StoredRun(c).inv = runJson[c].inv /\ StoredRun(c).state = runJson[c].state
          /\ StoredRun(c).patch = IF runJson[c].patch THEN artifacts[c] ELSE "none"
      BY <3>1 DEF StoredRun
    <3> QED BY <3>2, <3>3 DEF Told
  <2>4. SeenTold'
    <3> SUFFICES ASSUME NEW c \in Config, reader'.seen[c] # Unseen
                 PROVE  /\ reader'.seen[c].inv \in rows[c]
                        /\ reader'.seen[c].inv = 1 => reader'.seen[c].patch # "partial"
                        /\ Told(c, reader.seen[c])'
      BY <1>1 DEF SeenTold
    <3>1. CASE c = reader.next
      <4>1. reader'.seen[c] = StoredRun(c)
        BY <2>2, <3>1
      <4> QED BY <1>1, <2>3, <4>1 DEF Told, Running, Finished, process, files
    <3>2. CASE c # reader.next
      <4>1. reader'.seen[c] = reader.seen[c]
        BY <2>2, <3>2
      <4> QED BY <1>1, <4>1 DEF ReaderInv, SeenTold, Told, Running, Finished, process, files
    <3> QED BY <3>1, <3>2
  <2>5. LinkedTold'
    <3>1. reader'.linked = NoEntries
      BY <1>1, <2>1 DEF ReaderInv, ReaderTypesInv
    <3> QED BY <3>1 DEF LinkedTold, NoEntries
  <2>6. ReaderTypesInv' /\ LookedUp'
    BY <1>1, <2>1, <2>2 DEF ReaderInv, ReaderTypesInv, LookedUp
  <2> QED BY <2>4, <2>5, <2>6 DEF ReaderInv
<1> QED BY <1>2, <1>3 DEF LoadRun

LEMMA LinkExperimentReader == IInv /\ ReaderInv /\ LinkExperiment => ReaderInv'
<1> SUFFICES ASSUME IInv, ReaderInv, LinkExperiment PROVE ReaderInv'
  OBVIOUS
<1>1. /\ UNCHANGED <<command, process, files>> /\ Configurations' = Configurations
      /\ rows' = rows /\ reader.by \in {"page", "publish"}
  BY Frame DEF LinkExperiment, Reading, Configurations, files
<1>2. reader' = [by |-> reader.by, inv |-> reader.inv, next |-> reader.next,
                 missing |-> reader.missing, seen |-> reader.seen,
                 linked |-> [c \in Config |-> Linked(c)], answer |-> "shown"]
  BY DEF LinkExperiment, ReaderInv, ReaderTypesInv
<1>3. SeenTold'
  BY <1>1, <1>2, SeenStays
<1>4. LinkedTold'
  BY <1>1, <1>2 DEF LinkedTold, Linked, ReaderInv, SeenTold, Told
<1>5. ReaderTypesInv' /\ LookedUp'
  BY <1>1, <1>2 DEF ReaderInv, ReaderTypesInv, LookedUp
<1> QED BY <1>3, <1>4, <1>5 DEF ReaderInv

(* All of it, and what follows of it. *)
LEMMA NextReader == IInv /\ ManifestInv /\ ReaderInv /\ [Next]_vars => ReaderInv'
<1> SUFFICES ASSUME IInv, ManifestInv, ReaderInv, [Next]_vars PROVE ReaderInv'
  OBVIOUS
<1>1. CASE Process
  BY <1>1, ProcessReader
<1>2. CASE Resume
  BY <1>2, ReadManifestReader, ReadRunReader, AnswerReader DEF Resume
<1>3. CASE Show
  BY <1>3, BeginShowingReader, LoadRunReader, LinkExperimentReader DEF Show
<1>4. CASE AllOver \/ UNCHANGED vars
  <2>1. UNCHANGED <<command, process, files>> /\ reader' = reader
        /\ Configurations' = Configurations
    BY <1>4, Frame DEF AllOver, vars, Configurations
  <2>2. SeenTold'
    BY <2>1, SeenStays
  <2> QED BY <2>1, <2>2 DEF ReaderInv, ReaderTypesInv, LinkedTold, LookedUp, files
<1> QED BY <1>1, <1>2, <1>3, <1>4 DEF Next, Process

\* For any commands and invocations: an entry of a whole manifest can be looked
\* up in its configuration's directory, "already_complete" is answered only of a
\* study whose every run was recorded, and a page or a published snapshot shows
\* runs that are in their databases and an experiment that agrees with them.
THEOREM ManifestCorrect == Spec => []ManifestIsTrue
<1>1. Spec => [](IInv /\ ManifestInv /\ ReaderInv)
  BY InitInv, NextInv, InitManifest, NextManifest, InitReader, NextReader, PTL DEF Spec
<1>2. ASSUME IInv, ManifestInv, ReaderInv PROVE ManifestIsTrue
  <2>1. EntriesAreBacked
    BY <1>2 DEF ManifestInv, ManifestIsLast, EntriesSupported, EntriesAreBacked, Supported,
                IInv, Types, FileTypes
  <2>2. CompleteIsTrue
    <3> SUFFICES ASSUME reader.answer = "already_complete", NEW c \in Configurations
                 PROVE  reader.inv \in rows[c]
      BY DEF CompleteIsTrue
    <3>1. /\ reader.by = "resume" /\ ~reader.missing /\ reader.next \in 1..3
          /\ reader.next \notin Configurations
      BY <1>2 DEF ReaderInv, ReaderTypesInv
    <3>2. c < reader.next
      BY <3>1 DEF Configurations, Config
    <3> QED BY <1>2, <3>1, <3>2 DEF ReaderInv, LookedUp
  <2>3. ShownIsTrue
    BY <1>2 DEF ReaderInv, SeenTold, LinkedTold, ShownIsTrue, Configurations, Config
  <2> QED BY <2>1, <2>2, <2>3 DEF ManifestIsTrue
<1> QED BY <1>1, <1>2, PTL
=============================================================================
