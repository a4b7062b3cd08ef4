-------------------------- MODULE RunCommandProofs --------------------------
(***************************************************************************)
(* Theorems about RunCommand for any number of runs, overlapping or not,   *)
(* with either agent, whatever throws, crashes or is interrupted.          *)
(***************************************************************************)
EXTENDS RunCommand, TLAPS

-----------------------------------------------------------------------------
(* What holds of one process, by the stage it has reached. *)
Unpersisted == {"idle", "open", "acquire", "setup", "agent", "await", "evaluate", "collect",
                "persist"}
Undecided == {"idle", "open", "acquire", "setup", "agent", "await"}
Unawaited == {"idle", "open", "acquire", "setup", "agent"}

(* A result that main may record: FailuresExplained, short of the default  *)
(* category that Recorded adds.                                            *)
Explained(res) ==
  /\ res.terminal # "none"
  /\ res.terminal = "resolved" <=> res.score = "passed"
  /\ res.terminal = "resolved" => res.category = "null"
  /\ res.terminal = "provider_error" => res.category # "null"
  /\ res.terminal = "environment_error" => res.score = "null"

Decided(res, cancelled) ==
  Explained(res) /\ (cancelled => res.terminal = "cancelled" /\ res.score = "null")

RowDecided(row, cancelled) ==
  row # NoResult => \E res \in Outcome : row = Recorded(res) /\ Decided(res, cancelled)

(* run.json and the database tell the same story. *)
Backed(r) ==
  /\ r.runRow # NoResult
  /\ r.rootRow = RootStatus(r.runRow)
  /\ r.artifact # "none"

Sound(r) ==
  /\ r.stage \in Unpersisted => r.runRow = NoResult
  /\ r.stage \in Undecided => r.result = NoResult
  /\ r.stage \in Unawaited => ~r.cancelled
  /\ r.stage = "evaluate" => r.result \in AgentResult(r.config)
  /\ r.stage \in {"collect", "persist"} => Decided(r.result, r.cancelled)
  /\ r.stage \in {"persist", "end", "write", "writing"} => r.artifact # "none"
  /\ r.stage \in {"end", "write", "writing"} => r.runRow = Recorded(r.result) /\ r.runRow # NoResult
  /\ r.stage \in {"write", "writing"} => r.rootRow = RootStatus(r.runRow)
  /\ RowDecided(r.runRow, r.cancelled)
  /\ r.stage \in {"idle", "open", "acquire"} \cup {"refused", "escaped"} => ~r.workspace

(* A process whose run.json is whole has nothing left to do but to release *)
(* its sandbox.                                                            *)
Settled(r) == r.stage \in {"finally", "done", "crashed"} /\ Backed(r)

JsonSettled ==
  runJson.whole => /\ runJson.owner # Nobody
                   /\ Settled(proc[runJson.owner])
                   /\ runJson.run = proc[runJson.owner].runRow

IInv == TypeOK /\ (\A p \in Process : Sound(proc[p])) /\ JsonSettled

-----------------------------------------------------------------------------
LEMMA ResultsAreOutcomes ==
  /\ NoResult \in Outcome
  /\ \A c \in Configs : AgentResult(c) \subseteq Outcome
  /\ EvaluationResult \subseteq Outcome
<1>1. NoResult \in Outcome
  BY DEF NoResult, Outcome
<1>2. ASSUME NEW c \in Configs PROVE AgentResult(c) \subseteq Outcome
  BY DEF AgentResult, BaselineResult, ReasoningResult, Outcome
<1>3. EvaluationResult \subseteq Outcome
  BY DEF EvaluationResult, Outcome
<1> QED
  BY <1>1, <1>2, <1>3

LEMMA RecordedIsOutcome == ASSUME NEW res \in Outcome PROVE Recorded(res) \in Outcome
  BY DEF Recorded, Category, Outcome

LEMMA EvaluationsAreExplained == \A e \in EvaluationResult : Explained(e)
  BY DEF EvaluationResult, Explained

(* What an agent says of a run that is not evaluated. *)
LEMMA AgentResultsAreExplained ==
  ASSUME NEW c \in Configs, NEW res \in AgentResult(c)
  PROVE  /\ res.score = "null"
         /\ res.terminal # "resolved" => Explained(res)
         /\ res.terminal \notin {"none", "environment_error"}
  BY DEF AgentResult, BaselineResult, ReasoningResult, Explained

(* The process moves on by itself. *)
LEMMA OwnStepKeeps ==
  ASSUME IInv, NEW p \in Process, NEW r \in ProcessState, Sound(r),
         proc' = [proc EXCEPT ![p] = r], runJson' = runJson,
         runJson.whole /\ runJson.owner = p => Settled(r) /\ r.runRow = proc[p].runRow
  PROVE  IInv'
<1>1. TypeOK'
  BY DEF IInv, TypeOK
<1>2. \A q \in Process : Sound(proc'[q])
  BY DEF IInv, TypeOK
<1>3. JsonSettled'
  <2> SUFFICES ASSUME runJson.whole
               PROVE  Settled(proc'[runJson.owner]) /\ runJson.run = proc'[runJson.owner].runRow
    BY DEF IInv, JsonSettled
  <2>1. /\ runJson.owner \in Process /\ Settled(proc[runJson.owner])
        /\ runJson.run = proc[runJson.owner].runRow
    BY DEF IInv, JsonSettled, TypeOK
  <2> QED
    BY <2>1 DEF IInv, TypeOK
<1> QED
  BY <1>1, <1>2, <1>3 DEF IInv

LEMMA ProcessFacts ==
  ASSUME IInv, NEW p \in Process
  PROVE  /\ proc \in [Process -> ProcessState] /\ proc[p] \in ProcessState /\ Sound(proc[p])
         /\ runJson.whole /\ runJson.owner = p => Settled(proc[p])
  BY DEF IInv, TypeOK, JsonSettled

(* It only moves to another stage. *)
LEMMA MoveKeeps ==
  ASSUME IInv, NEW p \in Process, NEW next \in Stages \cup Over, Goto(p, next), UNCHANGED runJson,
         Sound([proc[p] EXCEPT !.stage = next]),
         proc[p].stage \in {"finally", "done", "crashed"} => next \in {"finally", "done", "crashed"}
  PROVE  IInv'
<1> DEFINE r == [proc[p] EXCEPT !.stage = next]
<1>1. proc[p] \in ProcessState
  BY ProcessFacts
<1>2. r \in ProcessState /\ proc' = [proc EXCEPT ![p] = r]
  BY <1>1, ProcessFacts DEF ProcessState, Goto
<1>3. (Settled(proc[p]) => Settled(r)) /\ r.runRow = proc[p].runRow
  BY <1>1 DEF Settled, Backed, ProcessState
<1> QED
  BY <1>2, <1>3, ProcessFacts, OwnStepKeeps

(* ... and the command is to exit with 1. *)
LEMMA FailKeeps ==
  ASSUME IInv, NEW p \in Process, NEW next \in Stages \cup Over, Fail(p, next), UNCHANGED runJson,
         Sound([proc[p] EXCEPT !.stage = next]),
         proc[p].stage \in {"finally", "done", "crashed"} => next \in {"finally", "done", "crashed"}
  PROVE  IInv'
<1> DEFINE r == [proc[p] EXCEPT !.stage = next, !.exit = "failed"]
<1>1. proc[p] \in ProcessState
  BY ProcessFacts
<1>2. r \in ProcessState /\ proc' = [proc EXCEPT ![p] = r]
  BY <1>1, ProcessFacts DEF ProcessState, Fail
<1>3. (Settled(proc[p]) => Settled(r)) /\ r.runRow = proc[p].runRow
  BY <1>1 DEF Settled, Backed, ProcessState
<1>4. Sound(r)
  BY <1>1 DEF Sound, ProcessState
<1> QED
  BY <1>2, <1>3, <1>4, ProcessFacts, OwnStepKeeps

LEMMA BeginKeeps == ASSUME IInv, NEW p \in Process, Begin(p) PROVE IInv'
<1>1. /\ Sound([proc[p] EXCEPT !.stage = "open"])
      /\ Sound([proc[p] EXCEPT !.stage = "refused"])
  BY ProcessFacts DEF Begin, At, Sound, ProcessState, Unpersisted, Undecided, Unawaited
<1>2. /\ "open" \in Stages \cup Over /\ "refused" \in Stages \cup Over
      /\ proc[p].stage = "idle" /\ UNCHANGED runJson
      /\ Goto(p, "open") \/ Fail(p, "refused")
  BY DEF Begin, At, Stages, Over
<1>3. CASE Goto(p, "open")
  BY <1>1, <1>2, <1>3, MoveKeeps
<1>4. CASE Fail(p, "refused")
  BY <1>1, <1>2, <1>4, FailKeeps
<1> QED
  BY <1>2, <1>3, <1>4

LEMMA ThrowKeeps == ASSUME IInv, NEW p \in Process, Throw(p) PROVE IInv'
<1>1. Sound([proc[p] EXCEPT !.stage = "catch"])
  BY ProcessFacts DEF Sound, ProcessState, Unpersisted, Undecided, Unawaited, Over
<1>2. proc[p].stage \notin {"finally", "done", "crashed"} /\ "catch" \in Stages
  BY DEF Throw, InTry, Stages
<1> QED
  BY <1>1, <1>2, MoveKeeps DEF Throw

(* What is stored of a process outlives it. *)
LEMMA GoneKeeps ==
  ASSUME NEW r \in ProcessState, NEW how \in {"done", "crashed"}
  PROVE  LET g == Gone(r, how)
         IN  /\ g \in ProcessState
             /\ g.stage = how /\ g.runRow = r.runRow /\ g.rootRow = r.rootRow
             /\ g.artifact = r.artifact /\ g.report = r.report /\ g.lost = r.lost
             /\ g.exit = r.exit
             /\ Sound(r) => Sound(g)
             /\ Settled(r) => Settled(g)
<1> DEFINE g == Gone(r, how)
<1>1. g = [r EXCEPT !.stage = how, !.signal = FALSE, !.result = NoResult, !.handle = "none"]
  BY DEF Gone
<1>2. NoResult \in Outcome /\ how \in Stages \cup Over
  BY ResultsAreOutcomes DEF Over
<1> HIDE DEF g
<1>3. g \in ProcessState
  BY <1>1, <1>2 DEF ProcessState
<1>4. /\ g.stage = how /\ g.runRow = r.runRow /\ g.cancelled = r.cancelled
      /\ g.rootRow = r.rootRow /\ g.artifact = r.artifact /\ g.report = r.report
      /\ g.lost = r.lost /\ g.exit = r.exit
  BY <1>1 DEF ProcessState
<1>5. Sound(r) => Sound(g)
  BY <1>4 DEF Sound, Unpersisted, Undecided, Unawaited
<1>6. Settled(r) => Settled(g)
  BY <1>4 DEF Settled, Backed
<1> QED
  BY <1>3, <1>4, <1>5, <1>6 DEF g

(* The end of a process, from what it has put down before. *)
LEMMA GoneStep ==
  ASSUME IInv, NEW p \in Process, NEW how \in {"done", "crashed"}, NEW r \in ProcessState, Sound(r),
         proc' = [proc EXCEPT ![p] = Gone(r, how)], runJson' = runJson,
         Settled(proc[p]) => Settled(r), r.runRow = proc[p].runRow
  PROVE  IInv'
<1> DEFINE g == Gone(r, how)
<1>1. g \in ProcessState /\ Sound(g) /\ g.runRow = r.runRow /\ (Settled(r) => Settled(g))
  BY GoneKeeps
<1>2. proc' = [proc EXCEPT ![p] = g]
  OBVIOUS
<1> HIDE DEF g
<1> QED
  BY <1>1, <1>2, ProcessFacts, OwnStepKeeps

LEMMA CrashKeeps == ASSUME IInv, NEW p \in Process, Crash(p) PROVE IInv'
<1>1. proc[p] \in ProcessState /\ Sound(proc[p]) /\ runJson' = runJson
  BY ProcessFacts DEF Crash
<1>2. CASE proc' = [proc EXCEPT ![p] = Gone(proc[p], "crashed")]
  BY <1>1, <1>2, GoneStep
<1>3. CASE proc' = [proc EXCEPT ![p] = Gone([proc[p] EXCEPT !.artifact = "part"], "crashed")]
  <2> DEFINE r == [proc[p] EXCEPT !.artifact = "part"]
  <2>1. r \in ProcessState /\ r.runRow = proc[p].runRow
    BY <1>1 DEF ProcessState, FileState
  <2>2. Sound(r) /\ (Settled(proc[p]) => Settled(r))
    BY <1>1 DEF Sound, Settled, Backed, ProcessState
  <2>3. proc' = [proc EXCEPT ![p] = Gone(r, "crashed")]
    BY <1>3
  <2> HIDE DEF r
  <2> QED
    BY <1>1, <2>1, <2>2, <2>3, GoneStep
<1> QED
  BY <1>2, <1>3 DEF Crash

LEMMA AwaitAgentKeeps == ASSUME IInv, NEW p \in Process, AwaitAgent(p) PROVE IInv'
<1>1. Sound([proc[p] EXCEPT !.stage = "await"])
  BY ProcessFacts DEF AwaitAgent, At, Sound, ProcessState, Unpersisted, Undecided, Unawaited, Over
<1>2. "await" \in Stages
  BY DEF Stages
<1> QED
  BY <1>1, <1>2, MoveKeeps DEF AwaitAgent, At

-----------------------------------------------------------------------------
(* It moves on and changes something of its own. *)
LEMMA OpenKeeps == ASSUME IInv, NEW p \in Process, Open(p) PROVE IInv'
<1> DEFINE r == [proc[p] EXCEPT !.stage = "acquire", !.handle = "live", !.rootRow = "running"]
<1>1. proc[p] \in ProcessState /\ proc[p].stage = "open" /\ Sound(proc[p]) /\ UNCHANGED runJson
  BY ProcessFacts DEF Open, At
<1>2. CASE Fail(p, "escaped")
  <2>1. Sound([proc[p] EXCEPT !.stage = "escaped"]) /\ "escaped" \in Over
    BY <1>1 DEF Sound, ProcessState, Unpersisted, Undecided, Unawaited, Over
  <2> QED
    BY <1>1, <1>2, <2>1, FailKeeps
<1>3. CASE proc' = [proc EXCEPT ![p].stage = "acquire", ![p].handle = "live", ![p].rootRow = "running"]
  <2>1. proc' = [proc EXCEPT ![p] = r] /\ r \in ProcessState
    BY <1>1, <1>3, ProcessFacts DEF ProcessState, Stages
  <2>2. Sound(r)
    BY <1>1 DEF Sound, ProcessState, Unpersisted, Undecided, Unawaited, Over
  <2>3. ~Settled(proc[p])
    BY <1>1 DEF Settled
  <2> QED
    BY <1>1, <2>1, <2>2, <2>3, ProcessFacts, OwnStepKeeps
<1> QED
  BY <1>2, <1>3 DEF Open

LEMMA AcquireKeeps == ASSUME IInv, NEW p \in Process, Acquire(p) PROVE IInv'
<1> DEFINE r == [proc[p] EXCEPT !.workspace = TRUE, !.stage = "setup"]
<1>1. proc[p] \in ProcessState /\ proc[p].stage = "acquire" /\ Sound(proc[p])
  BY ProcessFacts DEF Acquire, At
<1>2. proc' = [proc EXCEPT ![p] = r] /\ r \in ProcessState
  BY <1>1, ProcessFacts DEF Acquire, ProcessState, Stages
<1>3. Sound(r)
  BY <1>1 DEF Sound, ProcessState, Unpersisted, Undecided, Unawaited, Over
<1>4. ~Settled(proc[p])
  BY <1>1 DEF Settled
<1> QED
  BY <1>2, <1>3, <1>4, ProcessFacts, OwnStepKeeps DEF Acquire

LEMMA SetupKeeps == ASSUME IInv, NEW p \in Process, Setup(p) PROVE IInv'
<1>1. /\ proc[p] \in ProcessState /\ proc[p].stage = "setup" /\ Sound(proc[p]) /\ UNCHANGED runJson
      /\ proc[p].result = NoResult /\ ~proc[p].cancelled
  BY ProcessFacts DEF Setup, At, Sound, Undecided, Unawaited
<1>2. CASE Goto(p, "agent")
  <2>1. Sound([proc[p] EXCEPT !.stage = "agent"]) /\ "agent" \in Stages
    BY <1>1 DEF Sound, ProcessState, Unpersisted, Undecided, Unawaited, Over, Stages
  <2> QED
    BY <1>1, <1>2, <2>1, MoveKeeps
<1>3. ASSUME NEW t \in {"timeout", "environment_error"},
             proc' = [proc EXCEPT ![p].result.terminal = t, ![p].stage = "collect"]
      PROVE  IInv'
  <2> DEFINE res == [NoResult EXCEPT !.terminal = t]
             r == [proc[p] EXCEPT !.result = res, !.stage = "collect"]
  <2>1. res \in Outcome /\ Explained(res)
    BY DEF NoResult, Outcome, Explained
  <2>2. proc' = [proc EXCEPT ![p] = r]
    BY <1>1, <1>3, ProcessFacts DEF ProcessState
  <2> HIDE DEF res
  <2>3. r \in ProcessState
    BY <1>1, <2>1 DEF ProcessState, Stages
  <2>4. Sound(r)
    BY <1>1, <2>1 DEF Sound, ProcessState, Unpersisted, Undecided, Unawaited, Over, Decided
  <2>5. ~Settled(proc[p])
    BY <1>1 DEF Settled
  <2> QED
    BY <1>1, <2>2, <2>3, <2>4, <2>5, ProcessFacts, OwnStepKeeps
<1> QED
  BY <1>2, <1>3 DEF Setup

-----------------------------------------------------------------------------
(* The agent and the interrupt. *)
LEMMA RunAgentKeeps == ASSUME IInv, NEW p \in Process, RunAgent(p) PROVE IInv'
<1>1. PICK res \in AgentResult(proc[p].config) :
        proc' = [proc EXCEPT ![p].result = res, ![p].stage = "evaluate"]
  BY DEF RunAgent
<1> DEFINE r == [proc[p] EXCEPT !.result = res, !.stage = "evaluate"]
<1>2. proc[p] \in ProcessState /\ proc[p].stage \in {"agent", "await"} /\ Sound(proc[p])
  BY ProcessFacts DEF RunAgent, At
<1>3. res \in Outcome
  BY <1>1, <1>2, ResultsAreOutcomes DEF ProcessState
<1>4. proc' = [proc EXCEPT ![p] = r] /\ r \in ProcessState
  BY <1>1, <1>2, <1>3, ProcessFacts DEF ProcessState, Stages
<1>5. Sound(r)
  BY <1>1, <1>2 DEF Sound, ProcessState, Unpersisted, Undecided, Unawaited, Over
<1>6. ~Settled(proc[p])
  BY <1>2 DEF Settled
<1> QED
  BY <1>4, <1>5, <1>6, ProcessFacts, OwnStepKeeps DEF RunAgent

LEMMA SignalKeeps == ASSUME IInv, NEW p \in Process, Signal(p) PROVE IInv'
<1> DEFINE r == [proc[p] EXCEPT !.signal = TRUE]
<1>1. proc[p] \in ProcessState /\ proc[p].stage \in {"agent", "await"} /\ Sound(proc[p])
  BY ProcessFacts DEF Signal
<1>2. proc' = [proc EXCEPT ![p] = r] /\ r \in ProcessState
  BY <1>1, ProcessFacts DEF Signal, ProcessState
<1>3. Sound(r)
  BY <1>1 DEF Sound, ProcessState
<1>4. ~Settled(proc[p])
  BY <1>1 DEF Settled
<1> QED
  BY <1>2, <1>3, <1>4, ProcessFacts, OwnStepKeeps DEF Signal

LEMMA OnInterruptKeeps == ASSUME IInv, NEW p \in Process, OnInterrupt(p) PROVE IInv'
<1> DEFINE r == [proc[p] EXCEPT !.cancelled = TRUE]
<1>1. /\ proc[p] \in ProcessState /\ proc[p].stage = "await" /\ Sound(proc[p])
      /\ proc[p].runRow = NoResult
  BY ProcessFacts DEF OnInterrupt, At, Sound, Unpersisted
<1>2. proc' = [proc EXCEPT ![p] = r] /\ r \in ProcessState
  BY <1>1, ProcessFacts DEF OnInterrupt, ProcessState
<1>3. Sound(r)
  BY <1>1 DEF Sound, ProcessState, Unpersisted, Undecided, Unawaited, Over, RowDecided
<1>4. ~Settled(proc[p])
  BY <1>1 DEF Settled
<1> QED
  BY <1>2, <1>3, <1>4, ProcessFacts, OwnStepKeeps DEF OnInterrupt

-----------------------------------------------------------------------------
(* The result is decided and recorded. *)
LEMMA EvaluateKeeps == ASSUME IInv, NEW p \in Process, Evaluate(p) PROVE IInv'
<1> DEFINE was == proc[p].result
<1>1. /\ proc[p] \in ProcessState /\ proc[p].stage = "evaluate" /\ Sound(proc[p])
      /\ UNCHANGED runJson /\ was \in AgentResult(proc[p].config) /\ was \in Outcome
      /\ proc[p].config \in Configs /\ ~Settled(proc[p])
  BY ProcessFacts DEF Evaluate, At, Sound, Settled, ProcessState
<1>2. was.score = "null"
  BY <1>1, AgentResultsAreExplained
<1>3. PICK res \in Outcome :
        /\ proc' = [proc EXCEPT ![p].result = res, ![p].stage = "collect"]
        /\ Decided(res, proc[p].cancelled)
  <2>1. CASE proc[p].cancelled
    <3> DEFINE res == [was EXCEPT !.terminal = "cancelled"]
    <3>1. res \in Outcome
      BY <1>1 DEF Outcome
    <3>2. Decided(res, proc[p].cancelled)
      BY <1>1, <1>2, <2>1 DEF Decided, Explained, Outcome
    <3>3. proc' = [proc EXCEPT ![p].result = res, ![p].stage = "collect"]
      BY <1>1, <2>1, ProcessFacts DEF Evaluate, ProcessState
    <3> QED
      BY <3>1, <3>2, <3>3
  <2>2. CASE ~proc[p].cancelled /\ was.terminal = "resolved"
    <3>1. PICK e \in EvaluationResult : proc' = [proc EXCEPT ![p].result = e, ![p].stage = "collect"]
      BY <2>2 DEF Evaluate
    <3>2. e \in Outcome /\ Decided(e, proc[p].cancelled)
      BY <2>2, ResultsAreOutcomes, EvaluationsAreExplained DEF Decided
    <3> QED
      BY <3>1, <3>2
  <2>3. CASE ~proc[p].cancelled /\ was.terminal # "resolved"
    <3>1. proc' = [proc EXCEPT ![p].stage = "collect"]
      BY <2>3 DEF Evaluate, Goto
    <3>2. [proc[p] EXCEPT !.result = was, !.stage = "collect"] = [proc[p] EXCEPT !.stage = "collect"]
      BY <1>1 DEF ProcessState
    <3>3. proc' = [proc EXCEPT ![p].result = was, ![p].stage = "collect"]
      BY <3>1, <3>2, ProcessFacts
    <3>4. Decided(was, proc[p].cancelled)
      BY <1>1, <2>3, AgentResultsAreExplained DEF Decided
    <3> QED
      BY <1>1, <3>3, <3>4
  <2> QED
    BY <2>1, <2>2, <2>3
<1> DEFINE r == [proc[p] EXCEPT !.result = res, !.stage = "collect"]
<1>4. proc' = [proc EXCEPT ![p] = r] /\ r \in ProcessState
  BY <1>1, <1>3, ProcessFacts DEF ProcessState, Stages
<1>5. Sound(r)
  BY <1>1, <1>3 DEF Sound, ProcessState, Unpersisted, Undecided, Unawaited, Over
<1> QED
  BY <1>1, <1>4, <1>5, ProcessFacts, OwnStepKeeps

LEMMA CollectKeeps == ASSUME IInv, NEW p \in Process, Collect(p) PROVE IInv'
<1>1. PICK a \in {"part", "whole"}, next \in {"persist", "catch"} :
        proc' = [proc EXCEPT ![p].artifact = a, ![p].stage = next]
  BY DEF Collect
<1> DEFINE r == [proc[p] EXCEPT !.artifact = a, !.stage = next]
<1>2. /\ proc[p] \in ProcessState /\ proc[p].stage = "collect" /\ Sound(proc[p])
      /\ ~Settled(proc[p])
  BY ProcessFacts DEF Collect, At, Settled
<1>3. proc' = [proc EXCEPT ![p] = r] /\ r \in ProcessState
  BY <1>1, <1>2, ProcessFacts DEF ProcessState, Stages, FileState
<1>4. Sound(r)
  BY <1>2 DEF Sound, ProcessState, Unpersisted, Undecided, Unawaited, Over
<1> QED
  BY <1>2, <1>3, <1>4, ProcessFacts, OwnStepKeeps DEF Collect

LEMMA PersistKeeps == ASSUME IInv, NEW p \in Process, Persist(p) PROVE IInv'
<1> DEFINE row == Recorded(proc[p].result)
           r == [proc[p] EXCEPT !.runRow = row, !.stage = "end"]
<1>1. /\ proc[p] \in ProcessState /\ proc[p].stage = "persist" /\ Sound(proc[p])
      /\ ~Settled(proc[p]) /\ proc[p].result \in Outcome
  BY ProcessFacts DEF Persist, At, Settled, ProcessState
<1>2. row \in Outcome
  BY <1>1, RecordedIsOutcome
<1>3. RowDecided(row, proc[p].cancelled)
  BY <1>1 DEF RowDecided, Sound
<1>4. proc' = [proc EXCEPT ![p] = r]
  BY <1>1, ProcessFacts DEF Persist, ProcessState
<1>5. row = Recorded(r.result) /\ row # NoResult
  <2>1. row.terminal # "none"
    BY <1>1 DEF Sound, Decided, Explained, Recorded, Outcome
  <2> QED
    BY <1>1, <2>1 DEF ProcessState, NoResult
<1> HIDE DEF row
<1>6. r \in ProcessState
  BY <1>1, <1>2 DEF ProcessState, Stages
<1>7. Sound(r)
  BY <1>1, <1>3, <1>5 DEF Sound, ProcessState, Unpersisted, Undecided, Unawaited, Over
<1> QED
  BY <1>1, <1>4, <1>6, <1>7, ProcessFacts, OwnStepKeeps DEF Persist

LEMMA EndRootKeeps == ASSUME IInv, NEW p \in Process, EndRoot(p) PROVE IInv'
<1>1. /\ proc[p] \in ProcessState /\ proc[p].stage = "end" /\ Sound(proc[p])
      /\ ~Settled(proc[p])
  BY ProcessFacts DEF EndRoot, At, Settled
<1>2. CASE proc' = [proc EXCEPT ![p].handle = "ended", ![p].stage = "write",
                                ![p].rootRow = RootStatus(proc[p].result)]
  <2> DEFINE status == RootStatus(proc[p].result)
             r == [proc[p] EXCEPT !.handle = "ended", !.stage = "write", !.rootRow = status]
  <2>1. status \in {"ok", "error"}
    BY DEF RootStatus
  <2>2. status = RootStatus(proc[p].runRow)
    BY <1>1 DEF RootStatus, Recorded, Sound, ProcessState, Outcome
  <2>3. proc' = [proc EXCEPT ![p] = r]
    BY <1>1, <1>2, ProcessFacts DEF ProcessState
  <2> HIDE DEF status
  <2>4. r \in ProcessState
    BY <1>1, <2>1 DEF ProcessState, Stages
  <2>5. Sound(r)
    BY <1>1, <2>2 DEF Sound, ProcessState, Unpersisted, Undecided, Unawaited, Over
  <2> QED
    BY <1>1, <2>3, <2>4, <2>5, ProcessFacts, OwnStepKeeps DEF EndRoot
<1>3. CASE proc' = [proc EXCEPT ![p].handle = "ended", ![p].stage = "catch",
                                ![p].lost = @ \cup {"database"}]
  <2> DEFINE r == [proc[p] EXCEPT !.handle = "ended", !.stage = "catch",
                                  !.lost = @ \cup {"database"}]
  <2>1. proc' = [proc EXCEPT ![p] = r] /\ r \in ProcessState
    BY <1>1, <1>3, ProcessFacts DEF ProcessState, Stages
  <2>2. Sound(r)
    BY <1>1 DEF Sound, ProcessState, Unpersisted, Undecided, Unawaited, Over
  <2> QED
    BY <1>1, <2>1, <2>2, ProcessFacts, OwnStepKeeps DEF EndRoot
<1> QED
  BY <1>2, <1>3 DEF EndRoot

-----------------------------------------------------------------------------
(* run.json, and the end. *)
LEMMA WriteKeeps == ASSUME IInv, NEW p \in Process, Write(p) PROVE IInv'
<1> DEFINE r == [proc[p] EXCEPT !.stage = "writing"]
<1>1. proc[p] \in ProcessState /\ proc[p].stage = "write" /\ Sound(proc[p])
  BY ProcessFacts DEF Write, At
<1>2. proc' = [proc EXCEPT ![p] = r] /\ r \in ProcessState
  BY <1>1, ProcessFacts DEF Write, Goto, ProcessState, Stages
<1>3. Sound(r)
  BY <1>1 DEF Sound, ProcessState, Unpersisted, Undecided, Unawaited, Over
<1>4. TypeOK'
  BY <1>2, ResultsAreOutcomes DEF IInv, TypeOK, Write
<1>5. \A q \in Process : Sound(proc'[q])
  BY <1>2, <1>3 DEF IInv, TypeOK
<1>6. JsonSettled'
  BY DEF Write, JsonSettled
<1> QED
  BY <1>4, <1>5, <1>6 DEF IInv

LEMMA WrittenKeeps == ASSUME IInv, NEW p \in Process, Written(p) PROVE IInv'
<1>1. proc[p] \in ProcessState /\ proc[p].stage = "writing" /\ Sound(proc[p]) /\ ~Settled(proc[p])
  BY ProcessFacts DEF Written, At, Settled
<1>2. CASE Goto(p, "catch") /\ UNCHANGED runJson
  <2>1. Sound([proc[p] EXCEPT !.stage = "catch"]) /\ "catch" \in Stages
    BY <1>1 DEF Sound, ProcessState, Unpersisted, Undecided, Unawaited, Over, Stages
  <2> QED
    BY <1>1, <1>2, <2>1, MoveKeeps DEF Written
<1>3. ASSUME Goto(p, "finally") \/ Fail(p, "finally"),
             runJson' = IF runJson.owner = p
                        THEN [owner |-> p, whole |-> TRUE, run |-> Recorded(proc[p].result)]
                        ELSE runJson
      PROVE  IInv'
  <2> DEFINE row == Recorded(proc[p].result)
  <2>1. PICK e \in {"ok", "failed"} :
           /\ proc' = [proc EXCEPT ![p] = [proc[p] EXCEPT !.stage = "finally", !.exit = e]]
           /\ [proc[p] EXCEPT !.stage = "finally", !.exit = e] \in ProcessState
    <3>1. CASE Fail(p, "finally")
      BY <1>1, <3>1, ProcessFacts DEF Fail, ProcessState, Stages
    <3>2. CASE Goto(p, "finally")
      <4>1. [proc[p] EXCEPT !.stage = "finally"] =
              [proc[p] EXCEPT !.stage = "finally", !.exit = proc[p].exit]
        BY <1>1 DEF ProcessState
      <4> QED
        BY <1>1, <3>2, <4>1, ProcessFacts DEF Goto, ProcessState, Stages
    <3> QED
      BY <1>3, <3>1, <3>2
  <2> DEFINE r == [proc[p] EXCEPT !.stage = "finally", !.exit = e]
  <2>2. Sound(r) /\ Settled(r) /\ r.runRow = proc[p].runRow /\ proc[p].runRow = row
    BY <1>1 DEF Sound, ProcessState, Unpersisted, Undecided, Unawaited, Over, Settled, Backed
  <2>3. row \in Outcome
    BY <1>1, RecordedIsOutcome DEF ProcessState
  <2>4. r \in ProcessState /\ proc' = [proc EXCEPT ![p] = r]
    BY <2>1
  <2> HIDE DEF r, row
  <2>5. /\ runJson.owner = p => /\ runJson'.owner = p /\ runJson'.run = row
        /\ runJson.owner # p => runJson' = runJson
        /\ runJson \in [owner : Process \cup {Nobody}, whole : BOOLEAN, run : Outcome]
        /\ runJson' \in [owner : Process \cup {Nobody}, whole : BOOLEAN, run : Outcome]
    BY <1>3, <2>3 DEF IInv, TypeOK, row
  <2>6. TypeOK'
    BY <2>4, <2>5 DEF IInv, TypeOK
  <2>7. \A q \in Process : Sound(proc'[q])
    BY <2>2, <2>4 DEF IInv, TypeOK
  <2>8. JsonSettled'
    <3>1. CASE runJson.owner = p
      BY <2>2, <2>4, <2>5, <3>1, ProcessFacts, RunAssumption DEF JsonSettled
    <3>2. CASE runJson.owner # p
      <4> SUFFICES ASSUME runJson.whole
                   PROVE  /\ runJson.owner # Nobody /\ Settled(proc'[runJson.owner])
                          /\ runJson.run = proc'[runJson.owner].runRow
        BY <2>5, <3>2 DEF JsonSettled
      <4>1. /\ runJson.owner \in Process /\ Settled(proc[runJson.owner])
            /\ runJson.run = proc[runJson.owner].runRow
        BY <2>5 DEF IInv, JsonSettled
      <4> QED
        BY <2>4, <3>2, <4>1, ProcessFacts, RunAssumption
    <3> QED
      BY <3>1, <3>2
  <2> QED
    BY <2>6, <2>7, <2>8 DEF IInv
<1> QED
  BY <1>2, <1>3 DEF Written

LEMMA CatchKeeps == ASSUME IInv, NEW p \in Process, Catch(p) PROVE IInv'
<1>1. /\ proc[p] \in ProcessState /\ proc[p].stage = "catch" /\ Sound(proc[p])
      /\ ~Settled(proc[p]) /\ runJson' = runJson
  BY ProcessFacts DEF Catch, At, Settled
<1>2. CASE Fail(p, "finally")
  <2>1. Sound([proc[p] EXCEPT !.stage = "finally"]) /\ "finally" \in Stages
    BY <1>1 DEF Sound, ProcessState, Unpersisted, Undecided, Unawaited, Stages
  <2> QED
    BY <1>1, <1>2, <2>1, FailKeeps
<1>3. ASSUME NEW s \in FileState, Reported(p, s) PROVE IInv'
  <2> DEFINE l == IF s = "whole" THEN proc[p].lost ELSE proc[p].lost \cup {"file"}
             r == [proc[p] EXCEPT !.handle = "ended", !.rootRow = "error", !.report = s, !.lost = l,
                                  !.exit = "failed", !.stage = "finally"]
  <2>1. l \in SUBSET {"database", "file"}
    BY <1>1 DEF ProcessState
  <2>2. proc' = [proc EXCEPT ![p] = r]
    BY <1>1, <1>3, ProcessFacts DEF Reported
  <2> HIDE DEF l
  <2>3. r \in ProcessState
    BY <1>1, <2>1 DEF ProcessState, Stages
  <2>4. Sound(r)
    BY <1>1 DEF Sound, ProcessState, Unpersisted, Undecided, Unawaited
  <2> QED
    BY <1>1, <2>2, <2>3, <2>4, ProcessFacts, OwnStepKeeps
<1>4. ASSUME NEW h \in {"live", "ended"},
             proc' = [proc EXCEPT ![p].handle = h, ![p].lost = @ \cup {"database"},
                                  ![p].exit = "failed", ![p].stage = "finally"]
      PROVE  IInv'
  <2> DEFINE r == [proc[p] EXCEPT !.handle = h, !.lost = @ \cup {"database"},
                                  !.exit = "failed", !.stage = "finally"]
  <2>1. proc' = [proc EXCEPT ![p] = r] /\ r \in ProcessState
    BY <1>1, <1>4, ProcessFacts DEF ProcessState, Stages
  <2>2. Sound(r)
    BY <1>1 DEF Sound, ProcessState, Unpersisted, Undecided, Unawaited
  <2> QED
    BY <1>1, <2>1, <2>2, ProcessFacts, OwnStepKeeps
<1> QED
  BY <1>2, <1>3, <1>4 DEF Catch, FileState

LEMMA FinallyKeeps == ASSUME IInv, NEW p \in Process, Finally(p) PROVE IInv'
<1>1. proc[p] \in ProcessState /\ proc[p].stage = "finally" /\ Sound(proc[p]) /\ runJson' = runJson
  BY ProcessFacts DEF Finally, At
<1>2. CASE proc' = [proc EXCEPT ![p] = Gone([proc[p] EXCEPT !.workspace = FALSE], "done")]
  <2> DEFINE r == [proc[p] EXCEPT !.workspace = FALSE]
  <2>1. r \in ProcessState /\ r.runRow = proc[p].runRow
    BY <1>1 DEF ProcessState
  <2>2. Sound(r) /\ (Settled(proc[p]) => Settled(r))
    BY <1>1 DEF Sound, Settled, Backed, ProcessState
  <2>3. proc' = [proc EXCEPT ![p] = Gone(r, "done")]
    BY <1>2
  <2> HIDE DEF r
  <2> QED
    BY <1>1, <2>1, <2>2, <2>3, GoneStep
<1>3. CASE proc' = [proc EXCEPT ![p] = Gone([proc[p] EXCEPT !.exit = "failed"], "done")]
  <2> DEFINE r == [proc[p] EXCEPT !.exit = "failed"]
  <2>1. r \in ProcessState /\ r.runRow = proc[p].runRow
    BY <1>1 DEF ProcessState
  <2>2. Sound(r) /\ (Settled(proc[p]) => Settled(r))
    BY <1>1 DEF Sound, Settled, Backed, ProcessState
  <2>3. proc' = [proc EXCEPT ![p] = Gone(r, "done")]
    BY <1>3
  <2> HIDE DEF r
  <2> QED
    BY <1>1, <2>1, <2>2, <2>3, GoneStep
<1> QED
  BY <1>2, <1>3 DEF Finally

-----------------------------------------------------------------------------
LEMMA InitIInv == Init => IInv
<1> SUFFICES ASSUME Init PROVE IInv
  OBVIOUS
<1>1. ASSUME NEW p \in Process PROVE proc[p] \in ProcessState /\ Sound(proc[p])
  <2>1. PICK c \in Configs : proc[p] = Fresh(c)
    BY DEF Init
  <2>2. proc[p] \in ProcessState
    BY <2>1, ResultsAreOutcomes DEF Fresh, ProcessState, Stages, FileState
  <2>3. Sound(proc[p])
    BY <2>1 DEF Fresh, Sound, Unpersisted, Undecided, Unawaited, Over, RowDecided
  <2> QED
    BY <2>2, <2>3
<1>2. TypeOK
  BY <1>1, ResultsAreOutcomes DEF Init, TypeOK
<1>3. JsonSettled
  BY DEF Init, JsonSettled
<1> QED
  BY <1>1, <1>2, <1>3 DEF IInv

LEMMA NextKeeps == ASSUME IInv, [Next]_vars PROVE IInv'
<1>1. CASE UNCHANGED vars
  BY <1>1 DEF vars, IInv, TypeOK, JsonSettled
<1>2. ASSUME NEW p \in Process,
             Step(p) \/ RunAgent(p) \/ Throw(p) \/ Signal(p) \/ OnInterrupt(p) \/ Crash(p)
      PROVE  IInv'
  BY <1>2, BeginKeeps, OpenKeeps, AcquireKeeps, SetupKeeps, AwaitAgentKeeps, RunAgentKeeps,
     EvaluateKeeps, CollectKeeps, PersistKeeps, EndRootKeeps, WriteKeeps, WrittenKeeps, CatchKeeps,
     FinallyKeeps, ThrowKeeps, SignalKeeps, OnInterruptKeeps, CrashKeeps DEF Step
<1> QED
  BY <1>1, <1>2 DEF Next, AllOver

(* The inductive invariant: what each stage of main stands on.             *)
THEOREM RunInvariant == Spec => []IInv
  BY InitIInv, NextKeeps, PTL DEF Spec

(* Every reachable state is one of the types RunCommand declares. *)
THEOREM TypeCorrect == Spec => []TypeOK
<1>1. IInv => TypeOK
  BY DEF IInv
<1> QED
  BY <1>1, RunInvariant, PTL

-----------------------------------------------------------------------------
(* A step of one process leaves the others alone. *)
Moves(p) == Step(p) \/ RunAgent(p) \/ Throw(p) \/ Signal(p) \/ OnInterrupt(p) \/ Crash(p)

LEMMA OthersStay ==
  ASSUME IInv, NEW p \in Process, Moves(p), NEW q \in Process, q # p
  PROVE  proc'[q] = proc[q]
<1>1. proc \in [Process -> ProcessState]
  BY ProcessFacts
<1> QED
  BY <1>1 DEF Moves, Step, Begin, Open, Acquire, Setup, AwaitAgent, RunAgent, Evaluate, Collect,
     Persist, EndRoot, Write, Written, Catch, Finally, Throw, Signal, OnInterrupt, Crash, Goto, Fail,
     Reported

(* What the catch block leaves. *)
LEMMA CatchFacts ==
  ASSUME IInv, NEW p \in Process, Catch(p)
  PROVE  /\ proc[p].stage = "catch" /\ proc'[p].stage = "finally" /\ proc'[p].exit = "failed"
         /\ proc'[p].runRow = proc[p].runRow /\ proc'[p].artifact = proc[p].artifact
         /\ \/ /\ proc[p].handle = "live" /\ proc'[p].rootRow = "error"
               /\ proc'[p].report = "whole" \/ "file" \in proc'[p].lost
            \/ /\ proc[p].handle = "ended"
               /\ proc'[p].rootRow = proc[p].rootRow /\ proc'[p].lost = proc[p].lost
            \/ /\ proc[p].handle = "live"
               /\ proc'[p].rootRow = proc[p].rootRow /\ "database" \in proc'[p].lost
<1>1. proc \in [Process -> ProcessState] /\ proc[p] \in ProcessState /\ At(p, "catch")
  BY ProcessFacts DEF Catch
<1>2. CASE proc[p].handle = "ended" /\ Fail(p, "finally")
  BY <1>1, <1>2 DEF Fail, At, ProcessState
<1>3. ASSUME proc[p].handle = "live", NEW s \in FileState, Reported(p, s)
      PROVE  /\ proc'[p].stage = "finally" /\ proc'[p].exit = "failed"
             /\ proc'[p].runRow = proc[p].runRow /\ proc'[p].artifact = proc[p].artifact
             /\ proc'[p].rootRow = "error" /\ (proc'[p].report = "whole" \/ "file" \in proc'[p].lost)
  <2> DEFINE l == IF s = "whole" THEN proc[p].lost ELSE proc[p].lost \cup {"file"}
  <2>1. s = "whole" \/ "file" \in l
    OBVIOUS
  <2>2. proc' = [proc EXCEPT ![p] = [proc[p] EXCEPT !.handle = "ended", !.rootRow = "error",
                    !.report = s, !.lost = l, !.exit = "failed", !.stage = "finally"]]
    BY <1>1, <1>3 DEF Reported
  <2> HIDE DEF l
  <2> QED
    BY <1>1, <2>1, <2>2 DEF ProcessState
<1>4. ASSUME proc[p].handle = "live", NEW h \in {"live", "ended"},
             proc' = [proc EXCEPT ![p].handle = h, ![p].lost = @ \cup {"database"},
                                  ![p].exit = "failed", ![p].stage = "finally"]
      PROVE  /\ proc'[p].stage = "finally" /\ proc'[p].exit = "failed"
             /\ proc'[p].runRow = proc[p].runRow /\ proc'[p].artifact = proc[p].artifact
             /\ proc'[p].rootRow = proc[p].rootRow /\ "database" \in proc'[p].lost
  BY <1>1, <1>4 DEF ProcessState
<1> QED
  BY <1>1, <1>2, <1>3, <1>4 DEF Catch, At, FileState

(* What a process has stored when it goes. *)
LEMMA Leaving ==
  ASSUME IInv, NEW p \in Process, Finally(p) \/ Crash(p)
  PROVE  /\ proc'[p].stage \in {"done", "crashed"} /\ (Finally(p) => proc'[p].stage = "done")
         /\ Crash(p) => proc'[p].stage = "crashed"
         /\ proc'[p].runRow = proc[p].runRow /\ proc'[p].rootRow = proc[p].rootRow
         /\ proc'[p].report = proc[p].report /\ proc'[p].lost = proc[p].lost
         /\ proc'[p].exit \in {proc[p].exit, "failed"}
         /\ proc'[p].artifact = proc[p].artifact \/ (At(p, "collect") /\ Crash(p))
<1> DEFINE x == proc[p]
<1>1. proc \in [Process -> ProcessState] /\ x \in ProcessState
  BY ProcessFacts
<1>2. ASSUME NEW r \in ProcessState, NEW how \in {"done", "crashed"},
             proc' = [proc EXCEPT ![p] = Gone(r, how)]
      PROVE  /\ proc'[p].stage = how /\ proc'[p].runRow = r.runRow /\ proc'[p].rootRow = r.rootRow
             /\ proc'[p].report = r.report /\ proc'[p].lost = r.lost
             /\ proc'[p].exit = r.exit /\ proc'[p].artifact = r.artifact
  <2>1. proc'[p] = Gone(r, how)
    BY <1>1, <1>2
  <2> QED
    BY <2>1, GoneKeeps
<1>3. ASSUME Finally(p)
      PROVE  \E r \in ProcessState :
               /\ proc' = [proc EXCEPT ![p] = Gone(r, "done")]
               /\ r.runRow = x.runRow /\ r.rootRow = x.rootRow /\ r.report = x.report
               /\ r.lost = x.lost /\ r.exit \in {x.exit, "failed"} /\ r.artifact = x.artifact
  <2>1. CASE proc' = [proc EXCEPT ![p] = Gone([x EXCEPT !.workspace = FALSE], "done")]
    <3>1. LET r == [x EXCEPT !.workspace = FALSE]
          IN  /\ r \in ProcessState
              /\ r.runRow = x.runRow /\ r.rootRow = x.rootRow /\ r.report = x.report
              /\ r.lost = x.lost /\ r.exit \in {x.exit, "failed"} /\ r.artifact = x.artifact
      BY <1>1 DEF ProcessState
    <3> QED
      BY <2>1, <3>1
  <2>2. CASE proc' = [proc EXCEPT ![p] = Gone([x EXCEPT !.exit = "failed"], "done")]
    <3>1. LET r == [x EXCEPT !.exit = "failed"]
          IN  /\ r \in ProcessState
              /\ r.runRow = x.runRow /\ r.rootRow = x.rootRow /\ r.report = x.report
              /\ r.lost = x.lost /\ r.exit \in {x.exit, "failed"} /\ r.artifact = x.artifact
      BY <1>1 DEF ProcessState
    <3> QED
      BY <2>2, <3>1
  <2> QED
    BY <1>3, <2>1, <2>2 DEF Finally
<1>4. ASSUME Crash(p)
      PROVE  \E r \in ProcessState :
               /\ proc' = [proc EXCEPT ![p] = Gone(r, "crashed")]
               /\ r.runRow = x.runRow /\ r.rootRow = x.rootRow /\ r.report = x.report
               /\ r.lost = x.lost /\ r.exit = x.exit
               /\ r.artifact = x.artifact \/ At(p, "collect")
  <2>1. CASE proc' = [proc EXCEPT ![p] = Gone(x, "crashed")]
    BY <1>1, <2>1
  <2>2. CASE /\ At(p, "collect")
             /\ proc' = [proc EXCEPT ![p] = Gone([x EXCEPT !.artifact = "part"], "crashed")]
    <3>1. LET r == [x EXCEPT !.artifact = "part"]
          IN  /\ r \in ProcessState
              /\ r.runRow = x.runRow /\ r.rootRow = x.rootRow /\ r.report = x.report
              /\ r.lost = x.lost /\ r.exit = x.exit
      BY <1>1 DEF ProcessState, FileState
    <3> QED
      BY <2>2, <3>1
  <2> QED
    BY <1>4, <2>1, <2>2 DEF Crash
<1>5. CASE Finally(p)
  <2>1. At(p, "finally")
    BY <1>5 DEF Finally
  <2>2. ~Crash(p) \/ proc'[p].stage = "crashed"
    BY <1>2, <1>4
  <2> QED
    BY <1>2, <1>3, <1>5, <2>1, <2>2 DEF At
<1>6. CASE Crash(p)
  <2>1. ~Finally(p) \/ proc'[p].stage = "done"
    BY <1>2, <1>3
  <2> QED
    BY <1>2, <1>4, <1>6, <2>1
<1> QED
  BY <1>5, <1>6

(* Where there is a cut patch there is a run that left it so. *)
CutsKnown == (\E p \in Process : proc[p].artifact = "part") => \E q \in Process : Cut(q)

(* A cut patch stays as it is. *)
LEMMA CutStays ==
  ASSUME IInv, NEW p \in Process, Moves(p), NEW q \in Process, Cut(q)
  PROVE  Cut(q)'
<1>1. CASE q # p
  BY <1>1, OthersStay DEF Cut
<1>2. CASE q = p
  <2>1. proc \in [Process -> ProcessState] /\ proc[p] \in ProcessState
    BY ProcessFacts
  <2>2. proc[p].stage \in {"catch", "finally", "done", "refused", "escaped", "crashed"}
    BY <1>2 DEF Cut, Over
  <2>3. Catch(p) \/ Finally(p) \/ Crash(p)
    BY <2>2, Moves(p) DEF Moves, Step, Begin, Open, Acquire, Setup, AwaitAgent, RunAgent, Evaluate,
       Collect, Persist, EndRoot, Write, Written, Throw, Signal, OnInterrupt, At, InTry
  <2>4. /\ proc'[p].artifact = proc[p].artifact /\ proc'[p].runRow = proc[p].runRow
        /\ proc'[p].stage \in {"finally", "done", "crashed"}
    <3>1. CASE Catch(p)
      BY <3>1, CatchFacts
    <3>2. CASE Finally(p) \/ Crash(p)
      BY <2>2, <3>2, Leaving DEF At
    <3> QED
      BY <2>3, <3>1, <3>2
  <2> QED
    BY <1>2, <2>4 DEF Cut, Over
<1> QED
  BY <1>1, <1>2

(* A patch is cut by its own writer, or found cut. *)
LEMMA CutBegins ==
  ASSUME IInv, NEW p \in Process, Moves(p), proc[p].artifact # "part", proc'[p].artifact = "part"
  PROVE  \E q \in Process : Cut(q) \/ Cut(q)'
<1>1. proc \in [Process -> ProcessState] /\ proc[p] \in ProcessState /\ Sound(proc[p])
  BY ProcessFacts
<1>2. Collect(p) \/ Crash(p)
  <2>1. CASE Setup(p)
    BY <1>1, <2>1 DEF Setup, Goto, ProcessState
  <2>2. CASE Begin(p) \/ Open(p) \/ Acquire(p) \/ AwaitAgent(p)
    BY <1>1, <2>2 DEF Begin, Open, Acquire, AwaitAgent, Goto, Fail, ProcessState
  <2>3. CASE RunAgent(p)
    BY <1>1, <2>3 DEF RunAgent, ProcessState
  <2>7. CASE Evaluate(p)
    <3>1. CASE proc' = [proc EXCEPT ![p].result.terminal = "cancelled", ![p].stage = "collect"]
      BY <1>1, <3>1 DEF ProcessState
    <3>2. CASE \E e \in EvaluationResult : proc' = [proc EXCEPT ![p].result = e, ![p].stage = "collect"]
      BY <1>1, <3>2 DEF ProcessState
    <3>3. CASE Goto(p, "collect")
      BY <1>1, <3>3 DEF Goto, ProcessState
    <3> QED
      BY <2>7, <3>1, <3>2, <3>3 DEF Evaluate
  <2>4. CASE Persist(p) \/ EndRoot(p) \/ Write(p) \/ Written(p)
    BY <1>1, <2>4 DEF Persist, EndRoot, Write, Written, Goto, Fail, ProcessState
  <2>5. CASE Throw(p) \/ Signal(p) \/ OnInterrupt(p)
    BY <1>1, <2>5 DEF Throw, Signal, OnInterrupt, Goto, ProcessState
  <2>8. CASE Catch(p)
    BY <2>8, CatchFacts
  <2>6. CASE Finally(p)
    BY <2>6, Leaving DEF Finally, At
  <2> QED
    BY <2>1, <2>2, <2>3, <2>4, <2>5, <2>6, <2>7, <2>8, Moves(p) DEF Moves, Step
<1>3. CASE Collect(p)
  <2>1. PICK a \in {"part", "whole"}, next \in {"persist", "catch"} :
          /\ proc' = [proc EXCEPT ![p].artifact = a, ![p].stage = next]
          /\ next = "persist" /\ a = "part" => \E q \in Process \ {p} : Cut(q)
    BY <1>3 DEF Collect
  <2>2. /\ proc'[p].artifact = a /\ proc'[p].stage = next /\ proc'[p].runRow = proc[p].runRow
        /\ proc[p].runRow = NoResult
    BY <1>1, <1>3, <2>1 DEF Collect, At, Sound, Unpersisted, ProcessState
  <2> QED
    BY <2>1, <2>2 DEF Cut
<1>4. CASE Crash(p)
  <2>1. At(p, "collect") /\ proc'[p].stage = "crashed" /\ proc'[p].runRow = proc[p].runRow
    BY <1>4, Leaving
  <2> QED
    BY <1>1, <2>1 DEF At, Sound, Unpersisted, Cut, Over
<1> QED
  BY <1>2, <1>3, <1>4

LEMMA CutsInit == Init => CutsKnown
  BY DEF Init, Fresh, CutsKnown

LEMMA CutsStep == ASSUME IInv, CutsKnown, [Next]_vars PROVE CutsKnown'
<1>1. CASE UNCHANGED vars
  BY <1>1 DEF vars, CutsKnown, Cut
<1>2. ASSUME NEW p \in Process, Moves(p) PROVE CutsKnown'
  <2> SUFFICES ASSUME NEW o \in Process, proc'[o].artifact = "part"
               PROVE  \E q \in Process : Cut(q)'
    BY DEF CutsKnown
  <2>1. \E q \in Process : Cut(q) \/ Cut(q)'
    <3>1. CASE proc[o].artifact = "part"
      BY <3>1 DEF CutsKnown
    <3>2. CASE proc[o].artifact # "part"
      BY <1>2, <3>2, OthersStay, CutBegins
    <3> QED
      BY <3>1, <3>2
  <2> QED
    BY <1>2, <2>1, CutStays
<1> QED
  BY <1>1, <1>2 DEF Next, Moves, AllOver

(* A whole run.json means that everything it stands for is stored, even     *)
(* when runs overlap and whichever of them is killed; its patch is whole    *)
(* but where a run that was never recorded had left the same one cut.      *)
THEOREM RunJsonBacked == Spec => []RunJsonIsBacked
<1>1. IInv /\ CutsKnown => RunJsonIsBacked
  <2> SUFFICES ASSUME IInv, CutsKnown, runJson.whole PROVE RunJsonIsBacked
    BY DEF RunJsonIsBacked
  <2> DEFINE o == runJson.owner
  <2>1. o \in Process /\ Settled(proc[o]) /\ runJson.run = proc[o].runRow
    BY DEF IInv, TypeOK, JsonSettled
  <2>2. proc[o].artifact \in {"part", "whole"}
    BY <2>1, ProcessFacts DEF Settled, Backed, ProcessState, FileState
  <2>3. proc[o].artifact = "part" => \E q \in Process \ {o} : Cut(q)
    BY <2>1 DEF CutsKnown, Cut, Settled, Backed
  <2> QED
    BY <2>1, <2>2, <2>3 DEF RunJsonIsBacked, Settled, Backed
<1>2. IInv /\ CutsKnown /\ [Next]_vars => CutsKnown'
  BY CutsStep
<1> QED
  BY <1>1, <1>2, CutsInit, RunInvariant, PTL DEF Spec

LEMMA RecordedFacts ==
  ASSUME NEW res \in Outcome
  PROVE  /\ Recorded(res).terminal = res.terminal /\ Recorded(res).score = res.score
         /\ Recorded(res).category = Category(res)
  BY DEF Recorded, Outcome

LEMMA RowFacts ==
  ASSUME IInv, NEW p \in Process, proc[p].runRow # NoResult
  PROVE  \E res \in Outcome : /\ Decided(res, proc[p].cancelled)
                              /\ proc[p].runRow.terminal = res.terminal
                              /\ proc[p].runRow.score = res.score
                              /\ proc[p].runRow.category = Category(res)
<1>1. PICK res \in Outcome : proc[p].runRow = Recorded(res) /\ Decided(res, proc[p].cancelled)
  BY ProcessFacts DEF Sound, RowDecided
<1> QED
  BY <1>1, RecordedFacts

(* An interrupt that was noticed decides what is recorded. *)
THEOREM CancelDecides == Spec => []CancelWins
<1>1. IInv => CancelWins
  <2> SUFFICES ASSUME IInv, NEW p \in Process, proc[p].cancelled, proc[p].runRow # NoResult
               PROVE  proc[p].runRow.terminal = "cancelled" /\ proc[p].runRow.score = "null"
    BY DEF CancelWins
  <2> QED
    BY RowFacts DEF Decided
<1> QED
  BY <1>1, RunInvariant, PTL

(* Terminal state, category and score of every recorded run agree. *)
THEOREM RecordsExplained == Spec => []FailuresExplained
<1>1. IInv => FailuresExplained
  <2> SUFFICES ASSUME IInv, NEW p \in Process, proc[p].runRow # NoResult
               PROVE  LET r == proc[p].runRow
                      IN  /\ r.terminal = "resolved" <=> r.score = "passed"
                          /\ r.terminal = "resolved" => r.category = "null"
                          /\ r.category = "null" => r.terminal \in {"resolved", "cancelled"}
                          /\ r.terminal = "environment_error" => r.score = "null"
    BY DEF FailuresExplained
  <2>1. PICK res \in Outcome : /\ Decided(res, proc[p].cancelled)
                               /\ proc[p].runRow.terminal = res.terminal
                               /\ proc[p].runRow.score = res.score
                               /\ proc[p].runRow.category = Category(res)
    BY RowFacts
  <2>2. Category(res) = "null" => res.terminal \in {"resolved", "cancelled"}
    BY <2>1 DEF Category, Decided, Explained, Outcome
  <2>3. res.terminal = "resolved" => Category(res) = "null"
    BY <2>1 DEF Category, Decided, Explained
  <2> QED
    BY <2>1, <2>2, <2>3 DEF Decided, Explained
<1> QED
  BY <1>1, RunInvariant, PTL

(* What is recorded is true, whatever fails and wherever a process dies. *)
THEOREM RecordTrue == Spec => []RecordIsTrue
<1>1. RunJsonIsBacked /\ FailuresExplained => RecordIsTrue
  BY DEF RecordIsTrue
<1> QED
  BY <1>1, RunJsonBacked, RecordsExplained, PTL

-----------------------------------------------------------------------------
(* What the end of a run leaves to be found, whatever fails. *)
InDatabase(r) == IF r.rootRow = "running" THEN "database" \in r.lost ELSE r.runRow # NoResult

Left(r) ==
  \/ r.report = "whole"
  \/ IF r.rootRow = "running" THEN "database" \in r.lost
     ELSE r.runRow # NoResult \/ "file" \in r.lost

Telling(p) ==
  LET r == proc[p]
  IN  /\ r.stage \in InTry \ {"write"} => r.handle = "live" /\ r.rootRow = "running"
      /\ r.stage \in {"write", "writing"} => r.handle = "ended"
      /\ r.stage = "catch" =>
           (r.handle = "live" /\ r.rootRow = "running") \/ (r.handle = "ended" /\ InDatabase(r))
      /\ r.stage \in {"finally", "done"} => Left(r)
      /\ r.stage \in {"finally", "done"} /\ r.exit = "ok" =>
           r.runRow.terminal = "resolved" /\ r.rootRow = "ok"
      /\ r.stage \in {"refused", "escaped"} => r.exit = "failed"

AllTell == \A p \in Process : Telling(p)

LEMMA TellingStep ==
  ASSUME IInv, NEW p \in Process, Telling(p), Moves(p)
  PROVE  Telling(p)'
<1>1. proc \in [Process -> ProcessState] /\ proc[p] \in ProcessState /\ Sound(proc[p])
  BY ProcessFacts
<1> USE <1>1 DEF Telling, InDatabase, Left, InTry, Fail, At, Goto, ProcessState
<1>2. CASE Begin(p) \/ Open(p) \/ Acquire(p)
  BY <1>2 DEF Begin, Open, Acquire
<1>3. CASE Setup(p)
  <2>1. proc[p].stage = "setup"
    BY <1>3 DEF Setup
  <2>2. proc'[p].stage \in {"agent", "collect"} /\ proc'[p].handle = proc[p].handle /\ proc'[p].rootRow = proc[p].rootRow
    <3>1. CASE Goto(p, "agent")
      BY <3>1
    <3>2. ASSUME NEW t, proc' = [proc EXCEPT ![p].result.terminal = t, ![p].stage = "collect"]
          PROVE  proc'[p].stage = "collect" /\ proc'[p].handle = proc[p].handle /\ proc'[p].rootRow = proc[p].rootRow
      BY <3>2
    <3> QED
      BY <1>3, <3>1, <3>2 DEF Setup
  <2> QED
    BY <2>1, <2>2
<1>4. CASE AwaitAgent(p) \/ Collect(p)
  BY <1>4 DEF AwaitAgent, Collect
<1>12. CASE RunAgent(p)
  <2>1. proc[p].stage \in {"agent", "await"}
    BY <1>12 DEF RunAgent
  <2>2. PICK res : proc' = [proc EXCEPT ![p].result = res, ![p].stage = "evaluate"]
    BY <1>12 DEF RunAgent
  <2>3. proc'[p].stage = "evaluate" /\ proc'[p].handle = proc[p].handle /\ proc'[p].rootRow = proc[p].rootRow
    BY <2>2
  <2> QED
    BY <2>1, <2>3
<1>11. CASE Evaluate(p)
  <2>1. proc[p].stage = "evaluate"
    BY <1>11 DEF Evaluate
  <2>2. proc'[p].stage = "collect" /\ proc'[p].handle = proc[p].handle /\ proc'[p].rootRow = proc[p].rootRow
    <3>1. CASE proc' = [proc EXCEPT ![p].result.terminal = "cancelled", ![p].stage = "collect"]
      BY <3>1
    <3>2. CASE \E e \in EvaluationResult : proc' = [proc EXCEPT ![p].result = e, ![p].stage = "collect"]
      BY <3>2
    <3>3. CASE Goto(p, "collect")
      BY <3>3
    <3> QED
      BY <1>11, <3>1, <3>2, <3>3 DEF Evaluate
  <2> QED
    BY <2>1, <2>2
<1>5. CASE Persist(p)
  BY <1>5 DEF Persist
<1>6. CASE EndRoot(p)
  BY <1>6 DEF EndRoot, RootStatus, Sound
<1>7. CASE Write(p) \/ Throw(p)
  <2>1. proc[p].stage = "write" => proc[p].rootRow # "running" /\ proc[p].runRow # NoResult
    BY DEF Sound, RootStatus
  <2> QED
    BY <1>7, <2>1 DEF Write, Throw
<1>13. CASE Written(p)
  <2>1. /\ proc[p].stage = "writing" /\ proc[p].rootRow = RootStatus(proc[p].runRow)
        /\ proc[p].runRow # NoResult /\ proc[p].runRow.terminal = proc[p].result.terminal
    BY <1>13 DEF Written, Sound, Recorded, Outcome
  <2>2. proc'[p].rootRow = proc[p].rootRow /\ proc'[p].runRow = proc[p].runRow
        /\ proc'[p].lost = proc[p].lost /\ proc'[p].handle = proc[p].handle
    BY <1>13 DEF Written
  <2>3. \/ proc'[p].stage = "catch"
        \/ proc'[p].stage = "finally" /\ (proc[p].result.terminal # "resolved" => proc'[p].exit = "failed")
    BY <1>13 DEF Written
  <2>4. proc[p].rootRow # "running" /\ (proc[p].runRow.terminal = "resolved" => proc[p].rootRow = "ok")
    BY <2>1 DEF RootStatus
  <2> QED
    BY <2>1, <2>2, <2>3, <2>4
<1>8. CASE Catch(p)
  BY <1>8, CatchFacts
<1>9. CASE Finally(p)
  <2>1. /\ proc[p].stage = "finally" /\ proc'[p].stage = "done"
        /\ proc'[p].rootRow = proc[p].rootRow /\ proc'[p].runRow = proc[p].runRow
        /\ proc'[p].lost = proc[p].lost /\ proc'[p].report = proc[p].report
        /\ proc'[p].exit \in {proc[p].exit, "failed"}
    BY <1>9, Leaving DEF Finally
  <2> QED
    BY <2>1
<1>14. CASE Crash(p)
  <2>1. proc'[p].stage = "crashed"
    BY <1>14, Leaving
  <2> QED
    BY <2>1
<1>10. CASE Signal(p) \/ OnInterrupt(p)
  BY <1>10 DEF Signal, OnInterrupt
<1> QED
  BY <1>13, <1>14, <1>2, <1>3, <1>4, <1>5, <1>6, <1>7, <1>8, <1>9, <1>10, <1>11, <1>12, Moves(p) DEF Moves, Step

LEMMA TellInit == Init => AllTell
<1> SUFFICES ASSUME Init, NEW p \in Process PROVE Telling(p)
  BY DEF AllTell
<1>1. proc[p].stage = "idle"
  BY DEF Init, Fresh
<1> QED
  BY <1>1 DEF Telling, InTry

LEMMA TellStep == ASSUME IInv, AllTell, [Next]_vars PROVE AllTell'
<1>1. CASE UNCHANGED vars
  BY <1>1 DEF vars, AllTell, Telling, InDatabase, Left
<1>2. ASSUME NEW p \in Process, Moves(p) PROVE AllTell'
  <2> SUFFICES ASSUME NEW q \in Process PROVE Telling(q)'
    BY DEF AllTell
  <2>1. Telling(q)
    BY DEF AllTell
  <2>2. CASE q = p
    BY <1>2, <2>1, <2>2, TellingStep
  <2>3. CASE q # p
    BY <1>2, <2>1, <2>3, OthersStay DEF Telling, InDatabase, Left
  <2> QED
    BY <2>2, <2>3
<1> QED
  BY <1>1, <1>2 DEF Next, Moves, AllOver

(* The end of a run is told truly, whatever of the database, the files and  *)
(* the steps fails, and whatever other runs do meanwhile.                  *)
THEOREM NeverSilent == Spec => []EndIsTold
<1>1. AllTell => EndIsTold
  BY DEF AllTell, Telling, Left, EndIsTold, Over
<1>2. IInv /\ AllTell /\ [Next]_vars => AllTell'
  BY TellStep
<1> QED
  BY <1>1, <1>2, TellInit, RunInvariant, PTL DEF Spec

-----------------------------------------------------------------------------
(* Runs that do not overlap: the look for run.json and the write of it are *)
(* as good as one step.                                                    *)
Active(p) == proc[p].stage \notin Over \cup {"idle"}
Unwritten == {"open", "acquire", "setup", "agent", "await", "evaluate", "collect", "persist",
              "end", "write"}

Alone ==
  ~Concurrent =>
    \A p \in Process :
      /\ Active(p) => \A q \in Process \ {p} : ~Active(q)
      /\ proc[p].stage \in Unwritten => runJson.owner = Nobody

(* Every other step of a process that began comes from one that began. *)
LEMMA Course ==
  ASSUME IInv, NEW p \in Process, Moves(p)
  PROVE  \/ Begin(p)
         \/ Write(p)
         \/ /\ Active(p) /\ runJson'.owner = runJson.owner
            /\ proc'[p].stage \in Unwritten => proc[p].stage \in Unwritten
<1> DEFINE Goes == /\ Active(p) /\ runJson'.owner = runJson.owner
                   /\ proc'[p].stage \in Unwritten => proc[p].stage \in Unwritten
<1>1. proc \in [Process -> ProcessState] /\ runJson \in [owner : Process \cup {Nobody}, whole : BOOLEAN, run : Outcome]
  BY DEF IInv, TypeOK
<1> USE DEF Active, Over, Unwritten, At
<1>2. CASE Open(p) \/ Acquire(p) \/ AwaitAgent(p) \/ Collect(p) \/ Persist(p) \/ EndRoot(p)
  BY <1>1, <1>2 DEF Open, Acquire, AwaitAgent, Collect, Persist, EndRoot, Goto, ProcessState
<1>3. CASE Setup(p)
  BY <1>1, <1>3 DEF Setup
<1>4. CASE RunAgent(p)
  BY <1>1, <1>4 DEF RunAgent
<1>5. CASE Evaluate(p)
  BY <1>1, <1>5 DEF Evaluate
<1>6. CASE Written(p) \/ Throw(p)
  BY <1>1, <1>6 DEF Written, Throw, Goto, Fail, InTry, ProcessState
<1>8. CASE Catch(p)
  BY <1>8, CatchFacts DEF Catch
<1>9. CASE Finally(p) \/ Crash(p)
  BY <1>9, Leaving DEF Finally, Crash
<1>7. CASE Signal(p) \/ OnInterrupt(p)
  BY <1>1, <1>7 DEF Signal, OnInterrupt, ProcessState
<1> QED
  BY <1>2, <1>3, <1>4, <1>5, <1>6, <1>7, <1>8, <1>9, Moves(p) DEF Moves, Step

LEMMA AloneInit == Init => Alone
<1> SUFFICES ASSUME Init PROVE Alone
  OBVIOUS
<1>1. \A p \in Process : proc[p].stage = "idle"
  BY DEF Init, Fresh
<1> QED
  BY <1>1 DEF Alone, Active, Unwritten

LEMMA AloneStep == ASSUME IInv, Alone, [Next]_vars PROVE Alone'
<1>1. CASE UNCHANGED vars
  BY <1>1 DEF vars, Alone, Active
<1>2. ASSUME NEW p \in Process, Moves(p) PROVE Alone'
  <2> SUFFICES ASSUME ~Concurrent PROVE Alone'
    BY DEF Alone
  <2>0. /\ \A q \in Process \ {p} : proc'[q] = proc[q]
        /\ proc \in [Process -> ProcessState]
    BY <1>2, OthersStay, ProcessFacts
  <2>1. CASE Begin(p)
    <3>1. \A q \in Process \ {p} : ~Active(q)
      BY <2>1 DEF Begin, MayBegin, Active
    <3>2. runJson' = runJson /\ (proc'[p].stage \in Unwritten => runJson.owner = Nobody)
      BY <2>0, <2>1, ProcessFacts DEF Begin, Goto, Fail, Unwritten, ProcessState
    <3>3. \A q \in Process \ {p} : ~Active(q)' /\ proc'[q].stage \notin Unwritten
      BY <2>0, <3>1 DEF Active, Unwritten, Over
    <3> QED
      BY <3>2, <3>3 DEF Alone
  <2>2. CASE Write(p)
    <3>1. Active(p) /\ proc'[p].stage \notin Unwritten
      BY <2>0, <2>2 DEF Write, Goto, At, Active, Unwritten, Over
    <3>2. \A q \in Process \ {p} : ~Active(q)' /\ proc'[q].stage \notin Unwritten
      BY <2>0, <3>1 DEF Alone, Active, Unwritten, Over
    <3> QED
      BY <3>1, <3>2 DEF Alone
  <2>3. CASE /\ Active(p) /\ runJson'.owner = runJson.owner
             /\ proc'[p].stage \in Unwritten => proc[p].stage \in Unwritten
    <3>1. \A q \in Process \ {p} : ~Active(q)' /\ proc'[q].stage \notin Unwritten
      BY <2>0, <2>3 DEF Alone, Active, Unwritten, Over
    <3>2. proc'[p].stage \in Unwritten => runJson'.owner = Nobody
      BY <2>3 DEF Alone
    <3> QED
      BY <3>1, <3>2 DEF Alone
  <2> QED
    BY <1>2, <2>1, <2>2, <2>3, Course
<1> QED
  BY <1>1, <1>2 DEF Next, Moves, AllOver

LEMMA OwnerStays ==
  ASSUME ~Concurrent, IInv, Alone, [Next]_vars
  PROVE  runJson.owner # Nobody => runJson'.owner = runJson.owner
<1>1. CASE UNCHANGED vars
  BY <1>1 DEF vars
<1>2. ASSUME NEW p \in Process, Moves(p), runJson.owner # Nobody
      PROVE  runJson'.owner = runJson.owner
  <2>1. ~Write(p)
    BY <1>2 DEF Alone, Write, At, Unwritten
  <2>2. Begin(p) => runJson' = runJson
    BY DEF Begin
  <2> QED
    BY <1>2, <2>1, <2>2, Course
<1> QED
  BY <1>1, <1>2 DEF Next, Moves, AllOver, vars

(* Of runs on one output directory that do not overlap the first to write   *)
(* run.json keeps it, however it and the others end.                       *)
THEOREM WriteOnce == ASSUME ~Concurrent PROVE Spec => NeverOverwritten
<1>1. IInv /\ Alone /\ [Next]_vars => Alone'
  BY AloneStep
<1>2. IInv /\ Alone /\ [Next]_vars => [runJson.owner # Nobody => runJson'.owner = runJson.owner]_vars
  BY OwnerStays
<1> QED
  BY <1>1, <1>2, AloneInit, RunInvariant, PTL DEF Spec, NeverOverwritten
=============================================================================
