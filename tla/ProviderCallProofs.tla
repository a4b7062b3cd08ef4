-------------------------- MODULE ProviderCallProofs --------------------------
(***************************************************************************)
(* Theorems about ProviderCall for any backends, bounds and failures: the  *)
(* state of a remote call keeps its types, however it ends its span tells  *)
(* how, and a timer runs only while headers are awaited; and, for inputs   *)
(* of any length, a diff is applied exactly and truncation is sound.       *)
(***************************************************************************)
EXTENDS ProviderCall, FiniteSetTheorems, SequenceTheorems, TLAPS

-----------------------------------------------------------------------------
Asking == {"ready", "waiting", "body"}
Answering == {"answer", "tools", "settle update"}
Settling == {"settle event", "settle end"}
Phase == {"start", "failing", "over"} \cup Asking \cup Answering \cup Settling

(* What is thrown never looks like a result. *)
Thrown == {"no_credential", "no_repository", "timeout", "request_error", "body",
           "malformed", "http_error", "no_content", "trace"}

Pending == UNION {[1..n -> ToolKind] : n \in 0..MaxCalls}

(* The tools that so many answers may have asked for. *)
Quota(answers) == answers * MaxCalls

Calls == [phase : Phase, timer : {"off", "armed", "fired"},
          span : {"none", "open", "ok", "error", "stuck"},
          turn : 0..(MaxTurns - 1),
          pending : Pending, toolCalls : 0..Quota(MaxTurns), read : BOOLEAN,
          status : {"none", "ok", "bad"}, usage : UsageFrom, spent : 0..MaxTurns,
          traced : {NoUsage, 1},
          source : {"none", "provider_finish", "local_read_fallback"},
          error : {"none"} \cup Thrown, outcome : {"none", "result"} \cup Thrown]

(* Each answer asks for MaxCalls tools at most, which are counted as they  *)
(* are run: those still to be run have their place.                        *)
ToolsAreCounted(c) ==
  /\ c.phase \in {"start", "answer"} \cup Asking => c.toolCalls <= Quota(c.turn)
  /\ c.phase = "tools" => c.toolCalls + Len(c.pending) <= Quota(c.turn + 1)

(* Every answer but the one in hand was followed by a turn; the last       *)
(* answer's tokens are among those spent, and with one answer are all.     *)
TokensAreCounted(c) ==
  /\ c.spent <= c.turn + 1
  /\ c.phase \in {"start"} \cup Asking => c.spent <= c.turn
  /\ c.usage = 1 => c.spent >= 1
  /\ c.turn = 0 /\ c.usage # 1 => c.spent = 0
  /\ c.traced # NoUsage => c.traced = c.usage
  /\ c.phase \in {"start"} \cup Asking \cup Answering => c.traced = NoUsage
  /\ c.phase \in Settling => c.traced = c.usage

(* The span is open from the call's start until its end is tried, and what *)
(* is thrown is never "none" once something was.                           *)
SpanTells(s, c) ==
  /\ c.phase = "start" => c.span = "none"
  /\ c.phase \in Asking \cup Answering \cup Settling => c.span = "open"
  /\ c.phase = "failing" =>
       c.error \in Thrown /\ (c.span = "open" \/ (c.span = "stuck" /\ c.error = "trace"))
  /\ c.phase = "over" =>
       \/ c.span = "ok" /\ c.outcome = "result" /\ c.traced = c.usage
       \/ c.span = "error" /\ c.outcome \in Thrown
       \/ c.span = "stuck" /\ c.outcome = "trace"
       \/ c.span = "none" /\ (s \in Local \/ c.outcome = "no_credential")

TimerIsCleared(c) == c.timer # "off" => c.phase = "waiting"

SourceIsRead(c) == c.source = "local_read_fallback" => c.read

Sound(s, c) ==
  /\ ToolsAreCounted(c) /\ TokensAreCounted(c) /\ SpanTells(s, c)
  /\ TimerIsCleared(c) /\ SourceIsRead(c)

IInv == call \in Calls /\ Sound(strategy, call)

-----------------------------------------------------------------------------
LEMMA QuotaFacts ==
  ASSUME NEW t \in 0..(MaxTurns - 1)
  PROVE  /\ t + 1 \in Nat /\ Quota(t) \in Nat /\ Quota(t + 1) \in Nat /\ Quota(MaxTurns) \in Nat
         /\ Quota(t + 1) = Quota(t) + MaxCalls /\ Quota(t + 1) <= Quota(MaxTurns)
<1>1. MaxTurns \in Nat /\ MaxCalls \in Nat /\ t \in Nat /\ t + 1 <= MaxTurns
  BY ProviderAssumption
<1>2. Quota(t + 1) = Quota(t) + MaxCalls /\ Quota(t) \in Nat /\ Quota(MaxTurns) \in Nat
  BY <1>1 DEF Quota
<1>3. PICK d \in Nat : MaxTurns = (t + 1) + d
  <2>1. MaxTurns - (t + 1) \in Nat /\ MaxTurns = (t + 1) + (MaxTurns - (t + 1))
    BY <1>1
  <2> QED
    BY <2>1
<1>4. Quota(MaxTurns) = Quota(t + 1) + d * MaxCalls /\ d * MaxCalls \in Nat
  BY <1>1, <1>3 DEF Quota
<1> QED
  BY <1>1, <1>2, <1>4

LEMMA PendingFacts ==
  /\ <<>> \in Pending
  /\ \A n \in 1..MaxCalls : \A calls \in [1..n -> ToolKind] :
        calls \in Pending /\ Len(calls) \in Nat /\ Len(calls) <= MaxCalls
  /\ \A s \in Pending : /\ Len(s) \in Nat
                       /\ s # <<>> => /\ Tail(s) \in Pending /\ Head(s) \in ToolKind
                                      /\ Len(s) >= 1 /\ Len(Tail(s)) = Len(s) - 1
<1>0. MaxCalls \in Nat
  BY ProviderAssumption
<1>1. <<>> \in Pending
  <2>1. <<>> \in [1..0 -> ToolKind]
    OBVIOUS
  <2> QED
    BY <1>0, <2>1 DEF Pending
<1>2. ASSUME NEW n \in 1..MaxCalls, NEW calls \in [1..n -> ToolKind]
      PROVE  calls \in Pending /\ Len(calls) \in Nat /\ Len(calls) <= MaxCalls
  <2>1. calls \in Seq(ToolKind) /\ Len(calls) = n
    BY <1>0
  <2> QED
    BY <1>0, <2>1 DEF Pending
<1>3. ASSUME NEW s \in Pending
      PROVE  Len(s) \in Nat /\ (s # <<>> => /\ Tail(s) \in Pending /\ Head(s) \in ToolKind
                                            /\ Len(s) >= 1 /\ Len(Tail(s)) = Len(s) - 1)
  <2>1. PICK n \in 0..MaxCalls : s \in [1..n -> ToolKind]
    BY DEF Pending
  <2>2. s \in Seq(ToolKind) /\ Len(s) = n
    BY <1>0, <2>1
  <2>3. ASSUME s # <<>> PROVE Tail(s) \in Seq(ToolKind) /\ Len(Tail(s)) = n - 1
                              /\ Head(s) \in ToolKind /\ n >= 1
    BY <1>0, <2>2, <2>3
  <2>4. ASSUME s # <<>> PROVE Tail(s) \in Pending
    <3>1. n - 1 \in 0..MaxCalls
      BY <1>0, <2>3, <2>4
    <3>2. ASSUME NEW t \in Seq(ToolKind) PROVE t \in [1..Len(t) -> ToolKind]
      OBVIOUS
    <3>3. Tail(s) \in [1..(n - 1) -> ToolKind]
      BY <2>3, <2>4, <3>2
    <3> QED
      BY <3>1, <3>3 DEF Pending
  <2> QED
    BY <2>2, <2>3, <2>4
<1> QED
  BY <1>1, <1>2, <1>3

(* What the steps that end in a failure have in common. *)
LEMMA FailureKeeps ==
  ASSUME IInv, NEW error \in Thrown, Fails(error), strategy' = strategy,
         call.phase \in Asking \cup Answering \cup Settling
  PROVE  IInv'
<1>1. call' = [call EXCEPT !.phase = "failing", !.error = error, !.timer = "off"]
  BY DEF Fails
<1>2. call' \in Calls
  BY <1>1 DEF IInv, Calls, Phase
<1>3. /\ call'.phase = "failing" /\ call'.error = error /\ call'.timer = "off"
      /\ call'.span = call.span /\ call'.turn = call.turn /\ call'.usage = call.usage
      /\ call'.spent = call.spent /\ call'.traced = call.traced
      /\ call'.source = call.source /\ call'.read = call.read
  BY <1>1 DEF IInv, Calls
<1>4. ToolsAreCounted(call')
  BY <1>3 DEF ToolsAreCounted, Asking
<1>5. TokensAreCounted(call')
  BY <1>3 DEF IInv, Sound, TokensAreCounted, Asking, Answering, Settling
<1>6. SpanTells(strategy, call')
  BY <1>3 DEF IInv, Sound, SpanTells, Asking, Answering, Settling
<1>7. TimerIsCleared(call') /\ SourceIsRead(call')
  BY <1>3 DEF IInv, Sound, TimerIsCleared, SourceIsRead
<1> QED
  BY <1>2, <1>4, <1>5, <1>6, <1>7 DEF IInv, Sound

(* The typed fields of a call. *)
LEMMA CallFields ==
  ASSUME NEW c \in Calls
  PROVE  /\ c.turn \in 0..(MaxTurns - 1) /\ c.turn \in Nat /\ c.pending \in Pending
         /\ c.toolCalls \in Nat /\ c.toolCalls <= Quota(MaxTurns) /\ c.read \in BOOLEAN
         /\ c.usage \in {NoUsage, BadUsage, 1} /\ c.spent \in Nat /\ c.spent <= MaxTurns
         /\ c.traced \in {NoUsage, 1}
  BY ProviderAssumption, QuotaFacts DEF Calls, UsageFrom

(* A tool that is still to be run has its place in the count. *)
LEMMA RoomForTools ==
  ASSUME NEW c \in Calls, ToolsAreCounted(c), c.phase = "tools", c.pending # <<>>
  PROVE  /\ c.toolCalls + 1 \in 0..Quota(MaxTurns)
         /\ c.toolCalls + 1 + Len(Tail(c.pending)) <= Quota(c.turn + 1)
<1>1. /\ Quota(c.turn + 1) \in Nat /\ Quota(MaxTurns) \in Nat
      /\ Quota(c.turn + 1) <= Quota(MaxTurns)
  BY CallFields, QuotaFacts
<1>2. Len(c.pending) \in Nat /\ Len(c.pending) >= 1 /\ Len(Tail(c.pending)) = Len(c.pending) - 1
  BY CallFields, PendingFacts
<1>3. c.toolCalls \in Nat /\ c.toolCalls + Len(c.pending) <= Quota(c.turn + 1)
  BY CallFields DEF ToolsAreCounted
<1> QED
  BY <1>1, <1>2, <1>3

(* The steps that only take the call from one phase to the next. *)
Advances ==
  \/ At("start") /\ call' = [call EXCEPT !.phase = "ready", !.span = "open"]
  \/ At("ready") /\ call' = [call EXCEPT !.phase = "waiting", !.timer = "armed"]
  \/ TimerFires
  \/ \E status \in {"ok", "bad"} :
        /\ At("waiting")
        /\ call' = [call EXCEPT !.phase = "body", !.status = status, !.timer = "off"]
  \/ At("answer") /\ call' = [call EXCEPT !.phase = "settle update"]
  \/ /\ At("settle update") /\ call.usage # BadUsage
     /\ call' = [call EXCEPT !.phase = "settle event", !.traced = call.usage]
  \/ At("settle event") /\ call' = [call EXCEPT !.phase = "settle end"]
  \/ /\ At("settle end")
     /\ call' = [call EXCEPT !.phase = "over", !.span = "ok", !.outcome = "result"]
  \/ /\ At("settle end")
     /\ call' = [call EXCEPT !.phase = "failing", !.span = "stuck", !.error = "trace"]

LEMMA AdvancesKeep ==
  ASSUME IInv, UNCHANGED given, Advances
  PROVE  IInv'
<1>1. call \in Calls /\ Sound(strategy, call) /\ strategy' = strategy
  BY DEF IInv, given
<1>2. SUFFICES call' \in Calls /\ Sound(strategy, call')
  BY <1>1 DEF IInv
<1> USE DEF Sound, ToolsAreCounted, TokensAreCounted, SpanTells, TimerIsCleared, SourceIsRead,
            At, Calls, Phase, Asking, Answering, Settling, Thrown
<1>3. CASE At("start") /\ call' = [call EXCEPT !.phase = "ready", !.span = "open"]
  BY <1>1, <1>3, CallFields
<1>4. CASE At("ready") /\ call' = [call EXCEPT !.phase = "waiting", !.timer = "armed"]
  BY <1>1, <1>4, CallFields
<1>5. CASE TimerFires
  <2>1. call.phase = "waiting" /\ call' = [call EXCEPT !.timer = "fired"]
    BY <1>1, <1>5 DEF TimerFires
  <2>2. call' \in Calls
    BY <1>1, <2>1
  <2> QED
    BY <1>1, <2>1, <2>2, CallFields
<1>6. ASSUME NEW status \in {"ok", "bad"}, At("waiting"),
             call' = [call EXCEPT !.phase = "body", !.status = status, !.timer = "off"]
      PROVE  call' \in Calls /\ Sound(strategy, call')
  <2>1. call' \in Calls
    BY <1>1, <1>6
  <2>2. /\ call.phase = "waiting" /\ call'.phase = "body" /\ call'.timer = "off"
        /\ call'.span = call.span /\ call'.turn = call.turn /\ call'.toolCalls = call.toolCalls
        /\ call'.usage = call.usage /\ call'.spent = call.spent /\ call'.traced = call.traced
        /\ call'.source = call.source /\ call'.read = call.read
    BY <1>1, <1>6
  <2> HIDE DEF Calls
  <2> QED
    BY <1>1, <2>1, <2>2, CallFields
<1>7. CASE At("answer") /\ call' = [call EXCEPT !.phase = "settle update"]
  BY <1>1, <1>7, CallFields
<1>8. CASE /\ At("settle update") /\ call.usage # BadUsage
           /\ call' = [call EXCEPT !.phase = "settle event", !.traced = call.usage]
  BY <1>1, <1>8, CallFields
<1>9. CASE At("settle event") /\ call' = [call EXCEPT !.phase = "settle end"]
  BY <1>1, <1>9, CallFields
<1>10. CASE /\ At("settle end")
           /\ call' = [call EXCEPT !.phase = "over", !.span = "ok", !.outcome = "result"]
  BY <1>1, <1>10, CallFields
<1>11. CASE /\ At("settle end")
           /\ call' = [call EXCEPT !.phase = "failing", !.span = "stuck", !.error = "trace"]
  BY <1>1, <1>11, CallFields
<1> HIDE DEF Sound, Calls, At
<1> QED
  BY <1>3, <1>4, <1>5, <1>6, <1>7, <1>8, <1>9, <1>10, <1>11 DEF Advances

-----------------------------------------------------------------------------
(* A call that ends where it begins, and one whose answer comes. *)
LEMMA RefusedKeeps ==
  ASSUME IInv, UNCHANGED given, At("start"), NEW span, NEW outcome,
         \/ span = "none" /\ outcome = "no_credential"
         \/ span = "none" /\ outcome = "result" /\ strategy \in Local
         \/ span = "stuck" /\ outcome = "trace",
         call' = [call EXCEPT !.phase = "over", !.span = span, !.outcome = outcome]
  PROVE  IInv'
<1>1. call \in Calls /\ Sound(strategy, call) /\ strategy' = strategy
  BY DEF IInv, given
<1>2. call' \in Calls
  BY <1>1 DEF Calls, Phase, Asking, Answering, Settling, At, Thrown
<1>3. Sound(strategy, call')
  BY <1>1, CallFields
     DEF Sound, ToolsAreCounted, TokensAreCounted, SpanTells, TimerIsCleared,
         SourceIsRead, Asking, Answering, Settling, At, Calls
<1> QED
  BY <1>1, <1>2, <1>3 DEF IInv

LEMMA AnswersKeep ==
  ASSUME IInv, UNCHANGED given, At("body"), NEW u \in UsageFrom,
         call' = [call EXCEPT !.phase = "answer", !.usage = u,
                              !.spent = IF u = 1 THEN @ + 1 ELSE @]
  PROVE  IInv'
<1>1. call \in Calls /\ Sound(strategy, call) /\ strategy' = strategy
  BY DEF IInv, given
<1>2. call.spent + 1 \in 0..MaxTurns /\ call.spent \in 0..MaxTurns
  BY <1>1, CallFields, ProviderAssumption DEF Sound, TokensAreCounted, Asking, At
<1>3. call' \in Calls
  BY <1>1, CallFields, <1>2 DEF Calls, Phase, Asking, Answering, Settling, At
<1>4. Sound(strategy, call')
  BY <1>1, CallFields
     DEF Sound, ToolsAreCounted, TokensAreCounted, SpanTells, TimerIsCleared,
         SourceIsRead, Asking, Answering, Settling, At, Calls
<1> QED
  BY <1>1, <1>3, <1>4 DEF IInv

-----------------------------------------------------------------------------
(* A conversation. *)
LEMMA AsksKeep ==
  ASSUME IInv, UNCHANGED given, At("answer"),
         NEW n \in 1..MaxCalls, NEW calls \in [1..n -> ToolKind],
         call' = [call EXCEPT !.phase = "tools", !.pending = calls]
  PROVE  IInv'
<1>1. call \in Calls /\ Sound(strategy, call) /\ strategy' = strategy
  BY DEF IInv, given
<1>2. call' \in Calls
  BY <1>1, PendingFacts DEF Calls, Phase, Asking, Answering, Settling, At
<1>3. Sound(strategy, call')
  BY <1>1, CallFields, PendingFacts, QuotaFacts, ProviderAssumption
     DEF Sound, ToolsAreCounted, TokensAreCounted, SpanTells, TimerIsCleared,
         SourceIsRead, Asking, Answering, Settling, At, Calls
<1> QED
  BY <1>1, <1>2, <1>3 DEF IInv

LEMMA FinishKeeps ==
  ASSUME IInv, UNCHANGED given, Finish, At("answer") \/ (At("tools") /\ call.pending # <<>>)
  PROVE  IInv'
<1>1. call \in Calls /\ Sound(strategy, call) /\ strategy' = strategy
  BY DEF IInv, given
<1>2. PICK resolved \in BOOLEAN :
        call' = [call EXCEPT !.phase = "settle update", !.source = Source(resolved),
                             !.pending = <<>>,
                             !.toolCalls = IF At("tools") THEN @ + 1 ELSE @]
  BY DEF Finish
<1>3. /\ call.toolCalls \in 0..Quota(MaxTurns)
      /\ At("tools") => call.toolCalls + 1 \in 0..Quota(MaxTurns)
  BY <1>1, CallFields, RoomForTools DEF Sound, At
<1> DEFINE counted == IF At("tools") THEN call.toolCalls + 1 ELSE call.toolCalls
<1>4. counted \in 0..Quota(MaxTurns)
  BY <1>3
<1>5. <<>> \in Pending
  BY PendingFacts
<1>6. Source(resolved) \in {"none", "provider_finish", "local_read_fallback"}
      /\ (Source(resolved) = "local_read_fallback" => call.read)
  BY DEF Source
<1>7. /\ call'.phase = "settle update" /\ call'.timer = call.timer /\ call'.span = call.span
      /\ call'.turn = call.turn /\ call'.usage = call.usage /\ call'.spent = call.spent
      /\ call'.traced = call.traced /\ call'.source = Source(resolved) /\ call'.read = call.read
  BY <1>1, <1>2 DEF Calls
<1>8. call' \in Calls
  <2>1. call' = [call EXCEPT !.phase = "settle update", !.source = Source(resolved),
                             !.pending = <<>>, !.toolCalls = counted]
    BY <1>1, <1>2 DEF Calls
  <2> HIDE DEF counted
  <2> QED
    BY <1>1, <1>6, <1>4, <1>5, <2>1 DEF Calls, Phase, Answering
<1>9. Sound(strategy, call')
  BY <1>1, <1>7, <1>6, CallFields
     DEF Sound, ToolsAreCounted, TokensAreCounted, SpanTells, TimerIsCleared,
         SourceIsRead, Asking, Answering, Settling, At
<1> QED
  BY <1>1, <1>8, <1>9 DEF IInv

LEMMA ToolsKeep ==
  ASSUME IInv, UNCHANGED given, At("tools"), call.pending # <<>>, NEW reads \in BOOLEAN,
         call' = [call EXCEPT !.pending = Tail(@), !.toolCalls = @ + 1,
                              !.read = @ \/ reads]
  PROVE  IInv'
<1>1. call \in Calls /\ Sound(strategy, call) /\ strategy' = strategy
  BY DEF IInv, given
<1>2. call.toolCalls + 1 \in 0..Quota(MaxTurns)
  BY <1>1, CallFields, RoomForTools DEF Sound, At
<1>3. Tail(call.pending) \in Pending
  BY <1>1, CallFields, PendingFacts
<1>4. (call.read \/ reads) \in BOOLEAN
  OBVIOUS
<1>5. call' \in Calls
  BY <1>1, <1>2, <1>3, <1>4 DEF Calls, Phase, Asking, Answering, Settling, At
<1>6. Sound(strategy, call')
  BY <1>1, CallFields, RoomForTools
     DEF Sound, ToolsAreCounted, TokensAreCounted, SpanTells, TimerIsCleared,
         SourceIsRead, Asking, Answering, Settling, At, Calls
<1> QED
  BY <1>1, <1>5, <1>6 DEF IInv

LEMMA TurnsKeep ==
  ASSUME IInv, UNCHANGED given, At("tools"), call.pending = <<>>, call.turn + 1 # MaxTurns,
         call' = [call EXCEPT !.phase = "ready", !.turn = @ + 1]
  PROVE  IInv'
<1>1. call \in Calls /\ Sound(strategy, call) /\ strategy' = strategy
  BY DEF IInv, given
<1>2. call.turn + 1 \in 0..(MaxTurns - 1) /\ call.turn + 1 # 0
  BY <1>1, CallFields, ProviderAssumption
<1>3. call' \in Calls
  BY <1>1, <1>2 DEF Calls, Phase, Asking, Answering, Settling, At
<1>4. Sound(strategy, call')
  BY <1>1, <1>2, CallFields, PendingFacts, QuotaFacts
     DEF Sound, ToolsAreCounted, TokensAreCounted, SpanTells, TimerIsCleared,
         SourceIsRead, Asking, Answering, Settling, At, Calls
<1> QED
  BY <1>1, <1>3, <1>4 DEF IInv

-----------------------------------------------------------------------------
(* The end of the span. *)
LEMMA CatchKeeps ==
  ASSUME IInv, UNCHANGED given, At("failing"), NEW traced, NEW span, NEW outcome,
         \/ /\ span = "error" /\ outcome = call.error /\ traced \in {call.traced, call.usage}
            /\ traced # BadUsage
         \/ span = "stuck" /\ outcome = "trace" /\ traced = call.traced,
         call' = [call EXCEPT !.phase = "over", !.span = span, !.outcome = outcome,
                              !.traced = traced]
  PROVE  IInv'
<1>1. call \in Calls /\ Sound(strategy, call) /\ strategy' = strategy
  BY DEF IInv, given
<1>2. /\ traced \in {NoUsage, 1} /\ (traced # NoUsage => traced = call.usage)
      /\ call.error \in Thrown
      /\ span \in {"none", "open", "ok", "error", "stuck"}
      /\ outcome \in {"none", "result"} \cup Thrown
  BY <1>1, CallFields DEF Sound, TokensAreCounted, SpanTells, At, Thrown
<1>3. call' \in Calls
  BY <1>1, <1>2 DEF Calls, Phase
<1>4. Sound(strategy, call')
  BY <1>1, <1>2, CallFields
     DEF Sound, ToolsAreCounted, TokensAreCounted, SpanTells, TimerIsCleared,
         SourceIsRead, Asking, Answering, Settling, At, Calls
<1> QED
  BY <1>1, <1>3, <1>4 DEF IInv

-----------------------------------------------------------------------------
(* What a call is told apart by. *)
LEMMA Distinct ==
  /\ NoUsage # BadUsage /\ NoUsage # 1 /\ BadUsage # 1 /\ NoUsage \in UsageFrom
  /\ Remote \cap Local = {}
  BY DEF NoUsage, BadUsage, UsageFrom, Remote, Local

LEMMA Begins ==
  ASSUME Init
  PROVE  IInv
<1>1. MaxTurns \in Nat \ {0} /\ Quota(0) \in Nat /\ Quota(MaxTurns) \in Nat
  BY QuotaFacts, ProviderAssumption
<1>2. call \in Calls
  BY <1>1, PendingFacts, Distinct DEF Init, Calls, Phase
<1>3. Sound(strategy, call)
  BY <1>1, Distinct DEF Init, Sound, ToolsAreCounted, TokensAreCounted, SpanTells, TimerIsCleared,
     SourceIsRead, Asking, Answering, Settling
<1> QED
  BY <1>2, <1>3 DEF IInv

LEMMA ProceedKeeps ==
  ASSUME IInv, Proceed
  PROVE  IInv'
<1>0. /\ UNCHANGED given
      /\ \A phase \in Asking \cup Answering \cup Settling :
           \A error \in Thrown : At(phase) /\ Fails(error) => IInv'
  <2>1. UNCHANGED given
    BY DEF Proceed, Start, Send, Content, Converse, RunTool, NextTurn, SettleUpdate, SettleEvent,
       SettleEnd, Catch
  <2> QED
    BY <2>1, FailureKeeps DEF given, At
<1>1. CASE Start
  <2>1. CASE call' = [call EXCEPT !.phase = "ready", !.span = "open"]
    BY <1>0, <1>1, <2>1, AdvancesKeep DEF Start, Advances
  <2>2. CASE call' = [call EXCEPT !.phase = "over", !.outcome = "no_credential"]
    <3>1. call' = [call EXCEPT !.phase = "over", !.span = "none", !.outcome = "no_credential"]
      BY <1>1, <2>2 DEF Start, IInv, Calls, Sound, SpanTells, At
    <3> QED
      BY <1>0, <1>1, <3>1, RefusedKeeps DEF Start
  <2>3. CASE call' = [call EXCEPT !.phase = "over", !.span = "stuck", !.outcome = "trace"]
    BY <1>0, <1>1, <2>3, RefusedKeeps DEF Start
  <2> QED
    BY <1>1, <2>1, <2>2, <2>3 DEF Start
<1>2. CASE Send
  BY <1>0, <1>2, AdvancesKeep DEF Send, Advances, Asking, Thrown
<1>3. CASE Content
  BY <1>0, <1>3, AdvancesKeep DEF Content, Advances, Answering, Thrown
<1>4. CASE Converse
  BY <1>0, <1>4, AsksKeep, FinishKeeps DEF Converse, Answering, Thrown
<1>5. CASE RunTool
  <2>1. CASE Fails("malformed")
    BY <1>0, <1>5, <2>1 DEF RunTool, Answering, Thrown
  <2>2. CASE Finish
    BY <1>0, <1>5, <2>2, FinishKeeps DEF RunTool
  <2>3. ASSUME NEW reads \in BOOLEAN,
               call' = [call EXCEPT !.pending = Tail(@), !.toolCalls = @ + 1,
                                    !.read = @ \/ reads]
        PROVE  IInv'
    BY <1>0, <1>5, <2>3, ToolsKeep DEF RunTool
  <2> QED
    BY <1>5, <2>1, <2>2, <2>3 DEF RunTool
<1>6. CASE NextTurn
  BY <1>0, <1>6, TurnsKeep DEF NextTurn, Answering, Thrown
<1>7. CASE SettleUpdate
  BY <1>0, <1>7, AdvancesKeep DEF SettleUpdate, Advances, Answering, Thrown
<1>8. CASE SettleEvent
  BY <1>0, <1>8, AdvancesKeep DEF SettleEvent, Advances, Settling, Thrown
<1>9. CASE SettleEnd
  BY <1>0, <1>9, AdvancesKeep DEF SettleEnd, Advances
<1>10. CASE Catch
  <2>1. ASSUME CaughtUsage # BadUsage,
               call' = [call EXCEPT !.phase = "over", !.span = "error", !.outcome = call.error,
                                    !.traced = CaughtUsage]
        PROVE  IInv'
    BY <1>0, <1>10, <2>1, CatchKeeps DEF Catch, CaughtUsage
  <2>2. CASE call' = [call EXCEPT !.phase = "over", !.span = "stuck", !.outcome = "trace"]
    <3>1. call' = [call EXCEPT !.phase = "over", !.span = "stuck", !.outcome = "trace",
                               !.traced = call.traced]
      BY <2>2 DEF IInv, Calls
    <3> QED
      BY <1>0, <1>10, <3>1, CatchKeeps DEF Catch
  <2> QED
    BY <1>10, <2>1, <2>2 DEF Catch
<1> QED
  BY <1>1, <1>2, <1>3, <1>4, <1>5, <1>6, <1>7, <1>8, <1>9, <1>10 DEF Proceed

LEMMA NetworkKeeps ==
  ASSUME IInv, Network
  PROVE  IInv'
<1>0. UNCHANGED given
  BY DEF Network, Rejected, Headers, BodyBreaks, Body
<1>1. \A error \in Thrown : (At("waiting") \/ At("body")) /\ Fails(error) => IInv'
  BY <1>0, FailureKeeps DEF At, Asking, given
<1>2. CASE Rejected
  BY <1>1, <1>2 DEF Rejected, Thrown
<1>3. CASE Headers
  BY <1>0, <1>3, AdvancesKeep DEF Headers, Advances
<1>4. CASE BodyBreaks
  BY <1>1, <1>4 DEF BodyBreaks, Thrown
<1>5. CASE Body
  BY <1>0, <1>1, <1>5, AnswersKeep DEF Body, Thrown
<1> QED
  BY <1>2, <1>3, <1>4, <1>5 DEF Network

LEMMA StepKeeps ==
  ASSUME IInv, [Next]_vars
  PROVE  IInv'
<1>1. CASE Proceed
  BY <1>1, ProceedKeeps
<1>2. CASE TimerFires
  BY <1>2, AdvancesKeep DEF TimerFires, Advances
<1>3. CASE Network
  BY <1>3, NetworkKeeps
<1>4. CASE RunLocal
  <2>1. call' = [call EXCEPT !.phase = "over", !.span = "none", !.outcome = "result"]
    BY <1>4 DEF RunLocal, IInv, Calls, Sound, SpanTells, At
  <2> QED
    BY <1>4, <2>1, RefusedKeeps DEF RunLocal
<1>5. CASE Wrap \/ Ended \/ UNCHANGED vars
  <2>1. call' = call /\ strategy' = strategy
    BY <1>5 DEF Wrap, WrapSearch, WrapEdit, WrapCompaction, Ended, vars, given
  <2> QED
    BY <2>1 DEF IInv
<1> QED
  BY <1>1, <1>2, <1>3, <1>4, <1>5 DEF Next

LEMMA Invariant == Spec => []IInv
<1>1. Init => IInv
  BY Begins
<1>2. IInv /\ [Next]_vars => IInv'
  BY StepKeeps
<1> QED
  BY <1>1, <1>2, PTL DEF Spec

-----------------------------------------------------------------------------
\* The call's state keeps its types: WarpGrep never follows more than MaxTurns
\* answers nor runs more tools than these asked for.
THEOREM CallTypes == Spec => []TypeOK
<1>1. ASSUME IInv PROVE TypeOK
  <2>1. call \in Calls
    BY <1>1 DEF IInv
  <2> QED
    BY <2>1 DEF TypeOK, Calls, Phase, Asking, Answering, Settling, Pending, Quota
<1> QED
  BY <1>1, Invariant, PTL

\* However a call ends, its span tells: endProviderSpan and endGroqSpan end it
\* exactly once, with the last answer's usage, and it claims no more tokens
\* than the answers had.
THEOREM CallsAreAccounted == Spec => []CallIsAccounted
<1>1. ASSUME IInv PROVE CallIsAccounted
  <2>1. SUFFICES ASSUME strategy \in Remote, Over
                 PROVE  /\ call.span # "open"
                        /\ call.span = "ok" <=> call.outcome = "result"
                        /\ call.span = "stuck" => call.outcome = "trace"
                        /\ call.span = "none" => call.outcome = "no_credential"
                        /\ call.traced # NoUsage => call.traced <= call.spent
                        /\ call.span = "ok" => call.traced = call.usage
                        /\ call.span = "ok" /\ call.turn = 0 /\ call.traced = NoUsage
                             => call.spent = 0
    BY DEF CallIsAccounted
  <2>2. call.phase = "over" /\ strategy \notin Local /\ SpanTells(strategy, call)
        /\ TokensAreCounted(call) /\ call \in Calls
    BY <1>1, <2>1, Distinct DEF Over, At, IInv, Sound
  <2>3. /\ call.span # "open"
        /\ call.span = "ok" <=> call.outcome = "result"
        /\ call.span = "stuck" => call.outcome = "trace"
        /\ call.span = "none" => call.outcome = "no_credential"
        /\ call.span = "ok" => call.traced = call.usage
    BY <2>2 DEF SpanTells, Thrown
  <2>4. call.traced # NoUsage => call.traced <= call.spent
    BY <2>2, CallFields DEF TokensAreCounted
  <2>5. call.span = "ok" /\ call.turn = 0 /\ call.traced = NoUsage => call.spent = 0
    BY <2>2, <2>3, Distinct DEF TokensAreCounted
  <2> QED
    BY <2>3, <2>4, <2>5
<1> QED
  BY <1>1, Invariant, PTL

\* A timer runs only while headers are awaited, and the local fallback of a
\* search is claimed only of files that were read for the provider.
THEOREM OutcomesAreTrue == Spec => []OutcomeIsTrue
<1>1. ASSUME IInv PROVE OutcomeIsTrue
  BY <1>1 DEF IInv, Sound, TimerIsCleared, SourceIsRead, OutcomeIsTrue, At
<1> QED
  BY <1>1, Invariant, PTL

-----------------------------------------------------------------------------
(* Numbers: the least one of a set, and induction. *)
LEMMA LeastNumber ==
  ASSUME NEW T, T \subseteq Nat, T # {}
  PROVE  \E x \in T : \A y \in T : x <= y
<1> DEFINE R == {s \in Nat \X Nat : s[1] < s[2]}
<1>1. IsWellFoundedOn(R, Nat)
  BY NatLessThanWellFounded DEF OpToRel
<1>2. PICK x \in T : \A y \in T : ~(<<y, x>> \in R)
  <2> HIDE DEF R
  <2> QED
    BY <1>1, WFMin
<1>3. \A y \in T : x <= y
  <2> SUFFICES ASSUME NEW y \in T PROVE x <= y
    OBVIOUS
  <2>1. <<y, x>> \in Nat \X Nat /\ x \in Nat /\ y \in Nat
    OBVIOUS
  <2>2. <<y, x>>[1] = y /\ <<y, x>>[2] = x
    OBVIOUS
  <2>3. y < x => <<y, x>> \in R
    BY <2>1, <2>2
  <2> QED
    BY <1>2, <2>1, <2>3
<1> QED
  BY <1>3

LEMMA NumbersFrom ==
  ASSUME NEW T, T \subseteq Nat, 0 \in T, \A n \in T : n + 1 \in T
  PROVE  T = Nat
<1>1. SUFFICES ASSUME Nat \ T # {} PROVE FALSE
  OBVIOUS
<1>2. PICK x \in Nat \ T : \A y \in Nat \ T : x <= y
  BY <1>1, LeastNumber
<1>3. x # 0 /\ x - 1 \in Nat /\ x - 1 \notin Nat \ T
  BY <1>2
<1> QED
  BY <1>2, <1>3

(* The place SelectInSeq finds is the first one that passes the test. *)
LEMMA FirstPlace ==
  ASSUME NEW I, I \subseteq Nat, I # {}
  PROVE  Min(I) \in I /\ \A i \in I : Min(I) <= i
  BY LeastNumber DEF Min

(* A definition by recursion over the first N numbers has a solution. *)
Recursed(g, N, base, F) ==
  [n \in 0..N |-> IF n = 0 THEN base ELSE F[<<n, g[n - 1]>>]]

Solves(g, N, V, base, F) == g \in [0..N -> V] /\ g = Recursed(g, N, base, F)

LEMMA Recursion ==
  ASSUME NEW N \in Nat, NEW V, NEW base \in V, NEW F \in [(1..N) \X V -> V]
  PROVE  \E g : Solves(g, N, V, base, F)
<1> DEFINE T == {m \in Nat : m <= N => \E g \in [0..m -> V] : g = Recursed(g, m, base, F)}
<1>1. 0 \in T
  <2> DEFINE g == [n \in 0..0 |-> base]
  <2>1. g \in [0..0 -> V] /\ g = Recursed(g, 0, base, F)
    BY DEF Recursed
  <2> QED
    BY <2>1
<1>2. ASSUME NEW m \in T, m + 1 <= N
      PROVE  \E h \in [0..(m + 1) -> V] : h = Recursed(h, m + 1, base, F)
  <2>1. m \in Nat /\ m <= N
    BY <1>2
  <2>2. PICK g \in [0..m -> V] : g = Recursed(g, m, base, F)
    BY <2>1
  <2>3. g[m] \in V /\ F[<<m + 1, g[m]>>] \in V
    BY <1>2, <2>1
  <2> DEFINE h == [n \in 0..(m + 1) |-> IF n = m + 1 THEN F[<<m + 1, g[m]>>] ELSE g[n]]
  <2>4. \A n \in 0..m : h[n] = g[n]
    BY <2>1
  <2>5. \A n \in 0..(m + 1) : /\ n # 0 => n - 1 \in 0..m
                              /\ n # m + 1 => n \in 0..m
    BY <2>1
  <2>6. h \in [0..(m + 1) -> V]
    BY <2>2, <2>3, <2>5
  <2>7. \A n \in 0..(m + 1) : h[n] = Recursed(h, m + 1, base, F)[n]
    <3> SUFFICES ASSUME NEW n \in 0..(m + 1) PROVE h[n] = Recursed(h, m + 1, base, F)[n]
      OBVIOUS
    <3>1. CASE n = m + 1
      <4>1. h[n] = F[<<m + 1, g[m]>>]
        BY <3>1
      <4>2. n # 0 /\ n - 1 = m /\ h[m] = g[m]
        BY <3>1, <2>1, <2>4
      <4> HIDE DEF h
      <4> QED
        BY <3>1, <4>1, <4>2 DEF Recursed
    <3>2. CASE n # m + 1
      <4>1. n \in 0..m /\ h[n] = g[n]
        BY <3>2, <2>4, <2>5
      <4>2. g[n] = Recursed(g, m, base, F)[n]
        BY <2>2
      <4>3. n # 0 => n - 1 \in 0..m /\ h[n - 1] = g[n - 1]
        BY <2>4, <2>5
      <4> HIDE DEF h
      <4> QED
        BY <4>1, <4>2, <4>3 DEF Recursed
    <3> QED
      BY <3>1, <3>2
  <2>8. h = Recursed(h, m + 1, base, F)
    BY <2>7 DEF Recursed
  <2> QED
    BY <2>6, <2>8
<1>3. \A m \in T : m + 1 \in T
  BY <1>2
<1>4. T = Nat
  <2> HIDE DEF T
  <2>1. T \subseteq Nat
    BY DEF T
  <2> QED
    BY <1>1, <1>3, <2>1, NumbersFrom
<1> QED
  BY <1>4 DEF Solves

-----------------------------------------------------------------------------
(* Appending to a concatenation appends to its second part. *)
AppendedTo(x, s, t, e) == Append(x, e) = s \o Append(t, e)

LEMMA AppendAfter ==
  ASSUME NEW S, NEW s \in Seq(S), NEW t \in Seq(S), NEW e \in S, NEW x, x = s \o t
  PROVE  AppendedTo(x, s, t, e)
<1>1. s \o t \in Seq(S) /\ <<e>> \in Seq(S)
  BY ConcatProperties
<1>2. Append(s \o t, e) = (s \o t) \o <<e>> /\ Append(t, e) = t \o <<e>>
  BY <1>1, AppendIsConcat
<1>3. (s \o t) \o <<e>> = s \o (t \o <<e>>)
  BY <1>1, ConcatAssociative
<1> QED
  BY <1>2, <1>3 DEF AppendedTo


-----------------------------------------------------------------------------
(* Picked, and what it is after each place. *)
Picking(s, places, f, N) ==
  [n \in 0..N |->
     IF n = 0 THEN <<>> ELSE IF n \in places THEN Append(f[n - 1], s[n]) ELSE f[n - 1]]

LEMMA PickingExists ==
  ASSUME NEW S, NEW s \in Seq(S), NEW places
  PROVE  \E f \in [0..Len(s) -> Seq(S)] : f = Picking(s, places, f, Len(s))
<1> DEFINE N == Len(s)
           V == Seq(S)
           none == <<>>
           F == [p \in (1..N) \X V |-> IF p[1] \in places THEN Append(p[2], s[p[1]]) ELSE p[2]]
<1>1. N \in Nat /\ none \in V
  OBVIOUS
<1>2. F \in [(1..N) \X V -> V]
  <2>1. \A p \in (1..N) \X V : p[2] \in Seq(S) /\ s[p[1]] \in S
    OBVIOUS
  <2>2. \A p \in (1..N) \X V : Append(p[2], s[p[1]]) \in V
    BY <2>1, AppendProperties
  <2> QED
    BY <2>1, <2>2
<1>3. \A p \in (1..N) \X V :
         F[p] = IF p[1] \in places THEN Append(p[2], s[p[1]]) ELSE p[2]
  OBVIOUS
<1> HIDE DEF F, V, N, none
<1>4. PICK f : Solves(f, N, V, none, F)
  BY <1>1, <1>2, Recursion
<1>5. f \in [0..N -> V] /\ f = Recursed(f, N, none, F)
  BY <1>4 DEF Solves
<1>6. ASSUME NEW n \in 0..N
      PROVE  f[n] = IF n = 0 THEN none
                    ELSE IF n \in places THEN Append(f[n - 1], s[n]) ELSE f[n - 1]
  <2>1. f[n] = IF n = 0 THEN none ELSE F[<<n, f[n - 1]>>]
    BY <1>5 DEF Recursed
  <2>2. CASE n # 0
    <3>1. n \in 1..N /\ n - 1 \in 0..N
      BY <1>1, <2>2
    <3>2. <<n, f[n - 1]>> \in (1..N) \X V
      BY <1>5, <3>1
    <3> QED
      BY <1>3, <2>1, <2>2, <3>2
  <2> QED
    BY <2>1, <2>2
<1>7. f = Picking(s, places, f, N)
  BY <1>5, <1>6 DEF Picking, none
<1> QED
  BY <1>5, <1>7 DEF N, V

Picks(s, places, S, f) ==
  /\ f \in [0..Len(s) -> Seq(S)]
  /\ f[0] = <<>>
  /\ \A n \in 1..Len(s) : f[n] = IF n \in places THEN Append(f[n - 1], s[n]) ELSE f[n - 1]
  /\ Picked(s, places) = f[Len(s)]

LEMMA PickedIs ==
  ASSUME NEW S, NEW s \in Seq(S), NEW places
  PROVE  \E f : Picks(s, places, S, f)
<1> DEFINE f == CHOOSE f : f = Picking(s, places, f, Len(s))
<1>1. Len(s) \in Nat
  OBVIOUS
<1>2. f = Picking(s, places, f, Len(s))
  BY PickingExists
<1>3. Picked(s, places) = f[Len(s)]
  BY DEF Picked, Picking
<1> HIDE DEF f
<1>4. f[0] = <<>>
  BY <1>1, <1>2 DEF Picking
<1>5. ASSUME NEW n \in 1..Len(s)
      PROVE  f[n] = IF n \in places THEN Append(f[n - 1], s[n]) ELSE f[n - 1]
  <2>1. n \in 0..Len(s) /\ n # 0
    BY <1>1
  <2> QED
    BY <1>2, <2>1 DEF Picking
<1> DEFINE T == {n \in Nat : n <= Len(s) => f[n] \in Seq(S)}
<1>6. 0 \in T
  <2>1. <<>> \in Seq(S)
    OBVIOUS
  <2> QED
    BY <1>4, <2>1
<1>7. ASSUME NEW n \in T PROVE n + 1 \in T
  <2>1. SUFFICES ASSUME n + 1 <= Len(s) PROVE f[n + 1] \in Seq(S)
    OBVIOUS
  <2>2. n + 1 \in 1..Len(s) /\ (n + 1) - 1 = n /\ f[n] \in Seq(S) /\ s[n + 1] \in S
    BY <1>1, <2>1
  <2>3. Append(f[n], s[n + 1]) \in Seq(S)
    BY <2>2, AppendProperties
  <2> QED
    BY <1>5, <2>2, <2>3
<1>8. T = Nat
  <2> HIDE DEF T
  <2>1. T \subseteq Nat
    BY DEF T
  <2> QED
    BY <1>6, <1>7, <2>1, NumbersFrom
<1>9. f \in [0..Len(s) -> Seq(S)]
  <2>1. \A n \in 0..Len(s) : f[n] \in Seq(S)
    BY <1>1, <1>8
  <2>2. f = [n \in 0..Len(s) |-> f[n]]
    BY <1>2 DEF Picking
  <2> QED
    BY <2>1, <2>2
<1> QED
  BY <1>3, <1>4, <1>5, <1>9 DEF Picks

-----------------------------------------------------------------------------
(* applyUnifiedDiff.  Lines that are those of the original after a place.  *)
Line == [mark : Mark, text : Text]
Hunk == [start : Nat, body : Seq(Line)]

Found(original, place, lines) ==
  /\ place + Len(lines) <= Len(original)
  /\ \A j \in 1..Len(lines) : original[place + j] = lines[j]

Applying(original) ==
  [output : Seq(Text), cursor : 0..Len(original), error : {"none", "out of order", "mismatch"}]

(* Where the application stands after some lines of a hunk: those of the   *)
(* original were found, and those of the result written.                   *)
Follows(original, opened, state, old, new) ==
  /\ state.error = "none" <=> Found(original, opened.cursor, old)
  /\ state.error = "none" =>
       state.cursor = opened.cursor + Len(old) /\ state.output = opened.output \o new

LEMMA FoundMore ==
  ASSUME NEW original \in Seq(Text), NEW place \in Nat, NEW lines \in Seq(Text), NEW t \in Text
  PROVE  Found(original, place, Append(lines, t)) <=>
           /\ Found(original, place, lines)
           /\ place + Len(lines) + 1 <= Len(original)
           /\ original[place + Len(lines) + 1] = t
<1> DEFINE more == Append(lines, t)
<1>1. /\ Len(lines) \in Nat /\ Len(original) \in Nat /\ Len(more) = Len(lines) + 1
      /\ \A j \in 1..Len(lines) : more[j] = lines[j]
      /\ more[Len(lines) + 1] = t
  BY AppendProperties
<1> HIDE DEF more
<1>2. \A j \in 1..Len(more) : j \in 1..Len(lines) \/ j = Len(lines) + 1
  BY <1>1
<1>3. \A j \in 1..Len(lines) : j \in 1..Len(more)
  BY <1>1
<1>4. Len(lines) + 1 \in 1..Len(more)
  BY <1>1
<1>5. (place + Len(lines)) + 1 = place + (Len(lines) + 1)
  BY <1>1
<1>6. ASSUME Found(original, place, more)
      PROVE  /\ Found(original, place, lines)
             /\ place + Len(lines) + 1 <= Len(original)
             /\ original[place + Len(lines) + 1] = t
  <2>1. place + (Len(lines) + 1) <= Len(original) /\ original[place + (Len(lines) + 1)] = t
    BY <1>1, <1>4, <1>6 DEF Found
  <2>2. \A j \in 1..Len(lines) : original[place + j] = lines[j]
    BY <1>1, <1>3, <1>6 DEF Found
  <2>3. place + Len(lines) <= Len(original)
    BY <1>1, <2>1
  <2> QED
    BY <1>5, <2>1, <2>2, <2>3 DEF Found
<1>7. ASSUME Found(original, place, lines),
             place + Len(lines) + 1 <= Len(original),
             original[place + Len(lines) + 1] = t
      PROVE  Found(original, place, more)
  <2>1. \A j \in 1..Len(lines) : original[place + j] = more[j]
    BY <1>1, <1>7 DEF Found
  <2>2. original[place + (Len(lines) + 1)] = more[Len(lines) + 1]
    BY <1>1, <1>5, <1>7
  <2>3. \A j \in 1..Len(more) : original[place + j] = more[j]
    BY <1>2, <2>1, <2>2
  <2>4. place + Len(more) <= Len(original)
    BY <1>1, <1>7
  <2> QED
    BY <2>3, <2>4 DEF Found
<1> QED
  BY <1>6, <1>7 DEF more

(* One line of a hunk. *)
Old(old, line) == IF line.mark \in {" ", "-"} THEN Append(old, line.text) ELSE old
New(new, line) == IF line.mark \in {" ", "+"} THEN Append(new, line.text) ELSE new

LEMMA LineTypes ==
  ASSUME NEW original \in Seq(Text), NEW state \in Applying(original), NEW line \in Line
  PROVE  ApplyLine(original, state, line) \in Applying(original)
<1>1. /\ state.output \in Seq(Text) /\ state.cursor \in Nat /\ line.text \in Text
      /\ Append(state.output, line.text) \in Seq(Text) /\ Len(original) \in Nat
  <2>1. state.output \in Seq(Text) /\ state.cursor \in 0..Len(original) /\ line.text \in Text
    BY DEF Applying, Line
  <2>2. Len(original) \in Nat
    OBVIOUS
  <2> QED
    BY <2>1, <2>2, AppendProperties
<1>2. CASE state.error # "none" \/ line.mark = "+"
  BY <1>1, <1>2 DEF ApplyLine, Applying
<1>3. CASE state.error = "none" /\ line.mark # "+"
  <2>1. CASE state.cursor + 1 <= Len(original) /\ original[state.cursor + 1] = line.text
    <3>1. state.cursor + 1 \in 0..Len(original)
      BY <1>1, <2>1
    <3> QED
      BY <1>1, <1>3, <2>1, <3>1 DEF ApplyLine, Applying
  <2>2. CASE ~(state.cursor + 1 <= Len(original) /\ original[state.cursor + 1] = line.text)
    BY <1>1, <1>3, <2>2 DEF ApplyLine, Applying
  <2> QED
    BY <2>1, <2>2
<1> QED
  BY <1>2, <1>3

LEMMA LineFollows ==
  ASSUME NEW original \in Seq(Text), NEW opened \in Applying(original),
         NEW state \in Applying(original), NEW line \in Line,
         NEW old \in Seq(Text), NEW new \in Seq(Text),
         Follows(original, opened, state, old, new)
  PROVE  Follows(original, opened, ApplyLine(original, state, line), Old(old, line), New(new, line))
<1>0. PICK t \in Text : t = line.text
  BY DEF Line
<1> DEFINE next == ApplyLine(original, state, line)
<1> opened.cursor \in 0..Len(original) /\ state.cursor \in 0..Len(original)
  BY DEF Applying
<1>1. /\ opened.cursor \in Nat /\ state.cursor \in Nat
      /\ Len(old) \in Nat /\ Len(original) \in Nat
  OBVIOUS
<1>12. opened.cursor + Len(old) + 1 = opened.cursor + (Len(old) + 1)
  <2>1. \A a, b \in Nat : a + b + 1 = a + (b + 1)
    OBVIOUS
  <2> QED
    BY <1>1, <2>1, Zenon
<1> DEFINE written == opened.output
<1>10. written \in Seq(Text)
  BY DEF Applying
<1>11. line.mark \in {" ", "-", "+"}
  BY DEF Line, Mark
<1>2. /\ Found(original, opened.cursor, Append(old, t)) <=>
           /\ Found(original, opened.cursor, old)
           /\ opened.cursor + Len(old) + 1 <= Len(original)
           /\ original[opened.cursor + Len(old) + 1] = t
      /\ Len(Append(old, t)) = Len(old) + 1
  <2>1. Len(Append(old, t)) = Len(old) + 1
    BY AppendProperties
  <2> QED
    BY <1>1, <2>1, FoundMore
<1>3. Append(opened.output \o new, t) = opened.output \o Append(new, t)
  <2> HIDE DEF written
  <2>1. AppendedTo(written \o new, written, new, t)
    BY <1>10, AppendAfter
  <2>2. Append(written \o new, t) = written \o Append(new, t)
    BY <2>1 DEF AppendedTo
  <2> QED
    BY <2>2 DEF written
<1>4. CASE state.error # "none"
  <2>1. next = state
    BY <1>4 DEF ApplyLine
  <2>2. ~Found(original, opened.cursor, Old(old, line))
    BY <1>0, <1>2, <1>4 DEF Follows, Old
  <2> QED
    BY <1>4, <2>1, <2>2 DEF Follows
<1>5. CASE state.error = "none" /\ line.mark = "+"
  <2>1. next = [state EXCEPT !.output = Append(@, t)]
    BY <1>0, <1>5 DEF ApplyLine
  <2>2. next.error = "none" /\ next.cursor = state.cursor /\ next.output = Append(state.output, t)
    BY <2>1, <1>5 DEF Applying
  <2>3. Old(old, line) = old /\ New(new, line) = Append(new, t)
    BY <1>0, <1>5 DEF Old, New
  <2> HIDE DEF next
  <2> QED
    BY <1>3, <1>5, <2>2, <2>3 DEF Follows, next
<1>6. CASE state.error = "none" /\ line.mark # "+"
  <2> DEFINE matches == state.cursor + 1 <= Len(original) /\ original[state.cursor + 1] = t
  <2>1. state.cursor + 1 = opened.cursor + Len(old) + 1 /\ Found(original, opened.cursor, old)
    BY <1>6 DEF Follows
  <2>2. matches <=> Found(original, opened.cursor, Append(old, t))
    BY <1>2, <2>1
  <2>3. Old(old, line) = Append(old, t)
    BY <1>0, <1>6, <1>11 DEF Old
  <2>4. CASE ~matches
    <3>1. next = [state EXCEPT !.error = "mismatch"]
      BY <1>0, <1>6, <2>4 DEF ApplyLine
    <3>2. next.error # "none"
      BY <3>1 DEF Applying
    <3> HIDE DEF next, matches
    <3> QED
      BY <2>2, <2>3, <2>4, <3>2 DEF Follows, next
  <2>5. CASE matches
    <3>1. next = [state EXCEPT !.cursor = state.cursor + 1,
                               !.output = IF line.mark = " " THEN Append(@, t) ELSE @]
      BY <1>0, <1>6, <2>5 DEF ApplyLine
    <3>2. /\ next.error = "none" /\ next.cursor = state.cursor + 1
          /\ next.output = IF line.mark = " " THEN Append(state.output, t) ELSE state.output
      BY <3>1, <1>6 DEF Applying
    <3>3. New(new, line) = IF line.mark = " " THEN Append(new, t) ELSE new
      BY <1>0, <1>6 DEF New
    <3> HIDE DEF next
    <3>4. next.cursor = opened.cursor + (Len(old) + 1)
      <4>1. next.cursor = state.cursor + 1 /\ state.cursor + 1 = opened.cursor + Len(old) + 1
        BY <2>1, <3>2
      <4> QED
        BY <1>12, <4>1
    <3>5. state.output = opened.output \o new
      BY <1>6 DEF Follows
    <3> HIDE DEF next, matches
    <3>6. next.output = opened.output \o New(new, line)
      BY <1>3, <3>2, <3>3, <3>5
    <3> QED
      BY <1>2, <2>2, <2>3, <2>5, <3>2, <3>4, <3>6 DEF Follows, next
  <2> QED
    BY <2>4, <2>5
<1> QED
  BY <1>4, <1>5, <1>6

-----------------------------------------------------------------------------
(* One hunk. *)
Texts(hunk) == [i \in DOMAIN hunk.body |-> hunk.body[i].text]
Marked(hunk, mark) == {i \in DOMAIN hunk.body : hunk.body[i].mark \in {" ", mark}}

LEMMA TextsAre ==
  ASSUME NEW hunk \in Hunk
  PROVE  /\ hunk.body \in Seq(Line) /\ Texts(hunk) \in Seq(Text)
         /\ Len(Texts(hunk)) = Len(hunk.body) /\ Len(hunk.body) \in Nat
         /\ \A n \in 1..Len(hunk.body) : /\ hunk.body[n] \in Line
                                         /\ Texts(hunk)[n] = hunk.body[n].text
         /\ \A n \in 1..Len(hunk.body), mark \in Mark :
              n \in Marked(hunk, mark) <=> hunk.body[n].mark \in {" ", mark}
<1> DEFINE body == hunk.body
<1>1. body \in Seq(Line)
  BY DEF Hunk
<1>2. Len(body) \in Nat /\ DOMAIN body = 1..Len(body) /\ \A n \in 1..Len(body) : body[n] \in Line
  BY <1>1
<1>3. \A n \in 1..Len(body) : body[n].text \in Text
  BY <1>2 DEF Line
<1>4. Texts(hunk) = [n \in 1..Len(body) |-> body[n].text]
  BY <1>2 DEF Texts
<1> HIDE DEF body
<1>5. Texts(hunk) \in [1..Len(body) -> Text]
  BY <1>3, <1>4
<1>6. Texts(hunk) \in Seq(Text) /\ Len(Texts(hunk)) = Len(body)
  BY <1>2, <1>5
<1>7. \A n \in 1..Len(body), mark \in Mark : n \in Marked(hunk, mark) <=> body[n].mark \in {" ", mark}
  BY <1>2 DEF Marked, body
<1> QED
  BY <1>1, <1>2, <1>4, <1>6, <1>7 DEF body

LEMMA SideIs ==
  ASSUME NEW hunk \in Hunk, NEW mark \in Mark
  PROVE  /\ \E f : Picks(Texts(hunk), Marked(hunk, mark), Text, f)
         /\ Side(hunk, mark) = Picked(Texts(hunk), Marked(hunk, mark))
<1>1. Texts(hunk) \in Seq(Text)
  BY TextsAre
<1>2. \E f : Picks(Texts(hunk), Marked(hunk, mark), Text, f)
  BY <1>1, PickedIs
<1> QED
  BY <1>2 DEF Side, Texts, Marked

LEMMA SideTypes ==
  ASSUME NEW hunk \in Hunk, NEW mark \in Mark
  PROVE  Side(hunk, mark) \in Seq(Text) /\ Len(Side(hunk, mark)) \in Nat
<1>1. PICK f : Picks(Texts(hunk), Marked(hunk, mark), Text, f)
  BY SideIs
<1>2. Texts(hunk) \in Seq(Text) /\ Len(Texts(hunk)) \in Nat
  BY TextsAre
<1>3. Side(hunk, mark) = f[Len(Texts(hunk))] /\ f \in [0..Len(Texts(hunk)) -> Seq(Text)]
  BY <1>1, SideIs DEF Picks
<1>4. Side(hunk, mark) \in Seq(Text)
  BY <1>2, <1>3
<1> QED
  BY <1>4

(* The states a hunk goes through. *)
Hunking(original, state, hunk, g, N) ==
  [n \in 0..N |-> IF n = 0 THEN OpenHunk(original, state, hunk)
                  ELSE ApplyLine(original, g[n - 1], hunk.body[n])]

LEMMA OpenTypes ==
  ASSUME NEW original \in Seq(Text), NEW state \in Applying(original), state.error = "none",
         NEW hunk \in Hunk
  PROVE  LET opened == OpenHunk(original, state, hunk)
         IN  /\ opened \in Applying(original)
             /\ opened.error = "none" <=>
                  state.cursor <= hunk.start - 1 /\ hunk.start - 1 <= Len(original)
             /\ opened.error = "none" =>
                  /\ opened.cursor = hunk.start - 1
                  /\ opened.output =
                       state.output \o SubSeq(original, state.cursor + 1, hunk.start - 1)
                  /\ SubSeq(original, state.cursor + 1, hunk.start - 1) \in Seq(Text)
<1> DEFINE c == state.cursor
           s == hunk.start
           w == state.output
           opened == OpenHunk(original, state, hunk)
           between == SubSeq(original, c + 1, s - 1)
<1>1. c \in 0..Len(original) /\ w \in Seq(Text)
  BY DEF Applying
<1>2. s \in Nat
  BY DEF Hunk
<1>3. Len(original) \in Nat
  OBVIOUS
<1>4. CASE s - 1 < c \/ s - 1 > Len(original)
  <2>1. opened = [state EXCEPT !.error = "out of order"]
    BY <1>4 DEF OpenHunk
  <2>2. opened \in Applying(original) /\ opened.error # "none"
    BY <2>1 DEF Applying
  <2>3. ~(c <= s - 1 /\ s - 1 <= Len(original))
    <3> HIDE DEF c, s
    <3> QED
      BY <1>1, <1>2, <1>3, <1>4
  <2> QED
    BY <2>2, <2>3
<1>5. CASE ~(s - 1 < c \/ s - 1 > Len(original))
  <2>1. c <= s - 1 /\ s - 1 <= Len(original) /\ s - 1 \in 0..Len(original) /\ c + 1 \in Int
        /\ \A i \in (c + 1)..(s - 1) : i \in 1..Len(original)
    <3> HIDE DEF c, s
    <3> QED
      BY <1>1, <1>2, <1>3, <1>5
  <2>2. between \in Seq(Text)
    <3> HIDE DEF c, s
    <3>1. \A i \in (c + 1)..(s - 1) : original[i] \in Text
      BY <2>1
    <3> QED
      BY <2>1, <3>1, SubSeqProperties
  <2>3. w \o between \in Seq(Text)
    <3> HIDE DEF w, between
    <3> QED
      BY <1>1, <2>2, ConcatProperties
  <2>4. opened = [state EXCEPT !.output = w \o between, !.cursor = s - 1]
    BY <1>5 DEF OpenHunk
  <2> HIDE DEF opened, between, c, s
  <2>5. opened \in Applying(original)
    BY <2>1, <2>3, <2>4 DEF Applying, w
  <2>6. opened.error = "none" /\ opened.cursor = s - 1 /\ opened.output = w \o between
    BY <2>4 DEF Applying
  <2> QED
    BY <2>1, <2>2, <2>5, <2>6 DEF opened, between, c, s
<1> QED
  BY <1>4, <1>5

LEMMA HunkingExists ==
  ASSUME NEW original \in Seq(Text), NEW state \in Applying(original), state.error = "none",
         NEW hunk \in Hunk
  PROVE  \E g \in [0..Len(hunk.body) -> Applying(original)] :
            g = Hunking(original, state, hunk, g, Len(hunk.body))
<1> DEFINE N == Len(hunk.body)
           V == Applying(original)
           opened == OpenHunk(original, state, hunk)
           F == [p \in (1..N) \X V |-> ApplyLine(original, p[2], hunk.body[p[1]])]
<1>1. N \in Nat /\ opened \in V
  BY TextsAre, OpenTypes
<1>2. F \in [(1..N) \X V -> V]
  <2>1. \A p \in (1..N) \X V : p[2] \in Applying(original) /\ hunk.body[p[1]] \in Line
    BY TextsAre
  <2>2. \A p \in (1..N) \X V : ApplyLine(original, p[2], hunk.body[p[1]]) \in V
    BY <2>1, LineTypes
  <2> QED
    BY <2>2
<1>3. \A p \in (1..N) \X V : F[p] = ApplyLine(original, p[2], hunk.body[p[1]])
  OBVIOUS
<1> HIDE DEF F, V, N, opened
<1>4. PICK g : Solves(g, N, V, opened, F)
  BY <1>1, <1>2, Recursion
<1>5. g \in [0..N -> V] /\ g = Recursed(g, N, opened, F)
  BY <1>4 DEF Solves
<1>6. ASSUME NEW n \in 0..N
      PROVE  g[n] = IF n = 0 THEN opened ELSE ApplyLine(original, g[n - 1], hunk.body[n])
  <2>1. g[n] = IF n = 0 THEN opened ELSE F[<<n, g[n - 1]>>]
    BY <1>5 DEF Recursed
  <2>2. CASE n # 0
    <3>1. n \in 1..N /\ n - 1 \in 0..N
      BY <1>1, <2>2
    <3>2. <<n, g[n - 1]>> \in (1..N) \X V
      BY <1>5, <3>1
    <3> QED
      BY <1>3, <2>1, <2>2, <3>2
  <2> QED
    BY <2>1, <2>2
<1>7. g = Hunking(original, state, hunk, g, N)
  BY <1>5, <1>6 DEF Hunking, opened
<1> QED
  BY <1>5, <1>7 DEF N, V

LEMMA FoundIs ==
  ASSUME NEW original \in Seq(Text), NEW start \in Nat \ {0}, NEW lines \in Seq(Text)
  PROVE  Found(original, start - 1, lines) <=>
           /\ start - 1 + Len(lines) <= Len(original)
           /\ SubSeq(original, start, start - 1 + Len(lines)) = lines
<1> DEFINE end == start - 1 + Len(lines)
           part == SubSeq(original, start, end)
<1>1. Len(lines) \in Nat /\ Len(original) \in Nat /\ start - 1 \in Nat /\ end \in Nat
      /\ end - start + 1 = Len(lines)
  OBVIOUS
<1>2. SUFFICES ASSUME end <= Len(original)
               PROVE  (\A j \in 1..Len(lines) : original[(start - 1) + j] = lines[j]) <=> part = lines
  BY DEF Found
<1>3. /\ part \in Seq(Text) /\ Len(part) = Len(lines)
      /\ \A j \in 1..Len(lines) : part[j] = original[(start - 1) + j]
  <2>1. \A i \in start..end : original[i] \in Text
    BY <1>1, <1>2
  <2>2. start \in Int /\ end \in Int
    BY <1>1
  <2> HIDE DEF end
  <2>3. /\ part \in Seq(Text)
        /\ Len(part) = IF start <= end THEN end - start + 1 ELSE 0
        /\ \A j \in 1..(end - start + 1) : part[j] = original[start + j - 1]
    BY <2>1, <2>2, SubSeqProperties
  <2>4. (start <= end => Len(part) = Len(lines)) /\ (~(start <= end) => Len(lines) = 0)
    BY <1>1, <2>2, <2>3
  <2>5. \A j \in 1..Len(lines) : start + j - 1 = (start - 1) + j
    OBVIOUS
  <2> QED
    BY <1>1, <2>3, <2>4, <2>5
<1> HIDE DEF part, end
<1>4. ASSUME \A j \in 1..Len(lines) : original[(start - 1) + j] = lines[j]
      PROVE  part = lines
  BY <1>3, <1>4, SeqEqual
<1>5. ASSUME part = lines
      PROVE  \A j \in 1..Len(lines) : original[(start - 1) + j] = lines[j]
  BY <1>3, <1>5
<1> QED
  BY <1>4, <1>5

(* A hunk that was opened is followed line by line; one that was not keeps *)
(* its error.                                                              *)
LEMMA HunkFollows ==
  ASSUME NEW original \in Seq(Text), NEW state \in Applying(original), state.error = "none",
         NEW hunk \in Hunk
  PROVE  LET opened == OpenHunk(original, state, hunk)
             after == ApplyHunk(original, state, hunk)
         IN  /\ after \in Applying(original)
             /\ opened.error # "none" => after.error # "none"
             /\ opened.error = "none" =>
                  Follows(original, opened, after, Side(hunk, "-"), Side(hunk, "+"))
<1> DEFINE N == Len(hunk.body)
           opened == OpenHunk(original, state, hunk)
           after == ApplyHunk(original, state, hunk)
           g == CHOOSE g : g = Hunking(original, state, hunk, g, N)
<1>1. N \in Nat /\ opened \in Applying(original) /\ "-" \in Mark /\ "+" \in Mark
  BY TextsAre, OpenTypes DEF Mark
<1>2. g = Hunking(original, state, hunk, g, N)
  BY HunkingExists
<1>3. after = g[N]
  BY DEF ApplyHunk, Hunking
<1> HIDE DEF g, N, opened, after
<1>4. g[0] = opened
  BY <1>1, <1>2 DEF Hunking, opened
<1>5. ASSUME NEW n \in Nat, n + 1 <= N
      PROVE  g[n + 1] = ApplyLine(original, g[n], hunk.body[n + 1])
  <2>1. n + 1 \in 0..N /\ n + 1 # 0 /\ (n + 1) - 1 = n
    BY <1>1, <1>5
  <2> QED
    BY <1>2, <2>1 DEF Hunking
<1>6. PICK f : Picks(Texts(hunk), Marked(hunk, "-"), Text, f)
  BY <1>1, SideIs
<1>7. PICK h : Picks(Texts(hunk), Marked(hunk, "+"), Text, h)
  BY <1>1, SideIs
<1>8. Side(hunk, "-") = f[N] /\ Side(hunk, "+") = h[N]
  BY <1>1, <1>6, <1>7, SideIs, TextsAre DEF Picks, N
<1> DEFINE Good(n) ==
             n <= N =>
               /\ g[n] \in Applying(original) /\ f[n] \in Seq(Text) /\ h[n] \in Seq(Text)
               /\ opened.error # "none" => g[n].error # "none"
               /\ opened.error = "none" => Follows(original, opened, g[n], f[n], h[n])
           T == {n \in Nat : Good(n)}
<1>9. 0 \in T
  <2>1. f[0] = <<>> /\ h[0] = <<>> /\ <<>> \in Seq(Text) /\ Len(<<>>) = 0
    BY <1>6, <1>7 DEF Picks
  <2>2. opened.cursor \in 0..Len(original) /\ opened.output \in Seq(Text)
    BY <1>1 DEF Applying
  <2>3. Len(original) \in Nat
    OBVIOUS
  <2>4. Found(original, opened.cursor, <<>>)
    BY <2>1, <2>2, <2>3 DEF Found
  <2>5. opened.output \o <<>> = opened.output
    BY <2>2, ConcatEmptySeq
  <2>6. opened.cursor + Len(<<>>) = opened.cursor
    BY <2>1, <2>2
  <2>7. opened.error = "none" => Follows(original, opened, opened, <<>>, <<>>)
    BY <2>4, <2>5, <2>6 DEF Follows
  <2> QED
    BY <1>1, <1>4, <2>1, <2>7
<1>10. ASSUME NEW n \in T PROVE n + 1 \in T
  <2>1. n \in Nat /\ Good(n) /\ n + 1 \in Nat
    OBVIOUS
  <2>2. SUFFICES ASSUME n + 1 <= N PROVE Good(n + 1)
    BY <2>1
  <2> DEFINE line == hunk.body[n + 1]
  <2>3. n <= N /\ n + 1 \in 1..N /\ (n + 1) - 1 = n
    BY <1>1, <2>1, <2>2
  <2>4. line \in Line /\ Texts(hunk)[n + 1] = line.text /\ Len(Texts(hunk)) = N
        /\ (n + 1 \in Marked(hunk, "-") <=> line.mark \in {" ", "-"})
        /\ (n + 1 \in Marked(hunk, "+") <=> line.mark \in {" ", "+"})
    BY <1>1, <2>3, TextsAre DEF N
  <2> HIDE DEF line
  <2>5. f[n + 1] = Old(f[n], line) /\ h[n + 1] = New(h[n], line)
    BY <1>6, <1>7, <2>3, <2>4 DEF Picks, Old, New
  <2>6. f[n + 1] \in Seq(Text) /\ h[n + 1] \in Seq(Text)
    <3>1. n + 1 \in 0..N
      BY <1>1, <2>3
    <3> QED
      BY <1>6, <1>7, <2>4, <3>1 DEF Picks
  <2>7. g[n + 1] = ApplyLine(original, g[n], line)
    BY <1>5, <2>1, <2>2 DEF line
  <2>8. g[n] \in Applying(original) /\ f[n] \in Seq(Text) /\ h[n] \in Seq(Text)
    BY <2>1, <2>3
  <2>9. g[n + 1] \in Applying(original)
    BY <2>4, <2>7, <2>8, LineTypes
  <2>10. opened.error # "none" => g[n + 1].error # "none"
    BY <2>1, <2>3, <2>7 DEF ApplyLine
  <2>11. ASSUME opened.error = "none"
         PROVE  Follows(original, opened, g[n + 1], f[n + 1], h[n + 1])
    <3>1. Follows(original, opened, g[n], f[n], h[n])
      BY <2>1, <2>3, <2>11
    <3> HIDE DEF Good
    <3> QED
      BY <1>1, <2>4, <2>5, <2>7, <2>8, <3>1, LineFollows
  <2> QED
    BY <2>6, <2>9, <2>10, <2>11
<1>11. T = Nat
  <2> HIDE DEF T
  <2>1. T \subseteq Nat
    BY DEF T
  <2> QED
    BY <1>9, <1>10, <2>1, NumbersFrom
<1>12. Good(N) /\ N <= N
  BY <1>1, <1>11
<1> QED
  BY <1>3, <1>8, <1>12 DEF opened, after

(* Whether a hunk applies where the previous one ended, and what it adds.  *)
Fits(original, place, hunk) ==
  /\ place <= hunk.start - 1
  /\ hunk.start - 1 + Len(Side(hunk, "-")) <= Len(original)
  /\ SubSeq(original, hunk.start, hunk.start - 1 + Len(Side(hunk, "-"))) = Side(hunk, "-")

Adds(original, place, hunk) ==
  SubSeq(original, place + 1, hunk.start - 1) \o Side(hunk, "+")

LEMMA HunkApplied ==
  ASSUME NEW original \in Seq(Text), NEW state \in Applying(original), state.error = "none",
         NEW hunk \in Hunk
  PROVE  LET after == ApplyHunk(original, state, hunk)
         IN  /\ after \in Applying(original)
             /\ after.error = "none" <=> Fits(original, state.cursor, hunk)
             /\ after.error = "none" =>
                  /\ after.cursor = hunk.start - 1 + Len(Side(hunk, "-"))
                  /\ after.output = state.output \o SubSeq(original, state.cursor + 1, hunk.start - 1)
                                                 \o Side(hunk, "+")
<1> DEFINE opened == OpenHunk(original, state, hunk)
           after == ApplyHunk(original, state, hunk)
           old == Side(hunk, "-")
           c == state.cursor
           s == hunk.start
<1>1. /\ after \in Applying(original)
      /\ opened.error # "none" => after.error # "none"
      /\ opened.error = "none" => Follows(original, opened, after, old, Side(hunk, "+"))
  BY HunkFollows
<1>2. /\ opened.error = "none" <=> c <= s - 1 /\ s - 1 <= Len(original)
      /\ opened.error = "none" =>
           /\ opened.cursor = s - 1
           /\ opened.output = state.output \o SubSeq(original, c + 1, s - 1)
  BY OpenTypes
<1>3. old \in Seq(Text) /\ Len(old) \in Nat
  BY SideTypes DEF Mark
<1>4. c \in 0..Len(original) /\ s \in Nat
  BY DEF Applying, Hunk
<1>5. Len(original) \in Nat
  OBVIOUS
<1> HIDE DEF opened, after, old, c, s
<1>6. Fits(original, c, hunk) <=>
        /\ c <= s - 1 /\ s - 1 + Len(old) <= Len(original)
        /\ SubSeq(original, s, s - 1 + Len(old)) = old
  BY DEF Fits, c, s, old
<1>7. ASSUME Fits(original, c, hunk) PROVE after.error = "none"
  <2>1. s \in Nat \ {0} /\ c <= s - 1 /\ s - 1 <= Len(original)
    BY <1>3, <1>4, <1>5, <1>6, <1>7
  <2>2. opened.error = "none" /\ opened.cursor = s - 1
    BY <1>2, <2>1
  <2>3. Found(original, s - 1, old)
    BY <1>3, <1>6, <1>7, <2>1, FoundIs
  <2> QED
    BY <1>1, <2>2, <2>3 DEF Follows
<1>8. ASSUME after.error = "none"
      PROVE  /\ Fits(original, c, hunk)
             /\ after.cursor = s - 1 + Len(old)
             /\ after.output = state.output \o SubSeq(original, c + 1, s - 1) \o Side(hunk, "+")
  <2>1. opened.error = "none"
    BY <1>1, <1>8
  <2>2. c <= s - 1 /\ opened.cursor = s - 1
        /\ opened.output = state.output \o SubSeq(original, c + 1, s - 1)
    BY <1>2, <2>1
  <2>3. s \in Nat \ {0}
    BY <1>4, <1>5, <2>2
  <2>4. Found(original, s - 1, old) /\ after.cursor = s - 1 + Len(old)
        /\ after.output = opened.output \o Side(hunk, "+")
    BY <1>1, <1>8, <2>1, <2>2 DEF Follows
  <2>5. s - 1 + Len(old) <= Len(original) /\ SubSeq(original, s, s - 1 + Len(old)) = old
    BY <1>3, <2>3, <2>4, FoundIs
  <2> QED
    BY <1>6, <2>2, <2>4, <2>5
<1> QED
  BY <1>1, <1>7, <1>8 DEF after, c, s, old

-----------------------------------------------------------------------------
(* All hunks, one after the other. *)
Begun == [output |-> <<>>, cursor |-> 0, error |-> "none"]

Diffing(original, hunks, g, N) ==
  [n \in 0..N |-> IF n = 0 THEN Begun ELSE ApplyHunk(original, g[n - 1], hunks[n])]

LEMMA HunkTypes ==
  ASSUME NEW original \in Seq(Text), NEW state \in Applying(original), NEW hunk \in Hunk
  PROVE  ApplyHunk(original, state, hunk) \in Applying(original)
<1>1. CASE state.error = "none"
  BY <1>1, HunkApplied
<1>2. CASE state.error # "none"
  BY <1>2 DEF ApplyHunk
<1> QED
  BY <1>1, <1>2

LEMMA BegunTypes == ASSUME NEW original \in Seq(Text) PROVE Begun \in Applying(original)
<1>1. <<>> \in Seq(Text) /\ 0 \in 0..Len(original)
  OBVIOUS
<1> QED
  BY <1>1 DEF Begun, Applying

LEMMA DiffingExists ==
  ASSUME NEW original \in Seq(Text), NEW hunks \in Seq(Hunk)
  PROVE  \E g \in [0..Len(hunks) -> Applying(original)] :
            g = Diffing(original, hunks, g, Len(hunks))
<1> DEFINE N == Len(hunks)
           V == Applying(original)
           F == [p \in (1..N) \X V |-> ApplyHunk(original, p[2], hunks[p[1]])]
<1>1. N \in Nat /\ Begun \in V /\ \A n \in 1..N : hunks[n] \in Hunk
  BY BegunTypes
<1>2. F \in [(1..N) \X V -> V]
  <2>1. \A p \in (1..N) \X V : p[2] \in V /\ hunks[p[1]] \in Hunk
    BY <1>1
  <2>2. \A p \in (1..N) \X V : ApplyHunk(original, p[2], hunks[p[1]]) \in V
    BY <2>1, HunkTypes
  <2> QED
    BY <2>2
<1>3. \A p \in (1..N) \X V : F[p] = ApplyHunk(original, p[2], hunks[p[1]])
  OBVIOUS
<1> HIDE DEF F, V, N
<1>4. PICK g : Solves(g, N, V, Begun, F)
  BY <1>1, <1>2, Recursion
<1>5. g \in [0..N -> V] /\ g = Recursed(g, N, Begun, F)
  BY <1>4 DEF Solves
<1>6. ASSUME NEW n \in 0..N
      PROVE  g[n] = IF n = 0 THEN Begun ELSE ApplyHunk(original, g[n - 1], hunks[n])
  <2>1. g[n] = IF n = 0 THEN Begun ELSE F[<<n, g[n - 1]>>]
    BY <1>5 DEF Recursed
  <2>2. CASE n # 0
    <3>1. n \in 1..N /\ n - 1 \in 0..N
      BY <1>1, <2>2
    <3>2. <<n, g[n - 1]>> \in (1..N) \X V
      BY <1>5, <3>1
    <3> QED
      BY <1>3, <2>1, <2>2, <3>2
  <2> QED
    BY <2>1, <2>2
<1>7. g = Diffing(original, hunks, g, N)
  BY <1>5, <1>6 DEF Diffing
<1> QED
  BY <1>5, <1>7 DEF N, V

(* The states after each hunk. *)
Diffs(original, hunks, g) ==
  /\ g[0] = Begun
  /\ \A n \in Nat : n + 1 <= Len(hunks) => g[n + 1] = ApplyHunk(original, g[n], hunks[n + 1])
  /\ hunks # <<>> =>
       ApplyHunks(original, hunks) =
         [error |-> g[Len(hunks)].error,
          output |-> g[Len(hunks)].output
                     \o SubSeq(original, g[Len(hunks)].cursor + 1, Len(original))]

LEMMA DiffIs ==
  ASSUME NEW original \in Seq(Text), NEW hunks \in Seq(Hunk)
  PROVE  \E g : Diffs(original, hunks, g)
<1> DEFINE N == Len(hunks)
           g == CHOOSE g : g = Diffing(original, hunks, g, N)
<1>1. N \in Nat
  OBVIOUS
<1>2. g = Diffing(original, hunks, g, N)
  BY DiffingExists
<1>3. hunks # <<>> =>
        ApplyHunks(original, hunks) =
          [error |-> g[N].error,
           output |-> g[N].output \o SubSeq(original, g[N].cursor + 1, Len(original))]
  BY DEF ApplyHunks, Diffing, Begun
<1> HIDE DEF g, N
<1>4. g[0] = Begun
  BY <1>1, <1>2 DEF Diffing
<1>5. ASSUME NEW n \in Nat, n + 1 <= N
      PROVE  g[n + 1] = ApplyHunk(original, g[n], hunks[n + 1])
  <2>1. n + 1 \in 0..N /\ n + 1 # 0 /\ (n + 1) - 1 = n
    BY <1>1, <1>5
  <2> QED
    BY <1>2, <2>1 DEF Diffing
<1>6. Diffs(original, hunks, g)
  BY <1>3, <1>4, <1>5 DEF Diffs, N
<1> QED
  BY <1>6

(* Where the code has read to after a hunk, which it anchors at the line   *)
(* its header names; the hunks so far fit, each where the one before ended. *)
Reached(hunks, i) == IF i = 0 THEN 0 ELSE hunks[i].start - 1 + Len(Side(hunks[i], "-"))

Anchored(hunks, at) == \A i \in DOMAIN hunks : at[i] = hunks[i].start - 1

FitTo(original, hunks, n) == \A i \in 1..n : Fits(original, Reached(hunks, i - 1), hunks[i])

LEMMA HunksFollow ==
  ASSUME NEW original \in Seq(Text), NEW hunks \in Seq(Hunk), NEW g, Diffs(original, hunks, g),
         NEW n \in Nat, n <= Len(hunks)
  PROVE  /\ g[n] \in Applying(original)
         /\ g[n].error = "none" <=> FitTo(original, hunks, n)
         /\ g[n].error = "none" => g[n].cursor = Reached(hunks, n)
<1> DEFINE Good(m) ==
             m <= Len(hunks) =>
               /\ g[m] \in Applying(original)
               /\ g[m].error = "none" <=> FitTo(original, hunks, m)
               /\ g[m].error = "none" => g[m].cursor = Reached(hunks, m)
           T == {m \in Nat : Good(m)}
<1>1. Len(hunks) \in Nat
  OBVIOUS
<1>2. 0 \in T
  <2>1. g[0] = Begun /\ Begun \in Applying(original)
    BY BegunTypes DEF Diffs
  <2>2. Begun.error = "none" /\ Begun.cursor = 0
    BY DEF Begun
  <2>3. FitTo(original, hunks, 0) /\ Reached(hunks, 0) = 0
    BY DEF FitTo, Reached
  <2> QED
    BY <2>1, <2>2, <2>3
<1>3. ASSUME NEW m \in T PROVE m + 1 \in T
  <2>1. m \in Nat /\ m + 1 \in Nat /\ Good(m)
    OBVIOUS
  <2>2. SUFFICES ASSUME m + 1 <= Len(hunks) PROVE Good(m + 1)
    BY <2>1
  <2> DEFINE hunk == hunks[m + 1]
  <2>3. m <= Len(hunks) /\ m + 1 \in 1..Len(hunks) /\ (m + 1) - 1 = m /\ m + 1 # 0
        /\ (\A i \in 1..(m + 1) : i \in 1..m \/ i = m + 1) /\ (\A i \in 1..m : i \in 1..(m + 1))
        /\ m + 1 \in 1..(m + 1)
    BY <1>1, <2>1, <2>2
  <2>4. hunk \in Hunk
    BY <2>3
  <2>5. g[m + 1] = ApplyHunk(original, g[m], hunk)
    BY <2>1, <2>2 DEF Diffs
  <2>6. /\ g[m] \in Applying(original)
        /\ g[m].error = "none" <=> FitTo(original, hunks, m)
        /\ g[m].error = "none" => g[m].cursor = Reached(hunks, m)
    BY <2>1, <2>3
  <2>7. Reached(hunks, m + 1) = hunk.start - 1 + Len(Side(hunk, "-"))
    BY <2>3 DEF Reached
  <2>8. FitTo(original, hunks, m + 1) <=>
          FitTo(original, hunks, m) /\ Fits(original, Reached(hunks, m), hunk)
    BY <2>3 DEF FitTo
  <2> HIDE DEF hunk
  <2>9. CASE g[m].error = "none"
    <3>1. /\ g[m + 1] \in Applying(original)
          /\ g[m + 1].error = "none" <=> Fits(original, Reached(hunks, m), hunk)
          /\ g[m + 1].error = "none" => g[m + 1].cursor = hunk.start - 1 + Len(Side(hunk, "-"))
      BY <2>4, <2>5, <2>6, <2>9, HunkApplied
    <3> QED
      BY <2>6, <2>7, <2>8, <2>9, <3>1
  <2>10. CASE g[m].error # "none"
    <3>1. g[m + 1] = g[m]
      BY <2>5, <2>10 DEF ApplyHunk
    <3> QED
      BY <2>6, <2>8, <2>10, <3>1
  <2> QED
    BY <2>9, <2>10
<1>4. T = Nat
  <2> HIDE DEF T
  <2>1. T \subseteq Nat
    BY DEF T
  <2> QED
    BY <1>2, <1>3, <2>1, NumbersFrom
<1> QED
  BY <1>4

(* What was written when all hunks fit. *)
Replacing(original, hunks, at, w, N) ==
  [n \in 0..N |->
     IF n = 0 THEN <<>>
     ELSE w[n - 1] \o SubSeq(original, End(hunks, at, n - 1) + 1, at[n])
                   \o Side(hunks[n], "+")]

LEMMA HunksWrite ==
  ASSUME NEW original \in Seq(Text), NEW hunks \in Seq(Hunk), NEW g, Diffs(original, hunks, g),
         FitTo(original, hunks, Len(hunks)),
         NEW n \in Nat, n + 1 <= Len(hunks)
  PROVE  g[n + 1].output =
           g[n].output \o SubSeq(original, Reached(hunks, n) + 1, hunks[n + 1].start - 1)
                       \o Side(hunks[n + 1], "+")
<1>1. Len(hunks) \in Nat
  OBVIOUS
<1>2. n <= Len(hunks) /\ n + 1 \in Nat /\ hunks[n + 1] \in Hunk
      /\ (\A i \in 1..n : i \in 1..Len(hunks)) /\ (\A i \in 1..(n + 1) : i \in 1..Len(hunks))
  BY <1>1
<1>3. FitTo(original, hunks, n) /\ FitTo(original, hunks, n + 1)
  BY <1>2 DEF FitTo
<1>4. g[n] \in Applying(original) /\ g[n].error = "none" /\ g[n].cursor = Reached(hunks, n)
  BY <1>2, <1>3, HunksFollow
<1>5. g[n + 1].error = "none"
  BY <1>2, <1>3, HunksFollow
<1>6. g[n + 1] = ApplyHunk(original, g[n], hunks[n + 1])
  BY DEF Diffs
<1> DEFINE hunk == hunks[n + 1]
           state == g[n]
<1>7. hunk \in Hunk /\ state \in Applying(original) /\ state.error = "none"
  BY <1>2, <1>4
<1>8. g[n + 1] = ApplyHunk(original, state, hunk)
  BY <1>6
<1>9. g[n + 1].output =
        state.output \o SubSeq(original, state.cursor + 1, hunk.start - 1) \o Side(hunk, "+")
  <2> HIDE DEF hunk, state
  <2> QED
    BY <1>5, <1>7, <1>8, HunkApplied
<1> QED
  BY <1>4, <1>9

LEMMA AnchoredEnds ==
  ASSUME NEW hunks \in Seq(Hunk), NEW at, Anchored(hunks, at), NEW n \in Nat, n <= Len(hunks)
  PROVE  End(hunks, at, n) = Reached(hunks, n)
<1>1. n = 0 \/ n \in DOMAIN hunks
  OBVIOUS
<1> QED
  BY <1>1 DEF End, Reached, Anchored

LEMMA ReplacedIs ==
  ASSUME NEW original \in Seq(Text), NEW hunks \in Seq(Hunk), NEW g, Diffs(original, hunks, g),
         FitTo(original, hunks, Len(hunks)), NEW at, Anchored(hunks, at)
  PROVE  Replaced(original, hunks, at) =
           g[Len(hunks)].output \o SubSeq(original, Reached(hunks, Len(hunks)) + 1, Len(original))
<1> DEFINE N == Len(hunks)
           w == CHOOSE w : w = Replacing(original, hunks, at, w, N)
           v == [n \in 0..N |-> g[n].output]
<1>1. N \in Nat
  OBVIOUS
<1>2. ASSUME NEW n \in 0..N
      PROVE  v[n] = IF n = 0 THEN <<>>
                    ELSE v[n - 1] \o SubSeq(original, End(hunks, at, n - 1) + 1, at[n])
                                  \o Side(hunks[n], "+")
  <2>1. CASE n = 0
    BY <2>1 DEF Diffs, Begun
  <2>2. CASE n # 0
    <3>1. n - 1 \in Nat /\ n - 1 \in 0..N /\ (n - 1) + 1 = n /\ n <= N
      BY <1>1, <2>2
    <3>2. g[n].output = g[n - 1].output
             \o SubSeq(original, End(hunks, at, n - 1) + 1, at[n]) \o Side(hunks[n], "+")
      <4>1. g[n].output = g[n - 1].output
              \o SubSeq(original, Reached(hunks, n - 1) + 1, hunks[n].start - 1)
              \o Side(hunks[n], "+")
        BY <3>1, HunksWrite
      <4>2. n \in 1..N
        BY <1>1, <2>2
      <4>3. at[n] = hunks[n].start - 1
        BY <4>2 DEF Anchored
      <4>4. End(hunks, at, n - 1) = Reached(hunks, n - 1)
        BY <3>1, AnchoredEnds
      <4> QED
        BY <4>1, <4>3, <4>4
    <3>3. v[n] = g[n].output /\ v[n - 1] = g[n - 1].output
      BY <3>1
    <3> HIDE DEF v, N
    <3> QED
      BY <2>2, <3>2, <3>3
  <2> QED
    BY <2>1, <2>2
<1>3. v = Replacing(original, hunks, at, v, N)
  <2>1. v = [n \in 0..N |-> v[n]]
    OBVIOUS
  <2> HIDE DEF v, N
  <2> QED
    BY <1>2, <2>1 DEF Replacing
<1>4. w = Replacing(original, hunks, at, w, N)
  <2> HIDE DEF v, N
  <2> QED
    BY <1>3
<1>5. Replaced(original, hunks, at) = w[N] \o SubSeq(original, End(hunks, at, N) + 1, Len(original))
  BY DEF Replaced, Replacing
<1>10. End(hunks, at, N) = Reached(hunks, N)
  BY <1>1, AnchoredEnds
<1> HIDE DEF w, v, N
<1> DEFINE T == {n \in Nat : n <= N => w[n] = v[n]}
<1>6. 0 \in T
  <2>1. 0 \in 0..N
    BY <1>1
  <2>2. w[0] = <<>> /\ v[0] = <<>>
    BY <1>3, <1>4, <2>1 DEF Replacing
  <2> QED
    BY <2>2
<1>7. ASSUME NEW n \in T PROVE n + 1 \in T
  <2>1. n \in Nat /\ n + 1 \in Nat
    OBVIOUS
  <2>2. SUFFICES ASSUME n + 1 <= N PROVE w[n + 1] = v[n + 1]
    BY <2>1
  <2>3. n + 1 \in 0..N /\ n + 1 # 0 /\ (n + 1) - 1 = n /\ w[n] = v[n]
    BY <1>1, <2>1, <2>2
  <2>4. w[n + 1] = w[n] \o SubSeq(original, End(hunks, at, n) + 1, at[n + 1])
                        \o Side(hunks[n + 1], "+")
    BY <1>4, <2>3 DEF Replacing
  <2>5. v[n + 1] = v[n] \o SubSeq(original, End(hunks, at, n) + 1, at[n + 1])
                        \o Side(hunks[n + 1], "+")
    BY <1>3, <2>3 DEF Replacing
  <2> QED
    BY <2>3, <2>4, <2>5
<1>8. T = Nat
  <2> HIDE DEF T
  <2>1. T \subseteq Nat
    BY DEF T
  <2> QED
    BY <1>6, <1>7, <2>1, NumbersFrom
<1>9. w[N] = g[N].output
  <2>1. w[N] = v[N] /\ N \in 0..N
    BY <1>1, <1>8
  <2> QED
    BY <2>1 DEF v
<1> QED
  BY <1>5, <1>9, <1>10 DEF N

LEMMA DiffIsExact ==
  ASSUME NEW original \in Seq(Text), NEW hunks \in Seq(Hunk), NEW at, Anchored(hunks, at)
  PROVE  LET r == ApplyHunks(original, hunks)
         IN  /\ r.error = "none" <=> Applies(original, hunks, at)
             /\ Applies(original, hunks, at) => r.output = Replaced(original, hunks, at)
<1> DEFINE N == Len(hunks)
           r == ApplyHunks(original, hunks)
<1>1. N \in Nat /\ DOMAIN hunks = 1..N
  OBVIOUS
<1>2. CASE hunks = <<>>
  <2>1. r.error = "no hunk"
    BY <1>2 DEF ApplyHunks
  <2> QED
    BY <1>2, <2>1 DEF Applies
<1>3. CASE hunks # <<>>
  <2>1. PICK g : Diffs(original, hunks, g)
    BY DiffIs
  <2>2. /\ r.error = g[N].error
        /\ r.output = g[N].output \o SubSeq(original, g[N].cursor + 1, Len(original))
    <3>1. r = [error |-> g[N].error,
               output |-> g[N].output \o SubSeq(original, g[N].cursor + 1, Len(original))]
      BY <1>3, <2>1 DEF Diffs
    <3> HIDE DEF r, N
    <3> QED
      BY <3>1
  <2>3. /\ g[N].error = "none" <=> FitTo(original, hunks, N)
        /\ g[N].error = "none" => g[N].cursor = Reached(hunks, N)
    BY <1>1, <2>1, HunksFollow
  <2>4. Applies(original, hunks, at) <=> FitTo(original, hunks, N)
    <3>1. ASSUME NEW i \in 1..N
          PROVE  /\ at[i] = hunks[i].start - 1
                 /\ End(hunks, at, i) = hunks[i].start - 1 + Len(Side(hunks[i], "-"))
                 /\ End(hunks, at, i - 1) = Reached(hunks, i - 1)
                 /\ (hunks[i].start - 1) + 1 = hunks[i].start
      <4>6. PICK hunk \in Hunk : hunk = hunks[i]
        BY <1>1
      <4>7. hunk.start \in Nat
        BY DEF Hunk
      <4>8. at[i] = hunks[i].start - 1 /\ i # 0
        BY <1>1 DEF Anchored
      <4>1. at[i] = hunks[i].start - 1 /\ i # 0 /\ hunks[i].start \in Nat
        BY <4>6, <4>7, <4>8
      <4>2. End(hunks, at, i) = at[i] + Len(Side(hunks[i], "-"))
        BY <4>1 DEF End
      <4>3. i - 1 \in Nat /\ i - 1 <= Len(hunks)
        BY <1>1
      <4>4. End(hunks, at, i - 1) = Reached(hunks, i - 1)
        BY <4>3, AnchoredEnds
      <4>5. (hunks[i].start - 1) + 1 = hunks[i].start
        BY <4>1
      <4> QED
        BY <4>1, <4>2, <4>4, <4>5
    <3> HIDE DEF r, N
    <3>2. ASSUME NEW i \in 1..N
          PROVE  Fits(original, Reached(hunks, i - 1), hunks[i]) <=>
                   /\ End(hunks, at, i - 1) <= at[i]
                   /\ End(hunks, at, i) <= Len(original)
                   /\ SubSeq(original, at[i] + 1, End(hunks, at, i)) = Side(hunks[i], "-")
      BY <3>1, Zenon DEF Fits
    <3> QED
      BY <1>1, <1>3, <3>2 DEF Applies, FitTo
  <2>5. ASSUME FitTo(original, hunks, N) PROVE r.output = Replaced(original, hunks, at)
    BY <2>1, <2>2, <2>3, <2>5, ReplacedIs
  <2> QED
    BY <2>2, <2>3, <2>4, <2>5
<1> QED
  BY <1>2, <1>3

-----------------------------------------------------------------------------
(* The members between two places. *)
Stretch(s, lo, hi, n) ==
  IF n <= lo THEN <<>> ELSE IF n <= hi THEN SubSeq(s, lo + 1, n) ELSE SubSeq(s, lo + 1, hi)

LEMMA PartIs ==
  ASSUME NEW S, NEW s \in Seq(S), NEW lo \in Nat, NEW hi \in Nat, lo <= hi, hi <= Len(s)
  PROVE  /\ SubSeq(s, lo + 1, hi) \in Seq(S) /\ Len(SubSeq(s, lo + 1, hi)) = hi - lo
         /\ \A i \in 1..(hi - lo) : SubSeq(s, lo + 1, hi)[i] = s[lo + i]
<1>1. PICK m \in Nat : m = lo + 1
  OBVIOUS
<1>2. Len(s) \in Nat
  OBVIOUS
<1>3. \A i \in m..hi : s[i] \in S
  BY <1>1, <1>2
<1>4. /\ SubSeq(s, m, hi) \in Seq(S)
      /\ Len(SubSeq(s, m, hi)) = IF m <= hi THEN hi - m + 1 ELSE 0
      /\ \A i \in 1..(hi - m + 1) : SubSeq(s, m, hi)[i] = s[m + i - 1]
  BY <1>3, SubSeqProperties
<1>5. hi - m + 1 = hi - lo /\ (~(m <= hi) => hi - lo = 0) /\ \A i \in Nat : m + i - 1 = lo + i
  BY <1>1
<1>6. \A i \in 1..(hi - lo) : SubSeq(s, m, hi)[i] = s[lo + i]
  BY <1>4, <1>5
<1>7. Len(SubSeq(s, m, hi)) = hi - lo
  BY <1>4, <1>5
<1> QED
  BY <1>1, <1>4, <1>6, <1>7

LEMMA StretchStep ==
  ASSUME NEW S, NEW s \in Seq(S), NEW lo \in Nat, NEW hi \in Nat, lo <= hi, hi <= Len(s),
         NEW n \in Nat, n + 1 <= Len(s)
  PROVE  Stretch(s, lo, hi, n + 1) =
           IF lo < n + 1 /\ n + 1 <= hi THEN Append(Stretch(s, lo, hi, n), s[n + 1])
           ELSE Stretch(s, lo, hi, n)
<1>1. Len(s) \in Nat /\ s[n + 1] \in S /\ lo + 1 \in Int
  OBVIOUS
<1>2. CASE n + 1 <= lo
  BY <1>2 DEF Stretch
<1>3. CASE lo < n + 1 /\ n + 1 <= hi
  <2>1. SubSeq(s, lo + 1, n + 1) = SubSeq(s, lo + 1, n) \o <<s[n + 1]>>
    <3>1. lo + 1 \in 1..Len(s) /\ n + 1 \in (lo + 1)..Len(s) /\ (n + 1) - 1 = n
      BY <1>1, <1>3
    <3> QED
      BY <3>1, SubSeqRecursiveSecond
  <2>2. SubSeq(s, lo + 1, n) \in Seq(S)
    <3>1. \A i \in (lo + 1)..n : s[i] \in S
      BY <1>1, <1>3
    <3> QED
      BY <1>1, <3>1, SubSeqProperties
  <2>3. Stretch(s, lo, hi, n) = SubSeq(s, lo + 1, n)
    <3>1. CASE n <= lo
      <4>1. n < lo + 1
        BY <3>1
      <4> QED
        BY <1>1, <3>1, <4>1, SubSeqEmpty DEF Stretch
    <3>2. CASE lo < n
      BY <1>3, <3>2 DEF Stretch
    <3> QED
      BY <3>1, <3>2
  <2>4. Stretch(s, lo, hi, n + 1) = SubSeq(s, lo + 1, n + 1)
    BY <1>3 DEF Stretch
  <2>5. Append(SubSeq(s, lo + 1, n), s[n + 1]) = SubSeq(s, lo + 1, n) \o <<s[n + 1]>>
    BY <1>1, <2>2, AppendIsConcat
  <2> QED
    BY <1>3, <2>1, <2>3, <2>4, <2>5
<1>4. CASE lo < n + 1 /\ hi < n + 1
  <2>1. Stretch(s, lo, hi, n + 1) = SubSeq(s, lo + 1, hi)
    BY <1>4 DEF Stretch
  <2>2. Stretch(s, lo, hi, n) = SubSeq(s, lo + 1, hi)
    <3>1. CASE n <= lo
      <4>1. hi < lo + 1
        BY <1>4, <3>1
      <4>2. SubSeq(s, lo + 1, hi) = <<>>
        BY <1>1, <4>1, SubSeqEmpty
      <4> QED
        BY <3>1, <4>2 DEF Stretch
    <3>2. CASE lo < n /\ n <= hi
      <4>1. n = hi
        BY <1>4, <3>2
      <4> QED
        BY <3>2, <4>1 DEF Stretch
    <3>3. CASE lo < n /\ hi < n
      BY <3>3 DEF Stretch
    <3> QED
      BY <3>1, <3>2, <3>3
  <2>3. ~(n + 1 <= hi)
    BY <1>4
  <2> QED
    BY <2>1, <2>2, <2>3
<1> QED
  BY <1>2, <1>3, <1>4

LEMMA PickedStretch ==
  ASSUME NEW S, NEW s \in Seq(S), NEW places,
         NEW lo \in Nat, NEW hi \in Nat, lo <= hi, hi <= Len(s),
         \A n \in 1..Len(s) : n \in places <=> lo < n /\ n <= hi
  PROVE  Picked(s, places) = SubSeq(s, lo + 1, hi)
<1>1. PICK f : Picks(s, places, S, f)
  BY PickedIs
<1>2. Len(s) \in Nat
  OBVIOUS
<1> DEFINE T == {n \in Nat : n <= Len(s) => f[n] = Stretch(s, lo, hi, n)}
<1>3. 0 \in T
  BY <1>1 DEF Picks, Stretch
<1>4. ASSUME NEW n \in T PROVE n + 1 \in T
  <2>1. n \in Nat /\ n + 1 \in Nat
    OBVIOUS
  <2>2. SUFFICES ASSUME n + 1 <= Len(s) PROVE f[n + 1] = Stretch(s, lo, hi, n + 1)
    BY <2>1
  <2>3. n + 1 \in 1..Len(s) /\ (n + 1) - 1 = n /\ f[n] = Stretch(s, lo, hi, n)
    BY <1>2, <2>1, <2>2
  <2>4. f[n + 1] = IF n + 1 \in places THEN Append(f[n], s[n + 1]) ELSE f[n]
    BY <1>1, <2>3 DEF Picks
  <2>5. Stretch(s, lo, hi, n + 1) =
          IF lo < n + 1 /\ n + 1 <= hi THEN Append(f[n], s[n + 1]) ELSE f[n]
    BY <2>1, <2>2, <2>3, StretchStep
  <2>6. n + 1 \in places <=> lo < n + 1 /\ n + 1 <= hi
    BY <2>3
  <2> QED
    BY <2>4, <2>5, <2>6
<1>5. T = Nat
  <2> HIDE DEF T
  <2>1. T \subseteq Nat
    BY DEF T
  <2> QED
    BY <1>3, <1>4, <2>1, NumbersFrom
<1>6. Picked(s, places) = Stretch(s, lo, hi, Len(s))
  BY <1>1, <1>2, <1>5 DEF Picks
<1>7. Stretch(s, lo, hi, Len(s)) = SubSeq(s, lo + 1, hi)
  <2>1. CASE Len(s) <= lo
    <3>1. hi < lo + 1 /\ lo + 1 \in Int
      BY <1>2, <2>1
    <3>2. SubSeq(s, lo + 1, hi) = <<>>
      BY <3>1, SubSeqEmpty
    <3> QED
      BY <2>1, <3>2 DEF Stretch
  <2>2. CASE lo < Len(s) /\ Len(s) <= hi
    <3>1. hi = Len(s)
      BY <1>2, <2>2
    <3> QED
      BY <2>2, <3>1 DEF Stretch
  <2>3. CASE lo < Len(s) /\ hi < Len(s)
    BY <2>3 DEF Stretch
  <2> QED
    BY <1>2, <2>1, <2>2, <2>3
<1> QED
  BY <1>6, <1>7

(* unifiedDiff: what it removes is the file before, what it adds the file  *)
(* after.                                                                  *)
WholeOf(before, after) ==
  [start |-> 1,
   body |-> [i \in DOMAIN before |-> [mark |-> "-", text |-> before[i]]]
            \o [i \in DOMAIN after |-> [mark |-> "+", text |-> after[i]]]]

LEMMA WholeHunk ==
  ASSUME NEW before \in Seq(Text), NEW after \in Seq(Text), NEW hunk, hunk = WholeOf(before, after)
  PROVE  hunk \in Hunk /\ Side(hunk, "-") = before /\ Side(hunk, "+") = after
<1> DEFINE B == Len(before)
           A == Len(after)
           removed == [i \in 1..B |-> [mark |-> "-", text |-> before[i]]]
           added == [i \in 1..A |-> [mark |-> "+", text |-> after[i]]]
<1>1. B \in Nat /\ A \in Nat /\ DOMAIN before = 1..B /\ DOMAIN after = 1..A
      /\ (\A i \in 1..B : before[i] \in Text) /\ (\A i \in 1..A : after[i] \in Text)
  OBVIOUS
<1>2. hunk.body = removed \o added /\ hunk.start = 1
      /\ hunk = [start |-> hunk.start, body |-> hunk.body]
  BY <1>1 DEF WholeOf
<1>3. /\ removed \in [1..B -> Line] /\ added \in [1..A -> Line]
      /\ \A i \in 1..B : removed[i].mark = "-" /\ removed[i].text = before[i]
      /\ \A i \in 1..A : added[i].mark = "+" /\ added[i].text = after[i]
  BY <1>1 DEF Line, Mark
<1> HIDE DEF removed, added, B, A
<1>4. removed \in Seq(Line) /\ added \in Seq(Line) /\ Len(removed) = B /\ Len(added) = A
  BY <1>1, <1>3
<1>5. /\ hunk.body \in Seq(Line) /\ Len(hunk.body) = B + A
      /\ \A i \in 1..(B + A) : hunk.body[i] = IF i <= B THEN removed[i] ELSE added[i - B]
  <2>1. /\ removed \o added \in Seq(Line) /\ Len(removed \o added) = Len(removed) + Len(added)
        /\ \A i \in 1..(Len(removed) + Len(added)) :
             (removed \o added)[i] = IF i <= Len(removed) THEN removed[i] ELSE added[i - Len(removed)]
    BY <1>4, ConcatProperties
  <2>2. hunk.body = removed \o added
    BY <1>2
  <2> QED
    BY <1>4, <2>1, <2>2
<1>6. hunk \in Hunk
  <2>1. PICK body : body = hunk.body
    OBVIOUS
  <2>2. hunk = [start |-> 1, body |-> body] /\ body \in Seq(Line)
    BY <1>2, <1>5, <2>1
  <2> QED
    BY <2>2 DEF Hunk
<1>7. /\ \A i \in 1..(B + A) : i <= B => i \in 1..B
      /\ \A i \in 1..(B + A) : ~(i <= B) => i - B \in 1..A
  BY <1>1
<1>8. /\ \A i \in 1..(B + A) : i <= B => hunk.body[i].mark = "-" /\ hunk.body[i].text = before[i]
      /\ \A i \in 1..(B + A) :
           ~(i <= B) => hunk.body[i].mark = "+" /\ hunk.body[i].text = after[i - B]
  BY <1>3, <1>5, <1>7
<1>9. PICK texts : texts = Texts(hunk)
  OBVIOUS
<1>10. /\ texts \in Seq(Text) /\ Len(texts) = B + A
       /\ \A i \in 1..(B + A) : i <= B => texts[i] = before[i]
       /\ \A i \in 1..(B + A) : ~(i <= B) => texts[i] = after[i - B]
       /\ \A i \in 1..(B + A) : i \in Marked(hunk, "-") <=> i <= B
       /\ \A i \in 1..(B + A) : i \in Marked(hunk, "+") <=> ~(i <= B)
  <2>1. /\ texts \in Seq(Text) /\ Len(texts) = B + A
        /\ \A i \in 1..(B + A) : texts[i] = hunk.body[i].text
        /\ \A i \in 1..(B + A) : i \in Marked(hunk, "-") <=> hunk.body[i].mark \in {" ", "-"}
        /\ \A i \in 1..(B + A) : i \in Marked(hunk, "+") <=> hunk.body[i].mark \in {" ", "+"}
    BY <1>5, <1>6, <1>9, TextsAre DEF Mark
  <2>2. /\ \A i \in 1..(B + A) : i <= B => texts[i] = before[i]
        /\ \A i \in 1..(B + A) : ~(i <= B) => texts[i] = after[i - B]
    <3>1. ASSUME NEW i \in 1..(B + A), i <= B PROVE texts[i] = before[i]
      BY <1>8, <2>1, <3>1
    <3>2. ASSUME NEW i \in 1..(B + A), ~(i <= B) PROVE texts[i] = after[i - B]
      <4>1. texts[i] = hunk.body[i].text /\ hunk.body[i].text = after[i - B]
        BY <1>8, <2>1, <3>2
      <4> QED
        BY <4>1
    <3> QED
      BY <3>1, <3>2
  <2>3. ASSUME NEW i \in 1..(B + A)
        PROVE  (i \in Marked(hunk, "-") <=> i <= B) /\ (i \in Marked(hunk, "+") <=> ~(i <= B))
    <3>1. CASE i <= B
      BY <1>8, <2>1, <3>1
    <3>2. CASE ~(i <= B)
      BY <1>8, <2>1, <3>2
    <3> QED
      BY <3>1, <3>2
  <2> QED
    BY <2>1, <2>2, <2>3
<1>11. Side(hunk, "-") = before
  <2>1. \A i \in 1..Len(texts) : i \in Marked(hunk, "-") <=> 0 < i /\ i <= B
    <3>1. \A i \in 1..Len(texts) : i \in 1..(B + A) /\ 0 < i
      BY <1>1, <1>10
    <3> QED
      BY <1>10, <3>1
  <2>2. B <= Len(texts) /\ 0 <= B /\ 0 + 1 = 1
    BY <1>1, <1>10
  <2>3. texts \in Seq(Text)
    BY <1>10
  <2>4. Picked(texts, Marked(hunk, "-")) = SubSeq(texts, 1, B)
    <3>1. Picked(texts, Marked(hunk, "-")) = SubSeq(texts, 0 + 1, B)
      BY <1>1, <2>1, <2>2, <2>3, PickedStretch
    <3> QED
      BY <2>2, <3>1
  <2>5. /\ SubSeq(texts, 1, B) \in Seq(Text) /\ Len(SubSeq(texts, 1, B)) = B
        /\ \A i \in 1..B : SubSeq(texts, 1, B)[i] = texts[i]
    <3>1. /\ SubSeq(texts, 0 + 1, B) \in Seq(Text) /\ Len(SubSeq(texts, 0 + 1, B)) = B - 0
          /\ \A i \in 1..(B - 0) : SubSeq(texts, 0 + 1, B)[i] = texts[0 + i]
      BY <1>1, <2>2, <2>3, PartIs
    <3>2. B - 0 = B /\ 0 + 1 = 1 /\ \A i \in 1..B : 0 + i = i
      BY <1>1
    <3> QED
      BY <3>1, <3>2
  <2>6. \A i \in 1..B : texts[i] = before[i]
    <3>1. \A i \in 1..B : i \in 1..(B + A) /\ i <= B
      BY <1>1
    <3> QED
      BY <1>10, <3>1
  <2>7. SubSeq(texts, 1, B) = before
    BY <2>5, <2>6, SeqEqual DEF B
  <2>8. Side(hunk, "-") = Picked(texts, Marked(hunk, "-"))
    BY <1>6, <1>9, SideIs DEF Mark
  <2> QED
    BY <2>4, <2>7, <2>8
<1>12. Side(hunk, "+") = after
  <2> DEFINE part == SubSeq(texts, B + 1, B + A)
  <2>1. \A i \in 1..Len(texts) : i \in Marked(hunk, "+") <=> B < i /\ i <= B + A
    <3>1. \A i \in 1..Len(texts) : i \in 1..(B + A) /\ i <= B + A /\ (B < i <=> ~(i <= B))
      BY <1>1, <1>10
    <3> QED
      BY <1>10, <3>1
  <2>2. B + A \in Nat /\ B <= B + A /\ B + A <= Len(texts)
    BY <1>1, <1>10
  <2>3. texts \in Seq(Text)
    BY <1>10
  <2>4. Picked(texts, Marked(hunk, "+")) = part
    BY <1>1, <2>1, <2>2, <2>3, PickedStretch
  <2>5. /\ part \in Seq(Text) /\ Len(part) = A
        /\ \A i \in 1..A : part[i] = texts[B + i]
    <3>1. /\ part \in Seq(Text) /\ Len(part) = (B + A) - B
          /\ \A i \in 1..((B + A) - B) : part[i] = texts[B + i]
      BY <1>1, <2>2, <2>3, PartIs
    <3>2. (B + A) - B = A
      BY <1>1
    <3> HIDE DEF part
    <3> QED
      BY <3>1, <3>2
  <2>6. \A i \in 1..A : texts[B + i] = after[i]
    <3>1. \A i \in 1..A : B + i \in 1..(B + A) /\ ~(B + i <= B) /\ (B + i) - B = i
      BY <1>1
    <3> QED
      BY <1>10, <3>1
  <2> HIDE DEF part
  <2>7. part = after
    BY <2>5, <2>6, SeqEqual DEF A
  <2>8. Side(hunk, "+") = Picked(texts, Marked(hunk, "+"))
    BY <1>6, <1>9, SideIs DEF Mark
  <2> QED
    BY <2>4, <2>7, <2>8
<1> QED
  BY <1>6, <1>11, <1>12

LEMMA WholeReplaces ==
  ASSUME NEW before \in Seq(Text), NEW after \in Seq(Text), NEW hunks,
         hunks = <<WholeOf(before, after)>>
  PROVE  ApplyHunks(before, hunks).output = after
<1> DEFINE r == ApplyHunks(before, hunks)
<1>1. PICK hunk : hunk = WholeOf(before, after)
  OBVIOUS
<1>2. hunk \in Hunk /\ Side(hunk, "-") = before /\ Side(hunk, "+") = after
  <2> HIDE DEF r
  <2> QED
    BY <1>1, WholeHunk
<1>3. hunks = <<hunk>> /\ hunk.start = 1
  BY <1>1 DEF WholeOf
<1>4. hunks \in Seq(Hunk) /\ Len(hunks) = 1 /\ hunks[1] = hunk /\ hunks # <<>>
  BY <1>2, <1>3
<1>5. PICK g : Diffs(before, hunks, g)
  BY <1>4, DiffIs
<1>6. g[0] = Begun /\ g[1] = ApplyHunk(before, Begun, hunk)
      /\ r = [error |-> g[1].error,
              output |-> g[1].output \o SubSeq(before, g[1].cursor + 1, Len(before))]
  <2> HIDE DEF r
  <2>1. g[0 + 1] = ApplyHunk(before, g[0], hunks[0 + 1]) /\ g[0] = Begun
    BY <1>4, <1>5 DEF Diffs
  <2>2. g[1] = ApplyHunk(before, Begun, hunk)
    BY <1>4, <2>1
  <2>3. ApplyHunks(before, hunks) =
          [error |-> g[1].error,
           output |-> g[1].output \o SubSeq(before, g[1].cursor + 1, Len(before))]
    BY <1>4, <1>5 DEF Diffs
  <2> QED
    BY <2>1, <2>2, <2>3 DEF r
<1>7. Begun \in Applying(before) /\ Begun.error = "none" /\ Begun.cursor = 0 /\ Begun.output = <<>>
  BY BegunTypes DEF Begun
<1>8. Len(before) \in Nat
  OBVIOUS
<1>9. Fits(before, 0, hunk)
  <2>1. hunk.start - 1 + Len(Side(hunk, "-")) = Len(before)
    BY <1>2, <1>3, <1>8
  <2>2. SubSeq(before, 1, Len(before)) = before
    BY SubSeqFull
  <2>3. 0 <= hunk.start - 1 /\ Len(before) <= Len(before)
    BY <1>3, <1>8
  <2> QED
    BY <1>2, <1>3, <2>1, <2>2, <2>3 DEF Fits
<1>10. /\ g[1].cursor = hunk.start - 1 + Len(Side(hunk, "-"))
       /\ g[1].output = Begun.output \o SubSeq(before, Begun.cursor + 1, hunk.start - 1)
                                     \o Side(hunk, "+")
  <2>1. PICK state : state = Begun
    OBVIOUS
  <2>2. state \in Applying(before) /\ state.error = "none" /\ state.cursor = 0
        /\ g[1] = ApplyHunk(before, state, hunk) /\ Fits(before, state.cursor, hunk)
    BY <1>6, <1>7, <1>9, <2>1
  <2>3. /\ g[1].cursor = hunk.start - 1 + Len(Side(hunk, "-"))
        /\ g[1].output = state.output \o SubSeq(before, state.cursor + 1, hunk.start - 1)
                                      \o Side(hunk, "+")
    <3> HIDE DEF r
    <3>1. /\ g[1].error = "none" <=> Fits(before, state.cursor, hunk)
          /\ g[1].error = "none" =>
               /\ g[1].cursor = hunk.start - 1 + Len(Side(hunk, "-"))
               /\ g[1].output = state.output \o SubSeq(before, state.cursor + 1, hunk.start - 1)
                                             \o Side(hunk, "+")
      <4>1. hunk \in Hunk /\ state \in Applying(before) /\ state.error = "none"
        BY <1>2, <2>2
      <4>2. g[1] = ApplyHunk(before, state, hunk)
        BY <2>2
      <4>3. LET applied == ApplyHunk(before, state, hunk)
            IN  /\ applied \in Applying(before)
                /\ applied.error = "none" <=> Fits(before, state.cursor, hunk)
                /\ applied.error = "none" =>
                     /\ applied.cursor = hunk.start - 1 + Len(Side(hunk, "-"))
                     /\ applied.output = state.output
                          \o SubSeq(before, state.cursor + 1, hunk.start - 1) \o Side(hunk, "+")
        BY <4>1, HunkApplied
      <4> QED
        BY <4>2, <4>3
    <3> QED
      BY <2>2, <3>1
  <2> QED
    BY <2>1, <2>3
<1>11. g[1].cursor = Len(before)
  BY <1>2, <1>3, <1>8, <1>10
<1>12. SubSeq(before, 1, 0) = <<>> /\ SubSeq(before, Len(before) + 1, Len(before)) = <<>>
  BY <1>8, SubSeqEmpty
<1>13. g[1].output = after
  <2>1. Begun.cursor + 1 = 1 /\ hunk.start - 1 = 0
    BY <1>3, <1>7
  <2>2. g[1].output = (<<>> \o <<>>) \o after
    BY <1>2, <1>7, <1>10, <1>12, <2>1
  <2>3. <<>> \o <<>> = <<>> /\ <<>> \o after = after
    <3>1. <<>> \in Seq(Text)
      OBVIOUS
    <3> QED
      BY <3>1, ConcatEmptySeq
  <2> QED
    BY <2>2, <2>3
<1>14. r.output = after \o <<>>
  <2> HIDE DEF r
  <2>1. r.output = g[1].output \o SubSeq(before, g[1].cursor + 1, Len(before))
    BY <1>6
  <2> QED
    BY <1>11, <1>12, <1>13, <2>1
<1>15. after \o <<>> = after
  BY ConcatEmptySeq
<1> QED
  BY <1>14, <1>15 DEF r

(* A file is its lines, each with its end.                                 *)
EndedLine == [text : Text, end : LineEnd]
Lined == Seq(EndedLine)

LEMMA Lines ==
  ASSUME NEW file \in Lined
  PROVE  Split(file) \in Seq(Text)
<1>1. Len(file) \in Nat /\ DOMAIN file = 1..Len(file)
      /\ \A i \in 1..Len(file) : file[i] \in EndedLine
  BY DEF Lined
<1>2. \A i \in 1..Len(file) : file[i].text \in Text
  <2>1. \A line \in EndedLine : line.text \in Text
    BY DEF EndedLine
  <2> QED
    BY <1>1, <2>1
<1>3. Split(file) \in [1..Len(file) -> Text]
  BY <1>1, <1>2 DEF Split
<1> QED
  BY <1>1, <1>3

LEMMA DiffLeadsThere ==
  ASSUME NEW before \in Lined, NEW after \in Lined, before # after
  PROVE  ApplyUnifiedDiff(before, UnifiedDiff(before, after)).output = Join(Split(after))
<1>1. PICK old \in Seq(Text) : old = Split(before)
  BY Lines
<1>2. PICK new \in Seq(Text) : new = Split(after)
  BY Lines
<1>3. PICK hunks : hunks = UnifiedDiff(before, after)
  OBVIOUS
<1>4. hunks = <<WholeOf(old, new)>>
  BY <1>1, <1>2, <1>3 DEF UnifiedDiff, WholeOf
<1>5. ApplyHunks(old, hunks).output = new
  BY <1>4, WholeReplaces
<1>6. ApplyUnifiedDiff(before, hunks).output = Join(ApplyHunks(old, hunks).output)
  BY <1>1 DEF ApplyUnifiedDiff
<1> QED
  BY <1>2, <1>3, <1>5, <1>6

-----------------------------------------------------------------------------
(* A local backend works in one step, on an input it was given. *)
LocalInv ==
  /\ strategy \in Local => At("start") \/ Over
  /\ strategy = "unified-diff" =>
       /\ input \in Edits
       /\ Over => result = ApplyUnifiedDiff(input.original, input.hunks)
  /\ strategy = "threshold-truncation" =>
       /\ input \in Conversations
       /\ Over => result = ThresholdTruncation(input, MaxBytes, MaxBytes)

LEMMA LocalInvariant == Spec => []LocalInv
<1>1. Init => LocalInv
  <2> SUFFICES ASSUME Init PROVE LocalInv
    OBVIOUS
  <2>1. call.phase = "start"
    BY DEF Init
  <2>2. strategy = "unified-diff" => input \in Edits
    BY DEF Init, Inputs
  <2>3. strategy = "threshold-truncation" => input \in Conversations
    BY DEF Init, Inputs
  <2> QED
    BY <2>1, <2>2, <2>3 DEF LocalInv, At, Over
<1>2. LocalInv /\ [Next]_vars => LocalInv'
  <2> SUFFICES ASSUME LocalInv, [Next]_vars PROVE LocalInv'
    OBVIOUS
  <2>1. strategy' = strategy /\ input' = input
    BY DEF Next, vars, given, Proceed, Start, Send, Content, Converse, RunTool, NextTurn,
           SettleUpdate, SettleEvent, SettleEnd, Catch, TimerFires, Network, Rejected,
           Headers, BodyBreaks, Body, RunLocal, Wrap, WrapSearch, WrapEdit, WrapCompaction, Ended
  <2>2. CASE strategy \notin Local
    BY <2>1, <2>2 DEF LocalInv, Local
  <2>3. CASE strategy \in Local
    <3>1. strategy \notin Remote /\ strategy # "warpgrep" /\ strategy # "fast-apply"
          /\ strategy # "morph-compact"
      BY <2>3 DEF Local, Remote
    <3>2. call.phase \in {"start", "over"}
      BY <2>3 DEF LocalInv, At, Over
    <3>3. ~Proceed /\ ~Network /\ ~Wrap
      BY <3>1, <3>2 DEF Proceed, Start, Send, Content, Converse, RunTool, NextTurn,
           SettleUpdate, SettleEvent, SettleEnd, Catch, Network, Rejected, Headers,
           BodyBreaks, Body, Wrap, WrapSearch, WrapEdit, WrapCompaction, Wraps, At
    <3>4. CASE TimerFires
      <4>1. call' = [call EXCEPT !.timer = "fired"] /\ result' = result
        BY <3>4 DEF TimerFires
      <4> QED
        BY <2>1, <4>1 DEF LocalInv, At, Over
    <3>5. CASE RunLocal
      BY <2>1, <2>3, <3>5 DEF RunLocal, LocalInv, Over, At, Compacted, Edited, Searched
    <3>6. CASE UNCHANGED vars
      BY <3>6 DEF LocalInv, vars, Over, At
    <3> QED
      BY <3>3, <3>4, <3>5, <3>6 DEF Next, Ended
  <2> QED
    BY <2>2, <2>3
<1> QED
  BY <1>1, <1>2, PTL DEF Spec

\* For files and diffs of any length, with either line end: applyUnifiedDiff
\* does what a diff means but takes a hunk that only inserts one line early; it
\* writes every line end as LF; the diff edit.ts writes of any change leads to
\* the changed lines, and the one Fast Apply returns is refused.
THEOREM EditsAreExact == Spec => []EditIsExact
<1>1. ASSUME LocalInv PROVE EditIsExact
  <2> SUFFICES ASSUME strategy = "unified-diff", Over PROVE EditIsExact
    BY DEF EditIsExact
  <2>1. input \in Edits /\ result = ApplyUnifiedDiff(input.original, input.hunks)
    BY <1>1 DEF LocalInv
  <2>2. \A e \in Edits : e.original \in Lined /\ e.hunks \in Seq(Hunk)
    BY ProviderAssumption DEF Hunk, Line, Lined, EndedLine
  <2>3. input.original \in Lined /\ input.hunks \in Seq(Hunk)
    BY <2>1, <2>2
  <2>4. PICK lines \in Seq(Text) : lines = Split(input.original)
    BY <2>3, Lines
  <2>5. PICK hunks \in Seq(Hunk) : hunks = input.hunks
    BY <2>3
  <2>6. PICK at : at = [i \in DOMAIN hunks |->
                          LinesBefore(hunks[i]) - (IF Inserts(hunks[i]) THEN 1 ELSE 0)]
    OBVIOUS
  <2>7. Anchored(hunks, at)
    <3>1. \A i \in DOMAIN hunks : hunks[i] \in Hunk
      OBVIOUS
    <3>2. \A hunk \in Hunk : hunk.start \in Nat
      BY DEF Hunk
    <3>3. ASSUME NEW i \in DOMAIN hunks PROVE at[i] = hunks[i].start - 1
      <4>1. at[i] = LinesBefore(hunks[i]) - (IF Inserts(hunks[i]) THEN 1 ELSE 0)
        BY <2>6
      <4>2. hunks[i].start \in Nat
        BY <3>1, <3>2
      <4>3. CASE Inserts(hunks[i])
        BY <4>1, <4>2, <4>3 DEF LinesBefore
      <4>4. CASE ~Inserts(hunks[i])
        BY <4>1, <4>2, <4>4 DEF LinesBefore
      <4> QED
        BY <4>3, <4>4
    <3> QED
      BY <3>3 DEF Anchored
  <2>8. PICK applied : applied = ApplyHunks(lines, hunks)
    OBVIOUS
  <2>9. /\ applied.error = "none" <=> Applies(lines, hunks, at)
        /\ Applies(lines, hunks, at) => applied.output = Replaced(lines, hunks, at)
    BY <2>7, <2>8, DiffIsExact
  <2>10. result.error = applied.error /\ result.output = Join(applied.output)
    BY <2>1, <2>4, <2>5, <2>8 DEF ApplyUnifiedDiff
  <2>11. ASSUME NEW file \in Originals \ {input.original}
         PROVE  /\ ApplyUnifiedDiff(input.original, UnifiedDiff(input.original, file)).output
                     = Join(Split(file))
                /\ ApplyUnifiedDiff(input.original, HeaderlessDiff(input.original, file)).error
                     # "none"
    <3>1. file \in Lined /\ file # input.original
      BY <2>2, <2>11 DEF Originals
    <3>2. ApplyUnifiedDiff(input.original, UnifiedDiff(input.original, file)).output
            = Join(Split(file))
      BY <2>3, <3>1, DiffLeadsThere
    <3>3. ApplyUnifiedDiff(input.original, HeaderlessDiff(input.original, file)).error = "no hunk"
      BY DEF ApplyUnifiedDiff, ApplyHunks, HeaderlessDiff
    <3> QED
      BY <3>2, <3>3
  <2>12. /\ result.error = "none" <=> Applies(lines, hunks, at)
         /\ Applies(lines, hunks, at) => result.output = Join(Replaced(lines, hunks, at))
    BY <2>9, <2>10
  <2> QED
    BY <2>4, <2>5, <2>6, <2>11, <2>12, Zenon DEF EditIsExact
<1> QED
  BY <1>1, LocalInvariant, PTL

-----------------------------------------------------------------------------
(* What messages weigh, each with a separator. *)
Message == [role : Role, size : Nat]
Cost(m) == Header(m.role) + m.size
Load(s) == Bytes(s) + 2 * Len(s)

LEMMA HeaderIs ==
  ASSUME NEW role \in Role
  PROVE  Header(role) \in 7..12 /\ Header("assistant") = 12
<1>1. role = "system" \/ role = "assistant" \/ role \in {"user", "tool"}
  BY DEF Role
<1>2. CASE role = "system"
  BY <1>2 DEF Header
<1>3. CASE role = "assistant"
  BY <1>3 DEF Header
<1>4. CASE role \in {"user", "tool"}
  BY <1>4 DEF Header
<1> QED
  BY <1>1, <1>2, <1>3, <1>4 DEF Header

LEMMA CostIs == ASSUME NEW m \in Message PROVE Cost(m) \in Nat /\ Cost(m) > 0
<1>1. m.role \in Role /\ m.size \in Nat
  BY DEF Message
<1>2. Header(m.role) \in 7..12
  BY <1>1, HeaderIs
<1> QED
  BY <1>1, <1>2 DEF Cost

Summing(s, f, N) == [n \in 0..N |-> IF n = 0 THEN 0 ELSE f[n - 1] + (Header(s[n].role) + s[n].size)]

Sums(s, f) ==
  /\ f[0] = 0
  /\ \A n \in Nat : n + 1 <= Len(s) => f[n + 1] = f[n] + Cost(s[n + 1])
  /\ Bytes(s) = f[Len(s)]

LEMMA SummingExists ==
  ASSUME NEW s \in Seq(Message)
  PROVE  \E f \in [0..Len(s) -> Nat] : f = Summing(s, f, Len(s))
<1> DEFINE N == Len(s)
           F == [p \in (1..N) \X Nat |-> p[2] + (Header(s[p[1]].role) + s[p[1]].size)]
<1>1. N \in Nat /\ 0 \in Nat /\ \A n \in 1..N : s[n] \in Message
  OBVIOUS
<1>2. F \in [(1..N) \X Nat -> Nat]
  <2>1. ASSUME NEW p \in (1..N) \X Nat
        PROVE  p[2] + (Header(s[p[1]].role) + s[p[1]].size) \in Nat
    <3>1. p[2] \in Nat /\ s[p[1]] \in Message
      BY <1>1
    <3>2. s[p[1]].role \in Role /\ s[p[1]].size \in Nat
      BY <3>1 DEF Message
    <3>3. Header(s[p[1]].role) \in 7..12
      BY <3>2, HeaderIs
    <3> QED
      BY <3>1, <3>2, <3>3
  <2> QED
    BY <2>1
<1>3. \A p \in (1..N) \X Nat : F[p] = p[2] + (Header(s[p[1]].role) + s[p[1]].size)
  OBVIOUS
<1> HIDE DEF F, N
<1>4. PICK f : Solves(f, N, Nat, 0, F)
  BY <1>1, <1>2, Recursion
<1>5. f \in [0..N -> Nat] /\ f = Recursed(f, N, 0, F)
  BY <1>4 DEF Solves
<1>6. ASSUME NEW n \in 0..N
      PROVE  f[n] = IF n = 0 THEN 0 ELSE f[n - 1] + (Header(s[n].role) + s[n].size)
  <2>1. f[n] = IF n = 0 THEN 0 ELSE F[<<n, f[n - 1]>>]
    BY <1>5 DEF Recursed
  <2>2. CASE n # 0
    <3>1. n \in 1..N /\ n - 1 \in 0..N
      BY <1>1, <2>2
    <3>2. <<n, f[n - 1]>> \in (1..N) \X Nat
      BY <1>5, <3>1
    <3> QED
      BY <1>3, <2>1, <2>2, <3>2
  <2> QED
    BY <2>1, <2>2
<1>7. f = Summing(s, f, N)
  BY <1>5, <1>6 DEF Summing
<1> QED
  BY <1>5, <1>7 DEF N

LEMMA BytesIs == ASSUME NEW s \in Seq(Message) PROVE \E f : Sums(s, f)
<1> DEFINE N == Len(s)
           f == CHOOSE f : f = Summing(s, f, N)
<1>1. N \in Nat
  OBVIOUS
<1>2. f = Summing(s, f, N)
  BY SummingExists
<1>3. Bytes(s) = f[N]
  BY DEF Bytes, Summing
<1> HIDE DEF f, N
<1>4. f[0] = 0
  BY <1>1, <1>2 DEF Summing
<1>5. ASSUME NEW n \in Nat, n + 1 <= N
      PROVE  f[n + 1] = f[n] + Cost(s[n + 1])
  <2>1. n + 1 \in 0..N /\ n + 1 \in 1..N /\ n + 1 # 0 /\ (n + 1) - 1 = n
    BY <1>1, <1>5
  <2>2. f[n + 1] = f[n] + (Header(s[n + 1].role) + s[n + 1].size)
    BY <1>2, <2>1 DEF Summing
  <2> QED
    BY <2>2 DEF Cost
<1>6. Sums(s, f)
  BY <1>3, <1>4, <1>5 DEF Sums, N
<1> QED
  BY <1>6

LEMMA SumIsNat ==
  ASSUME NEW s \in Seq(Message), NEW f, Sums(s, f), NEW n \in Nat, n <= Len(s)
  PROVE  f[n] \in Nat
<1> DEFINE T == {m \in Nat : m <= Len(s) => f[m] \in Nat}
<1>1. 0 \in T
  BY DEF Sums
<1>2. ASSUME NEW m \in T PROVE m + 1 \in T
  <2>1. SUFFICES ASSUME m + 1 <= Len(s) PROVE f[m + 1] \in Nat
    OBVIOUS
  <2>2. m \in Nat /\ Len(s) \in Nat
    OBVIOUS
  <2>3. m <= Len(s) /\ m + 1 \in 1..Len(s)
    BY <2>1, <2>2
  <2>4. f[m + 1] = f[m] + Cost(s[m + 1]) /\ f[m] \in Nat /\ s[m + 1] \in Message
    BY <2>1, <2>2, <2>3 DEF Sums
  <2> QED
    BY <2>4, CostIs
<1>3. T = Nat
  <2> HIDE DEF T
  <2>1. T \subseteq Nat
    BY DEF T
  <2> QED
    BY <1>1, <1>2, <2>1, NumbersFrom
<1> QED
  BY <1>3

LEMMA LoadIs ==
  ASSUME NEW s \in Seq(Message)
  PROVE  /\ Bytes(s) \in Nat /\ Load(s) \in Nat /\ Serialized(s) \in Nat
         /\ s = <<>> => Load(s) = 0 /\ Serialized(s) = 0
         /\ s # <<>> => Load(s) = Serialized(s) + 2
<1>1. PICK f : Sums(s, f)
  BY BytesIs
<1>2. Len(s) \in Nat
  OBVIOUS
<1>3. Bytes(s) = f[Len(s)] /\ f[Len(s)] \in Nat
  BY <1>1, <1>2, SumIsNat DEF Sums
<1>4. CASE s = <<>>
  <2>1. Len(s) = 0 /\ f[0] = 0
    BY <1>1, <1>4 DEF Sums
  <2> QED
    BY <1>3, <1>4, <2>1 DEF Load, Serialized
<1>5. CASE s # <<>>
  <2>1. Len(s) \in Nat \ {0}
    BY <1>5
  <2>2. Serialized(s) = Bytes(s) + 2 * (Len(s) - 1)
    BY <1>5 DEF Serialized, Separator
  <2>3. 2 * (Len(s) - 1) \in Nat /\ 2 * Len(s) = 2 * (Len(s) - 1) + 2
    BY <2>1
  <2> QED
    BY <1>3, <1>5, <2>2, <2>3 DEF Load
<1> QED
  BY <1>4, <1>5

LEMMA BytesOfBoth ==
  ASSUME NEW s \in Seq(Message), NEW t \in Seq(Message)
  PROVE  Bytes(s \o t) = Bytes(s) + Bytes(t)
<1> DEFINE u == s \o t
<1>1. /\ u \in Seq(Message) /\ Len(u) = Len(s) + Len(t)
      /\ \A i \in 1..(Len(s) + Len(t)) : u[i] = IF i <= Len(s) THEN s[i] ELSE t[i - Len(s)]
  BY ConcatProperties
<1>2. Len(s) \in Nat /\ Len(t) \in Nat
  OBVIOUS
<1> HIDE DEF u
<1>3. PICK a : Sums(s, a)
  BY BytesIs
<1>4. PICK b : Sums(t, b)
  BY BytesIs
<1>5. PICK c : Sums(u, c)
  BY <1>1, BytesIs
<1> DEFINE T == {n \in Nat : n <= Len(s) => c[n] = a[n]}
<1>6. 0 \in T
  BY <1>3, <1>5 DEF Sums
<1>7. ASSUME NEW n \in T PROVE n + 1 \in T
  <2>1. SUFFICES ASSUME n + 1 <= Len(s) PROVE c[n + 1] = a[n + 1]
    OBVIOUS
  <2>2. n \in Nat /\ n + 1 <= Len(u) /\ n + 1 \in 1..(Len(s) + Len(t)) /\ n <= Len(s)
    BY <1>1, <1>2, <2>1
  <2>3. c[n + 1] = c[n] + Cost(u[n + 1]) /\ a[n + 1] = a[n] + Cost(s[n + 1])
    BY <1>3, <1>5, <2>1, <2>2 DEF Sums
  <2>4. u[n + 1] = s[n + 1] /\ c[n] = a[n]
    BY <1>1, <2>1, <2>2
  <2> QED
    BY <2>3, <2>4
<1>8. T = Nat
  <2> HIDE DEF T
  <2>1. T \subseteq Nat
    BY DEF T
  <2> QED
    BY <1>6, <1>7, <2>1, NumbersFrom
<1>9. c[Len(s)] = a[Len(s)] /\ a[Len(s)] \in Nat
  BY <1>2, <1>3, <1>8, SumIsNat
<1> DEFINE R == {n \in Nat : n <= Len(t) => c[Len(s) + n] = a[Len(s)] + b[n]}
<1>10. 0 \in R
  <2>1. b[0] = 0 /\ Len(s) + 0 = Len(s)
    BY <1>2, <1>4 DEF Sums
  <2> QED
    BY <1>9, <2>1
<1>11. ASSUME NEW n \in R PROVE n + 1 \in R
  <2>1. SUFFICES ASSUME n + 1 <= Len(t) PROVE c[Len(s) + (n + 1)] = a[Len(s)] + b[n + 1]
    OBVIOUS
  <2>2. n \in Nat /\ Len(s) + n \in Nat /\ (Len(s) + n) + 1 <= Len(u)
        /\ (Len(s) + n) + 1 \in 1..(Len(s) + Len(t)) /\ n <= Len(t)
        /\ ~((Len(s) + n) + 1 <= Len(s)) /\ ((Len(s) + n) + 1) - Len(s) = n + 1
        /\ Len(s) + (n + 1) = (Len(s) + n) + 1 /\ n + 1 \in 1..Len(t)
    BY <1>1, <1>2, <2>1
  <2>3. c[(Len(s) + n) + 1] = c[Len(s) + n] + Cost(u[(Len(s) + n) + 1])
    BY <1>5, <2>2 DEF Sums
  <2>4. b[n + 1] = b[n] + Cost(t[n + 1])
    BY <1>4, <2>1, <2>2 DEF Sums
  <2>5. u[(Len(s) + n) + 1] = t[n + 1] /\ c[Len(s) + n] = a[Len(s)] + b[n]
    BY <1>1, <2>2
  <2>6. b[n] \in Nat /\ Cost(t[n + 1]) \in Nat
    <3>1. t[n + 1] \in Message
      BY <2>2
    <3> QED
      BY <1>4, <2>2, <3>1, SumIsNat, CostIs
  <2>7. c[Len(s) + (n + 1)] = (a[Len(s)] + b[n]) + Cost(t[n + 1])
    BY <2>2, <2>3, <2>5
  <2> QED
    BY <1>9, <2>4, <2>6, <2>7
<1>12. R = Nat
  <2> HIDE DEF R
  <2>1. R \subseteq Nat
    BY DEF R
  <2> QED
    BY <1>10, <1>11, <2>1, NumbersFrom
<1>13. c[Len(s) + Len(t)] = a[Len(s)] + b[Len(t)]
  BY <1>2, <1>12
<1> QED
  BY <1>1, <1>3, <1>4, <1>5, <1>13 DEF Sums, u

LEMMA LoadOfBoth ==
  ASSUME NEW s \in Seq(Message), NEW t \in Seq(Message)
  PROVE  s \o t \in Seq(Message) /\ Load(s \o t) = Load(s) + Load(t)
<1>1. s \o t \in Seq(Message) /\ Len(s \o t) = Len(s) + Len(t)
  BY ConcatProperties
<1>2. Bytes(s \o t) = Bytes(s) + Bytes(t) /\ Bytes(s) \in Nat /\ Bytes(t) \in Nat
  BY BytesOfBoth, LoadIs
<1>3. Len(s) \in Nat /\ Len(t) \in Nat
  OBVIOUS
<1>4. 2 * (Len(s) + Len(t)) = 2 * Len(s) + 2 * Len(t) /\ 2 * Len(s) \in Nat /\ 2 * Len(t) \in Nat
  BY <1>3
<1> QED
  BY <1>1, <1>2, <1>4 DEF Load

LEMMA LoadOfOne ==
  ASSUME NEW m \in Message
  PROVE  <<m>> \in Seq(Message) /\ Load(<<m>>) = Cost(m) + 2
<1>1. <<m>> \in Seq(Message) /\ Len(<<m>>) = 1 /\ <<m>>[1] = m
  OBVIOUS
<1>2. PICK f : Sums(<<m>>, f)
  BY <1>1, BytesIs
<1>3. f[0 + 1] = f[0] + Cost(<<m>>[0 + 1]) /\ f[0] = 0 /\ Bytes(<<m>>) = f[1]
  BY <1>1, <1>2 DEF Sums
<1>4. Bytes(<<m>>) = Cost(m) /\ Cost(m) \in Nat
  BY <1>1, <1>3, CostIs
<1> QED
  BY <1>1, <1>4 DEF Load

-----------------------------------------------------------------------------
(* Picked, for the messages that are kept. *)
LEMMA PickedTypes ==
  ASSUME NEW S, NEW s \in Seq(S), NEW places
  PROVE  Picked(s, places) \in Seq(S)
<1>1. PICK f : Picks(s, places, S, f)
  BY PickedIs
<1>2. Len(s) \in 0..Len(s)
  OBVIOUS
<1> QED
  BY <1>1, <1>2 DEF Picks

LEMMA PickedNone == ASSUME NEW S, NEW s \in Seq(S) PROVE Picked(s, {}) = <<>>
<1>1. 0 <= Len(s)
  OBVIOUS
<1>2. \A n \in 1..Len(s) : n \in {} <=> 0 < n /\ n <= 0
  OBVIOUS
<1>3. Picked(s, {}) = SubSeq(s, 0 + 1, 0)
  BY <1>1, <1>2, PickedStretch
<1>4. SubSeq(s, 0 + 1, 0) = <<>>
  BY SubSeqEmpty
<1> QED
  BY <1>3, <1>4

LEMMA PickedBefore ==
  ASSUME NEW S, NEW s \in Seq(S), NEW places, NEW i \in 1..Len(s), \A j \in places : j > i
  PROVE  Picked(s, {i} \cup places) = <<s[i]>> \o Picked(s, places)
<1>1. PICK f : Picks(s, {i} \cup places, S, f)
  BY PickedIs
<1>2. PICK h : Picks(s, places, S, h)
  BY PickedIs
<1>3. Len(s) \in Nat /\ i \in Nat /\ s[i] \in S /\ i \notin places
  OBVIOUS
<1> DEFINE one == <<s[i]>>
<1>4. one \in Seq(S) /\ Append(<<>>, s[i]) = one /\ <<>> \in Seq(S)
  BY <1>3
<1> DEFINE Good(n) == n <= Len(s) =>
                        /\ n < i => f[n] = <<>> /\ h[n] = <<>>
                        /\ i <= n => f[n] = one \o h[n]
           T == {n \in Nat : Good(n)}
<1> HIDE DEF one
<1>5. 0 \in T
  <2>1. f[0] = <<>> /\ h[0] = <<>>
    BY <1>1, <1>2 DEF Picks
  <2>2. ~(i <= 0)
    BY <1>3
  <2> QED
    BY <2>1, <2>2
<1>6. ASSUME NEW n \in T PROVE n + 1 \in T
  <2>1. n \in Nat /\ n + 1 \in Nat /\ Good(n)
    OBVIOUS
  <2>2. SUFFICES ASSUME n + 1 <= Len(s)
                 PROVE  /\ n + 1 < i => f[n + 1] = <<>> /\ h[n + 1] = <<>>
                        /\ i <= n + 1 => f[n + 1] = one \o h[n + 1]
    BY <2>1
  <2>3. n + 1 \in 1..Len(s) /\ (n + 1) - 1 = n /\ n <= Len(s) /\ n \in 0..Len(s)
    BY <1>3, <2>1, <2>2
  <2>4. /\ f[n + 1] = IF n + 1 \in {i} \cup places THEN Append(f[n], s[n + 1]) ELSE f[n]
        /\ h[n + 1] = IF n + 1 \in places THEN Append(h[n], s[n + 1]) ELSE h[n]
        /\ h[n] \in Seq(S) /\ s[n + 1] \in S
    <3>1. f[n + 1] = IF n + 1 \in {i} \cup places THEN Append(f[n], s[n + 1]) ELSE f[n]
      BY <1>1, <2>3 DEF Picks
    <3>2. h[n + 1] = IF n + 1 \in places THEN Append(h[n], s[n + 1]) ELSE h[n]
      BY <1>2, <2>3 DEF Picks
    <3>3. h[n] \in Seq(S)
      BY <1>2, <2>3 DEF Picks
    <3>4. s[n + 1] \in S
      BY <2>3
    <3> QED
      BY <3>1, <3>2, <3>3, <3>4
  <2>5. CASE n + 1 < i
    <3>1. n < i /\ n + 1 # i /\ n + 1 \notin places
      BY <1>3, <2>1, <2>5
    <3>2. f[n] = <<>> /\ h[n] = <<>>
      BY <2>1, <2>3, <3>1
    <3>3. ~(i <= n + 1)
      BY <1>3, <2>1, <2>5
    <3> QED
      BY <2>4, <3>1, <3>2, <3>3
  <2>6. CASE n + 1 = i
    <3>1. n < i /\ n + 1 \notin places /\ ~(n + 1 < i)
      BY <1>3, <2>1, <2>6
    <3>2. f[n] = <<>> /\ h[n] = <<>>
      BY <2>1, <2>3, <3>1
    <3>3. f[n + 1] = one /\ h[n + 1] = <<>>
      BY <1>4, <2>4, <2>6, <3>1, <3>2
    <3>4. one \o <<>> = one
      BY <1>4, ConcatEmptySeq
    <3> QED
      BY <3>1, <3>3, <3>4
  <2>7. CASE i < n + 1
    <3>1. i <= n /\ ~(n + 1 < i) /\ n + 1 # i
      BY <1>3, <2>1, <2>7
    <3>2. f[n] = one \o h[n]
      BY <2>1, <2>3, <3>1
    <3>3. CASE n + 1 \in places
      <4>1. f[n + 1] = Append(f[n], s[n + 1]) /\ h[n + 1] = Append(h[n], s[n + 1])
        BY <2>4, <3>3
      <4>2. AppendedTo(f[n], one, h[n], s[n + 1])
        <5> HIDE DEF Good, T
        <5> QED
          BY <1>4, <2>4, <3>2, AppendAfter
      <4>3. f[n + 1] = one \o h[n + 1]
        BY <4>1, <4>2 DEF AppendedTo
      <4> QED
        BY <3>1, <4>3
    <3>4. CASE n + 1 \notin places
      BY <2>4, <3>1, <3>2, <3>4
    <3> QED
      BY <3>3, <3>4
  <2>8. n + 1 < i \/ n + 1 = i \/ i < n + 1
    BY <1>3, <2>1
  <2> QED
    BY <2>5, <2>6, <2>7, <2>8
<1>7. T = Nat
  <2> HIDE DEF T
  <2>1. T \subseteq Nat
    BY DEF T
  <2> QED
    BY <1>5, <1>6, <2>1, NumbersFrom
<1>8. Good(Len(s)) /\ i <= Len(s)
  BY <1>3, <1>7
<1>9. f[Len(s)] = one \o h[Len(s)]
  BY <1>3, <1>8
<1>10. Picked(s, {i} \cup places) = f[Len(s)]
  BY <1>1 DEF Picks
<1>11. Picked(s, places) = h[Len(s)]
  BY <1>2 DEF Picks
<1> QED
  BY <1>9, <1>10, <1>11 DEF one

(* All messages but one weigh as much less as this one weighs. *)
LEMMA LoadWithout ==
  ASSUME NEW s \in Seq(Message), NEW first \in 0..Len(s)
  PROVE  Load(s) = Load(Picked(s, DOMAIN s \ {first}))
                   + (IF first = 0 THEN 0 ELSE Load(<<s[first]>>))
<1> DEFINE places == DOMAIN s \ {first}
<1>1. PICK f : Sums(s, f)
  BY BytesIs
<1>2. PICK h : Picks(s, places, Message, h)
  BY PickedIs
<1>3. Len(s) \in Nat /\ first \in Nat
  OBVIOUS
<1>4. \A n \in 1..Len(s) : n \in places <=> n # first
  OBVIOUS
<1> HIDE DEF places
<1>20. PICK Taken :
         /\ \A n \in Nat : Taken[n] \in Nat
         /\ \A n \in Nat : first # 0 /\ first <= n => Taken[n] = Load(<<s[first]>>)
         /\ \A n \in Nat : first = 0 \/ n < first => Taken[n] = 0
  <2> DEFINE W == IF first = 0 THEN 0 ELSE Load(<<s[first]>>)
             G == [n \in Nat |-> IF first # 0 /\ first <= n THEN W ELSE 0]
  <2>1. W \in Nat
    <3>1. CASE first # 0
      <4>1. s[first] \in Message
        BY <1>3, <3>1
      <4>2. Load(<<s[first]>>) \in Nat
        BY <4>1, LoadOfOne, LoadIs
      <4> QED
        BY <3>1, <4>2
    <3>2. CASE first = 0
      BY <3>2
    <3> QED
      BY <3>1, <3>2
  <2>2. first # 0 => W = Load(<<s[first]>>)
    OBVIOUS
  <2> HIDE DEF W
  <2>3. \A n \in Nat : G[n] \in Nat
    BY <2>1
  <2>4. \A n \in Nat : first # 0 /\ first <= n => G[n] = Load(<<s[first]>>)
    BY <2>2
  <2>5. \A n \in Nat : first = 0 \/ n < first => G[n] = 0
    BY <1>3
  <2> QED
    BY <2>3, <2>4, <2>5
<1> DEFINE Good(n) == n <= Len(s) => /\ h[n] \in Seq(Message) /\ Load(h[n]) \in Nat
                                     /\ f[n] + 2 * n = Load(h[n]) + Taken[n]
           T == {n \in Nat : Good(n)}
<1>5. 0 \in T
  <2>1. h[0] = <<>> /\ f[0] = 0
    BY <1>1, <1>2 DEF Picks, Sums
  <2>2. <<>> \in Seq(Message)
    OBVIOUS
  <2>3. Load(h[0]) = 0 /\ h[0] \in Seq(Message)
    BY <2>1, <2>2, LoadIs
  <2>4. Taken[0] = 0
    BY <1>3, <1>20
  <2>5. 2 * 0 = 0
    OBVIOUS
  <2> QED
    <3>1. f[0] + 2 * 0 = Load(h[0]) + Taken[0]
      BY <2>1, <2>3, <2>4, <2>5
    <3>2. Load(h[0]) \in Nat
      BY <2>3
    <3> QED
      BY <2>3, <3>1, <3>2
<1>6. ASSUME NEW n \in T PROVE n + 1 \in T
  <2>1. n \in Nat /\ n + 1 \in Nat /\ Good(n)
    OBVIOUS
  <2>2. SUFFICES ASSUME n + 1 <= Len(s) PROVE Good(n + 1)
    BY <2>1
  <2>3. n + 1 \in 1..Len(s) /\ (n + 1) - 1 = n /\ n <= Len(s) /\ n + 1 # 0 /\ s[n + 1] \in Message
    BY <1>3, <2>1, <2>2
  <2>4. h[n] \in Seq(Message) /\ Load(h[n]) \in Nat /\ f[n] + 2 * n = Load(h[n]) + Taken[n]
    BY <2>1, <2>3
  <2>5. f[n + 1] = f[n] + Cost(s[n + 1]) /\ f[n] \in Nat
    BY <1>1, <2>1, <2>2, <2>3, SumIsNat DEF Sums
  <2>6. Cost(s[n + 1]) \in Nat /\ <<s[n + 1]>> \in Seq(Message)
        /\ Load(<<s[n + 1]>>) = Cost(s[n + 1]) + 2
    BY <2>3, CostIs, LoadOfOne
  <2>7. f[n + 1] + 2 * (n + 1) = (f[n] + 2 * n) + Load(<<s[n + 1]>>)
    <3>1. PICK m \in Nat : m = 2 * n
      BY <2>1
    <3>2. 2 * (n + 1) = m + 2
      BY <2>1, <3>1
    <3>3. Cost(s[n + 1]) \in Nat /\ Load(<<s[n + 1]>>) = Cost(s[n + 1]) + 2
      BY <2>6
    <3>4. PICK x \in Nat, y \in Nat : x = f[n] /\ y = Cost(s[n + 1])
      BY <2>5, <2>6
    <3>5. f[n + 1] = x + y /\ Load(<<s[n + 1]>>) = y + 2
      BY <2>5, <3>3, <3>4
    <3>6. (x + y) + (m + 2) = (x + m) + (y + 2)
      BY <3>1
    <3> QED
      BY <3>1, <3>2, <3>4, <3>5, <3>6
  <2>8. h[n + 1] = IF n + 1 \in places THEN Append(h[n], s[n + 1]) ELSE h[n]
    BY <1>2, <2>3 DEF Picks
  <2>9. CASE n + 1 = first
    <3>1. h[n + 1] = h[n]
      BY <1>4, <2>3, <2>8, <2>9
    <3>2. Taken[n] = 0 /\ Taken[n + 1] = Load(<<s[n + 1]>>)
      <4>1. n < first /\ first # 0 /\ first <= n + 1
        BY <2>1, <2>3, <2>9
      <4> QED
        BY <1>20, <2>1, <4>1, <2>9
    <3>3. f[n + 1] + 2 * (n + 1) = Load(h[n + 1]) + Taken[n + 1]
      BY <2>4, <2>7, <3>1, <3>2
    <3> QED
      BY <2>4, <3>1, <3>3
  <2>10. CASE n + 1 # first
    <3>1. h[n + 1] = h[n] \o <<s[n + 1]>>
      <4>1. h[n + 1] = Append(h[n], s[n + 1])
        BY <1>4, <2>3, <2>8, <2>10
      <4>2. Append(h[n], s[n + 1]) = h[n] \o <<s[n + 1]>>
        BY <2>3, <2>4, AppendIsConcat
      <4> QED
        BY <4>1, <4>2
    <3>2. h[n + 1] \in Seq(Message) /\ Load(h[n + 1]) = Load(h[n]) + Load(<<s[n + 1]>>)
      BY <2>4, <2>6, <3>1, LoadOfBoth
    <3>3. first <= n + 1 <=> first <= n
      BY <1>3, <2>1, <2>10
    <3>4. Taken[n + 1] = Taken[n]
      <4>1. CASE first = 0
        BY <1>20, <2>1, <4>1
      <4>2. CASE first # 0 /\ first <= n
        BY <1>20, <2>1, <3>3, <4>2
      <4>3. CASE first # 0 /\ n < first
        <5>1. n + 1 < first
          BY <1>3, <2>1, <2>10, <4>3
        <5> QED
          BY <1>20, <2>1, <4>3, <5>1
      <4> QED
        BY <1>3, <2>1, <4>1, <4>2, <4>3
    <3>5. Taken[n] \in Nat
      BY <1>20, <2>1
    <3>6. Load(h[n + 1]) \in Nat
      BY <3>2, LoadIs
    <3>7. Load(<<s[n + 1]>>) \in Nat
      BY <2>6
    <3>8. f[n + 1] + 2 * (n + 1) = Load(h[n + 1]) + Taken[n + 1]
      BY <2>4, <2>7, <3>2, <3>4, <3>5, <3>7
    <3> QED
      BY <3>2, <3>6, <3>8
  <2> QED
    BY <2>9, <2>10
<1>7. T = Nat
  <2> HIDE DEF T
  <2>1. T \subseteq Nat
    BY DEF T
  <2> QED
    BY <1>5, <1>6, <2>1, NumbersFrom
<1>8. Good(Len(s)) /\ Len(s) <= Len(s) /\ first <= Len(s)
  BY <1>3, <1>7
<1>9. f[Len(s)] + 2 * Len(s) = Load(h[Len(s)]) + (IF first = 0 THEN 0 ELSE Load(<<s[first]>>))
  <2>1. f[Len(s)] + 2 * Len(s) = Load(h[Len(s)]) + Taken[Len(s)]
    BY <1>8
  <2>2. first = 0 => Taken[Len(s)] = 0
    BY <1>3, <1>20
  <2>3. first # 0 => Taken[Len(s)] = Load(<<s[first]>>)
    BY <1>3, <1>8, <1>20
  <2> QED
    BY <2>1, <2>2, <2>3
<1>10. Picked(s, places) = h[Len(s)] /\ Bytes(s) = f[Len(s)]
  BY <1>1, <1>2 DEF Picks, Sums
<1> QED
  BY <1>9, <1>10 DEF Load, places
-----------------------------------------------------------------------------
(* The walk from the newest message to the oldest. *)
LEMMA FirstSystemIs ==
  ASSUME NEW s \in Seq(Message)
  PROVE  /\ FirstSystem(s) \in 0..Len(s)
         /\ SystemOf(s) \in Seq(Message)
         /\ FirstSystem(s) = 0 => SystemOf(s) = <<>>
         /\ FirstSystem(s) # 0 => /\ s[FirstSystem(s)] \in Message
                                  /\ SystemOf(s) = <<s[FirstSystem(s)]>>
<1> DEFINE first == FirstSystem(s)
           I == {i \in 1..Len(s) : s[i].role = "system"}
<1>1. first = IF I # {} THEN Min(I) ELSE 0
  BY DEF FirstSystem, SelectInSeq
<1>2. I # {} => Min(I) \in I
  <2>1. I \subseteq Nat
    OBVIOUS
  <2> HIDE DEF I
  <2> QED
    BY <2>1, FirstPlace
<1>3. first = 0 \/ first \in 1..Len(s)
  <2>1. I \subseteq 1..Len(s)
    OBVIOUS
  <2> HIDE DEF I, first
  <2>2. CASE I = {}
    BY <1>1, <2>2
  <2>3. CASE I # {}
    BY <1>1, <1>2, <2>1, <2>3
  <2> QED
    BY <2>2, <2>3
<1> HIDE DEF first, I
<1>4. first \in 0..Len(s) /\ (first # 0 => s[first] \in Message)
  BY <1>3
<1>5. SystemOf(s) = IF first = 0 THEN <<>> ELSE <<s[first]>>
  BY DEF SystemOf, first
<1>6. SystemOf(s) \in Seq(Message)
  BY <1>4, <1>5, LoadOfOne
<1> QED
  BY <1>4, <1>5, <1>6 DEF first

LEMMA CutIs ==
  ASSUME NEW m \in Message, NEW b \in Nat, b >= 64
  PROVE  TruncateMessage(m, b) \in Message /\ Cost(TruncateMessage(m, b)) <= b
<1>1. m.role \in Role /\ m.size \in Nat
  BY DEF Message
<1>2. PICK h \in 7..12 : h = Header(m.role)
  BY <1>1, HeaderIs
<1> DEFINE size == AtMost(m.size, AtLeast(0, b - h - 3)) + 3
<1>3. size \in Nat /\ h + size <= b
  BY <1>1, <1>2 DEF AtMost, AtLeast
<1>4. TruncateMessage(m, b) = [m EXCEPT !.size = size]
  BY <1>2 DEF TruncateMessage, Ellipsis
<1> HIDE DEF size
<1>5. TruncateMessage(m, b) \in Message
  BY <1>3, <1>4 DEF Message
<1>6. TruncateMessage(m, b).role = m.role /\ TruncateMessage(m, b).size = size
  BY <1>4 DEF Message
<1> QED
  BY <1>2, <1>3, <1>5, <1>6 DEF Cost

Walked(s) == [kept : Seq(Message), from : SUBSET (1..Len(s)), size : Nat, done : BOOLEAN]

LEMMA ConsiderTypes ==
  ASSUME NEW s \in Seq(Message), NEW max \in Nat, NEW w \in Walked(s), NEW i \in 1..Len(s)
  PROVE  Consider(s, max, w, i) \in Walked(s)
<1>1. w.kept \in Seq(Message) /\ w.from \in SUBSET (1..Len(s)) /\ w.size \in Nat
      /\ s[i] \in Message
  BY DEF Walked
<1>2. PICK next \in Seq(Message) : next = <<s[i]>> \o w.kept
  BY <1>1, LoadOfOne, LoadOfBoth
<1>3. PICK size \in Nat : size = Serialized(SystemOf(s) \o next)
  BY FirstSystemIs, LoadOfBoth, LoadIs
<1>4. PICK b \in Nat : b = AtLeast(LeastCut, max - w.size) /\ b >= 64
  BY <1>1 DEF AtLeast, LeastCut
<1>5. PICK cut \in Seq(Message) : cut = <<TruncateMessage(s[i], b)>>
  BY <1>1, <1>4, CutIs, LoadOfOne
<1>6. {i} \cup w.from \in SUBSET (1..Len(s)) /\ {i} \in SUBSET (1..Len(s))
  BY <1>1
<1>7. \/ Consider(s, max, w, i) = w
      \/ Consider(s, max, w, i) = [w EXCEPT !.kept = next, !.from = {i} \cup @, !.size = size]
      \/ Consider(s, max, w, i) = [w EXCEPT !.kept = cut, !.from = {i}, !.done = TRUE]
  BY <1>2, <1>3, <1>4, <1>5 DEF Consider
<1> QED
  BY <1>6, <1>7 DEF Walked

Walks(s, max, g) ==
  /\ g[0] = [kept |-> <<>>, from |-> {}, size |-> Serialized(SystemOf(s)), done |-> FALSE]
  /\ \A n \in Nat : n + 1 <= Len(s) =>
       g[n + 1] = IF Len(s) - n = FirstSystem(s) THEN g[n]
                  ELSE Consider(s, max, g[n], Len(s) - n)
  /\ Walk(s, max) = g[Len(s)]

Walking(s, max, g) ==
  [n \in 0..Len(s) |->
     LET i == Len(s) + 1 - n
     IN  IF n = 0
         THEN [kept |-> <<>>, from |-> {}, size |-> Serialized(SystemOf(s)), done |-> FALSE]
         ELSE IF i = FirstSystem(s) THEN g[n - 1]
         ELSE Consider(s, max, g[n - 1], i)]

LEMMA WalkingExists ==
  ASSUME NEW s \in Seq(Message), NEW max \in Nat
  PROVE  \E g : g = Walking(s, max, g)
<1> DEFINE N == Len(s)
           V == Walked(s)
           none == [kept |-> <<>>, from |-> {}, size |-> Serialized(SystemOf(s)), done |-> FALSE]
           F == [p \in (1..N) \X V |-> IF N + 1 - p[1] = FirstSystem(s) THEN p[2]
                                       ELSE Consider(s, max, p[2], N + 1 - p[1])]
<1>1. N \in Nat /\ none \in V
  <2>1. Serialized(SystemOf(s)) \in Nat
    BY FirstSystemIs, LoadIs
  <2>2. <<>> \in Seq(Message)
    OBVIOUS
  <2> QED
    BY <2>1, <2>2 DEF Walked
<1>2. F \in [(1..N) \X V -> V]
  <2>1. ASSUME NEW p \in (1..N) \X V
        PROVE  (IF N + 1 - p[1] = FirstSystem(s) THEN p[2]
                ELSE Consider(s, max, p[2], N + 1 - p[1])) \in V
    <3>1. p[2] \in Walked(s) /\ p[1] \in 1..N
      OBVIOUS
    <3>2. N + 1 - p[1] \in 1..Len(s)
      BY <1>1, <3>1
    <3>3. Consider(s, max, p[2], N + 1 - p[1]) \in Walked(s)
      BY <3>1, <3>2, ConsiderTypes
    <3> QED
      BY <3>1, <3>3
  <2> QED
    BY <2>1
<1>3. \A p \in (1..N) \X V : F[p] = IF N + 1 - p[1] = FirstSystem(s) THEN p[2]
                                    ELSE Consider(s, max, p[2], N + 1 - p[1])
  OBVIOUS
<1> HIDE DEF F, V, N, none
<1>4. PICK g : Solves(g, N, V, none, F)
  BY <1>1, <1>2, Recursion
<1>5. g \in [0..N -> V] /\ g = Recursed(g, N, none, F)
  BY <1>4 DEF Solves
<1>6. ASSUME NEW n \in 0..N
      PROVE  g[n] = IF n = 0 THEN none
                    ELSE IF N + 1 - n = FirstSystem(s) THEN g[n - 1]
                    ELSE Consider(s, max, g[n - 1], N + 1 - n)
  <2>1. g[n] = IF n = 0 THEN none ELSE F[<<n, g[n - 1]>>]
    BY <1>5 DEF Recursed
  <2>2. CASE n # 0
    <3>1. n \in 1..N /\ n - 1 \in 0..N
      BY <1>1, <2>2
    <3>2. <<n, g[n - 1]>> \in (1..N) \X V
      BY <1>5, <3>1
    <3>3. F[<<n, g[n - 1]>>] = IF N + 1 - n = FirstSystem(s) THEN g[n - 1]
                               ELSE Consider(s, max, g[n - 1], N + 1 - n)
      BY <1>3, <3>2
    <3> QED
      BY <2>1, <2>2, <3>3
  <2> QED
    BY <2>1, <2>2
<1>7. g = Walking(s, max, g)
  BY <1>5, <1>6 DEF Walking, none, N
<1> QED
  BY <1>7

LEMMA WalkIs == ASSUME NEW s \in Seq(Message), NEW max \in Nat PROVE \E g : Walks(s, max, g)
<1> DEFINE g == CHOOSE g : g = Walking(s, max, g)
<1>1. Len(s) \in Nat
  OBVIOUS
<1>2. g = Walking(s, max, g)
  BY WalkingExists
<1>3. Walk(s, max) = g[Len(s)]
  BY DEF Walk, Walking
<1> HIDE DEF g
<1>4. g[0] = [kept |-> <<>>, from |-> {}, size |-> Serialized(SystemOf(s)), done |-> FALSE]
  BY <1>1, <1>2 DEF Walking
<1>5. ASSUME NEW n \in Nat, n + 1 <= Len(s)
      PROVE  g[n + 1] = IF Len(s) - n = FirstSystem(s) THEN g[n]
                        ELSE Consider(s, max, g[n], Len(s) - n)
  <2>1. n + 1 \in 0..Len(s) /\ n + 1 # 0 /\ (n + 1) - 1 = n /\ Len(s) + 1 - (n + 1) = Len(s) - n
    BY <1>1, <1>5
  <2>2. g[n + 1] = IF Len(s) + 1 - (n + 1) = FirstSystem(s) THEN g[(n + 1) - 1]
                   ELSE Consider(s, max, g[(n + 1) - 1], Len(s) + 1 - (n + 1))
    BY <1>2, <2>1 DEF Walking
  <2> QED
    BY <2>1, <2>2
<1> QED
  BY <1>3, <1>4, <1>5 DEF Walks
(* The messages but the first system message, those of them among the n    *)
(* newest, and how many these are.                                         *)
Others(s) == DOMAIN s \ {FirstSystem(s)}
Seen(s, n) == {j \in Others(s) : j > Len(s) - n}
Places(s, n) == IF FirstSystem(s) # 0 /\ FirstSystem(s) > Len(s) - n THEN n - 1 ELSE n

Overflows(s, max, from, i) ==
  Serialized(SystemOf(s) \o Picked(s, {i} \cup {j \in from : j > i})) > max

(* The walk after the n newest messages, while none was cut. *)
Whole(s, max, n, w) ==
  /\ w.kept = Picked(s, w.from)
  /\ w.kept = <<>> => w.from = {} /\ Seen(s, n) = {} /\ w.size = Serialized(SystemOf(s))
  /\ w.kept # <<>> => Serialized(SystemOf(s) \o w.kept) <= max
  /\ \A i \in Seen(s, n) \ w.from : Overflows(s, max, w.from, i)
  /\ \A i \in Seen(s, n) : (\A j \in Others(s) : j <= i) => i \in w.from
  /\ Len(w.kept) <= Places(s, n)
  /\ Len(w.kept) = Places(s, n) => w.from = Seen(s, n)

(* The walk once the newest message was cut. *)
Cut(s, max, w) ==
  /\ Len(w.kept) = 1
  /\ Load(w.kept) <= AtLeast(64, max - Serialized(SystemOf(s))) + 2
  /\ \E i \in Others(s) : /\ w.from = {i}
                          /\ \A j \in Others(s) : j <= i
                          /\ Serialized(SystemOf(s) \o <<s[i]>>) > max

WalkSound(s, max, n, w) ==
  /\ w \in Walked(s)
  /\ w.from \subseteq Seen(s, n)
  /\ w.done => Cut(s, max, w)
  /\ ~w.done => Whole(s, max, n, w)

LEMMA SeenNext ==
  ASSUME NEW s \in Seq(Message), NEW n \in Nat, n + 1 <= Len(s)
  PROVE  LET i == Len(s) - n
         IN  /\ i \in 1..Len(s)
             /\ \A j \in Seen(s, n) : j > i /\ j \in 1..Len(s)
             /\ Seen(s, n) \subseteq Seen(s, n + 1)
             /\ i = FirstSystem(s) => Seen(s, n + 1) = Seen(s, n) /\ Places(s, n + 1) = Places(s, n)
             /\ i # FirstSystem(s) => /\ i \in Others(s)
                                      /\ Seen(s, n + 1) = Seen(s, n) \cup {i}
                                      /\ Places(s, n + 1) = Places(s, n) + 1
             /\ Places(s, n) \in Int
<1> DEFINE i == Len(s) - n
<1>1. Len(s) \in Nat /\ FirstSystem(s) \in 0..Len(s)
  BY FirstSystemIs
<1>2. i \in 1..Len(s) /\ Len(s) - (n + 1) = i - 1 /\ Len(s) - n = i
  BY <1>1
<1> HIDE DEF i
<1>3. Others(s) = (1..Len(s)) \ {FirstSystem(s)}
  BY DEF Others
<1>4. \A j \in 1..Len(s) : j > i - 1 <=> j > i \/ j = i
  BY <1>2
<1>5. \A j \in Seen(s, n) : j > i /\ j \in 1..Len(s)
  BY <1>2, <1>3 DEF Seen
<1>6. Seen(s, n) = {j \in Others(s) : j > i} /\ Seen(s, n + 1) = {j \in Others(s) : j > i - 1}
  BY <1>2 DEF Seen
<1>7. Seen(s, n) \subseteq Seen(s, n + 1)
  BY <1>3, <1>4, <1>6
<1>8. i = FirstSystem(s) => Seen(s, n + 1) = Seen(s, n)
  BY <1>3, <1>4, <1>6
<1>9. i # FirstSystem(s) => i \in Others(s)
  BY <1>2, <1>3
<1>10. i # FirstSystem(s) => Seen(s, n + 1) = Seen(s, n) \cup {i}
  BY <1>3, <1>4, <1>6, <1>9
<1>11. Places(s, n) = IF FirstSystem(s) # 0 /\ FirstSystem(s) > i THEN n - 1 ELSE n
  BY <1>2 DEF Places
<1>12. Places(s, n + 1) = IF FirstSystem(s) # 0 /\ FirstSystem(s) > i - 1 THEN (n + 1) - 1 ELSE n + 1
  BY <1>2 DEF Places
<1>13. i = FirstSystem(s) => Places(s, n + 1) = Places(s, n)
  BY <1>1, <1>2, <1>11, <1>12
<1>14. i # FirstSystem(s) => Places(s, n + 1) = Places(s, n) + 1
  BY <1>1, <1>2, <1>11, <1>12
<1>15. Places(s, n) \in Int
  BY <1>11
<1> QED
  BY <1>2, <1>5, <1>7, <1>8, <1>9, <1>10, <1>13, <1>14, <1>15 DEF i

(* A message that fits is kept before those that were kept. *)
LEMMA Fitting ==
  ASSUME NEW s \in Seq(Message), NEW max \in Nat, NEW n \in Nat, n + 1 <= Len(s),
         NEW w, WalkSound(s, max, n, w), ~w.done,
         NEW i, i = Len(s) - n, i # FirstSystem(s),
         NEW next, next = <<s[i]>> \o w.kept, Serialized(SystemOf(s) \o next) <= max,
         NEW v, v \in Walked(s), ~v.done, v.kept = next, v.from = {i} \cup w.from
  PROVE  WalkSound(s, max, n + 1, v)
<1>1. /\ w \in Walked(s) /\ w.from \subseteq Seen(s, n) /\ Whole(s, max, n, w)
  BY DEF WalkSound
<1>2. /\ i \in 1..Len(s) /\ \A j \in Seen(s, n) : j > i /\ j \in 1..Len(s)
      /\ i \in Others(s) /\ Seen(s, n + 1) = Seen(s, n) \cup {i}
      /\ Places(s, n + 1) = Places(s, n) + 1 /\ Places(s, n) \in Int
  BY SeenNext
<1>3. s[i] \in Message /\ <<s[i]>> \in Seq(Message) /\ Len(<<s[i]>>) = 1
      /\ w.kept \in Seq(Message)
  <2>1. s[i] \in Message
    BY <1>2
  <2>2. w.kept \in Seq(Message)
    BY <1>1 DEF Walked
  <2> QED
    BY <2>1, <2>2
<1>4. next = Picked(s, {i} \cup w.from)
  <2>1. \A j \in w.from : j > i
    BY <1>1, <1>2
  <2>2. Picked(s, {i} \cup w.from) = <<s[i]>> \o Picked(s, w.from)
    BY <1>2, <2>1, PickedBefore
  <2> QED
    BY <1>1, <2>2 DEF Whole
<1>5. Len(next) = 1 + Len(w.kept) /\ Len(w.kept) \in Nat /\ next \in Seq(Message)
  BY <1>3, ConcatProperties
<1>6. next # <<>>
  BY <1>5
<1>7. ASSUME NEW k \in Seen(s, n + 1) \ v.from PROVE Overflows(s, max, v.from, k)
  <2>1. k \in Seen(s, n) \ w.from /\ k > i /\ k \in 1..Len(s)
    BY <1>2
  <2>2. Overflows(s, max, w.from, k)
    BY <1>1, <2>1 DEF Whole
  <2>3. ~(i > k)
    BY <1>2, <2>1
  <2>4. {j \in v.from : j > k} = {j \in w.from : j > k}
    BY <2>3
  <2> QED
    BY <2>2, <2>4 DEF Overflows
<1>8. ASSUME NEW k \in Seen(s, n + 1), \A j \in Others(s) : j <= k PROVE k \in v.from
  BY <1>1, <1>2, <1>8 DEF Whole
<1>9. Len(next) <= Places(s, n + 1)
  <2>1. Len(w.kept) <= Places(s, n)
    BY <1>1 DEF Whole
  <2> QED
    BY <1>2, <1>5, <2>1
<1>10. Len(next) = Places(s, n + 1) => v.from = Seen(s, n + 1)
  <2>1. Len(w.kept) = Places(s, n) => w.from = Seen(s, n)
    BY <1>1 DEF Whole
  <2>2. Len(next) = Places(s, n + 1) => Len(w.kept) = Places(s, n)
    BY <1>2, <1>5
  <2> QED
    BY <1>2, <2>1, <2>2
<1>11. v.from \subseteq Seen(s, n + 1)
  BY <1>1, <1>2
<1>12. Whole(s, max, n + 1, v)
  BY <1>4, <1>6, <1>7, <1>8, <1>9, <1>10 DEF Whole
<1> QED
  BY <1>11, <1>12 DEF WalkSound

(* One that does not is left out. *)
LEMMA Skipping ==
  ASSUME NEW s \in Seq(Message), NEW max \in Nat, NEW n \in Nat, n + 1 <= Len(s),
         NEW w, WalkSound(s, max, n, w), ~w.done, w.kept # <<>>,
         NEW i, i = Len(s) - n, i # FirstSystem(s),
         Serialized(SystemOf(s) \o (<<s[i]>> \o w.kept)) > max
  PROVE  WalkSound(s, max, n + 1, w)
<1>1. /\ w \in Walked(s) /\ w.from \subseteq Seen(s, n) /\ Whole(s, max, n, w)
  BY DEF WalkSound
<1>2. /\ i \in 1..Len(s) /\ \A j \in Seen(s, n) : j > i /\ j \in 1..Len(s)
      /\ i \in Others(s) /\ Seen(s, n + 1) = Seen(s, n) \cup {i}
      /\ Places(s, n + 1) = Places(s, n) + 1 /\ Places(s, n) \in Int
  BY SeenNext
<1>3. w.kept = Picked(s, w.from) /\ w.kept \in Seq(Message)
  BY <1>1 DEF Whole, Walked
<1>4. \A j \in w.from : j > i
  BY <1>1, <1>2
<1>5. Overflows(s, max, w.from, i)
  <2>1. Picked(s, {i} \cup w.from) = <<s[i]>> \o w.kept
    <3>1. Picked(s, {i} \cup w.from) = <<s[i]>> \o Picked(s, w.from)
      BY <1>2, <1>4, PickedBefore
    <3> QED
      BY <1>3, <3>1
  <2>2. {j \in w.from : j > i} = w.from
    BY <1>4
  <2> QED
    BY <2>1, <2>2 DEF Overflows
<1>6. \E j \in Others(s) : ~(j <= i)
  <2>1. w.from # {}
    BY <1>3, PickedNone
  <2>2. PICK j \in w.from : TRUE
    BY <2>1
  <2>3. j \in Others(s)
    BY <1>1, <2>2 DEF Seen
  <2>4. j > i /\ j \in Nat /\ i \in Nat
    BY <1>1, <1>2, <2>2
  <2> QED
    BY <2>3, <2>4
<1>7. \A k \in Seen(s, n + 1) \ w.from : Overflows(s, max, w.from, k)
  BY <1>1, <1>2, <1>5 DEF Whole
<1>8. \A k \in Seen(s, n + 1) : (\A j \in Others(s) : j <= k) => k \in w.from
  BY <1>1, <1>2, <1>6 DEF Whole
<1>9. Len(w.kept) <= Places(s, n + 1) /\ Len(w.kept) # Places(s, n + 1)
  <2>1. Len(w.kept) <= Places(s, n)
    BY <1>1 DEF Whole
  <2>2. Len(w.kept) \in Nat
    BY <1>3
  <2> QED
    BY <1>2, <2>1, <2>2
<1>10. Serialized(SystemOf(s) \o w.kept) <= max
  BY <1>1 DEF Whole
<1>11. Whole(s, max, n + 1, w)
  BY <1>3, <1>7, <1>8, <1>9, <1>10 DEF Whole
<1>12. w.from \subseteq Seen(s, n + 1)
  BY <1>1, <1>2
<1> QED
  BY <1>1, <1>11, <1>12 DEF WalkSound

(* If it is the newest, it is cut. *)
LEMMA Cutting ==
  ASSUME NEW s \in Seq(Message), NEW max \in Nat, NEW n \in Nat, n + 1 <= Len(s),
         NEW w, WalkSound(s, max, n, w), ~w.done, w.kept = <<>>,
         NEW i, i = Len(s) - n, i # FirstSystem(s),
         Serialized(SystemOf(s) \o (<<s[i]>> \o w.kept)) > max,
         NEW v, v \in Walked(s), v.done, v.from = {i},
         v.kept = <<TruncateMessage(s[i], AtLeast(LeastCut, max - w.size))>>
  PROVE  WalkSound(s, max, n + 1, v)
<1>1. Seen(s, n) = {} /\ w.size = Serialized(SystemOf(s))
  BY DEF WalkSound, Whole
<1>2. i \in 1..Len(s) /\ i \in Others(s) /\ Seen(s, n + 1) = Seen(s, n) \cup {i}
  BY SeenNext
<1>3. ASSUME NEW j \in Others(s) PROVE j <= i
  <2>1. j \in 1..Len(s)
    BY DEF Others
  <2>2. ~(j > Len(s) - n)
    BY <1>1 DEF Seen
  <2> QED
    BY <1>2, <2>1, <2>2
<1>4. s[i] \in Message /\ <<s[i]>> \in Seq(Message) /\ Serialized(SystemOf(s)) \in Nat
  BY <1>2, LoadOfOne, FirstSystemIs, LoadIs
<1>5. Serialized(SystemOf(s) \o <<s[i]>>) > max
  <2>1. <<s[i]>> \o <<>> = <<s[i]>>
    BY <1>4, ConcatEmptySeq
  <2> QED
    BY <2>1
<1>6. PICK b \in Nat : b = AtLeast(64, max - Serialized(SystemOf(s))) /\ b >= 64
  BY <1>4 DEF AtLeast
<1>7. PICK m \in Message : m = TruncateMessage(s[i], b) /\ Cost(m) <= b
  BY <1>4, <1>6, CutIs
<1>8. v.kept = <<m>>
  BY <1>1, <1>6, <1>7 DEF LeastCut
<1>9. Len(v.kept) = 1 /\ Load(v.kept) <= b + 2
  <2>1. Load(<<m>>) = Cost(m) + 2 /\ Cost(m) \in Nat /\ Len(<<m>>) = 1
    BY LoadOfOne, CostIs
  <2> QED
    BY <1>6, <1>7, <1>8, <2>1
<1>10. Cut(s, max, v)
  BY <1>2, <1>3, <1>5, <1>6, <1>9 DEF Cut
<1> QED
  BY <1>2, <1>10 DEF WalkSound

LEMMA WalkGoesOn ==
  ASSUME NEW s \in Seq(Message), NEW max \in Nat, NEW n \in Nat, n + 1 <= Len(s),
         NEW w, WalkSound(s, max, n, w), NEW i, i = Len(s) - n
  PROVE  WalkSound(s, max, n + 1, IF i = FirstSystem(s) THEN w ELSE Consider(s, max, w, i))
<1>1. w \in Walked(s) /\ w.from \subseteq Seen(s, n)
  BY DEF WalkSound
<1>2. i \in 1..Len(s) /\ Seen(s, n) \subseteq Seen(s, n + 1)
  BY SeenNext
<1>3. CASE i = FirstSystem(s)
  <2>1. Seen(s, n + 1) = Seen(s, n) /\ Places(s, n + 1) = Places(s, n)
    BY <1>3, SeenNext
  <2>2. WalkSound(s, max, n + 1, w)
    BY <2>1 DEF WalkSound, Whole
  <2> QED
    BY <1>3, <2>2
<1>4. CASE i # FirstSystem(s)
  <2> DEFINE v == Consider(s, max, w, i)
             next == <<s[i]>> \o w.kept
             fits == Serialized(SystemOf(s) \o next) <= max
  <2>1. v \in Walked(s)
    BY <1>1, <1>2, ConsiderTypes
  <2>2. fits \/ Serialized(SystemOf(s) \o next) > max
    <3>1. s[i] \in Message /\ <<s[i]>> \in Seq(Message) /\ w.kept \in Seq(Message)
      BY <1>1, <1>2, LoadOfOne DEF Walked
    <3>2. SystemOf(s) \o next \in Seq(Message)
      BY <3>1, FirstSystemIs, LoadOfBoth
    <3>3. Serialized(SystemOf(s) \o next) \in Nat
      BY <3>2, LoadIs
    <3> QED
      BY <3>3
  <2>3. CASE w.done
    <3>1. v = w
      BY <2>3 DEF Consider
    <3>2. Cut(s, max, w)
      BY <2>3 DEF WalkSound
    <3>3. WalkSound(s, max, n + 1, w)
      BY <1>1, <1>2, <2>3, <3>2 DEF WalkSound
    <3> QED
      BY <1>4, <3>1, <3>3
  <2>4. CASE ~w.done /\ fits
    <3>1. v = [w EXCEPT !.kept = next, !.from = {i} \cup @, !.size = Serialized(SystemOf(s) \o next)]
      BY <2>4 DEF Consider
    <3>2. ~v.done /\ v.kept = next /\ v.from = {i} \cup w.from
      BY <1>1, <2>4, <3>1 DEF Walked
    <3>3. WalkSound(s, max, n + 1, v)
      <4> HIDE DEF v
      <4> QED
        BY <1>4, <2>1, <2>4, <3>2, Fitting
    <3> QED
      BY <1>4, <3>3
  <2>5. CASE ~w.done /\ ~fits /\ w.kept # <<>>
    <3>1. v = w
      BY <2>5 DEF Consider
    <3>2. WalkSound(s, max, n + 1, w)
      BY <1>4, <2>2, <2>5, Skipping
    <3> QED
      BY <1>4, <3>1, <3>2
  <2>6. CASE ~w.done /\ ~fits /\ w.kept = <<>>
    <3>1. v = [w EXCEPT !.kept = <<TruncateMessage(s[i], AtLeast(LeastCut, max - w.size))>>,
                        !.from = {i}, !.done = TRUE]
      BY <2>6 DEF Consider
    <3>2. v.done /\ v.from = {i}
          /\ v.kept = <<TruncateMessage(s[i], AtLeast(LeastCut, max - w.size))>>
      BY <1>1, <3>1 DEF Walked
    <3>3. WalkSound(s, max, n + 1, v)
      <4> HIDE DEF v
      <4> QED
        BY <1>4, <2>1, <2>2, <2>6, <3>2, Cutting
    <3> QED
      BY <1>4, <3>3
  <2> QED
    BY <2>3, <2>4, <2>5, <2>6
<1> QED
  BY <1>3, <1>4
LEMMA WalkIsSound ==
  ASSUME NEW s \in Seq(Message), NEW max \in Nat
  PROVE  WalkSound(s, max, Len(s), Walk(s, max))
<1>1. PICK g : Walks(s, max, g)
  BY WalkIs
<1>2. Len(s) \in Nat /\ FirstSystem(s) \in 0..Len(s) /\ Serialized(SystemOf(s)) \in Nat
  BY FirstSystemIs, LoadIs
<1> DEFINE T == {n \in Nat : n <= Len(s) => WalkSound(s, max, n, g[n])}
<1>3. 0 \in T
  <2>1. g[0] = [kept |-> <<>>, from |-> {}, size |-> Serialized(SystemOf(s)), done |-> FALSE]
    BY <1>1 DEF Walks
  <2>2. g[0].kept = <<>> /\ g[0].from = {} /\ g[0].size = Serialized(SystemOf(s)) /\ ~g[0].done
    BY <2>1
  <2>3. <<>> \in Seq(Message) /\ Len(<<>>) = 0
    OBVIOUS
  <2>4. g[0] \in Walked(s)
    BY <1>2, <2>1, <2>3 DEF Walked
  <2>5. Seen(s, 0) = {}
    BY <1>2 DEF Seen, Others
  <2>6. Places(s, 0) = 0
    BY <1>2 DEF Places
  <2>7. Picked(s, {}) = <<>>
    BY PickedNone
  <2>8. Whole(s, max, 0, g[0])
    BY <2>2, <2>3, <2>5, <2>6, <2>7 DEF Whole
  <2> QED
    BY <2>2, <2>4, <2>5, <2>8 DEF WalkSound
<1>4. ASSUME NEW n \in T PROVE n + 1 \in T
  <2>1. SUFFICES ASSUME n + 1 <= Len(s) PROVE WalkSound(s, max, n + 1, g[n + 1])
    OBVIOUS
  <2>2. n \in Nat /\ n <= Len(s) /\ WalkSound(s, max, n, g[n])
    BY <1>2, <2>1
  <2>3. PICK i : i = Len(s) - n
    OBVIOUS
  <2>4. g[n + 1] = IF i = FirstSystem(s) THEN g[n] ELSE Consider(s, max, g[n], i)
    BY <1>1, <2>1, <2>2, <2>3 DEF Walks
  <2> HIDE DEF T
  <2>5. WalkSound(s, max, n + 1,
                  IF i = FirstSystem(s) THEN g[n] ELSE Consider(s, max, g[n], i))
    BY <2>1, <2>2, <2>3, WalkGoesOn
  <2> QED
    BY <2>4, <2>5
<1>5. T = Nat
  <2> HIDE DEF T
  <2>1. T \subseteq Nat
    BY DEF T
  <2> QED
    BY <1>3, <1>4, <2>1, NumbersFrom
<1>6. WalkSound(s, max, Len(s), g[Len(s)])
  BY <1>2, <1>5
<1> QED
  BY <1>1, <1>6 DEF Walks

(* What that says of the messages that are kept. *)
LEMMA KeptFrom ==
  ASSUME NEW s \in Seq(Message), NEW max \in Nat, NEW w, WalkSound(s, max, Len(s), w)
  PROVE  /\ w.from \subseteq Others(s)
         /\ \A i \in Others(s) : (\A j \in Others(s) : j <= i) => i \in w.from
         /\ \A i \in Others(s) \ w.from : Overflows(s, max, w.from, i)
<1>1. Len(s) \in Nat /\ Len(s) - Len(s) = 0
  OBVIOUS
<1>2. Others(s) \subseteq 1..Len(s)
  BY DEF Others
<1>3. Seen(s, Len(s)) = Others(s)
  BY <1>1, <1>2 DEF Seen
<1>4. w.from \subseteq Others(s)
  BY <1>3 DEF WalkSound
<1>5. CASE ~w.done
  BY <1>3, <1>4, <1>5 DEF WalkSound, Whole
<1>6. CASE w.done
  <2>1. PICK i \in Others(s) : /\ w.from = {i}
                               /\ \A j \in Others(s) : j <= i
                               /\ Serialized(SystemOf(s) \o <<s[i]>>) > max
    BY <1>6 DEF WalkSound, Cut
  <2>2. ASSUME NEW k \in Others(s), \A j \in Others(s) : j <= k PROVE k \in w.from
    <3>1. k <= i /\ i <= k /\ k \in Nat /\ i \in Nat
      BY <1>2, <2>1, <2>2
    <3>2. k = i
      BY <3>1
    <3> QED
      BY <2>1, <3>2
  <2>3. ASSUME NEW k \in Others(s) \ w.from PROVE Overflows(s, max, w.from, k)
    <3>1. k \in 1..Len(s) /\ i \in 1..Len(s) /\ k <= i /\ k # i
      BY <1>2, <2>1
    <3>2. i > k
      BY <3>1
    <3>3. {j \in w.from : j > k} = {i}
      BY <2>1, <3>2
    <3>4. s[i] \in Message /\ s[k] \in Message
      BY <3>1
    <3>5. Picked(s, {i} \cup {}) = <<s[i]>> \o Picked(s, {})
      BY <3>1, PickedBefore
    <3>6. <<s[i]>> \in Seq(Message) /\ <<s[k]>> \in Seq(Message)
          /\ Load(<<s[k]>>) = Cost(s[k]) + 2 /\ Cost(s[k]) \in Nat
      BY <3>4, LoadOfOne, CostIs
    <3>7. Picked(s, {i}) = <<s[i]>>
      <4>1. Picked(s, {}) = <<>>
        BY PickedNone
      <4>2. <<s[i]>> \o <<>> = <<s[i]>>
        BY <3>6, ConcatEmptySeq
      <4>3. {i} \cup {} = {i}
        OBVIOUS
      <4> QED
        BY <3>5, <4>1, <4>2, <4>3
    <3>8. Picked(s, {k} \cup {i}) = <<s[k]>> \o Picked(s, {i})
      <4>1. \A j \in {i} : j > k
        BY <3>2
      <4> QED
        BY <3>1, <4>1, PickedBefore
    <3>9. PICK both \in Seq(Message) : both = <<s[k]>> \o <<s[i]>>
      BY <3>6, LoadOfBoth
    <3>10. Load(both) = (Cost(s[k]) + 2) + Load(<<s[i]>>)
      <4>1. Load(<<s[k]>> \o <<s[i]>>) = Load(<<s[k]>>) + Load(<<s[i]>>)
        BY <3>6, LoadOfBoth
      <4> QED
        BY <3>6, <3>9, <4>1
    <3>11. PICK sys \in Seq(Message) : sys = SystemOf(s)
      BY FirstSystemIs
    <3>12. /\ sys \o both \in Seq(Message) /\ Load(sys \o both) = Load(sys) + Load(both)
           /\ sys \o <<s[i]>> \in Seq(Message)
           /\ Load(sys \o <<s[i]>>) = Load(sys) + Load(<<s[i]>>)
      BY <3>6, LoadOfBoth
    <3>13. Load(sys \o both) > Load(sys \o <<s[i]>>)
      <4>1. Load(sys) \in Nat /\ Load(<<s[i]>>) \in Nat
        BY <3>6, LoadIs
      <4> QED
        BY <3>6, <3>10, <3>12, <4>1
    <3>14. Serialized(sys \o both) > max
      <4>1. Serialized(sys \o <<s[i]>>) > max
        BY <2>1, <3>11
      <4>2. /\ Serialized(sys \o <<s[i]>>) \in Nat /\ Load(sys \o <<s[i]>>) \in Nat
            /\ (sys \o <<s[i]>> = <<>> => Serialized(sys \o <<s[i]>>) = 0)
            /\ (sys \o <<s[i]>> # <<>> => Load(sys \o <<s[i]>>) = Serialized(sys \o <<s[i]>>) + 2)
        BY <3>12, LoadIs
      <4>3. Load(sys \o <<s[i]>>) = Serialized(sys \o <<s[i]>>) + 2
        BY <4>1, <4>2
      <4>4. /\ Serialized(sys \o both) \in Nat /\ Load(sys \o both) \in Nat
            /\ (sys \o both = <<>> => Load(sys \o both) = 0)
            /\ (sys \o both # <<>> => Load(sys \o both) = Serialized(sys \o both) + 2)
        BY <3>12, LoadIs
      <4>5. Load(sys \o both) = Serialized(sys \o both) + 2
        BY <3>13, <4>2, <4>3, <4>4
      <4> QED
        BY <3>13, <4>1, <4>2, <4>3, <4>4, <4>5
    <3> QED
      BY <3>3, <3>7, <3>8, <3>9, <3>11, <3>14 DEF Overflows
  <2> QED
    BY <1>4, <2>2, <2>3
<1> QED
  BY <1>5, <1>6

LEMMA MarkerIs ==
  ASSUME NEW omitted \in Nat
  PROVE  /\ Marker(omitted) \in Message /\ Marker(omitted).role = "assistant"
         /\ Marker(omitted).size \in Nat
<1> DEFINE powers == {k \in 1..omitted : 10^k <= omitted}
<1>1. Cardinality(powers) \in Nat
  <2>1. IsFiniteSet(1..omitted) /\ powers \subseteq 1..omitted
    BY FS_Interval
  <2> HIDE DEF powers
  <2> QED
    BY <2>1, FS_Subset, FS_CardinalityType
<1>2. Digits(omitted) \in Nat
  BY <1>1 DEF Digits
<1>3. 48 + Digits(omitted) \in Nat
  BY <1>2
<1>4. Marker(omitted) = [role |-> "assistant", size |-> 48 + Digits(omitted)]
  BY DEF Marker
<1> QED
  BY <1>3, <1>4 DEF Message, Role

LEMMA MarkerFits ==
  ASSUME NEW a \in Nat, NEW k \in Nat, NEW ser \in Nat, NEW max \in Nat, NEW z \in Nat,
         a <= ser + 2, k <= AtLeast(64, max - ser) + 2 \/ a + k <= max + 2
  PROVE  a + 12 + z + k <= AtLeast(max, ser + 64) + 16 + z
  BY DEF AtLeast

(* What they weigh, with the marker. *)
LEMMA KeptWeighs ==
  ASSUME NEW s \in Seq(Message), NEW max \in Nat, NEW w, WalkSound(s, max, Len(s), w),
         NEW omitted \in Nat
  PROVE  Serialized(SystemOf(s) \o <<Marker(omitted)>> \o w.kept)
           <= AtLeast(max, Serialized(SystemOf(s)) + 64) + 16 + Marker(omitted).size
<1>1. PICK sys \in Seq(Message) : sys = SystemOf(s)
  BY FirstSystemIs
<1>2. PICK kept \in Seq(Message) : kept = w.kept
  BY DEF WalkSound, Walked
<1> DEFINE marker == Marker(omitted)
<1>13. PICK z \in Nat : z = marker.size
  BY MarkerIs
<1>3. PICK m \in Message : m = marker /\ Cost(m) = 12 + z
  <2>1. marker \in Message /\ marker.role = "assistant"
    BY MarkerIs
  <2>2. Header("assistant") = 12
    BY DEF Header
  <2> HIDE DEF marker
  <2> QED
    BY <1>13, <2>1, <2>2 DEF Cost
<1> HIDE DEF marker
<1>4. /\ <<m>> \in Seq(Message) /\ Load(<<m>>) = z + 14
      /\ sys \o <<m>> \in Seq(Message) /\ Load(sys \o <<m>>) = Load(sys) + Load(<<m>>)
  <2>1. <<m>> \in Seq(Message) /\ Load(<<m>>) = Cost(m) + 2
    BY LoadOfOne
  <2>2. sys \o <<m>> \in Seq(Message) /\ Load(sys \o <<m>>) = Load(sys) + Load(<<m>>)
    BY <2>1, LoadOfBoth
  <2>3. Load(<<m>>) = z + 14
    BY <1>3, <1>13, <2>1
  <2> QED
    BY <2>1, <2>2, <2>3
<1>5. PICK all \in Seq(Message) : all = sys \o <<m>> \o kept
  BY <1>4, LoadOfBoth
<1>6. Load(all) = Load(sys \o <<m>>) + Load(kept)
  BY <1>4, <1>5, LoadOfBoth
<1>7. PICK a \in Nat, k \in Nat, ser \in Nat :
         a = Load(sys) /\ k = Load(kept) /\ ser = Serialized(sys) /\ a <= ser + 2
  <2>1. Load(sys) \in Nat /\ Load(kept) \in Nat /\ Serialized(sys) \in Nat
    BY LoadIs
  <2>2. sys = <<>> => Load(sys) = 0
    BY LoadIs
  <2>3. sys # <<>> => Load(sys) = Serialized(sys) + 2
    BY LoadIs
  <2>4. Load(sys) <= Serialized(sys) + 2
    BY <2>1, <2>2, <2>3
  <2> QED
    BY <2>1, <2>4
<1>8. Load(all) = a + (z + 14) + k /\ Serialized(all) = a + 12 + z + k
  <2>1. Load(all) = a + (z + 14) + k
    BY <1>4, <1>6, <1>7
  <2>2. all # <<>>
    <3>1. Load(all) # 0
      <4>1. a + (z + 14) + k # 0
        OBVIOUS
      <4> QED
        BY <2>1, <4>1
    <3>2. all = <<>> => Load(all) = 0
      BY LoadIs
    <3> QED
      BY <3>1, <3>2
  <2>3. Load(all) = Serialized(all) + 2 /\ Serialized(all) \in Nat
    BY <2>2, LoadIs
  <2> QED
    <3>1. PICK x \in Nat : x = Serialized(all)
      BY <2>3
    <3>2. a + (z + 14) + k = x + 2
      BY <2>1, <2>3, <3>1
    <3>3. x = a + 12 + z + k
      BY <3>2
    <3> QED
      BY <2>1, <3>1, <3>3
<1>9. CASE w.done
  <2>1. k <= AtLeast(64, max - ser) + 2
    BY <1>1, <1>2, <1>7, <1>9 DEF WalkSound, Cut
  <2>2. a + 12 + z + k <= AtLeast(max, ser + 64) + 16 + z
    BY <1>7, <2>1, MarkerFits
  <2> QED
    BY <1>1, <1>2, <1>3, <1>13, <1>5, <1>7, <1>8, <2>2 DEF marker
<1>10. CASE ~w.done /\ kept = <<>>
  <2>1. k = 0
    BY <1>7, <1>10, LoadIs
  <2>2. k <= AtLeast(64, max - ser) + 2
    BY <2>1 DEF AtLeast
  <2>3. a + 12 + z + k <= AtLeast(max, ser + 64) + 16 + z
    BY <1>7, <2>2, MarkerFits
  <2> QED
    BY <1>1, <1>2, <1>3, <1>13, <1>5, <1>7, <1>8, <2>3 DEF marker
<1>11. CASE ~w.done /\ kept # <<>>
  <2>1. Serialized(sys \o kept) <= max
    BY <1>1, <1>2, <1>11 DEF WalkSound, Whole
  <2>2. sys \o kept \in Seq(Message) /\ Load(sys \o kept) = a + k
    BY <1>7, LoadOfBoth
  <2>3. a + k <= max + 2
    <3>1. Load(sys \o kept) = 0 \/ Load(sys \o kept) = Serialized(sys \o kept) + 2
      BY <2>2, LoadIs
    <3>2. Serialized(sys \o kept) \in Nat
      BY <2>2, LoadIs
    <3>3. PICK x \in Nat : x = Serialized(sys \o kept)
      BY <3>2
    <3>4. x <= max /\ (a + k = 0 \/ a + k = x + 2)
      BY <2>1, <2>2, <3>1, <3>3
    <3> QED
      BY <3>4
  <2>4. a + 12 + z + k <= AtLeast(max, ser + 64) + 16 + z
    BY <1>7, <2>3, MarkerFits
  <2> QED
    BY <1>1, <1>2, <1>3, <1>13, <1>5, <1>7, <1>8, <2>4 DEF marker
<1> QED
  BY <1>9, <1>10, <1>11

(* If as many are kept as there were, there was only one. *)
LEMMA KeptAll ==
  ASSUME NEW s \in Seq(Message), NEW max \in Nat, NEW w, WalkSound(s, max, Len(s), w),
         Serialized(s) > max, Len(w.kept) >= Len(s) - Len(SystemOf(s))
  PROVE  \A i, j \in Others(s) : i = j
<1> DEFINE first == FirstSystem(s)
<1>1. Len(s) \in Nat /\ first \in 0..Len(s)
  BY FirstSystemIs
<1>2. Others(s) = (1..Len(s)) \ {first}
  BY DEF Others
<1>3. Len(SystemOf(s)) = IF first = 0 THEN 0 ELSE 1
  <2>1. CASE first = 0
    BY <2>1, FirstSystemIs
  <2>2. CASE first # 0
    BY <2>2, FirstSystemIs
  <2> QED
    BY <2>1, <2>2
<1>4. Places(s, Len(s)) = Len(s) - Len(SystemOf(s))
  <2>1. Len(s) - Len(s) = 0
    BY <1>1
  <2>2. Places(s, Len(s)) = IF first # 0 /\ first > 0 THEN Len(s) - 1 ELSE Len(s)
    BY <2>1 DEF Places
  <2> HIDE DEF first
  <2>3. CASE first = 0
    BY <1>1, <1>3, <2>2, <2>3
  <2>4. CASE first # 0
    BY <1>1, <1>3, <2>2, <2>4
  <2> QED
    BY <2>3, <2>4
<1> HIDE DEF first
<1>5. CASE w.done
  <2>1. Len(w.kept) = 1
    BY <1>5 DEF WalkSound, Cut
  <2>2. Len(s) <= IF first = 0 THEN 1 ELSE 2
    BY <1>1, <1>3, <2>1
  <2>3. ASSUME NEW i \in Others(s), NEW j \in Others(s) PROVE i = j
    <3>1. i \in 1..Len(s) /\ j \in 1..Len(s) /\ i # first /\ j # first
      BY <1>2, <2>3
    <3> QED
      BY <1>1, <2>2, <3>1
  <2> QED
    BY <2>3
<1>6. CASE ~w.done
  <2>1. PICK sys \in Seq(Message) : sys = SystemOf(s)
    BY FirstSystemIs
  <2>2. PICK kept \in Seq(Message) : kept = w.kept
    BY DEF WalkSound, Walked
  <2>3. Whole(s, max, Len(s), w)
    BY <1>6 DEF WalkSound
  <2>4. Seen(s, Len(s)) = Others(s)
    <3>1. Len(s) - Len(s) = 0
      BY <1>1
    <3> QED
      BY <1>1, <1>2, <3>1 DEF Seen
  <2>5. w.from = Others(s)
    <3>1. Len(kept) <= Places(s, Len(s)) /\ Len(kept) >= Places(s, Len(s))
      BY <1>4, <2>2, <2>3 DEF Whole
    <3>2. Len(kept) \in Nat /\ Places(s, Len(s)) \in Int
      BY <1>1, <1>3, <1>4
    <3>3. Len(kept) = Places(s, Len(s))
      BY <3>1, <3>2
    <3> QED
      BY <2>2, <2>3, <2>4, <3>3 DEF Whole
  <2>6. CASE kept = <<>>
    BY <2>2, <2>3, <2>4, <2>6 DEF Whole
  <2>7. CASE kept # <<>>
    <3>1. kept = Picked(s, DOMAIN s \ {FirstSystem(s)})
      BY <2>2, <2>3, <2>5 DEF Whole, Others
    <3>2. Load(s) = Load(kept) + (IF first = 0 THEN 0 ELSE Load(<<s[first]>>))
      BY <1>1, <3>1, LoadWithout DEF first
    <3>3. Load(sys) = IF first = 0 THEN 0 ELSE Load(<<s[first]>>)
      <4>1. CASE first = 0
        BY <2>1, <4>1, FirstSystemIs, LoadIs DEF first
      <4>2. CASE first # 0
        BY <2>1, <4>2, FirstSystemIs DEF first
      <4> QED
        BY <4>1, <4>2
    <3>4. sys \o kept \in Seq(Message) /\ Load(sys \o kept) = Load(sys) + Load(kept)
      BY LoadOfBoth
    <3>5. Load(sys) \in Nat /\ Load(kept) \in Nat /\ Load(kept) = Serialized(kept) + 2
          /\ Serialized(kept) \in Nat
      BY <2>7, LoadIs
    <3>6. Load(s) = Load(sys \o kept)
      BY <3>2, <3>3, <3>4, <3>5
    <3>7. Load(sys \o kept) = Serialized(sys \o kept) + 2 /\ Serialized(sys \o kept) \in Nat
      <4>1. sys \o kept # <<>>
        BY <3>4, <3>5, LoadIs
      <4> QED
        BY <3>4, <4>1, LoadIs
    <3>8. Load(s) = Serialized(s) + 2 /\ Serialized(s) \in Nat
      <4>1. Serialized(s) \in Nat /\ (s = <<>> => Serialized(s) = 0)
        BY LoadIs
      <4>2. s # <<>>
        BY <4>1
      <4> QED
        BY <4>1, <4>2, LoadIs
    <3>9. Serialized(sys \o kept) <= max
      BY <2>1, <2>2, <2>3, <2>7 DEF Whole
    <3> QED
      BY <3>6, <3>7, <3>8, <3>9
  <2> QED
    BY <2>6, <2>7
<1> QED
  BY <1>5, <1>6
LEMMA RetainedWhole ==
  ASSUME NEW s \in Seq(Message), NEW max \in Nat, Serialized(s) <= max,
         NEW kept, kept = RetainWithinBudget(s, max)
  PROVE  kept.messages = s /\ kept.dropped = 0 /\ kept.from = DOMAIN s
<1>1. kept = [messages |-> s, dropped |-> 0, from |-> DOMAIN s]
  BY DEF RetainWithinBudget
<1> QED
  BY <1>1

Retained(s, max, kept, w) ==
  /\ WalkSound(s, max, Len(s), w)
  /\ kept.messages = SystemOf(s) \o <<Marker(kept.dropped)>> \o w.kept
  /\ kept.dropped = AtLeast(0, Len(s) - Len(w.kept) - Len(SystemOf(s)))
  /\ kept.dropped \in Nat
  /\ kept.from = w.from \cup ({FirstSystem(s)} \ {0})

LEMMA RetainedPart ==
  ASSUME NEW s \in Seq(Message), NEW max \in Nat, Serialized(s) > max,
         NEW kept, kept = RetainWithinBudget(s, max)
  PROVE  \E w : Retained(s, max, kept, w)
<1>1. ~(Serialized(s) <= max)
  BY LoadIs
<1>2. PICK w : w = Walk(s, max) /\ WalkSound(s, max, Len(s), w)
  BY WalkIsSound
<1> DEFINE dropped == AtLeast(0, Len(s) - Len(w.kept) - Len(SystemOf(s)))
           messages == SystemOf(s) \o <<Marker(dropped)>> \o w.kept
           from == w.from \cup ({FirstSystem(s)} \ {0})
<1>3. kept = [messages |-> messages, dropped |-> dropped, from |-> from]
  BY <1>1, <1>2 DEF RetainWithinBudget
<1>4. kept.messages = messages /\ kept.dropped = dropped /\ kept.from = from
  <2> HIDE DEF messages, dropped, from
  <2> QED
    BY <1>3
<1>5. kept.messages = SystemOf(s) \o <<Marker(kept.dropped)>> \o w.kept
  BY <1>4
<1>6. kept.dropped \in Nat
  <2>1. Len(w.kept) \in Nat /\ Len(s) \in Nat /\ Len(SystemOf(s)) \in Nat
    <3>1. w.kept \in Seq(Message)
      BY <1>2 DEF WalkSound, Walked
    <3>2. SystemOf(s) \in Seq(Message)
      BY FirstSystemIs
    <3> QED
      BY <3>1, <3>2
  <2>2. dropped \in Nat
    BY <2>1 DEF AtLeast
  <2> QED
    BY <1>4, <2>2
<1> QED
  BY <1>2, <1>4, <1>5, <1>6 DEF Retained

LEMMA TruncatedIs ==
  ASSUME NEW s \in Seq(Message), NEW max \in Nat, NEW kept, kept = RetainWithinBudget(s, max)
  PROVE  LET others == DOMAIN s \ {FirstSystem(s)}
             Newer(i) == {j \in kept.from \cap others : j > i}
         IN  /\ FirstSystem(s) # 0 => FirstSystem(s) \in kept.from
             /\ \A i \in others : (\A j \in others : j <= i) => i \in kept.from
             /\ \A i \in others \ kept.from :
                  Serialized(SystemOf(s) \o Picked(s, {i} \cup Newer(i))) > max
             /\ kept.dropped \in Nat
             /\ Serialized(kept.messages) <= AtLeast(max, Serialized(SystemOf(s)) + 64)
                                              + 16 + Marker(kept.dropped).size
             /\ kept.dropped <= 0 =>
                  Serialized(kept.messages) = Serialized(s) \/ \A i, j \in others : i = j
<1>1. /\ Serialized(s) \in Nat /\ Serialized(SystemOf(s)) \in Nat
      /\ FirstSystem(s) \in 0..Len(s) /\ Len(s) \in Nat /\ DOMAIN s = 1..Len(s)
  BY FirstSystemIs, LoadIs
<1>2. CASE Serialized(s) <= max
  <2>1. kept.messages = s /\ kept.from = DOMAIN s /\ kept.dropped = 0
    BY <1>2, RetainedWhole
  <2>2. Serialized(kept.messages) <= AtLeast(max, Serialized(SystemOf(s)) + 64)
                                       + 16 + Marker(kept.dropped).size
    <3>1. PICK z \in Nat : z = Marker(kept.dropped).size
      BY <2>1, MarkerIs
    <3>2. Serialized(s) <= AtLeast(max, Serialized(SystemOf(s)) + 64) + 16 + z
      BY <1>1, <1>2 DEF AtLeast
    <3> QED
      BY <2>1, <3>1, <3>2
  <2>3. FirstSystem(s) # 0 => FirstSystem(s) \in kept.from
    BY <1>1, <2>1
  <2> QED
    BY <2>1, <2>2, <2>3
<1>3. CASE Serialized(s) > max
  <2>0. PICK w : Retained(s, max, kept, w)
    BY <1>3, RetainedPart
  <2>1. /\ WalkSound(s, max, Len(s), w)
        /\ kept.messages = SystemOf(s) \o <<Marker(kept.dropped)>> \o w.kept
        /\ kept.dropped = AtLeast(0, Len(s) - Len(w.kept) - Len(SystemOf(s)))
        /\ kept.dropped \in Nat
        /\ kept.from = w.from \cup ({FirstSystem(s)} \ {0})
    BY <2>0 DEF Retained
  <2>2. /\ w.from \subseteq Others(s)
        /\ \A i \in Others(s) : (\A j \in Others(s) : j <= i) => i \in w.from
        /\ \A i \in Others(s) \ w.from : Overflows(s, max, w.from, i)
    BY <2>1, KeptFrom
  <2>3. FirstSystem(s) \notin Others(s)
    BY DEF Others
  <2>4. kept.from \cap Others(s) = w.from
    BY <2>1, <2>2, <2>3
  <2>5. FirstSystem(s) # 0 => FirstSystem(s) \in kept.from
    BY <2>1
  <2>6. \A i \in Others(s) : (\A j \in Others(s) : j <= i) => i \in kept.from
    BY <2>1, <2>2
  <2>7. \A i \in Others(s) \ kept.from : Overflows(s, max, kept.from \cap Others(s), i)
    BY <2>1, <2>2, <2>4
  <2>8. Serialized(kept.messages) <= AtLeast(max, Serialized(SystemOf(s)) + 64)
                                       + 16 + Marker(kept.dropped).size
    BY <2>1, KeptWeighs
  <2>9. kept.dropped <= 0 => \A i, j \in Others(s) : i = j
    <3>1. Len(w.kept) \in Nat
      BY <2>1 DEF WalkSound, Walked
    <3>2. Len(SystemOf(s)) \in Nat
      BY FirstSystemIs
    <3>3. kept.dropped <= 0 => Len(w.kept) >= Len(s) - Len(SystemOf(s))
      BY <1>1, <2>1, <3>1, <3>2 DEF AtLeast
    <3> QED
      BY <1>3, <2>1, <3>3, KeptAll
  <2> QED
    BY <2>1, <2>5, <2>6, <2>7, <2>8, <2>9 DEF Others, Overflows
<1> QED
  BY <1>1, <1>2, <1>3

\* Truncation keeps the system message and the newest one, drops no message
\* that fitted together with the newer ones, exceeds the budget by its marker
\* and the least a cut message keeps at most, and owns up to its losses:
\* retainWithinBudget, for conversations of any length and any sizes.
THEOREM TruncationsAreSound == Spec => []TruncationIsSound
<1>1. ASSUME LocalInv PROVE TruncationIsSound
  <2> DEFINE kept == RetainWithinBudget(input, MaxBytes)
             others == DOMAIN input \ {FirstSystem(input)}
             Newer(i) == {j \in kept.from \cap others : j > i}
  <2> SUFFICES ASSUME strategy = "threshold-truncation", Over
               PROVE  /\ FirstSystem(input) # 0 => FirstSystem(input) \in kept.from
                      /\ \A i \in others : (\A j \in others : j <= i) => i \in kept.from
                      /\ \A i \in others \ kept.from :
                           Serialized(SystemOf(input) \o Picked(input, {i} \cup Newer(i))) > MaxBytes
                      /\ result.afterBytes <=
                           AtLeast(MaxBytes, Serialized(SystemOf(input)) + LeastCut)
                             + Header("assistant") + Marker(kept.dropped).size + 2 * Separator
                      /\ result.informationLoss = "none" =>
                           result.afterBytes = result.beforeBytes \/ \A i, j \in others : i = j
    BY DEF TruncationIsSound
  <2>1. input \in Conversations /\ result = ThresholdTruncation(input, MaxBytes, MaxBytes)
    BY <1>1 DEF LocalInv
  <2>2. input \in Seq(Message) /\ MaxBytes \in Nat
    BY <2>1, ProviderAssumption DEF Message
  <2>3. /\ FirstSystem(input) # 0 => FirstSystem(input) \in kept.from
        /\ \A i \in others : (\A j \in others : j <= i) => i \in kept.from
        /\ \A i \in others \ kept.from :
             Serialized(SystemOf(input) \o Picked(input, {i} \cup Newer(i))) > MaxBytes
        /\ kept.dropped \in Nat
        /\ Serialized(kept.messages) <= AtLeast(MaxBytes, Serialized(SystemOf(input)) + 64)
                                         + 16 + Marker(kept.dropped).size
        /\ kept.dropped <= 0 =>
             Serialized(kept.messages) = Serialized(input) \/ \A i, j \in others : i = j
    <3> HIDE <1>1, <2>1
    <3> QED
      BY <2>2, TruncatedIs
  <2>4. /\ result.afterBytes = Serialized(kept.messages)
        /\ result.beforeBytes = Serialized(input)
        /\ result.informationLoss = IF kept.dropped > 0 THEN "estimated" ELSE "none"
    BY <2>1 DEF ThresholdTruncation, Profile
  <2> HIDE DEF kept, others, Newer
  <2>6. result.informationLoss = "none" => kept.dropped <= 0
    <3>1. kept.dropped > 0 \/ kept.dropped <= 0
      BY <2>3
    <3>2. kept.dropped > 0 => result.informationLoss = "estimated"
      BY <2>4
    <3> QED
      BY <3>1, <3>2
  <2>7. result.informationLoss = "none" =>
          result.afterBytes = result.beforeBytes \/ \A i, j \in others : i = j
    BY <2>3, <2>4, <2>6
  <2>8. result.afterBytes <= AtLeast(MaxBytes, Serialized(SystemOf(input)) + LeastCut)
                               + Header("assistant") + Marker(kept.dropped).size + 2 * Separator
    <3>1. Header("assistant") = 12
      BY DEF Header
    <3>2. PICK z \in Nat : z = Marker(kept.dropped).size
      BY <2>3, MarkerIs
    <3>3. PICK most \in Int : most = AtLeast(MaxBytes, Serialized(SystemOf(input)) + 64)
      <4>1. Serialized(SystemOf(input)) \in Nat
        BY <2>2, FirstSystemIs, LoadIs
      <4> QED
        BY <2>2, <4>1 DEF AtLeast
    <3>4. AtLeast(MaxBytes, Serialized(SystemOf(input)) + LeastCut) = most
      BY <3>3 DEF LeastCut
    <3>5. most + 12 + z + 2 * Separator = most + 16 + z
      BY DEF Separator
    <3> QED
      BY <2>3, <2>4, <3>1, <3>2, <3>3, <3>4, <3>5
  <2> QED
    BY <2>3, <2>7, <2>8
<1> QED
  BY <1>1, LocalInvariant, PTL
=============================================================================
