----------------------------- MODULE ProviderCall -----------------------------
(***************************************************************************)
(* One use of a backend (packages/providers): the local ones work at once  *)
(* (Backends), the others call a provider over HTTP through MorphClient or *)
(* GroqClient, within a span of the trace.                                 *)
(*                                                                         *)
(* A request waits for the headers under a timer that aborts it; the timer *)
(* is cleared when they have come, and the body is read without one.       *)
(* WarpGrep holds a conversation: the provider asks for tools, which are   *)
(* run on the local repository, until it finishes or its turns are used.   *)
(* Whatever fails is thrown, after the span was given the error.           *)
(***************************************************************************)
EXTENDS Backends

CONSTANTS
  Strategies,     \* the backends an instance uses
  MaxTurns,       \* of a WarpGrep conversation
  MaxCalls,       \* bound: tool calls of one answer
  Conversations,  \* inputs of the context backends: sequences of messages
  MaxBytes,       \* their budget
  Text,           \* lines of a file
  Edits,          \* inputs of the edit backend: [original, hunks], a file and a diff
  Faults          \* subset of {"store"}: recording may fail

Remote == {"warpgrep", "fast-apply", "morph-compact", "groq"}
Local == {"no-compaction", "threshold-truncation", "unified-diff", "raw-search"}

Role == {"system", "assistant", "user", "tool"}
Mark == {" ", "-", "+"}
LineEnd == {"lf", "crlf"}

ASSUME ProviderAssumption ==
  /\ Strategies \subseteq Remote \cup Local /\ Strategies # {}
  /\ MaxTurns \in Nat \ {0} /\ MaxCalls \in Nat \ {0} /\ MaxBytes \in Nat
  /\ Conversations \subseteq Seq([role : Role, size : Nat])
  /\ Edits \subseteq [original : Seq([text : Text, end : LineEnd]),
                     hunks : Seq([start : Nat, body : Seq([mark : Mark, text : Text])])]
  /\ Faults \subseteq {"store"}

VARIABLES
  strategy, credential,  \* the backend, and whether its key is configured
  input,     \* what a local one is given
  call,      \* the state of a remote call
  result     \* what the backend returned

vars == <<strategy, credential, input, call, result>>
given == <<strategy, credential, input>>

Nothing == [none |-> TRUE]

(* What an answer says it used: nothing, counts that the trace schema will  *)
(* refuse (usageFrom lets fractions and sums that do not add up pass), or   *)
(* a token.                                                                 *)
NoUsage == -1
BadUsage == -2
UsageFrom == {NoUsage, BadUsage, 1}

(* The files of the world a search may name, those inside the repository   *)
(* and those a plan calls relevant.                                        *)
File == {"a", "b", "outside"}
Inside == {"a", "b"}
Reference == {"a"}

Inputs(s) ==
  CASE s \in {"no-compaction", "threshold-truncation"} -> Conversations
    [] s = "unified-diff" -> Edits
    [] s = "raw-search" -> [files : UNION {[1..n -> Inside] : n \in 0..2}, max : 0..1]
    [] OTHER -> {Nothing}

Init ==
  /\ strategy \in Strategies
  /\ credential \in IF strategy \in Remote THEN BOOLEAN ELSE {TRUE}
  /\ input \in Inputs(strategy)
  /\ call = [phase |-> "start",
             timer |-> "off",      \* "armed", and "fired" once it aborted
             span |-> "none",      \* "open", "ok", "error", or "stuck"
             turn |-> 0,           \* answers of the provider that were followed
             pending |-> <<>>,     \* tool calls still to be run
             toolCalls |-> 0,
             read |-> FALSE,       \* a local file was read for the provider
             status |-> "none",
             usage |-> NoUsage,    \* tokens of the last answer
             spent |-> 0,          \* history: tokens of all answers
             traced |-> NoUsage,   \* tokens in the span
             source |-> "none",    \* where a search's contexts come from
             error |-> "none",     \* the error that is being thrown
             outcome |-> "none"]
  /\ result = Nothing

At(phase) == call.phase = phase
Fails(error) == call' = [call EXCEPT !.phase = "failing", !.error = error, !.timer = "off"]
Over == At("over")

-----------------------------------------------------------------------------
(* A call begins with its span, before anything that may be caught.  The   *)
(* Groq client looks for its key first.                                    *)
Start ==
  /\ strategy \in Remote /\ At("start")
  /\ call' \in
       IF strategy = "groq" /\ ~credential
       THEN {[call EXCEPT !.phase = "over", !.outcome = "no_credential"]}
       ELSE {[call EXCEPT !.phase = "ready", !.span = "open"]}
            \cup IF "store" \in Faults
                 THEN {[call EXCEPT !.phase = "over", !.span = "stuck", !.outcome = "trace"]}
                 ELSE {}
  /\ UNCHANGED <<given, result>>

(* WarpGrep looks at its repository, two levels deep, before it asks. *)
NoRepository == strategy = "warpgrep" /\ call.turn = 0

(* callJson arms the timer and sends. *)
Send ==
  /\ At("ready")
  /\ \/ /\ credential
        /\ call' = [call EXCEPT !.phase = "waiting", !.timer = "armed"]
     \/ ~credential /\ Fails("no_credential")
     \/ NoRepository /\ Fails("no_repository")
  /\ UNCHANGED <<given, result>>

TimerFires ==
  /\ call.timer = "armed"
  /\ call' = [call EXCEPT !.timer = "fired"]
  /\ UNCHANGED <<given, result>>

(* The request is rejected: by the abort, or by the network. *)
Rejected ==
  /\ At("waiting")
  /\ Fails(IF call.timer = "fired" THEN "timeout" ELSE "request_error")
  /\ UNCHANGED <<given, result>>

(* Mutant: the timer is left running while the body is read. *)
HeadersKeepTimer ==
  /\ At("waiting") /\ call.timer = "armed"
  /\ \E status \in {"ok", "bad"} :
        call' = [call EXCEPT !.phase = "body", !.status = status]
  /\ UNCHANGED <<given, result>>

(* The headers are there and the timer is cleared. *)
Headers ==
  /\ At("waiting") /\ call.timer = "armed"
  /\ \E status \in {"ok", "bad"} :
        call' = [call EXCEPT !.phase = "body", !.status = status, !.timer = "off"]
  /\ UNCHANGED <<given, result>>

(* The body breaks off: what response.text() throws is passed on as it is. *)
BodyBreaks ==
  /\ At("body")
  /\ Fails("body")
  /\ UNCHANGED <<given, result>>

(* The body was read: it may be too large, belong to an error, not be JSON *)
(* or not be an object; otherwise it is an answer.  usageFrom gives the    *)
(* usage of this answer, which the span of the whole call will carry.      *)
Body ==
  /\ At("body")
  /\ \/ Fails("malformed")
     \/ call.status = "bad" /\ Fails("http_error")
     \/ /\ call.status = "ok"
        /\ \E u \in UsageFrom :
              call' = [call EXCEPT !.phase = "answer", !.usage = u,
                                   !.spent = IF u = 1 THEN @ + 1 ELSE @]
  /\ UNCHANGED <<given, result>>

-----------------------------------------------------------------------------
(* firstChoice, and the content of an answer that is not a conversation. *)
Content ==
  /\ At("answer") /\ strategy # "warpgrep"
  /\ \/ call' = [call EXCEPT !.phase = "settle update"]
     \/ Fails("malformed")
     \/ Fails("no_content")
  /\ UNCHANGED <<given, result>>

(* Mutant: without a resolved answer the fallback is claimed. *)
SourceClaimed(resolved) == IF resolved THEN "provider_finish" ELSE "local_read_fallback"

(* The contexts of a final answer: those it resolves to, else what was     *)
(* read locally for it, else none.                                         *)
Source(resolved) ==
  IF resolved THEN "provider_finish"
  ELSE IF call.read THEN "local_read_fallback" ELSE "none"

Finish ==
  \E resolved \in BOOLEAN :
     call' = [call EXCEPT !.phase = "settle update", !.source = Source(resolved),
                          !.pending = <<>>,
                          !.toolCalls = IF At("tools") THEN @ + 1 ELSE @]

ToolKind == {"finish", "read", "other", "malformed"}

(* An answer of a conversation is final, or asks for tools. *)
Converse ==
  /\ At("answer") /\ strategy = "warpgrep"
  /\ \/ Fails("malformed")
     \/ Finish
     \/ \E n \in 1..MaxCalls : \E calls \in [1..n -> ToolKind] :
           call' = [call EXCEPT !.phase = "tools", !.pending = calls]
  /\ UNCHANGED <<given, result>>

(* One tool call; a tool that fails answers with its error. *)
RunTool ==
  /\ At("tools") /\ call.pending # <<>>
  /\ LET kind == Head(call.pending)
     IN  \/ kind = "malformed" /\ Fails("malformed")
         \/ kind = "finish" /\ Finish
         \/ /\ kind \in {"read", "other"}
            /\ \E reads \in IF kind = "read" THEN BOOLEAN ELSE {FALSE} :
                  call' = [call EXCEPT !.pending = Tail(@), !.toolCalls = @ + 1,
                                       !.read = @ \/ reads]
  /\ UNCHANGED <<given, result>>

(* Mutant: the bound on the turns is not looked at. *)
NextTurnUnbounded ==
  /\ At("tools") /\ call.pending = <<>>
  /\ call' = [call EXCEPT !.phase = "ready", !.spent = 0, !.toolCalls = 0]
  /\ UNCHANGED <<given, result>>

(* Mutant: one turn too many. *)
NextTurnLate ==
  /\ At("tools") /\ call.pending = <<>>
  /\ IF call.turn = MaxTurns THEN Fails("malformed")
     ELSE call' = [call EXCEPT !.phase = "ready", !.turn = @ + 1]
  /\ UNCHANGED <<given, result>>

NextTurn ==
  /\ At("tools") /\ call.pending = <<>>
  /\ IF call.turn + 1 = MaxTurns THEN Fails("malformed")
     ELSE call' = [call EXCEPT !.phase = "ready", !.turn = @ + 1]
  /\ UNCHANGED <<given, result>>

-----------------------------------------------------------------------------
(* endProviderSpan and endGroqSpan after a success: the usage, an event,   *)
(* the end.  Each may throw into the same catch block as the rest; the     *)
(* schema refuses a usage that is not of whole numbers or does not add up. *)
SettleUpdate ==
  /\ At("settle update")
  /\ \/ /\ call.usage # BadUsage
        /\ call' = [call EXCEPT !.phase = "settle event", !.traced = call.usage]
     \/ /\ call.usage = BadUsage \/ "store" \in Faults
        /\ call.usage # NoUsage \/ strategy = "groq"
        /\ Fails("trace")
  /\ UNCHANGED <<given, result>>

SettleEvent ==
  /\ At("settle event")
  /\ \/ call' = [call EXCEPT !.phase = "settle end"]
     \/ "store" \in Faults /\ Fails("trace")
  /\ UNCHANGED <<given, result>>

(* An end that fails has spent its handle all the same. *)
SettleEnd ==
  /\ At("settle end")
  /\ \/ call' = [call EXCEPT !.phase = "over", !.span = "ok", !.outcome = "result"]
     \/ /\ "store" \in Faults
        /\ call' = [call EXCEPT !.phase = "failing", !.span = "stuck", !.error = "trace"]
  /\ UNCHANGED <<given, result>>

(* Mutant: the error is thrown without ending the span. *)
CatchForgetsSpan ==
  /\ At("failing")
  /\ call' = [call EXCEPT !.phase = "over", !.outcome = call.error]
  /\ UNCHANGED <<given, result>>

(* The error Groq's client throws with the answer's metadata has its usage *)
(* recorded as a success has.                                              *)
CaughtUsage ==
  IF strategy = "groq" /\ call.error = "no_content" THEN call.usage ELSE call.traced

(* The catch block ends the span with the error and throws it again; when  *)
(* the span cannot be ended, or was, another error is thrown in its place. *)
Catch ==
  /\ At("failing")
  /\ \/ /\ call.span = "open" /\ CaughtUsage # BadUsage
        /\ call' = [call EXCEPT !.phase = "over", !.span = "error", !.outcome = call.error,
                                !.traced = CaughtUsage]
     \/ /\ call.span # "open" \/ CaughtUsage = BadUsage \/ "store" \in Faults
        /\ call' = [call EXCEPT !.phase = "over", !.span = "stuck", !.outcome = "trace"]
  /\ UNCHANGED <<given, result>>

-----------------------------------------------------------------------------
(* The local backends. *)
Compacted ==
  /\ strategy \in {"no-compaction", "threshold-truncation"}
  /\ result' = IF strategy = "no-compaction" THEN NoCompaction(input, MaxBytes)
               ELSE ThresholdTruncation(input, MaxBytes, MaxBytes)

Edited ==
  /\ strategy = "unified-diff"
  /\ result' = ApplyUnifiedDiff(input.original, input.hunks)

Searched ==
  /\ strategy = "raw-search"
  /\ result' = Measurement(Limited(input.files, input.max), Reference)

RunLocal ==
  /\ strategy \in Local /\ At("start")
  /\ call' = [call EXCEPT !.phase = "over", !.outcome = "result"]
  /\ Compacted \/ Edited \/ Searched
  /\ UNCHANGED given

(* What the remote ones make of a result, if it is theirs to make. *)
Wraps(s) == strategy = s /\ Over /\ call.outcome = "result" /\ result = Nothing

(* A search drops what lies outside the repository. *)
WrapSearch ==
  /\ Wraps("warpgrep")
  /\ \E found \in IF call.source = "none" THEN {<<>>} ELSE [1..2 -> File] :
        result' = Measurement(Normalized(found, Inside), Reference)
  /\ UNCHANGED <<given, call>>

(* What node --check says of merged JavaScript; other languages are not checked. *)
SyntaxCheck == {"passed", "failed", "not_checked"}

(* An edit is a success unless its syntax is known to be broken. *)
WrapEdit ==
  /\ Wraps("fast-apply")
  /\ \E syntax \in SyntaxCheck : result' = [syntax |-> syntax, success |-> syntax # "failed"]
  /\ UNCHANGED <<given, call>>

(* A compacted context is accounted as a loss that nobody measured. *)
WrapCompaction ==
  /\ Wraps("morph-compact")
  /\ \E messages \in Conversations, size \in {0, 40} :
        result' = MorphCompaction(messages, size, MaxBytes)
  /\ UNCHANGED <<given, call>>

Wrap == WrapSearch \/ WrapEdit \/ WrapCompaction

-----------------------------------------------------------------------------
(* The steps the process takes by itself. *)
Proceed ==
  \/ Start \/ Send \/ Content \/ Converse \/ RunTool \/ NextTurn
  \/ SettleUpdate \/ SettleEvent \/ SettleEnd \/ Catch

(* What the network does. *)
Network == Rejected \/ Headers \/ BodyBreaks \/ Body

Ended == Over /\ UNCHANGED vars

Next == Proceed \/ TimerFires \/ Network \/ RunLocal \/ Wrap \/ Ended

(* The process goes on, a timer that is armed fires, and an aborted        *)
(* request is rejected; of the network nothing is assumed.                 *)
Spec ==
  /\ Init /\ [][Next]_vars
  /\ WF_vars(Proceed) /\ WF_vars(TimerFires)
  /\ WF_vars(call.timer = "fired" /\ Rejected)

-----------------------------------------------------------------------------
\* The call's state keeps its types.
TypeOK ==
  /\ call.phase \in {"start", "ready", "waiting", "body", "answer", "tools", "settle update",
                     "settle event", "settle end", "failing", "over"}
  /\ call.timer \in {"off", "armed", "fired"}
  /\ call.span \in {"none", "open", "ok", "error", "stuck"}
  /\ call.turn \in 0..(MaxTurns - 1) /\ call.toolCalls \in 0..(MaxTurns * MaxCalls)
  /\ call.pending \in UNION {[1..n -> ToolKind] : n \in 0..MaxCalls}
  /\ call.usage \in UsageFrom /\ call.spent \in 0..MaxTurns

\* However a call ends, its span tells: it is "ok" exactly for a call that
\* returned, with the usage of its last answer, it is never left open, and
\* it is stuck only if recording was what failed.  A span never claims more
\* tokens than the answers had, and for a single answer no fewer.
CallIsAccounted ==
  strategy \in Remote /\ Over =>
    /\ call.span # "open"
    /\ call.span = "ok" <=> call.outcome = "result"
    /\ call.span = "stuck" => call.outcome = "trace"
    /\ call.span = "none" => call.outcome = "no_credential"
    /\ call.traced # NoUsage => call.traced <= call.spent
    /\ call.span = "ok" => call.traced = call.usage
    /\ call.span = "ok" /\ call.turn = 0 /\ call.traced = NoUsage => call.spent = 0

\* A timer runs only while headers are awaited, so an answer that began in
\* time is never taken for a timeout; a fallback is claimed only of files that
\* were read ("instead of inventing a provider result",
\* docs/decisions/0002, 29-30).
OutcomeIsTrue ==
  /\ call.timer # "off" => At("waiting")
  /\ call.source = "local_read_fallback" => call.read

\* A call ends, however the provider behaves, unless it waits for ever for a
\* body: the timer that bounds the wait for headers is cleared before.
CallEnds == strategy \in Remote => <>[](Over \/ At("body"))

(* The members of a sequence at some places, in order. *)
Picked(sequence, places) ==
  LET picked[n \in 0..Len(sequence)] ==
        IF n = 0 THEN <<>>
        ELSE IF n \in places THEN Append(picked[n - 1], sequence[n]) ELSE picked[n - 1]
  IN  picked[Len(sequence)]

\* Truncation keeps the system message and the newest message, the kept ones
\* in order; it drops a message only if it did not fit together with the
\* newer ones that were kept; what it returns exceeds the budget by no more
\* than its marker and the least a cut message keeps; and it owns up to a
\* loss, unless all it did was to cut the only message besides the system's.
TruncationIsSound ==
  strategy = "threshold-truncation" /\ Over =>
    LET kept == RetainWithinBudget(input, MaxBytes)
        system == SystemOf(input)
        others == DOMAIN input \ {FirstSystem(input)}
        Newer(i) == {j \in kept.from \cap others : j > i}
    IN  /\ FirstSystem(input) # 0 => FirstSystem(input) \in kept.from
        /\ \A i \in others : (\A j \in others : j <= i) => i \in kept.from
        /\ \A i \in others \ kept.from :
              Serialized(system \o Picked(input, {i} \cup Newer(i))) > MaxBytes
        /\ result.afterBytes <=
              AtLeast(MaxBytes, Serialized(system) + LeastCut)
                + Header("assistant") + Marker(kept.dropped).size + 2 * Separator
        /\ result.informationLoss = "none" =>
              result.afterBytes = result.beforeBytes \/ \A i, j \in others : i = j

(* The lines of a hunk that are those of the original ("-") or those that  *)
(* replace them ("+").                                                     *)
Side(hunk, mark) ==
  Picked([i \in DOMAIN hunk.body |-> hunk.body[i].text],
         {i \in DOMAIN hunk.body : hunk.body[i].mark \in {" ", mark}})

(* How many lines of the original come before a hunk, as the format has it: *)
(* its header names its first line, or, if it only inserts lines, the line  *)
(* that these follow.                                                       *)
Inserts(hunk) == Side(hunk, "-") = <<>>
LinesBefore(hunk) == IF Inserts(hunk) THEN hunk.start ELSE hunk.start - 1

(* What a diff means when each hunk i comes after at[i] lines of the        *)
(* original: where hunk i ends, whether the diff fits, and what it makes.   *)
End(hunks, at, i) == IF i = 0 THEN 0 ELSE at[i] + Len(Side(hunks[i], "-"))

Applies(original, hunks, at) ==
  /\ hunks # <<>>
  /\ \A i \in DOMAIN hunks :
        /\ End(hunks, at, i - 1) <= at[i]
        /\ End(hunks, at, i) <= Len(original)
        /\ SubSeq(original, at[i] + 1, End(hunks, at, i)) = Side(hunks[i], "-")

Replaced(original, hunks, at) ==
  LET after[n \in 0..Len(hunks)] ==
        IF n = 0 THEN <<>>
        ELSE after[n - 1] \o SubSeq(original, End(hunks, at, n - 1) + 1, at[n])
                         \o Side(hunks[n], "+")
  IN  after[Len(hunks)] \o SubSeq(original, End(hunks, at, Len(hunks)) + 1, Len(original))

Originals == {e.original : e \in Edits}

\* applyUnifiedDiff does what a diff means, but for a hunk that only inserts
\* lines, which it takes one line too early (and refuses at the top of the
\* file): it succeeds exactly if the hunks are then in order and the lines
\* they remove or keep are those of the original, and it replaces just these;
\* every line end becomes LF.  The diff edit.ts itself writes of any change
\* leads to the changed lines; the one Fast Apply returns is refused.
EditIsExact ==
  strategy = "unified-diff" /\ Over =>
    LET lines == Split(input.original)
        hunks == input.hunks
        at == [i \in DOMAIN hunks |->
                 LinesBefore(hunks[i]) - (IF Inserts(hunks[i]) THEN 1 ELSE 0)]
    IN  /\ result.error = "none" <=> Applies(lines, hunks, at)
        /\ Applies(lines, hunks, at) => result.output = Join(Replaced(lines, hunks, at))
        /\ \A file \in Originals \ {input.original} :
             /\ ApplyUnifiedDiff(input.original, UnifiedDiff(input.original, file)).output
                  = Join(Split(file))
             /\ ApplyUnifiedDiff(input.original, HeaderlessDiff(input.original, file)).error
                  # "none"

\* "local truncation reports an estimated loss instead of pretending to know
\* semantic loss" (docs/decisions/0009, 23-24): what was cut is not "none".
LossIsReported ==
  strategy = "threshold-truncation" /\ Over /\ result.informationLoss = "none" =>
    ToSet(input) \subseteq ToSet(RetainWithinBudget(input, MaxBytes).messages)
=============================================================================
