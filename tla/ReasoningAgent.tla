---------------------------- MODULE ReasoningAgent ----------------------------
(***************************************************************************)
(* runReasoningAgent (packages/agent-core) driving a GroqClient            *)
(* (packages/providers) and writing its trace through a TraceWriter.       *)
(*                                                                         *)
(* The loop runs on one JavaScript thread: an interrupt can be seen only   *)
(* where it awaits a completion, while the deadline can pass at any step.  *)
(* Every call of the trace writer may throw, and where the exception goes  *)
(* depends on which of the nested try blocks surrounds the call: that is   *)
(* what `stage' follows.  The toolbox is synchronous.                      *)
(***************************************************************************)
EXTENDS Naturals, Sequences, FiniteSets

CONSTANTS
  Span, NoSpan, MaxRev, MaxEvents, Faults,  \* as in TraceWriter
  RootSpan,    \* the span its caller opened before calling it
  Unlimited,   \* an undefined resource limit
  Limit,       \* the resource limits a task may have
  Usage        \* the usage a completion may report

Resource == {"input", "output", "cost", "nominal"}
Reply == {"invalid", "finish", "act"}

ASSUME AgentAssumption ==
  /\ NoSpan \notin Span
  /\ MaxRev \in Nat
  /\ MaxEvents \in Nat
  /\ Faults \subseteq {"store", "schema"}
  /\ RootSpan \in Span
  /\ Unlimited \notin Nat
  /\ Limit \subseteq [turns : Nat \cup {Unlimited}, timed : BOOLEAN,
                      total : Nat \cup {Unlimited},
                      max : [Resource -> Nat \cup {Unlimited}]]
  /\ Usage # {} /\ Usage \subseteq [Resource -> Nat]

VARIABLES
  openSpans, parent, rev, activeSpanIds, handle, rows, events,  \* the writer
  limits,           \* the task's resource limits
  cancelled,        \* what isCancelled() answers
  late,             \* Date.now() - startedAt > maxDurationMs
  stage,            \* where the loop stands
  turns, actionsExecuted, reasoningCalls,
  used,             \* totals of the usage reported so far
  span,             \* this turn's model, provider call and tool spans
  callOk,           \* endGroqSpan is reached without an error
  completion,       \* the completion being handled
  terminalState, failureCategory,
  executed,         \* history: the tool spans whose operation was executed
  afterDeadline     \* history: requests and operations begun while late

writer == <<openSpans, parent, rev, activeSpanIds, handle, rows, events>>
environment == <<limits, cancelled, late>>
counters == <<turns, actionsExecuted, reasoningCalls, used>>
result == <<terminalState, failureCategory>>
history == <<executed, afterDeadline>>
vars == <<writer, environment, stage, counters, span, callOk, completion,
          result, history>>

W == INSTANCE TraceWriter

Ended == {"returned", "threw"}

Init ==
  /\ openSpans = {RootSpan}
  /\ parent = [s \in Span |-> NoSpan]
  /\ rev = [s \in Span |-> 0]
  /\ activeSpanIds = <<RootSpan>>
  /\ handle = [s \in Span |-> IF s = RootSpan THEN "live" ELSE "none"]
  /\ rows = [s \in Span |-> IF s = RootSpan
                            THEN [W!NoRow EXCEPT !.status = "running"] ELSE W!NoRow]
  /\ events = <<>>
  /\ limits \in Limit
  /\ cancelled \in BOOLEAN
  /\ late = FALSE
  /\ stage = "check"
  /\ turns = 0 /\ actionsExecuted = 0 /\ reasoningCalls = 0
  /\ used = [r \in Resource |-> 0]
  /\ span = [model |-> NoSpan, call |-> NoSpan, tool |-> NoSpan]
  /\ callOk = FALSE
  /\ completion = CHOOSE c \in [usage : Usage, reply : Reply] : TRUE
  /\ terminalState = "none" /\ failureCategory = "none"
  /\ executed = {}
  /\ afterDeadline = 0

-----------------------------------------------------------------------------
(* Where a step leads: to another stage, out of the function with a result *)
(* or out of it with an exception.                                         *)
Goto(next) == stage' = next /\ UNCHANGED result

(* Mutant: the two arguments of result() are swapped. *)
ReturnSwapped(state, category) ==
  /\ stage' = "returned"
  /\ terminalState' = category
  /\ failureCategory' = state

Return(state, category) ==
  /\ stage' = "returned"
  /\ terminalState' = state
  /\ failureCategory' = category

Throw == Goto("threw")

(* How each call of the trace writer can fail; a spent handle always throws. *)
StartFails(s) == W!StartSpanUnstored(s, NoSpan)

UpdateFails(s) ==
  \/ W!UpdateSpanUnstored(s)
  \/ "schema" \in Faults /\ UNCHANGED writer

EventFails(s) ==
  /\ Faults # {} \/ (s # NoSpan /\ handle[s] # "live")
  /\ UNCHANGED writer

EndFails(s) ==
  \/ W!FinishSpanUnstored(s)
  \/ W!FinishSpanRejected(s)
  \/ handle[s] # "live" /\ UNCHANGED writer

(* One call of the writer: where the code goes on, and where a throw goes. *)
Try(here, ok, next, fails, handler) ==
  /\ stage = here
  /\ \/ ok /\ next
     \/ fails /\ handler

(* randomUUID: some identifier not used before. *)
NextSpan == CHOOSE s \in Span : W!Fresh(s)
IdsLeft == \E s \in Span : W!Fresh(s)   \* bound: the instance has enough

-----------------------------------------------------------------------------
Exceeds(n, max) == max # Unlimited /\ n > max

OverBudget ==
  \/ \E r \in Resource : Exceeds(used[r], limits.max[r])
  \/ Exceeds(used["input"] + used["output"], limits.total)

(* checkBudget: the reason to stop, in the order it looks for one. *)
StopReason ==
  IF cancelled THEN "cancelled"
  ELSE IF late THEN "timeout"
  ELSE IF limits.turns # Unlimited /\ turns >= limits.turns THEN "budget_exhausted"
  ELSE "none"

(* BudgetExceeded is caught at the end of the function. *)
BudgetStop ==
  /\ stage \in {"check", "recheck"}
  /\ StopReason # "none"
  /\ Return(StopReason, "budget_exhaustion")
  /\ UNCHANGED <<writer, environment, counters, span, callOk, completion, history>>

(* remainingOutputTokens < 1 *)
NoOutputLeft ==
  limits.max["output"] # Unlimited /\ used["output"] >= limits.max["output"]

NextTurn ==
  /\ stage = "check"
  /\ StopReason = "none"
  /\ turns' = turns + 1
  /\ IF NoOutputLeft THEN Return("budget_exhausted", "budget_exhaustion")
     ELSE Goto("openModel")
  /\ UNCHANGED <<writer, environment, actionsExecuted, reasoningCalls, used,
                 span, callOk, completion, history>>

(* startSpan("agent.reasoning") is outside the inner try. *)
StartModel ==
  /\ IdsLeft
  /\ Try("openModel",
         W!StartSpan(NextSpan, NoSpan) /\ span' = [span EXCEPT !.model = NextSpan],
         Goto("request"),
         StartFails(NextSpan) /\ UNCHANGED span, Throw)
  /\ UNCHANGED <<environment, counters, callOk, completion, history>>

Late == IF late THEN afterDeadline + 1 ELSE afterDeadline

(* GroqClient.complete opens its own span, then sends the request. *)
StartCall ==
  /\ IdsLeft
  /\ Try("request",
         /\ W!StartSpan(NextSpan, NoSpan)
         /\ span' = [span EXCEPT !.call = NextSpan]
         /\ afterDeadline' = Late,
         Goto("await"),
         StartFails(NextSpan) /\ UNCHANGED <<span, afterDeadline>>, Goto("modelError"))
  /\ UNCHANGED <<environment, counters, callOk, completion, executed>>

(* A missing credential or a model that is not allowed: no span is opened. *)
RefuseCall ==
  /\ stage = "request"
  /\ Goto("modelError")
  /\ UNCHANGED <<writer, environment, counters, span, callOk, completion, history>>

(* The provider's answers.  An error carries metadata when a response was  *)
(* received; a timeout, a network error and invalid JSON carry none.       *)
Answer(c) ==
  /\ stage = "await"
  /\ completion' = c
  /\ callOk' = TRUE
  /\ Goto("updateCall")
  /\ UNCHANGED <<writer, environment, counters, span, history>>

CallFails(next) ==
  /\ stage = "await"
  /\ callOk' = FALSE
  /\ Goto(next)
  /\ UNCHANGED <<writer, environment, counters, span, completion, history>>

(* An exception in endGroqSpan: complete's catch block ends the span once  *)
(* more, this time with the error; a second one leaves complete.           *)
CallThrows ==
  /\ callOk' = FALSE
  /\ Goto(IF callOk THEN "endCall" ELSE "modelError")

UpdateCall ==
  /\ Try("updateCall", W!UpdateSpan(span.call), Goto("noteCall") /\ UNCHANGED callOk,
                       UpdateFails(span.call), CallThrows)
  /\ UNCHANGED <<environment, counters, span, completion, history>>

NoteCall ==
  /\ Try("noteCall", W!HandleEvent(span.call), Goto("endCall") /\ UNCHANGED callOk,
                     EventFails(span.call), CallThrows)
  /\ UNCHANGED <<environment, counters, span, completion, history>>

EndCall ==
  /\ Try("endCall",
         W!FinishSpan(span.call, IF callOk THEN "ok" ELSE "error"),
         Goto(IF callOk THEN "account" ELSE "modelError") /\ UNCHANGED callOk,
         EndFails(span.call), CallThrows)
  /\ UNCHANGED <<environment, counters, span, completion, history>>

(* Back in the agent: the totals are raised before the span is updated. *)
Account ==
  /\ stage = "account"
  /\ reasoningCalls' = reasoningCalls + 1
  /\ used' = [r \in Resource |-> used[r] + completion.usage[r]]
  /\ Goto("updateModel")
  /\ UNCHANGED <<writer, environment, turns, actionsExecuted, span, callOk,
                 completion, history>>

UpdateModel ==
  /\ Try("updateModel", W!UpdateSpan(span.model), Goto("noteModel"),
                        UpdateFails(span.model), Goto("modelError"))
  /\ UNCHANGED <<environment, counters, span, callOk, completion, history>>

NoteModel ==
  /\ Try("noteModel", W!HandleEvent(span.model), Goto("endModel"),
                      EventFails(span.model), Goto("modelError"))
  /\ UNCHANGED <<environment, counters, span, callOk, completion, history>>

(* Mutant: the totals are not compared with the limits. *)
EndModelUnchecked ==
  /\ Try("endModel", W!FinishSpan(span.model, "ok"), Goto("parse"),
                     EndFails(span.model), Goto("modelError"))
  /\ UNCHANGED <<environment, counters, span, callOk, completion, history>>

EndModel ==
  /\ Try("endModel",
         W!FinishSpan(span.model, "ok"),
         IF OverBudget THEN Return("budget_exhausted", "budget_exhaustion")
         ELSE Goto("parse"),
         EndFails(span.model), Goto("modelError"))
  /\ UNCHANGED <<environment, counters, span, callOk, completion, history>>

(* Mutant: an end that fails is tried again. *)
ModelErrorRetries ==
  /\ Try("modelError",
         W!FinishSpan(span.model, "error"), Return("provider_error", "provider_failure"),
         EndFails(span.model), Goto("modelError"))
  /\ UNCHANGED <<environment, counters, span, callOk, completion, history>>

(* The catch block around the completion; it throws when the span's end is *)
(* what failed, since its handle is spent.                                 *)
ModelError ==
  /\ Try("modelError",
         W!FinishSpan(span.model, "error"), Return("provider_error", "provider_failure"),
         EndFails(span.model), Throw)
  /\ UNCHANGED <<environment, counters, span, callOk, completion, history>>

-----------------------------------------------------------------------------
(* parseReasoningAction *)
InvalidReply ==
  /\ completion.reply = "invalid"
  /\ Try("parse", W!RecordEvent(NoSpan), Return("task_failed", "interpretation_failure"),
                  EventFails(NoSpan), Throw)
  /\ UNCHANGED <<environment, counters, span, callOk, completion, history>>

FinishReply ==
  /\ stage = "parse"
  /\ completion.reply = "finish"
  /\ Return("resolved", "none")
  /\ UNCHANGED <<writer, environment, counters, span, callOk, completion, history>>

ActReply ==
  /\ stage = "parse"
  /\ completion.reply = "act"
  /\ Goto("recheck")
  /\ UNCHANGED <<writer, environment, counters, span, callOk, completion, history>>

(* Mutant: the action is taken without a second look at the budget. *)
TakeActionUnchecked ==
  /\ stage = "recheck"
  /\ actionsExecuted' = actionsExecuted + 1
  /\ Goto("noteAction")
  /\ UNCHANGED <<writer, environment, turns, reasoningCalls, used, span, callOk,
                 completion, history>>

TakeAction ==
  /\ stage = "recheck"
  /\ StopReason = "none"
  /\ actionsExecuted' = actionsExecuted + 1
  /\ Goto("noteAction")
  /\ UNCHANGED <<writer, environment, turns, reasoningCalls, used, span, callOk,
                 completion, history>>

NoteAction ==
  /\ Try("noteAction", W!RecordEvent(NoSpan), Goto("openTool"),
                       EventFails(NoSpan), Throw)
  /\ UNCHANGED <<environment, counters, span, callOk, completion, history>>

(* Mutant: a failing startSpan does not keep the operation from running. *)
StartToolSwallows ==
  /\ IdsLeft
  /\ Try("openTool",
         W!StartSpan(NextSpan, NoSpan) /\ span' = [span EXCEPT !.tool = NextSpan],
         Goto("execute"),
         StartFails(NextSpan) /\ span' = [span EXCEPT !.tool = NextSpan], Goto("execute"))
  /\ UNCHANGED <<environment, counters, callOk, completion, history>>

StartTool ==
  /\ IdsLeft
  /\ Try("openTool",
         W!StartSpan(NextSpan, NoSpan) /\ span' = [span EXCEPT !.tool = NextSpan],
         Goto("execute"),
         StartFails(NextSpan) /\ UNCHANGED span, Throw)
  /\ UNCHANGED <<environment, counters, callOk, completion, history>>

(* executeReasoningAction: the operation has its effect, or throws. *)
Execute ==
  /\ stage = "execute"
  /\ executed' = executed \cup {span.tool}
  /\ afterDeadline' = Late
  /\ \E next \in {"noteTool", "toolError"} : Goto(next)
  /\ UNCHANGED <<writer, environment, counters, span, callOk, completion>>

NoteTool ==
  /\ Try("noteTool", W!HandleEvent(span.tool), Goto("endTool"),
                     EventFails(span.tool), Goto("toolError"))
  /\ UNCHANGED <<environment, counters, span, callOk, completion, history>>

(* Mutant: the next turn begins although the tool's span is still open. *)
EndToolLeaks ==
  /\ Try("endTool", UNCHANGED writer, Goto("check"),
                    EndFails(span.tool), Goto("toolError"))
  /\ UNCHANGED <<environment, counters, span, callOk, completion, history>>

EndTool ==
  /\ Try("endTool",
         W!FinishSpan(span.tool, "ok"),
         IF Exceeds(used["input"] + used["output"], limits.total)
         THEN Return("budget_exhausted", "budget_exhaustion") ELSE Goto("check"),
         EndFails(span.tool), Goto("toolError"))
  /\ UNCHANGED <<environment, counters, span, callOk, completion, history>>

(* The catch block around the tool; it throws on a spent handle. *)
NoteToolError ==
  /\ Try("toolError", W!HandleEvent(span.tool), Goto("endToolError"),
                      EventFails(span.tool), Throw)
  /\ UNCHANGED <<environment, counters, span, callOk, completion, history>>

EndToolError ==
  /\ Try("endToolError",
         W!FinishSpan(span.tool, "error"), Return("task_failed", "application_failure"),
         EndFails(span.tool), Throw)
  /\ UNCHANGED <<environment, counters, span, callOk, completion, history>>

-----------------------------------------------------------------------------
(* The signal handler runs only while the loop awaits the provider. *)
Interrupt ==
  /\ stage = "await"
  /\ cancelled' = TRUE
  /\ UNCHANGED <<writer, limits, late, stage, counters, span, callOk, completion,
                 result, history>>

DeadlinePasses ==
  /\ limits.timed
  /\ stage \notin Ended
  /\ late' = TRUE
  /\ UNCHANGED <<writer, limits, cancelled, stage, counters, span, callOk,
                 completion, result, history>>

Finished == stage \in Ended /\ UNCHANGED vars

Step ==
  \/ BudgetStop \/ NextTurn \/ StartModel
  \/ StartCall \/ RefuseCall \/ UpdateCall \/ NoteCall \/ EndCall
  \/ Account \/ UpdateModel \/ NoteModel \/ EndModel \/ ModelError
  \/ InvalidReply \/ FinishReply \/ ActReply
  \/ TakeAction \/ NoteAction \/ StartTool \/ Execute
  \/ NoteTool \/ EndTool \/ NoteToolError \/ EndToolError

Provider ==
  \/ \E u \in Usage, r \in Reply : Answer([usage |-> u, reply |-> r])
  \/ \E next \in {"updateCall", "endCall"} : CallFails(next)

Next == Step \/ Provider \/ Interrupt \/ DeadlinePasses \/ Finished

(* The event loop always gets on with a runnable step; nothing is assumed  *)
(* of the provider, of the user or of the clock.                           *)
Spec == Init /\ [][Next]_vars /\ WF_vars(Step)

-----------------------------------------------------------------------------
\* The loop's own variables keep their types (the writer's are TraceWriter's).
TypeOK ==
  /\ W!TypeOK
  /\ limits \in Limit
  /\ cancelled \in BOOLEAN /\ late \in BOOLEAN /\ callOk \in BOOLEAN
  /\ stage \in Ended \cup
       {"check", "openModel", "request", "await", "updateCall", "noteCall",
        "endCall", "account", "updateModel", "noteModel", "endModel", "modelError",
        "parse", "recheck", "noteAction", "openTool", "execute", "noteTool",
        "endTool", "toolError", "endToolError"}
  /\ turns \in Nat /\ actionsExecuted \in Nat /\ reasoningCalls \in Nat
  /\ used \in [Resource -> Nat]
  /\ span \in [model : W!SpanOrNone, call : W!SpanOrNone, tool : W!SpanOrNone]
  /\ completion \in [usage : Usage, reply : Reply]
  /\ terminalState \in {"none", "resolved", "task_failed", "provider_error",
                        "timeout", "budget_exhausted", "cancelled"}
  /\ executed \subseteq Span
  /\ afterDeadline \in Nat

\* The limits bound the run although they are compared only after the
\* spending: whenever a request is under way or an operation is executed, and
\* when the run counts as resolved, what was reported so far is within every
\* limit, so at most the last completion overshoots.
BudgetHolds ==
  stage \in {"await", "execute"} \/ terminalState = "resolved" =>
    /\ ~OverBudget
    /\ limits.turns # Unlimited => turns <= limits.turns
    /\ stage = "await" => ~NoOutputLeft

\* Once cancellation was requested the agent sends no further request and
\* executes no operation: what was in flight is the last thing it did
\* ("finishing the current safe boundary").
NoWorkAfterCancel ==
  [][cancelled => executed' = executed /\ (stage' = "await" => stage = "await")]_vars

\* The deadline is only polled, so work may begin after it; but never more
\* than one request or one operation does.
DeadlineOverrun == afterDeadline <= 1

\* No limit is overrun by more than what was already under way.
LimitsHold == BudgetHolds /\ DeadlineOverrun

\* The numbers of the result are those of what happened, on every path that
\* returns: each counted action was executed, each executed one is counted;
\* with a turn limit the last turn's action is never executed, because the
\* second check already counts the turn.
CountsAreHonest ==
  stage = "returned" =>
    /\ actionsExecuted = Cardinality(executed)
    /\ actionsExecuted <= reasoningCalls
    /\ reasoningCalls <= turns
    /\ limits.turns # Unlimited /\ turns > 0 => actionsExecuted < limits.turns

\* No operation changes the workspace without a persisted span that says so:
\* the row is there before the operation runs, whatever fails.
EffectsAreTraced == \A s \in executed : rows[s].status # "absent"

\* What the run reports of itself is what it did, in its result and in the store.
AccountIsTrue == CountsAreHonest /\ EffectsAreTraced

\* A run that returns leaves the writer as it found it, with only the
\* caller's span open, so whatever its caller traces next is nested right;
\* the one exception is a provider error, where the provider call's span may
\* have been left behind, and then at most that one.
LeavesWriterClean ==
  stage = "returned" =>
    IF terminalState = "provider_error"
    THEN Cardinality(openSpans) <= 2 /\ Head(activeSpanIds) = RootSpan
    ELSE activeSpanIds = <<RootSpan>>

\* With a turn limit the loop ends, unless it waits for ever for a completion
\* (the body of a response is read without a timer, groq.ts 201-203).
Terminates == <>(stage \in Ended) \/ <>[](stage = "await")
=============================================================================
