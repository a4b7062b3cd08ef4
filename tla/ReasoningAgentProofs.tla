------------------------- MODULE ReasoningAgentProofs -------------------------
(***************************************************************************)
(* Theorems about ReasoningAgent for every set of limits, every usage a    *)
(* provider may report and every set of faults of the writer.              *)
(***************************************************************************)
EXTENDS ReasoningAgent, FiniteSetTheorems, TLAPS

-----------------------------------------------------------------------------
(* The stages between a budget check that passed and the work it allowed.  *)
Committed == {"openModel", "request", "noteAction", "openTool", "execute"}

(* The stages of the completion, up to the totals being raised ...         *)
Asking == {"openModel", "request", "await", "updateCall", "noteCall", "endCall",
           "account"}

(* ... those after it, while the totals are not yet compared ...           *)
Counted == {"updateModel", "noteModel", "endModel"}

(* ... those that decide what the completion asks for ...                  *)
Deciding == {"parse", "recheck"}

(* ... and those of the action.                                            *)
Preparing == {"noteAction", "openTool", "execute"}
Reporting == {"noteTool", "endTool", "toolError", "endToolError"}

ControlType ==
  /\ limits \in Limit
  /\ cancelled \in BOOLEAN /\ late \in BOOLEAN /\ callOk \in BOOLEAN
  /\ stage \in {"check", "modelError"} \cup Asking \cup Counted \cup Deciding
                \cup Preparing \cup Reporting \cup Ended
  /\ turns \in Nat /\ actionsExecuted \in Nat /\ reasoningCalls \in Nat
  /\ used \in [Resource -> Nat]
  /\ completion \in [usage : Usage, reply : Reply]
  /\ afterDeadline \in Nat
  /\ terminalState = "resolved" => stage = "returned"

(* How the three counters stand to each other at each stage. *)
CountersMarch ==
  /\ stage \in {"check"} \cup Preparing \cup Reporting =>
        actionsExecuted = turns /\ reasoningCalls = turns
  /\ stage \in Asking => actionsExecuted + 1 = turns /\ reasoningCalls + 1 = turns
  /\ stage \in Counted \cup Deciding =>
        actionsExecuted + 1 = turns /\ reasoningCalls = turns
  /\ stage = "modelError" =>
        actionsExecuted + 1 = turns /\ reasoningCalls \in {actionsExecuted, turns}
  /\ stage = "returned" =>
        actionsExecuted <= reasoningCalls /\ reasoningCalls <= turns

(* The second check compares turns strictly, the first one before counting. *)
TurnsLimited ==
  limits.turns # Unlimited =>
    /\ stage # "threw" => turns <= limits.turns
    /\ stage \in {"check"} \cup Preparing \cup Reporting =>
          turns < limits.turns \/ turns = 0
    /\ stage = "returned" => actionsExecuted < limits.turns \/ turns = 0

BudgetCompared ==
  /\ stage \notin Counted \cup {"modelError"} \cup Ended => ~OverBudget
  /\ stage \in Asking => ~NoOutputLeft
  /\ terminalState = "resolved" => ~OverBudget

DeadlinePolled ==
  /\ afterDeadline <= 1
  /\ afterDeadline = 1 => late
  /\ stage \in Committed => afterDeadline = 0

CancelPolled == cancelled => stage \notin Committed

Control ==
  /\ ControlType
  /\ CountersMarch
  /\ TurnsLimited
  /\ BudgetCompared
  /\ DeadlinePolled
  /\ CancelPolled

LEMMA ControlInit == Init => Control
  <1> SUFFICES ASSUME Init PROVE Control
    OBVIOUS
  <1> USE AgentAssumption DEF Init
  <1>0. limits \in [turns : Nat \cup {Unlimited}, timed : BOOLEAN,
                    total : Nat \cup {Unlimited},
                    max : [Resource -> Nat \cup {Unlimited}]]
    OBVIOUS
  <1>1. completion \in [usage : Usage, reply : Reply]
    <2>1. PICK u \in Usage : TRUE
      OBVIOUS
    <2>2. [usage |-> u, reply |-> "act"] \in [usage : Usage, reply : Reply]
      BY DEF Reply
    <2> QED BY <2>2
  <1>2. ControlType
    BY <1>1 DEF ControlType, Resource
  <1>3. CountersMarch /\ TurnsLimited /\ DeadlinePolled /\ CancelPolled
    BY <1>0 DEF CountersMarch, TurnsLimited, DeadlinePolled, CancelPolled, Preparing,
      Reporting, Asking, Counted, Deciding, Committed
  <1>4. BudgetCompared
    BY <1>0 DEF BudgetCompared, OverBudget, Exceeds, Asking, Resource
  <1> QED BY <1>2, <1>3, <1>4 DEF Control

\* The comparisons with the limits depend on the totals and the limits only.
LEMMA BudgetFrame ==
  UNCHANGED <<used, limits>> =>
    (OverBudget' <=> OverBudget) /\ (NoOutputLeft' <=> NoOutputLeft)
  BY DEF OverBudget, NoOutputLeft, Exceeds

\* What a budget check that passes tells.
LEMMA CheckPassed ==
  ControlType /\ StopReason = "none" =>
    ~cancelled /\ ~late /\ (limits.turns # Unlimited => turns < limits.turns)
  BY AgentAssumption DEF ControlType, StopReason

-----------------------------------------------------------------------------
(* Most steps move the stage and touch nothing the control invariant       *)
(* speaks of; these are the moves they make.                               *)
Quiet ==
  /\ UNCHANGED <<limits, cancelled, late, turns, actionsExecuted, reasoningCalls, used,
                 completion, afterDeadline>>
  /\ callOk' \in BOOLEAN
  /\ terminalState' = "resolved" => terminalState = "resolved"
  /\ stage \notin Ended

Moves ==
  \/ stage' = "threw"
  \/ stage' = "returned"
     /\ stage \in {"check", "modelError"} \cup Counted \cup Deciding \cup Reporting
  \/ stage \in Asking /\ stage' \in Asking \ Committed
  \/ stage = "openModel" /\ stage' = "request"
  \/ stage \in Asking \cup Counted /\ stage' = "modelError"
  \/ stage \in Counted /\ stage' \in Counted
  \/ stage \in Deciding /\ stage' \in Deciding
  \/ stage \in Preparing /\ stage' \in Preparing
  \/ stage \in Reporting /\ stage' \in Reporting \cup {"check"}

LEMMA QuietMove == Control /\ Quiet /\ Moves => Control'
  <1> SUFFICES ASSUME Control, Quiet, Moves PROVE Control'
    OBVIOUS
  <1> USE DEF Asking, Counted, Deciding, Preparing, Reporting, Committed, Ended
  <1>1. ControlType'
    BY DEF Control, ControlType, Quiet, Moves
  <1>2. CountersMarch'
    BY DEF Control, ControlType, CountersMarch, Quiet, Moves
  <1>3. TurnsLimited'
    BY AgentAssumption
    DEF Control, ControlType, CountersMarch, TurnsLimited, Quiet, Moves
  <1>4. BudgetCompared'
    <2>1. (OverBudget' <=> OverBudget) /\ (NoOutputLeft' <=> NoOutputLeft)
      BY BudgetFrame DEF Quiet
    <2> QED BY <2>1 DEF Control, ControlType, BudgetCompared, Quiet, Moves
  <1>5. DeadlinePolled' /\ CancelPolled'
    BY DEF Control, ControlType, DeadlinePolled, CancelPolled, Quiet, Moves
  <1> QED BY <1>1, <1>2, <1>3, <1>4, <1>5 DEF Control

\* The quiet steps of the head of the loop and the provider's call.
LEMMA QuietLoop ==
  Control /\ (BudgetStop \/ StartModel \/ RefuseCall \/ UpdateCall \/ NoteCall \/ EndCall) => Quiet /\ Moves
  <1> SUFFICES ASSUME Control, BudgetStop \/ StartModel \/ RefuseCall \/ UpdateCall \/ NoteCall \/ EndCall PROVE Quiet /\ Moves
    OBVIOUS
  <1> USE DEF Control, ControlType, Quiet, Moves, Asking, Counted, Deciding, Preparing,
        Reporting, Committed, Ended, Goto, Return, Try, Throw, environment, counters,
        result, history
  <1>1. CASE BudgetStop
    BY <1>1 DEF BudgetStop, StopReason
  <1>2. CASE StartModel
    BY <1>2 DEF StartModel
  <1>3. CASE RefuseCall
    BY <1>3 DEF RefuseCall
  <1>4. CASE UpdateCall
    BY <1>4 DEF UpdateCall, CallThrows
  <1>5. CASE NoteCall
    BY <1>5 DEF NoteCall, CallThrows
  <1>6. CASE EndCall
    BY <1>6 DEF EndCall, CallThrows
  <1> QED BY <1>1, <1>2, <1>3, <1>4, <1>5, <1>6

\* The quiet steps of the span of the completion.
LEMMA QuietModel ==
  Control /\ (UpdateModel \/ NoteModel \/ ModelError) => Quiet /\ Moves
  <1> SUFFICES ASSUME Control, UpdateModel \/ NoteModel \/ ModelError PROVE Quiet /\ Moves
    OBVIOUS
  <1> USE DEF Control, ControlType, Quiet, Moves, Asking, Counted, Deciding, Preparing,
        Reporting, Committed, Ended, Goto, Return, Try, Throw, environment, counters,
        result, history
  <1>1. CASE UpdateModel
    BY <1>1 DEF UpdateModel
  <1>2. CASE NoteModel
    BY <1>2 DEF NoteModel
  <1>3. CASE ModelError
    BY <1>3 DEF ModelError
  <1> QED BY <1>1, <1>2, <1>3

\* The quiet steps of acting on a completion.
LEMMA QuietReply ==
  Control /\ (InvalidReply \/ ActReply \/ NoteAction \/ StartTool) => Quiet /\ Moves
  <1> SUFFICES ASSUME Control, InvalidReply \/ ActReply \/ NoteAction \/ StartTool PROVE Quiet /\ Moves
    OBVIOUS
  <1> USE DEF Control, ControlType, Quiet, Moves, Asking, Counted, Deciding, Preparing,
        Reporting, Committed, Ended, Goto, Return, Try, Throw, environment, counters,
        result, history
  <1>1. CASE InvalidReply
    BY <1>1 DEF InvalidReply
  <1>2. CASE ActReply
    BY <1>2 DEF ActReply
  <1>3. CASE NoteAction
    BY <1>3 DEF NoteAction
  <1>4. CASE StartTool
    BY <1>4 DEF StartTool
  <1> QED BY <1>1, <1>2, <1>3, <1>4

\* The quiet steps of reporting on the operation.
LEMMA QuietTool ==
  Control /\ (NoteTool \/ EndTool \/ NoteToolError \/ EndToolError) => Quiet /\ Moves
  <1> SUFFICES ASSUME Control, NoteTool \/ EndTool \/ NoteToolError \/ EndToolError PROVE Quiet /\ Moves
    OBVIOUS
  <1> USE DEF Control, ControlType, Quiet, Moves, Asking, Counted, Deciding, Preparing,
        Reporting, Committed, Ended, Goto, Return, Try, Throw, environment, counters,
        result, history
  <1>1. CASE NoteTool
    BY <1>1 DEF NoteTool
  <1>2. CASE EndTool
    BY <1>2 DEF EndTool
  <1>3. CASE NoteToolError
    BY <1>3 DEF NoteToolError
  <1>4. CASE EndToolError
    BY <1>4 DEF EndToolError
  <1> QED BY <1>1, <1>2, <1>3, <1>4

-----------------------------------------------------------------------------
\* Raising the totals keeps the control invariant: they are not compared with
\* the limits before the model's span has ended.
LEMMA ControlAccount == Control /\ Account => Control'
  <1> SUFFICES ASSUME Control, Account PROVE Control'
    OBVIOUS
  <1> USE DEF Asking, Counted, Deciding, Preparing, Reporting, Committed, Ended
  <1>1. used' \in [Resource -> Nat]
    <2>1. completion.usage \in [Resource -> Nat]
      BY AgentAssumption DEF Control, ControlType
    <2> QED BY <2>1 DEF Account, Control, ControlType
  <1>2. /\ UNCHANGED <<limits, cancelled, late, turns, actionsExecuted, callOk, completion,
                       afterDeadline, terminalState>>
        /\ reasoningCalls' = reasoningCalls + 1
        /\ stage = "account" /\ stage' = "updateModel"
    BY DEF Account, Goto, result, environment, history
  <1>3. ControlType'
    BY <1>1, <1>2 DEF Control, ControlType
  <1>4. (CountersMarch /\ TurnsLimited /\ DeadlinePolled /\ CancelPolled)'
    BY <1>2, AgentAssumption DEF Control, ControlType, CountersMarch, TurnsLimited,
      DeadlinePolled, CancelPolled
  <1>5. BudgetCompared'
    BY <1>2 DEF Control, ControlType, BudgetCompared
  <1> QED BY <1>3, <1>4, <1>5 DEF Control

\* Taking an action keeps the control invariant: the check before it saw
\* neither a cancellation nor the deadline, and a turn below the limit.
LEMMA ControlTakeAction == Control /\ TakeAction => Control'
  <1> SUFFICES ASSUME Control, TakeAction PROVE Control'
    OBVIOUS
  <1>1. ~cancelled /\ ~late /\ (limits.turns # Unlimited => turns < limits.turns)
    BY CheckPassed DEF TakeAction, Control
  <1>2. /\ stage = "recheck" /\ stage' = "noteAction"
        /\ actionsExecuted' = actionsExecuted + 1
        /\ UNCHANGED <<limits, cancelled, late, turns, reasoningCalls, used, callOk,
                       completion, terminalState, afterDeadline>>
    BY DEF TakeAction, Goto, result, environment, history
  <1>3. ControlType'
    BY <1>2 DEF Control, ControlType, Preparing
  <1>4. CountersMarch' /\ TurnsLimited'
    BY <1>1, <1>2 DEF Control, ControlType, CountersMarch, TurnsLimited, Asking, Counted,
      Deciding, Preparing, Reporting
  <1>5. BudgetCompared'
    BY <1>2, BudgetFrame DEF Control, BudgetCompared, ControlType, Asking, Counted, Ended
  <1>6. DeadlinePolled' /\ CancelPolled'
    BY <1>1, <1>2 DEF Control, ControlType, DeadlinePolled, CancelPolled
  <1> QED BY <1>3, <1>4, <1>5, <1>6 DEF Control

\* Beginning a turn: the check before it saw neither a cancellation nor the
\* deadline, and fewer turns than the limit; no output left ends the run.
LEMMA ControlNextTurn == Control /\ NextTurn => Control'
  <1> SUFFICES ASSUME Control, NextTurn PROVE Control'
    OBVIOUS
  <1>1. ~cancelled /\ ~late /\ (limits.turns # Unlimited => turns < limits.turns)
    BY CheckPassed DEF NextTurn, Control
  <1>2. /\ stage = "check" /\ turns' = turns + 1
        /\ UNCHANGED <<limits, cancelled, late, actionsExecuted, reasoningCalls, used, callOk,
                       completion, afterDeadline>>
        /\ IF NoOutputLeft THEN stage' = "returned" /\ terminalState' = "budget_exhausted"
           ELSE stage' = "openModel" /\ terminalState' = terminalState
    BY DEF NextTurn, Goto, Return, result, environment, history
  <1> USE DEF Asking, Counted, Deciding, Preparing, Reporting, Committed, Ended
  <1>3. ControlType'
    BY <1>2 DEF Control, ControlType
  <1>4. CountersMarch' /\ TurnsLimited'
    BY <1>1, <1>2, AgentAssumption DEF Control, ControlType, CountersMarch, TurnsLimited
  <1>5. BudgetCompared'
    <2>1. (OverBudget' <=> OverBudget) /\ (NoOutputLeft' <=> NoOutputLeft)
      BY <1>2, BudgetFrame
    <2> QED BY <1>2, <2>1 DEF Control, ControlType, BudgetCompared
  <1>6. DeadlinePolled' /\ CancelPolled'
    BY <1>1, <1>2 DEF Control, ControlType, DeadlinePolled, CancelPolled
  <1> QED BY <1>3, <1>4, <1>5, <1>6 DEF Control

\* Sending a request or executing an operation: the only steps that begin
\* work, from a stage no work began late at.
LEMMA ControlWork == Control /\ (StartCall \/ Execute) => Control'
  <1> SUFFICES ASSUME Control, StartCall \/ Execute PROVE Control'
    OBVIOUS
  <1> USE DEF Asking, Counted, Deciding, Preparing, Reporting, Committed, Ended
  <1>1. /\ UNCHANGED <<limits, cancelled, late, turns, actionsExecuted, reasoningCalls, used,
                       callOk, completion, terminalState>>
        /\ afterDeadline' \in {Late, afterDeadline}
        /\ \/ stage = "request" /\ stage' \in {"await", "modelError"}
           \/ stage = "execute" /\ stage' \in {"noteTool", "toolError"}
    <2>1. CASE StartCall
      BY <2>1 DEF StartCall, Try, Goto, environment, counters, result
    <2>2. CASE Execute
      BY <2>2 DEF Execute, Goto, environment, counters, result
    <2> QED BY <2>1, <2>2
  <1>2. DeadlinePolled' /\ CancelPolled' /\ afterDeadline' \in Nat
    BY <1>1 DEF Control, ControlType, DeadlinePolled, CancelPolled, Late
  <1>3. ControlType'
    BY <1>1, <1>2 DEF Control, ControlType
  <1>4. CountersMarch' /\ TurnsLimited'
    BY <1>1, AgentAssumption DEF Control, ControlType, CountersMarch, TurnsLimited
  <1>5. BudgetCompared'
    <2>1. (OverBudget' <=> OverBudget) /\ (NoOutputLeft' <=> NoOutputLeft)
      BY <1>1, BudgetFrame
    <2> QED BY <1>1, <2>1 DEF Control, ControlType, BudgetCompared
  <1> QED BY <1>2, <1>3, <1>4, <1>5 DEF Control

\* The comparison with the limits, and the one step that calls a run resolved.
LEMMA ControlCompare == Control /\ (EndModel \/ FinishReply) => Control'
  <1> SUFFICES ASSUME Control, EndModel \/ FinishReply PROVE Control'
    OBVIOUS
  <1> USE DEF Asking, Counted, Deciding, Preparing, Reporting, Committed, Ended
  <1>1. /\ UNCHANGED <<limits, cancelled, late, turns, actionsExecuted, reasoningCalls, used,
                       callOk, completion, afterDeadline>>
        /\ \/ stage = "endModel" /\ stage' \in {"returned", "modelError", "parse"}
              /\ (stage' = "parse" => ~OverBudget)
              /\ terminalState' \in {terminalState, "budget_exhausted"}
           \/ stage = "parse" /\ stage' = "returned"
    <2>1. CASE EndModel
      BY <2>1 DEF EndModel, Try, Goto, Return, environment, counters, result, history
    <2>2. CASE FinishReply
      BY <2>2 DEF FinishReply, Return, environment, counters, history
    <2> QED BY <2>1, <2>2
  <1>3. ControlType'
    BY <1>1 DEF Control, ControlType
  <1>4. CountersMarch' /\ TurnsLimited'
    BY <1>1, AgentAssumption DEF Control, ControlType, CountersMarch, TurnsLimited
  <1>5. BudgetCompared'
    <2>1. (OverBudget' <=> OverBudget) /\ (NoOutputLeft' <=> NoOutputLeft)
      BY <1>1, BudgetFrame
    <2> QED BY <1>1, <2>1 DEF Control, ControlType, BudgetCompared
  <1>6. DeadlinePolled' /\ CancelPolled'
    BY <1>1 DEF Control, ControlType, DeadlinePolled, CancelPolled
  <1> QED BY <1>3, <1>4, <1>5, <1>6 DEF Control

\* The provider's answers, the user's interrupt and the clock.
LEMMA ControlEnvironment ==
  Control /\ (Provider \/ Interrupt \/ DeadlinePasses \/ UNCHANGED vars) => Control'
  <1> SUFFICES ASSUME Control,
                      Provider \/ Interrupt \/ DeadlinePasses \/ UNCHANGED vars
               PROVE Control'
    OBVIOUS
  <1> USE DEF Asking, Counted, Deciding, Preparing, Reporting, Committed, Ended
  <1> DEFINE Effect ==
        /\ UNCHANGED <<limits, turns, actionsExecuted, reasoningCalls, used, terminalState,
                       afterDeadline>>
        /\ callOk' \in BOOLEAN
        /\ completion' \in [usage : Usage, reply : Reply]
        /\ \/ UNCHANGED <<stage, cancelled, late>>
           \/ stage = "await" /\ stage' \in {"await", "updateCall", "endCall"}
              /\ late' = late /\ cancelled' \in BOOLEAN
           \/ UNCHANGED <<stage, cancelled>> /\ late' = TRUE
  <1>1. Effect
    <2> USE DEF Control, ControlType, Goto, environment, counters, result, history
    <2>1. ASSUME NEW u \in Usage, NEW r \in Reply, Answer([usage |-> u, reply |-> r])
          PROVE Effect
      BY <2>1 DEF Answer
    <2>2. ASSUME NEW next \in {"updateCall", "endCall"}, CallFails(next)
          PROVE Effect
      BY <2>2 DEF CallFails
    <2>3. CASE Interrupt
      BY <2>3 DEF Interrupt
    <2>4. CASE DeadlinePasses
      BY <2>4 DEF DeadlinePasses
    <2>5. CASE UNCHANGED vars
      BY <2>5 DEF vars
    <2> QED BY <2>1, <2>2, <2>3, <2>4, <2>5 DEF Provider
  <1>3. ControlType'
    BY <1>1 DEF Control, ControlType
  <1>4. CountersMarch' /\ TurnsLimited'
    BY <1>1, AgentAssumption DEF Control, ControlType, CountersMarch, TurnsLimited
  <1>5. BudgetCompared'
    <2>1. (OverBudget' <=> OverBudget) /\ (NoOutputLeft' <=> NoOutputLeft)
      BY <1>1, BudgetFrame
    <2> QED BY <1>1, <2>1 DEF Control, ControlType, BudgetCompared
  <1>6. DeadlinePolled' /\ CancelPolled'
    BY <1>1 DEF Control, ControlType, DeadlinePolled, CancelPolled
  <1> QED BY <1>3, <1>4, <1>5, <1>6 DEF Control

LEMMA ControlStep == Control /\ [Next]_vars => Control'
  BY QuietMove, QuietLoop, QuietModel, QuietReply, QuietTool, ControlAccount,
     ControlTakeAction, ControlNextTurn, ControlWork, ControlCompare, ControlEnvironment
  DEF Next, Step, Finished

THEOREM AgentControl == Spec => []Control
  BY ControlInit, ControlStep, PTL DEF Spec

\* For every set of limits: a request is sent and an operation executed only
\* while what was reported so far is within the limits, and a resolved run
\* never went over one of them.
THEOREM BudgetIsHeld == Spec => []BudgetHolds
  <1>1. Control => BudgetHolds
    BY DEF Control, ControlType, BudgetCompared, TurnsLimited, BudgetHolds, Asking,
      Counted, Ended
  <1> QED BY <1>1, AgentControl, PTL

\* However long the run: at most one request or operation begins after the
\* deadline.
THEOREM DeadlineIsPolled == Spec => []DeadlineOverrun
  <1>1. Control => DeadlineOverrun
    BY DEF Control, DeadlinePolled, DeadlineOverrun
  <1> QED BY <1>1, AgentControl, PTL

-----------------------------------------------------------------------------
(* No step but Execute executes an operation, and no step but StartCall    *)
(* sends a request.                                                        *)
Restful == executed' = executed /\ (stage' = "await" => stage = "await")

LEMMA RestfulStep == Step => Restful \/ StartCall \/ Execute
  <1> SUFFICES ASSUME Step, ~StartCall, ~Execute PROVE Restful
    OBVIOUS
  <1> USE DEF Restful, Goto, Return, Try, Throw, history
  <1>1. CASE BudgetStop
    BY <1>1 DEF BudgetStop
  <1>2. CASE NextTurn
    BY <1>2 DEF NextTurn
  <1>3. CASE StartModel
    BY <1>3 DEF StartModel
  <1>4. CASE RefuseCall
    BY <1>4 DEF RefuseCall
  <1>5. CASE UpdateCall
    BY <1>5 DEF UpdateCall, CallThrows
  <1>6. CASE NoteCall
    BY <1>6 DEF NoteCall, CallThrows
  <1>7. CASE EndCall
    BY <1>7 DEF EndCall, CallThrows
  <1>8. CASE Account
    BY <1>8 DEF Account
  <1>9. CASE UpdateModel
    BY <1>9 DEF UpdateModel
  <1>10. CASE NoteModel
    BY <1>10 DEF NoteModel
  <1>11. CASE EndModel
    BY <1>11 DEF EndModel
  <1>12. CASE ModelError
    BY <1>12 DEF ModelError
  <1>13. CASE InvalidReply
    BY <1>13 DEF InvalidReply
  <1>14. CASE FinishReply
    BY <1>14 DEF FinishReply
  <1>15. CASE ActReply
    BY <1>15 DEF ActReply
  <1>16. CASE TakeAction
    BY <1>16 DEF TakeAction
  <1>17. CASE NoteAction
    BY <1>17 DEF NoteAction
  <1>18. CASE StartTool
    BY <1>18 DEF StartTool
  <1>19. CASE NoteTool
    BY <1>19 DEF NoteTool
  <1>20. CASE EndTool
    BY <1>20 DEF EndTool
  <1>21. CASE NoteToolError
    BY <1>21 DEF NoteToolError
  <1>22. CASE EndToolError
    BY <1>22 DEF EndToolError
  <1> QED BY <1>1, <1>2, <1>3, <1>4, <1>5, <1>6, <1>7, <1>8, <1>9, <1>10, <1>11, <1>12, <1>13, <1>14, <1>15, <1>16, <1>17, <1>18, <1>19, <1>20, <1>21, <1>22 DEF Step

\* After a cancellation was requested no request is sent and no operation
\* executed, in a run of any length.
THEOREM CancellationIsFinal == Spec => NoWorkAfterCancel
  <1> DEFINE Rest == cancelled => executed' = executed /\ (stage' = "await" => stage = "await")
  <1>1. Control /\ [Next]_vars => [Rest]_vars
    <2> SUFFICES ASSUME Control, Next PROVE Rest
      OBVIOUS
    <2>1. CASE StartCall \/ Execute
      BY <2>1 DEF Control, CancelPolled, Committed, StartCall, Execute, Try
    <2>2. CASE Step /\ ~(StartCall \/ Execute)
      BY <2>2, RestfulStep DEF Restful
    <2>3. CASE Provider
      BY <2>3 DEF Provider, Answer, CallFails, Goto, history
    <2>4. CASE Interrupt \/ DeadlinePasses \/ Finished
      BY <2>4 DEF Interrupt, DeadlinePasses, Finished, vars, history
    <2> QED BY <2>1, <2>2, <2>3, <2>4 DEF Next
  <1>2. NoWorkAfterCancel <=> [][Rest]_vars
    BY DEF NoWorkAfterCancel
  <1> QED BY <1>1, <1>2, AgentControl, PTL DEF Spec

-----------------------------------------------------------------------------
(* Operations and their evidence.  A span that has a handle or a row keeps *)
(* having one, whatever the writer does.                                   *)
Tables ==
  /\ handle = [s \in Span |-> handle[s]]
  /\ rows = [s \in Span |-> rows[s]]

Kept(s) ==
  /\ handle[s] # "none" => handle'[s] # "none"
  /\ rows[s].status # "absent" => rows'[s].status # "absent"

Keeps == Tables' /\ \A s \in Span : Kept(s)

LEMMA WriterKeeps ==
  ASSUME Tables, NEW t, NEW e, NEW status \in W!FinalStatus,
         \/ W!StartSpan(t, e) \/ W!StartSpanUnstored(t, e)
         \/ W!UpdateSpan(t) \/ W!UpdateSpanUnstored(t)
         \/ W!FinishSpan(t, status) \/ W!FinishSpanUnstored(t) \/ W!FinishSpanRejected(t)
         \/ W!HandleEvent(t) \/ W!RecordEvent(e)
         \/ UNCHANGED writer
  PROVE  Keeps
  <1> USE DEF Tables, Keeps, Kept
  <1>1. CASE W!StartSpan(t, e)
    BY <1>1 DEF W!StartSpan, W!OpenInMemory, W!UpsertSpan
  <1>2. CASE W!StartSpanUnstored(t, e)
    BY <1>2 DEF W!StartSpanUnstored, W!OpenInMemory, W!UpsertFails
  <1>3. CASE W!UpdateSpan(t)
    BY <1>3 DEF W!UpdateSpan, W!UpdateInMemory, W!UpsertSpan
  <1>4. CASE W!UpdateSpanUnstored(t)
    BY <1>4 DEF W!UpdateSpanUnstored, W!UpdateInMemory, W!UpsertFails
  <1>5. CASE W!FinishSpan(t, status)
    BY <1>5 DEF W!FinishSpan, W!FinishInMemory, W!UpsertSpan, W!FinalStatus
  <1>6. CASE W!FinishSpanUnstored(t)
    BY <1>6 DEF W!FinishSpanUnstored, W!FinishInMemory, W!UpsertFails
  <1>7. CASE W!FinishSpanRejected(t)
    BY <1>7 DEF W!FinishSpanRejected
  <1>8. CASE W!HandleEvent(t) \/ W!RecordEvent(e)
    BY <1>8 DEF W!HandleEvent, W!RecordEvent, W!memory
  <1>9. CASE UNCHANGED writer
    BY <1>9 DEF writer
  <1> QED BY <1>1, <1>2, <1>3, <1>4, <1>5, <1>6, <1>7, <1>8, <1>9

Evidence(s) == handle[s] # "none" /\ rows[s].status # "absent"

(* How many counted actions were executed. *)
Done == IF stage \in Preparing THEN actionsExecuted - 1 ELSE actionsExecuted

History ==
  /\ Tables
  /\ span \in [model : W!SpanOrNone, call : W!SpanOrNone, tool : W!SpanOrNone]
  /\ executed \subseteq Span
  /\ IsFiniteSet(executed)
  /\ \A s \in executed : Evidence(s)
  /\ stage = "execute" => span.tool \in Span \ executed /\ Evidence(span.tool)
  /\ stage # "threw" => Cardinality(executed) = Done

LEMMA HistoryInit == Init => History
  BY AgentAssumption, FS_EmptySet
  DEF Init, History, Tables, Done, Preparing, W!SpanOrNone

(* What every step but StartTool and Execute does to the history. *)
Steady ==
  /\ Keeps
  /\ executed' = executed
  /\ stage' # "execute"
  /\ span' \in [model : W!SpanOrNone, call : W!SpanOrNone, tool : W!SpanOrNone]
  /\ stage' # "threw" => stage # "threw" /\ Done' = Done

LEMMA SteadyKeepsHistory == History /\ Steady => History'
  BY DEF History, Steady, Keeps, Kept, Evidence

LEMMA CallKeeps ==
  ASSUME Tables, NEW t
  PROVE  /\ W!StartSpan(t, NoSpan) \/ StartFails(t) => Keeps
         /\ W!UpdateSpan(t) \/ UpdateFails(t) => Keeps
         /\ W!HandleEvent(t) \/ W!RecordEvent(t) \/ EventFails(t) => Keeps
         /\ W!FinishSpan(t, "ok") \/ W!FinishSpan(t, "error") \/ EndFails(t) => Keeps
         /\ UNCHANGED writer => Keeps
  <1>0. "ok" \in W!FinalStatus /\ "error" \in W!FinalStatus
    BY DEF W!FinalStatus
  <1>1. W!StartSpan(t, NoSpan) \/ StartFails(t) => Keeps
    BY <1>0, WriterKeeps DEF StartFails
  <1>2. W!UpdateSpan(t) \/ UpdateFails(t) => Keeps
    BY <1>0, WriterKeeps DEF UpdateFails
  <1>3. W!HandleEvent(t) \/ W!RecordEvent(t) \/ EventFails(t) => Keeps
    BY <1>0, WriterKeeps DEF EventFails
  <1>4. W!FinishSpan(t, "ok") \/ W!FinishSpan(t, "error") \/ EndFails(t) => Keeps
    BY <1>0, WriterKeeps DEF EndFails
  <1>5. UNCHANGED writer => Keeps
    BY <1>0, WriterKeeps
  <1> QED BY <1>1, <1>2, <1>3, <1>4, <1>5

\* Steady steps: the head of the loop.
LEMMA SteadyLoop ==
  Control /\ History /\ (BudgetStop \/ NextTurn \/ StartModel) => Steady
  <1> SUFFICES ASSUME Control, History, BudgetStop \/ NextTurn \/ StartModel PROVE Steady
    OBVIOUS
  <1>0. Tables /\ actionsExecuted \in Nat
    BY DEF History, Control, ControlType
  <1> USE DEF History, Steady, Done, Preparing, Goto, Return, Try, Throw, counters, history
  <1>1. CASE BudgetStop
    <2>1. Keeps
      BY <1>1, <1>0, CallKeeps DEF BudgetStop
    <2> QED BY <1>1, <1>0, <2>1 DEF BudgetStop, StopReason
  <1>2. CASE NextTurn
    <2>1. Keeps
      BY <1>2, <1>0, CallKeeps DEF NextTurn
    <2> QED BY <1>2, <1>0, <2>1 DEF NextTurn
  <1>3. CASE StartModel
    <2>1. Keeps
      BY <1>3, <1>0, CallKeeps DEF StartModel
    <2> QED BY <1>3, <1>0, <2>1 DEF StartModel, IdsLeft, NextSpan, W!SpanOrNone
  <1> QED BY <1>1, <1>2, <1>3

\* Steady steps: the provider's call.
LEMMA SteadyCall ==
  Control /\ History /\ (StartCall \/ RefuseCall \/ UpdateCall \/ NoteCall \/ EndCall) => Steady
  <1> SUFFICES ASSUME Control, History, StartCall \/ RefuseCall \/ UpdateCall \/ NoteCall \/ EndCall PROVE Steady
    OBVIOUS
  <1>0. Tables /\ actionsExecuted \in Nat
    BY DEF History, Control, ControlType
  <1> USE DEF History, Steady, Done, Preparing, Goto, Return, Try, Throw, counters, history
  <1>1. CASE StartCall
    <2>1. Keeps
      BY <1>1, <1>0, CallKeeps DEF StartCall
    <2> QED BY <1>1, <1>0, <2>1 DEF StartCall, IdsLeft, NextSpan, W!SpanOrNone
  <1>2. CASE RefuseCall
    <2>1. Keeps
      BY <1>2, <1>0, CallKeeps DEF RefuseCall
    <2> QED BY <1>2, <1>0, <2>1 DEF RefuseCall
  <1>3. CASE UpdateCall
    <2>1. Keeps
      BY <1>3, <1>0, CallKeeps DEF UpdateCall
    <2> QED BY <1>3, <1>0, <2>1 DEF UpdateCall, CallThrows
  <1>4. CASE NoteCall
    <2>1. Keeps
      BY <1>4, <1>0, CallKeeps DEF NoteCall
    <2> QED BY <1>4, <1>0, <2>1 DEF NoteCall, CallThrows
  <1>5. CASE EndCall
    <2>1. Keeps
      BY <1>5, <1>0, CallKeeps DEF EndCall
    <2> QED BY <1>5, <1>0, <2>1 DEF EndCall, CallThrows
  <1> QED BY <1>1, <1>2, <1>3, <1>4, <1>5

\* Steady steps: accounting for a completion.
LEMMA SteadyModel ==
  Control /\ History /\ (Account \/ UpdateModel \/ NoteModel \/ EndModel \/ ModelError) => Steady
  <1> SUFFICES ASSUME Control, History, Account \/ UpdateModel \/ NoteModel \/ EndModel \/ ModelError PROVE Steady
    OBVIOUS
  <1>0. Tables /\ actionsExecuted \in Nat
    BY DEF History, Control, ControlType
  <1> USE DEF History, Steady, Done, Preparing, Goto, Return, Try, Throw, counters, history
  <1>1. CASE Account
    <2>1. Keeps
      BY <1>1, <1>0, CallKeeps DEF Account
    <2> QED BY <1>1, <1>0, <2>1 DEF Account
  <1>2. CASE UpdateModel
    <2>1. Keeps
      BY <1>2, <1>0, CallKeeps DEF UpdateModel
    <2> QED BY <1>2, <1>0, <2>1 DEF UpdateModel
  <1>3. CASE NoteModel
    <2>1. Keeps
      BY <1>3, <1>0, CallKeeps DEF NoteModel
    <2> QED BY <1>3, <1>0, <2>1 DEF NoteModel
  <1>4. CASE EndModel
    <2>1. Keeps
      BY <1>4, <1>0, CallKeeps DEF EndModel
    <2> QED BY <1>4, <1>0, <2>1 DEF EndModel
  <1>5. CASE ModelError
    <2>1. Keeps
      BY <1>5, <1>0, CallKeeps DEF ModelError
    <2> QED BY <1>5, <1>0, <2>1 DEF ModelError
  <1> QED BY <1>1, <1>2, <1>3, <1>4, <1>5

\* Steady steps: acting on a completion.
LEMMA SteadyReply ==
  Control /\ History /\ (InvalidReply \/ FinishReply \/ ActReply \/ TakeAction \/ NoteAction) => Steady
  <1> SUFFICES ASSUME Control, History, InvalidReply \/ FinishReply \/ ActReply \/ TakeAction \/ NoteAction PROVE Steady
    OBVIOUS
  <1>0. Tables /\ actionsExecuted \in Nat
    BY DEF History, Control, ControlType
  <1> USE DEF History, Steady, Done, Preparing, Goto, Return, Try, Throw, counters, history
  <1>1. CASE InvalidReply
    <2>1. Keeps
      BY <1>1, <1>0, CallKeeps DEF InvalidReply
    <2> QED BY <1>1, <1>0, <2>1 DEF InvalidReply
  <1>2. CASE FinishReply
    <2>1. Keeps
      BY <1>2, <1>0, CallKeeps DEF FinishReply
    <2> QED BY <1>2, <1>0, <2>1 DEF FinishReply
  <1>3. CASE ActReply
    <2>1. Keeps
      BY <1>3, <1>0, CallKeeps DEF ActReply
    <2> QED BY <1>3, <1>0, <2>1 DEF ActReply
  <1>4. CASE TakeAction
    <2>1. Keeps
      BY <1>4, <1>0, CallKeeps DEF TakeAction
    <2> QED BY <1>4, <1>0, <2>1 DEF TakeAction
  <1>5. CASE NoteAction
    <2>1. Keeps
      BY <1>5, <1>0, CallKeeps DEF NoteAction
    <2> QED BY <1>5, <1>0, <2>1 DEF NoteAction
  <1> QED BY <1>1, <1>2, <1>3, <1>4, <1>5

\* Steady steps: reporting on the operation.
LEMMA SteadyTool ==
  Control /\ History /\ (NoteTool \/ EndTool \/ NoteToolError \/ EndToolError) => Steady
  <1> SUFFICES ASSUME Control, History, NoteTool \/ EndTool \/ NoteToolError \/ EndToolError PROVE Steady
    OBVIOUS
  <1>0. Tables /\ actionsExecuted \in Nat
    BY DEF History, Control, ControlType
  <1> USE DEF History, Steady, Done, Preparing, Goto, Return, Try, Throw, counters, history
  <1>1. CASE NoteTool
    <2>1. Keeps
      BY <1>1, <1>0, CallKeeps DEF NoteTool
    <2> QED BY <1>1, <1>0, <2>1 DEF NoteTool
  <1>2. CASE EndTool
    <2>1. Keeps
      BY <1>2, <1>0, CallKeeps DEF EndTool
    <2> QED BY <1>2, <1>0, <2>1 DEF EndTool
  <1>3. CASE NoteToolError
    <2>1. Keeps
      BY <1>3, <1>0, CallKeeps DEF NoteToolError
    <2> QED BY <1>3, <1>0, <2>1 DEF NoteToolError
  <1>4. CASE EndToolError
    <2>1. Keeps
      BY <1>4, <1>0, CallKeeps DEF EndToolError
    <2> QED BY <1>4, <1>0, <2>1 DEF EndToolError
  <1> QED BY <1>1, <1>2, <1>3, <1>4

LEMMA SteadyEnvironment ==
  Control /\ History
    /\ (Provider \/ Interrupt \/ (DeadlinePasses /\ stage # "execute")) => Steady
  <1> SUFFICES ASSUME Control, History,
                      Provider \/ Interrupt \/ (DeadlinePasses /\ stage # "execute")
               PROVE Steady
    OBVIOUS
  <1>1. UNCHANGED writer
    BY DEF Provider, Answer, CallFails, Interrupt, DeadlinePasses
  <1>2. Keeps
    BY <1>1, CallKeeps DEF History
  <1> USE <1>2 DEF History, Steady, Done, Preparing, Goto, counters, history
  <1>3. CASE Provider
    BY <1>3 DEF Provider, Answer, CallFails
  <1>4. CASE Interrupt
    BY <1>4 DEF Interrupt
  <1>5. CASE DeadlinePasses /\ stage # "execute"
    BY <1>5 DEF DeadlinePasses, Ended
  <1> QED BY <1>3, <1>4, <1>5

\* The tool's span has a handle and a row before the operation is executed,
\* and its identifier belongs to no operation executed before.
LEMMA HistoryStartTool == Control /\ History /\ StartTool => History'
  <1> SUFFICES ASSUME Control, History, StartTool PROVE History'
    OBVIOUS
  <1>1. NextSpan \in Span /\ handle[NextSpan] = "none"
    BY DEF StartTool, IdsLeft, NextSpan, W!Fresh
  <1>2. Keeps
    BY CallKeeps DEF StartTool, Try, History
  <1>3. executed' = executed /\ stage = "openTool" /\ actionsExecuted' = actionsExecuted
    BY DEF StartTool, Try, history, counters
  <1>4. CASE stage' = "execute"
    <2>1. /\ W!StartSpan(NextSpan, NoSpan)
          /\ span' = [span EXCEPT !.tool = NextSpan]
      BY <1>4 DEF StartTool, Try, Goto, Throw
    <2>2. handle'[NextSpan] = "live" /\ rows'[NextSpan].status = "running"
      BY <1>1, <2>1 DEF W!StartSpan, W!UpsertSpan, History, Tables
    <2>3. /\ span'.tool = NextSpan
          /\ span' \in [model : W!SpanOrNone, call : W!SpanOrNone, tool : W!SpanOrNone]
      BY <1>1, <2>1 DEF History, W!SpanOrNone
    <2>4. NextSpan \notin executed
      BY <1>1 DEF History, Evidence
    <2>5. Done' = Done
      BY <1>3, <1>4 DEF Done, Preparing
    <2> QED BY <1>1, <1>2, <1>3, <1>4, <2>2, <2>3, <2>4, <2>5
            DEF History, Keeps, Kept, Evidence
  <1>5. CASE stage' = "threw"
    BY <1>2, <1>3, <1>5 DEF StartTool, Try, Goto, History, Keeps, Kept, Evidence
  <1> QED BY <1>4, <1>5 DEF StartTool, Try, Goto, Throw

\* Executing an operation adds one to what was executed, and the action was
\* counted before.
LEMMA HistoryExecute == Control /\ History /\ Execute => History'
  <1> SUFFICES ASSUME Control, History, Execute PROVE History'
    OBVIOUS
  <1>1. /\ executed' = executed \cup {span.tool}
        /\ span.tool \in Span \ executed /\ Evidence(span.tool)
        /\ stage = "execute" /\ stage' \in {"noteTool", "toolError"}
        /\ UNCHANGED <<span, actionsExecuted>>
    BY DEF Execute, History, Goto, counters
  <1>2. Keeps
    BY CallKeeps DEF Execute, History
  <1>3. /\ IsFiniteSet(executed')
        /\ Cardinality(executed') = Cardinality(executed) + 1
    BY <1>1, FS_AddElement DEF History
  <1>4. Cardinality(executed) = actionsExecuted - 1
    BY <1>1 DEF History, Done, Preparing
  <1>5. Cardinality(executed') = Done'
    BY <1>1, <1>3, <1>4 DEF Done, Preparing, Control, ControlType
  <1> QED BY <1>1, <1>2, <1>3, <1>5 DEF History, Keeps, Kept, Evidence

LEMMA HistoryStep == Control /\ History /\ [Next]_vars => History'
  <1> SUFFICES ASSUME Control, History, [Next]_vars PROVE History'
    OBVIOUS
  <1>1. CASE Step
    BY <1>1, SteadyKeepsHistory, SteadyLoop, SteadyCall, SteadyModel, SteadyReply,
       SteadyTool, HistoryStartTool, HistoryExecute DEF Step
  <1>2. CASE Provider \/ Interrupt \/ (DeadlinePasses /\ stage # "execute")
    BY <1>2, SteadyKeepsHistory, SteadyEnvironment
  <1>3. CASE DeadlinePasses \/ UNCHANGED vars
    BY <1>3 DEF DeadlinePasses, vars, writer, counters, history, History, Tables, Evidence,
      Done
  <1> QED BY <1>1, <1>2, <1>3 DEF Next, Finished

THEOREM AgentHistory == Spec => [](Control /\ History)
  BY ControlInit, ControlStep, HistoryInit, HistoryStep, PTL DEF Spec

\* No operation of any run is executed without a row in the store that was
\* there before it.
THEOREM EffectsTraced == Spec => []EffectsAreTraced
  <1>1. History => EffectsAreTraced
    BY DEF History, Evidence, EffectsAreTraced
  <1> QED BY <1>1, AgentHistory, PTL

\* The counts of a result are those of what happened, on every path that
\* returns, and the last allowed turn executes nothing.
THEOREM CountsCorrect == Spec => []CountsAreHonest
  <1>1. Control /\ History => CountsAreHonest
    BY DEF Control, CountersMarch, TurnsLimited, ControlType, History, Done, Preparing,
      CountsAreHonest
  <1> QED BY <1>1, AgentHistory, PTL

\* For every set of limits, no limit is overrun by more than one step.
THEOREM LimitsAreHeld == Spec => []LimitsHold
  <1>1. BudgetHolds /\ DeadlineOverrun => LimitsHold
    BY DEF LimitsHold
  <1> QED BY <1>1, BudgetIsHeld, DeadlineIsPolled, PTL

\* Every operation is traced before it runs, and counted when it did.
THEOREM AccountCorrect == Spec => []AccountIsTrue
  <1>1. CountsAreHonest /\ EffectsAreTraced => AccountIsTrue
    BY DEF AccountIsTrue
  <1> QED BY <1>1, CountsCorrect, EffectsTraced, PTL
-----------------------------------------------------------------------------
(* The agent as a client of the writer: its calls are steps of TraceWriter, *)
(* so what is proved of the writer holds while the agent drives it.         *)
Writer == INSTANCE TraceWriterProofs

SoundWriter == Writer!Inv

LEMMA SoundWriterParts ==
  SoundWriter =>
    /\ W!TypeOK
    /\ \A i, j \in DOMAIN activeSpanIds : activeSpanIds[i] = activeSpanIds[j] => i = j
    /\ \A s \in Span : s \in openSpans <=>
          \E i \in DOMAIN activeSpanIds : activeSpanIds[i] = s
  <1> SUFFICES ASSUME SoundWriter
               PROVE  /\ W!TypeOK
                      /\ \A i, j \in DOMAIN activeSpanIds :
                            activeSpanIds[i] = activeSpanIds[j] => i = j
                      /\ \A s \in Span : s \in openSpans <=>
                            \E i \in DOMAIN activeSpanIds : activeSpanIds[i] = s
    OBVIOUS
  <1>1. W!TypeOK
    BY DEF SoundWriter, Writer!Inv, Writer!TypeOK, W!TypeOK, Writer!SpanOrNone,
      W!SpanOrNone, Writer!Row, W!Row, Writer!FinalStatus, W!FinalStatus
  <1>2. Writer!ActiveIsOpen
    BY DEF SoundWriter, Writer!Inv
  <1> QED BY <1>1, <1>2 DEF Writer!ActiveIsOpen, Writer!ToSet

\* The two instances of the writer's module name the same calls.
LEMMA SameCalls ==
  ASSUME NEW s \in Span, NEW status, NEW e
  PROVE  /\ W!StartSpan(s, NoSpan) => Writer!StartSpan(s, NoSpan)
         /\ W!StartSpanUnstored(s, NoSpan) => Writer!StartSpanUnstored(s, NoSpan)
         /\ W!UpdateSpan(s) => Writer!UpdateSpan(s)
         /\ W!UpdateSpanUnstored(s) => Writer!UpdateSpanUnstored(s)
         /\ W!FinishSpan(s, status) => Writer!FinishSpan(s, status)
         /\ W!FinishSpanUnstored(s) => Writer!FinishSpanUnstored(s)
         /\ W!FinishSpanRejected(s) => Writer!FinishSpanRejected(s)
         /\ W!RecordEvent(e) => Writer!RecordEvent(e)
  <1>1. /\ W!UpsertFails => Writer!UpsertFails
        /\ \A row : W!UpsertSpan(s, row) => Writer!UpsertSpan(s, row)
    BY DEF W!UpsertFails, Writer!UpsertFails, W!UpsertSpan, Writer!UpsertSpan
  <1>2. W!OpenInMemory(s, NoSpan) => Writer!OpenInMemory(s, NoSpan)
    BY DEF W!OpenInMemory, Writer!OpenInMemory, W!Fresh, Writer!Fresh, W!ResolvedParent,
      Writer!ResolvedParent, W!Last, Writer!Last
  <1>3. W!UpdateInMemory(s) => Writer!UpdateInMemory(s)
    BY DEF W!UpdateInMemory, Writer!UpdateInMemory
  <1>4. W!FinishInMemory(s) => Writer!FinishInMemory(s)
    <2>1. W!RemoveFirst(activeSpanIds, s) = Writer!RemoveFirst(activeSpanIds, s)
      BY DEF W!RemoveFirst, Writer!RemoveFirst, W!SelectInSeq, Writer!SelectInSeq,
        W!RemoveAt, Writer!RemoveAt, W!Min, Writer!Min
    <2> QED BY <2>1 DEF W!FinishInMemory, Writer!FinishInMemory
  <1>5. W!StartSpan(s, NoSpan) => Writer!StartSpan(s, NoSpan)
    BY <1>1, <1>2 DEF W!StartSpan, Writer!StartSpan
  <1>6. W!StartSpanUnstored(s, NoSpan) => Writer!StartSpanUnstored(s, NoSpan)
    BY <1>1, <1>2 DEF W!StartSpanUnstored, Writer!StartSpanUnstored
  <1>7. /\ W!UpdateSpan(s) => Writer!UpdateSpan(s)
        /\ W!UpdateSpanUnstored(s) => Writer!UpdateSpanUnstored(s)
    BY <1>1, <1>3 DEF W!UpdateSpan, Writer!UpdateSpan, W!UpdateSpanUnstored,
      Writer!UpdateSpanUnstored
  <1>8. /\ W!FinishSpan(s, status) => Writer!FinishSpan(s, status)
        /\ W!FinishSpanUnstored(s) => Writer!FinishSpanUnstored(s)
    BY <1>1, <1>4 DEF W!FinishSpan, Writer!FinishSpan, W!FinishSpanUnstored,
      Writer!FinishSpanUnstored
  <1>9. W!FinishSpanRejected(s) => Writer!FinishSpanRejected(s)
    BY DEF W!FinishSpanRejected, Writer!FinishSpanRejected
  <1>10. W!RecordEvent(e) => Writer!RecordEvent(e)
    BY DEF W!RecordEvent, Writer!RecordEvent, W!memory, Writer!memory
  <1> QED BY <1>5, <1>6, <1>7, <1>8, <1>9, <1>10

\* Each call the agent makes, and each way it fails, keeps the writer sound.
LEMMA CallsAreSound ==
  ASSUME SoundWriter, NEW s \in Span
  PROVE  /\ W!StartSpan(s, NoSpan) \/ StartFails(s) => SoundWriter'
         /\ W!UpdateSpan(s) \/ UpdateFails(s) => SoundWriter'
         /\ W!HandleEvent(s) \/ W!RecordEvent(NoSpan) => SoundWriter'
         /\ W!FinishSpan(s, "ok") \/ W!FinishSpan(s, "error") \/ EndFails(s) => SoundWriter'
         /\ UNCHANGED writer => SoundWriter'
  <1> USE DEF SoundWriter
  <1>0. s \in Writer!SpanOrNone /\ NoSpan \in Writer!SpanOrNone
    BY DEF Writer!SpanOrNone
  <1>1. UNCHANGED writer => SoundWriter'
    <2>1. ASSUME UNCHANGED writer PROVE UNCHANGED Writer!vars
      BY <2>1 DEF writer, Writer!vars
    <2> QED BY <2>1, Writer!NextInv, AgentAssumption
  <1>2. W!StartSpan(s, NoSpan) \/ StartFails(s) => SoundWriter'
    BY <1>0, SameCalls, Writer!StartInv, AgentAssumption DEF StartFails
  <1>3. W!UpdateSpan(s) \/ UpdateFails(s) => SoundWriter'
    BY <1>1, SameCalls, Writer!UpdateInv, AgentAssumption DEF UpdateFails
  <1>4. W!HandleEvent(s) \/ W!RecordEvent(NoSpan) => SoundWriter'
    BY <1>0, SameCalls, Writer!RecordInv, AgentAssumption DEF W!HandleEvent
  <1>5. W!FinishSpan(s, "ok") \/ W!FinishSpan(s, "error") \/ EndFails(s) => SoundWriter'
    <2>1. "ok" \in Writer!FinalStatus /\ "error" \in Writer!FinalStatus
      BY DEF Writer!FinalStatus
    <2>2. W!FinishSpanRejected(s) => SoundWriter'
      BY SameCalls, Writer!RejectedInv, AgentAssumption
    <2>3. W!FinishSpanUnstored(s) => SoundWriter'
      BY SameCalls, Writer!FinishInv, AgentAssumption
    <2>4. W!FinishSpan(s, "ok") \/ W!FinishSpan(s, "error") => SoundWriter'
      BY <2>1, SameCalls, Writer!FinishInv, AgentAssumption
    <2> QED BY <1>1, <2>2, <2>3, <2>4 DEF EndFails
  <1> QED BY <1>1, <1>2, <1>3, <1>4, <1>5

-----------------------------------------------------------------------------
(* How the agent's spans nest, stage by stage: the stack of the writer and *)
(* the handles the loop still holds.                                       *)
Live(s) == s \in Span /\ handle[s] = "live"

Alone == {"check", "openModel", "parse", "recheck", "noteAction", "openTool"}
InModel == {"request", "account"} \cup Counted
InCall == {"await", "updateCall", "noteCall"}
InTool == {"execute", "noteTool", "endTool", "endToolError"}

ModelOnTop == activeSpanIds = <<RootSpan, span.model>>
CallOnTop == activeSpanIds = <<RootSpan, span.model, span.call>>
ToolOnTop == activeSpanIds = <<RootSpan, span.tool>>
OneLeft(base) ==
  activeSpanIds = base \/ \E left \in Span : activeSpanIds = Append(base, left)

(* A span whose end failed has a spent handle and may still be on the      *)
(* stack: that is why modelError and toolError only know what they know    *)
(* while their handle is live.                                             *)
Nested ==
  /\ stage \in Alone => activeSpanIds = <<RootSpan>>
  /\ stage \in InModel => Live(span.model) /\ ModelOnTop
  /\ stage \in InCall => Live(span.model) /\ Live(span.call) /\ CallOnTop
  /\ stage = "endCall" =>
        /\ Live(span.model) /\ span.call \in Span
        /\ CallOnTop \/ (ModelOnTop /\ ~Live(span.call))
  /\ stage = "modelError" =>
        /\ span.model \in Span
        /\ Live(span.model) => OneLeft(<<RootSpan, span.model>>)
  /\ stage \in InTool => Live(span.tool) /\ ToolOnTop
  /\ stage = "toolError" => span.tool \in Span /\ (Live(span.tool) => ToolOnTop)
  /\ stage = "returned" =>
        IF terminalState = "provider_error" THEN OneLeft(<<RootSpan>>)
        ELSE activeSpanIds = <<RootSpan>>

LEMMA EmptyIsSeq == \A S : <<>> \in Seq(S)
  OBVIOUS

\* The caller's span is open under nothing, with its row written.
LEMMA SoundInit == Init => SoundWriter /\ Nested
  <1> SUFFICES ASSUME Init PROVE SoundWriter /\ Nested
    OBVIOUS
  <1> USE AgentAssumption DEF Init
  <1>1. rows = [s \in Span |-> [status |-> IF s = RootSpan THEN "running" ELSE "absent",
                                parent |-> NoSpan, rev |-> 0]]
    BY DEF W!NoRow
  <1>2. Writer!TypeOK
    <2>1. ASSUME NEW s \in Span PROVE rows[s] \in Writer!Row
      <3>1. /\ rows[s] = [status |-> IF s = RootSpan THEN "running" ELSE "absent",
                          parent |-> NoSpan, rev |-> 0]
            /\ 0 \in 0..MaxRev
        BY <1>1
      <3> QED BY <3>1 DEF Writer!Row, Writer!SpanOrNone, Writer!FinalStatus
    <2>2. rows \in [Span -> Writer!Row]
      BY <1>1, <2>1
    <2>3. activeSpanIds \in Seq(Span)
      OBVIOUS
    <2>4. events \in Seq(Writer!SpanOrNone)
      BY EmptyIsSeq, Zenon
    <2>5. openSpans \subseteq Span
      OBVIOUS
    <2>6. parent \in [Span -> Writer!SpanOrNone]
      BY DEF Writer!SpanOrNone
    <2>7. rev \in [Span -> 0..MaxRev] /\ handle \in [Span -> {"none", "live", "ended"}]
      OBVIOUS
    <2> HIDE DEF Init
    <2> QED BY <2>2, <2>3, <2>4, <2>5, <2>6, <2>7 DEF Writer!TypeOK
  <1>3. Writer!ActiveIsOpen /\ Writer!ParentBelowChild /\ Writer!ParentWasOpened
    BY DEF Writer!ActiveIsOpen, Writer!ToSet, Writer!ParentBelowChild,
      Writer!ParentWasOpened
  <1>4. Writer!RowsFollowHandles /\ Writer!NoOrphanRows
    BY <1>1 DEF Writer!RowsFollowHandles, Writer!NoOrphanRows
  <1>5. Nested
    BY DEF Nested, Alone, InModel, InCall, InTool, Counted
  <1> QED BY <1>2, <1>3, <1>4, <1>5 DEF SoundWriter, Writer!Inv

LEMMA NextSpanIsFresh == IdsLeft => NextSpan \in Span /\ W!Fresh(NextSpan)
  BY DEF IdsLeft, NextSpan

\* What the calls do to the stack and the handles.
LEMMA StartEffect ==
  ASSUME SoundWriter, NEW s \in Span, W!StartSpan(s, NoSpan) \/ StartFails(s)
  PROVE  /\ activeSpanIds' = Append(activeSpanIds, s)
         /\ \A x \in Span : handle[x] = "live" => handle'[x] = "live"
         /\ W!StartSpan(s, NoSpan) => handle'[s] = "live"
         /\ StartFails(s) => handle' = handle
         /\ \A i \in DOMAIN activeSpanIds : activeSpanIds[i] # s
  <1>1. /\ W!TypeOK
        /\ \A x \in Span : x \in openSpans <=>
              \E i \in DOMAIN activeSpanIds : activeSpanIds[i] = x
    BY SoundWriterParts
  <1>2. W!OpenInMemory(s, NoSpan)
    BY DEF StartFails, W!StartSpan, W!StartSpanUnstored
  <1>3. activeSpanIds' = Append(activeSpanIds, s) /\ s \notin openSpans
    BY <1>2 DEF W!OpenInMemory, W!Fresh
  <1>4. handle' = [handle EXCEPT ![s] = "live"] \/ handle' = handle
    BY DEF StartFails, W!StartSpan, W!StartSpanUnstored
  <1>5. W!StartSpan(s, NoSpan) => handle'[s] = "live"
    BY <1>1 DEF W!StartSpan, W!TypeOK
  <1>6. StartFails(s) => handle' = handle
    BY DEF StartFails, W!StartSpanUnstored
  <1> QED BY <1>1, <1>3, <1>4, <1>5, <1>6 DEF W!TypeOK

LEMMA NoteEffect ==
  ASSUME NEW s,
         \/ W!UpdateSpan(s) \/ UpdateFails(s) \/ W!HandleEvent(s) \/ W!RecordEvent(s)
         \/ EventFails(s)
  PROVE  UNCHANGED <<activeSpanIds, handle>>
  <1>1. CASE W!UpdateSpan(s)
    BY <1>1 DEF W!UpdateSpan, W!UpdateInMemory
  <1>2. CASE UpdateFails(s)
    BY <1>2 DEF UpdateFails, W!UpdateSpanUnstored, W!UpdateInMemory, writer
  <1>3. CASE W!HandleEvent(s) \/ W!RecordEvent(s)
    BY <1>3 DEF W!HandleEvent, W!RecordEvent, W!memory
  <1>4. CASE EventFails(s)
    BY <1>4 DEF EventFails, writer
  <1> QED BY <1>1, <1>2, <1>3, <1>4

LEMMA EndEffect ==
  ASSUME SoundWriter, NEW s \in Span, NEW status,
         W!FinishSpan(s, status) \/ EndFails(s)
  PROVE  /\ \A x \in Span : x # s => handle'[x] = handle[x]
         /\ handle'[s] # "live"
         /\ W!FinishSpan(s, status) =>
               handle[s] = "live" /\ activeSpanIds' = W!RemoveFirst(activeSpanIds, s)
         /\ activeSpanIds' \in {activeSpanIds, W!RemoveFirst(activeSpanIds, s)}
         /\ handle[s] # "live" => activeSpanIds' = activeSpanIds
  <1>1. handle \in [Span -> {"none", "live", "ended"}]
    BY SoundWriterParts DEF W!TypeOK
  <1>2. CASE W!FinishSpan(s, status) \/ W!FinishSpanUnstored(s)
    <2>1. /\ handle[s] = "live" /\ handle' = [handle EXCEPT ![s] = "ended"]
          /\ activeSpanIds' = W!RemoveFirst(activeSpanIds, s)
      BY <1>2 DEF W!FinishSpan, W!FinishSpanUnstored, W!FinishInMemory
    <2> QED BY <1>1, <2>1
  <1>3. CASE W!FinishSpanRejected(s) /\ ~W!FinishSpan(s, status)
    <2>1. /\ handle[s] = "live" /\ handle' = [handle EXCEPT ![s] = "ended"]
          /\ activeSpanIds' = activeSpanIds
      BY <1>3 DEF W!FinishSpanRejected
    <2> QED BY <1>1, <1>3, <2>1
  <1>4. CASE handle[s] # "live" /\ UNCHANGED writer /\ ~W!FinishSpan(s, status)
    BY <1>4 DEF writer
  <1> QED BY <1>2, <1>3, <1>4 DEF EndFails

\* Ending a span takes exactly it from the short stacks the agent builds.
LEMMA ShortStacks ==
  ASSUME NEW a \in Span, NEW b \in Span, a # b
  PROVE  /\ W!RemoveFirst(<<a, b>>, b) = <<a>>
         /\ \A c \in Span : c # a /\ c # b =>
               /\ W!RemoveFirst(<<a, b, c>>, c) = <<a, b>>
               /\ W!RemoveFirst(<<a, b, c>>, b) = <<a, c>>
  <1>1. \A seq, e : W!RemoveFirst(seq, e) = Writer!RemoveFirst(seq, e)
    BY DEF W!RemoveFirst, Writer!RemoveFirst, W!SelectInSeq, Writer!SelectInSeq,
      W!RemoveAt, Writer!RemoveAt, W!Min, Writer!Min
  <1> QED BY <1>1, Writer!RemoveFromShortStack, AgentAssumption

-----------------------------------------------------------------------------
(* The steps that move between stages at which the stack looks the same.   *)
Inert ==
  /\ UNCHANGED <<activeSpanIds, handle, span>>
  /\ \/ stage' = "threw"
     \/ stage' = stage /\ terminalState' = terminalState
     \/ stage \in Alone /\ stage' \in Alone
     \/ stage \in Alone /\ stage' = "returned" /\ terminalState' # "provider_error"
     \/ stage \in InModel /\ stage' \in InModel \cup {"modelError"}
     \/ stage \in InCall /\ stage' \in InCall \cup {"endCall", "modelError"}
     \/ stage \in InTool /\ stage' \in InTool \cup {"toolError"}
     \/ stage = "toolError" /\ Live(span.tool) /\ stage' = "endToolError"

LEMMA AppendFacts ==
  ASSUME NEW S, NEW seq \in Seq(S), NEW e \in S
  PROVE  /\ Append(seq, e) \in Seq(S)
         /\ Len(Append(seq, e)) = Len(seq) + 1
         /\ \A i \in 1..Len(seq) : Append(seq, e)[i] = seq[i]
         /\ Append(seq, e)[Len(seq) + 1] = e
  OBVIOUS

LEMMA AppendToShort ==
  ASSUME NEW S, NEW a \in S, NEW b \in S, NEW c \in S
  PROVE  /\ Append(<<a>>, b) = <<a, b>>
         /\ Append(<<a, b>>, c) = <<a, b, c>>
  <1>1. Append(<<a>>, b) = <<a, b>>
    <2> DEFINE t == Append(<<a>>, b)
    <2>1. <<a>> \in Seq(S) /\ Len(<<a>>) = 1 /\ <<a>>[1] = a
      OBVIOUS
    <2>2. t \in Seq(S) /\ Len(t) = 2 /\ t[1] = a /\ t[2] = b
      BY <2>1, AppendFacts
    <2> HIDE DEF t
    <2>3. t = <<a, b>>
      BY <2>2
    <2> QED BY <2>3 DEF t
  <1>2. Append(<<a, b>>, c) = <<a, b, c>>
    <2> DEFINE t == Append(<<a, b>>, c)
    <2>1. <<a, b>> \in Seq(S) /\ Len(<<a, b>>) = 2 /\ <<a, b>>[1] = a /\ <<a, b>>[2] = b
      OBVIOUS
    <2>2. t \in Seq(S) /\ Len(t) = 3 /\ t[1] = a /\ t[2] = b /\ t[3] = c
      BY <2>1, AppendFacts
    <2> HIDE DEF t
    <2>3. t = <<a, b, c>>
      BY <2>2
    <2> QED BY <2>3 DEF t
  <1> QED BY <1>1, <1>2

LEMMA InertKeepsNested == Nested /\ Inert => Nested'
  <1> SUFFICES ASSUME Nested, Inert PROVE Nested'
    OBVIOUS
  <1>1. \A s : Live(s)' <=> Live(s)
    BY DEF Inert, Live
  <1>2. /\ ModelOnTop' <=> ModelOnTop
        /\ CallOnTop' <=> CallOnTop
        /\ ToolOnTop' <=> ToolOnTop
        /\ OneLeft(<<RootSpan>>)' <=> OneLeft(<<RootSpan>>)
        /\ OneLeft(<<RootSpan, span.model>>)' <=> OneLeft(<<RootSpan, span.model>>)
    BY DEF Inert, ModelOnTop, CallOnTop, ToolOnTop, OneLeft
  <1>3. RootSpan \in Span
    BY AgentAssumption
  <1>4. /\ ModelOnTop => OneLeft(<<RootSpan, span.model>>)
        /\ CallOnTop /\ span.model \in Span /\ span.call \in Span => OneLeft(<<RootSpan, span.model>>)
    BY <1>3, AppendToShort DEF ModelOnTop, CallOnTop, OneLeft
  <1> QED
    BY <1>1, <1>2, <1>4 DEF Inert, Nested, Alone, InModel, InCall, InTool, Counted, Live

\* The steps that call nothing of the writer, or only update a span or note
\* an event: they keep the writer sound and the stack as it is.
LEMMA InertLoop ==
  ASSUME SoundWriter, Nested, Control,
         \/ BudgetStop \/ NextTurn \/ RefuseCall \/ Account \/ FinishReply \/ ActReply
         \/ TakeAction \/ Execute \/ Provider \/ Interrupt \/ DeadlinePasses \/ Finished
  PROVE  SoundWriter' /\ Inert
  <1>1. UNCHANGED <<writer, span>>
    BY DEF BudgetStop, NextTurn, RefuseCall, Account, FinishReply, ActReply, TakeAction,
      Execute, Provider, Answer, CallFails, Interrupt, DeadlinePasses, Finished, vars
  <1>2. SoundWriter'
    BY <1>1, CallsAreSound, AgentAssumption
  <1>3. UNCHANGED <<activeSpanIds, handle, span>>
    BY <1>1 DEF writer
  <1> SUFFICES Inert
    BY <1>2
  <1> USE <1>3 DEF Inert, Alone, InModel, InCall, InTool, Counted, Goto, Return
  <1>4. CASE BudgetStop \/ NextTurn
    BY <1>4 DEF BudgetStop, NextTurn, StopReason
  <1>5. CASE RefuseCall \/ Account
    BY <1>5 DEF RefuseCall, Account
  <1>6. CASE FinishReply \/ ActReply \/ TakeAction
    BY <1>6 DEF FinishReply, ActReply, TakeAction
  <1>7. CASE Execute
    BY <1>7 DEF Execute
  <1>8. CASE Provider
    BY <1>8 DEF Provider, Answer, CallFails
  <1>9. CASE Interrupt \/ DeadlinePasses \/ Finished
    BY <1>9 DEF Interrupt, DeadlinePasses, Finished, vars, result
  <1> QED BY <1>4, <1>5, <1>6, <1>7, <1>8, <1>9 DEF Provider

LEMMA InertNotes ==
  ASSUME SoundWriter, Nested,
         \/ UpdateCall \/ NoteCall \/ UpdateModel \/ NoteModel \/ InvalidReply
         \/ NoteAction \/ NoteTool \/ NoteToolError
  PROVE  SoundWriter' /\ Inert
  <1>0. RootSpan \in Span /\ UNCHANGED span
    BY AgentAssumption DEF UpdateCall, NoteCall, UpdateModel, NoteModel, InvalidReply,
      NoteAction, NoteTool, NoteToolError
  <1>1. ASSUME NEW s \in Span, EventFails(s) \/ EventFails(NoSpan) PROVE SoundWriter'
    BY <1>1, CallsAreSound DEF EventFails
  <1> USE <1>0, NoteEffect, CallsAreSound, <1>1
      DEF Nested, Inert, Alone, InModel, InCall, InTool, Counted, Live, Try, Goto, Throw,
        Return, CallThrows
  <1>2. CASE UpdateCall
    BY <1>2 DEF UpdateCall
  <1>3. CASE NoteCall
    BY <1>3 DEF NoteCall
  <1>4. CASE UpdateModel
    BY <1>4 DEF UpdateModel
  <1>5. CASE NoteModel
    BY <1>5 DEF NoteModel
  <1>6. CASE InvalidReply
    BY <1>6 DEF InvalidReply
  <1>7. CASE NoteAction
    BY <1>7 DEF NoteAction
  <1>8. CASE NoteTool
    BY <1>8 DEF NoteTool
  <1>9. CASE NoteToolError
    BY <1>9 DEF NoteToolError, W!HandleEvent
  <1> QED BY <1>2, <1>3, <1>4, <1>5, <1>6, <1>7, <1>8, <1>9

\* Opening a span puts it on top of the stack; a failed one leaves a span
\* behind that nobody holds.
LEMMA NestedStartModel ==
  ASSUME SoundWriter, Nested, History, StartModel
  PROVE  SoundWriter' /\ Nested'
  <1>1. NextSpan \in Span /\ RootSpan \in Span
    BY NextSpanIsFresh, AgentAssumption DEF StartModel
  <1>2. SoundWriter'
    BY <1>1, CallsAreSound DEF StartModel, Try
  <1>3. CASE stage' = "threw"
    BY <1>2, <1>3 DEF Nested, Alone, InModel, InCall, InTool, Counted
  <1>4. CASE stage' # "threw"
    <2>1. /\ W!StartSpan(NextSpan, NoSpan) /\ span' = [span EXCEPT !.model = NextSpan]
          /\ stage' = "request" /\ activeSpanIds = <<RootSpan>>
      BY <1>4 DEF StartModel, Try, Goto, Throw, Nested, Alone
    <2>2. activeSpanIds' = Append(<<RootSpan>>, NextSpan) /\ handle'[NextSpan] = "live"
      BY <1>1, <2>1, StartEffect
    <2>3. activeSpanIds' = <<RootSpan, NextSpan>>
      BY <1>1, <2>2, AppendToShort
    <2>4. span'.model = NextSpan
      BY <2>1 DEF History
    <2>5. Live(span.model)' /\ ModelOnTop'
      BY <1>1, <2>2, <2>3, <2>4 DEF Live, ModelOnTop
    <2> QED BY <1>2, <2>1, <2>5 DEF Nested, Alone, InModel, InCall, InTool, Counted
  <1> QED BY <1>3, <1>4

LEMMA NestedStartTool ==
  ASSUME SoundWriter, Nested, History, StartTool
  PROVE  SoundWriter' /\ Nested'
  <1>1. NextSpan \in Span /\ RootSpan \in Span
    BY NextSpanIsFresh, AgentAssumption DEF StartTool
  <1>2. SoundWriter'
    BY <1>1, CallsAreSound DEF StartTool, Try
  <1>3. CASE stage' = "threw"
    BY <1>2, <1>3 DEF Nested, Alone, InModel, InCall, InTool, Counted
  <1>4. CASE stage' # "threw"
    <2>1. /\ W!StartSpan(NextSpan, NoSpan) /\ span' = [span EXCEPT !.tool = NextSpan]
          /\ stage' = "execute" /\ activeSpanIds = <<RootSpan>>
      BY <1>4 DEF StartTool, Try, Goto, Throw, Nested, Alone
    <2>2. activeSpanIds' = Append(<<RootSpan>>, NextSpan) /\ handle'[NextSpan] = "live"
      BY <1>1, <2>1, StartEffect
    <2>3. activeSpanIds' = <<RootSpan, NextSpan>>
      BY <1>1, <2>2, AppendToShort
    <2>4. span'.tool = NextSpan
      BY <2>1 DEF History
    <2>5. Live(span.tool)' /\ ToolOnTop'
      BY <1>1, <2>2, <2>3, <2>4 DEF Live, ToolOnTop
    <2> QED BY <1>2, <2>1, <2>5 DEF Nested, Alone, InModel, InCall, InTool, Counted
  <1> QED BY <1>3, <1>4

LEMMA NestedStartCall ==
  ASSUME SoundWriter, Nested, History, StartCall
  PROVE  SoundWriter' /\ Nested'
  <1>1. NextSpan \in Span /\ RootSpan \in Span
    BY NextSpanIsFresh, AgentAssumption DEF StartCall
  <1>2. SoundWriter'
    BY <1>1, CallsAreSound DEF StartCall, Try
  <1>3. Live(span.model) /\ ModelOnTop
    BY DEF StartCall, Try, Nested, InModel
  <1>4. W!StartSpan(NextSpan, NoSpan) \/ StartFails(NextSpan)
    BY DEF StartCall, Try
  <1>5. /\ activeSpanIds' = Append(<<RootSpan, span.model>>, NextSpan)
        /\ handle'[span.model] = "live"
        /\ W!StartSpan(NextSpan, NoSpan) => handle'[NextSpan] = "live"
    BY <1>1, <1>3, <1>4, StartEffect DEF Live, ModelOnTop
  <1>6. activeSpanIds' = <<RootSpan, span.model, NextSpan>>
    BY <1>1, <1>3, <1>5, AppendToShort DEF Live
  <1>7. CASE stage' = "modelError"
    <2>1. UNCHANGED span
      BY <1>7 DEF StartCall, Try, Goto
    <2>2. OneLeft(<<RootSpan, span.model>>)'
      BY <1>1, <1>5, <2>1 DEF OneLeft
    <2>3. span'.model \in Span
      BY <2>1, <1>3 DEF Live
    <2> QED BY <1>2, <1>7, <2>2, <2>3 DEF Nested, Alone, InModel, InCall, InTool, Counted
  <1>8. CASE stage' # "modelError"
    <2>1. /\ W!StartSpan(NextSpan, NoSpan) /\ span' = [span EXCEPT !.call = NextSpan]
          /\ stage' = "await"
      BY <1>8 DEF StartCall, Try, Goto
    <2>2. span'.call = NextSpan /\ span'.model = span.model
      BY <2>1 DEF History
    <2>3. Live(span.model)' /\ Live(span.call)' /\ CallOnTop'
      BY <1>1, <1>3, <1>5, <1>6, <2>1, <2>2 DEF Live, CallOnTop
    <2> QED BY <1>2, <2>1, <2>3 DEF Nested, Alone, InModel, InCall, InTool, Counted
  <1> QED BY <1>7, <1>8

-----------------------------------------------------------------------------
\* In a sound writer the spans of a stack are different ones.
LEMMA StackIsDistinct ==
  ASSUME SoundWriter
  PROVE  /\ \A b : activeSpanIds = <<RootSpan, b>> => RootSpan # b
         /\ \A b, c : activeSpanIds = <<RootSpan, b, c>> =>
               RootSpan # b /\ RootSpan # c /\ b # c
  <1>1. \A i, j \in DOMAIN activeSpanIds : activeSpanIds[i] = activeSpanIds[j] => i = j
    BY SoundWriterParts
  <1> QED BY <1>1

\* Ending the provider call's span: either it leaves the model's span on top,
\* or its handle is spent and the error path is taken.
LEMMA NestedEndCall ==
  ASSUME SoundWriter, Nested, EndCall
  PROVE  SoundWriter' /\ Nested'
  <1> DEFINE status == IF callOk THEN "ok" ELSE "error"
  <1>1. /\ stage = "endCall" /\ UNCHANGED span
        /\ W!FinishSpan(span.call, status) \/ EndFails(span.call)
    BY DEF EndCall, Try
  <1>2. /\ Live(span.model) /\ span.call \in Span /\ RootSpan \in Span
        /\ CallOnTop \/ (ModelOnTop /\ ~Live(span.call))
    BY <1>1, AgentAssumption DEF Nested
  <1>3. SoundWriter'
    BY <1>1, <1>2, CallsAreSound
  <1>4. /\ \A x \in Span : x # span.call => handle'[x] = handle[x]
        /\ handle'[span.call] # "live"
        /\ W!FinishSpan(span.call, status) =>
              /\ handle[span.call] = "live"
              /\ activeSpanIds' = W!RemoveFirst(activeSpanIds, span.call)
        /\ activeSpanIds' \in {activeSpanIds, W!RemoveFirst(activeSpanIds, span.call)}
        /\ handle[span.call] # "live" => activeSpanIds' = activeSpanIds
    BY <1>1, <1>2, EndEffect
  <1>5. span.model # span.call
    BY <1>2, StackIsDistinct DEF CallOnTop, Live
  <1>6. CallOnTop => W!RemoveFirst(activeSpanIds, span.call) = <<RootSpan, span.model>>
    <2> SUFFICES ASSUME CallOnTop
                 PROVE  W!RemoveFirst(activeSpanIds, span.call) = <<RootSpan, span.model>>
      OBVIOUS
    <2>1. activeSpanIds = <<RootSpan, span.model, span.call>> /\ span.model \in Span
      BY <1>2 DEF CallOnTop, Live
    <2>2. RootSpan # span.model /\ RootSpan # span.call
      BY <2>1, StackIsDistinct
    <2> QED BY <2>1, <2>2, <1>2, <1>5, ShortStacks
  <1>7. /\ Live(span.model)' /\ ~Live(span.call)' /\ span'.call \in Span
        /\ CallOnTop' \/ ModelOnTop'
    BY <1>1, <1>2, <1>4, <1>5, <1>6 DEF Live, CallOnTop, ModelOnTop
  <1>8. W!FinishSpan(span.call, status) => ModelOnTop'
    BY <1>1, <1>2, <1>4, <1>6 DEF Live, ModelOnTop
  <1>9. OneLeft(<<RootSpan, span.model>>)'
    <2>1. CASE ModelOnTop'
      BY <2>1 DEF ModelOnTop, OneLeft
    <2>2. CASE CallOnTop'
      <3>1. activeSpanIds' = Append(<<RootSpan, span'.model>>, span'.call)
        BY <2>2, <1>1, <1>2, AppendToShort DEF CallOnTop, Live
      <3> QED BY <3>1, <1>7 DEF OneLeft
    <2> QED BY <1>7, <2>1, <2>2
  <1>10. \/ stage' \in {"modelError", "endCall"}
         \/ stage' = "account" /\ W!FinishSpan(span.call, status)
    <2>1. CASE callOk /\ W!FinishSpan(span.call, status)
      BY <2>1 DEF EndCall, Try, Goto, CallThrows
    <2> QED BY DEF EndCall, Try, Goto, CallThrows
  <1>11. CASE stage' = "endCall"
    BY <1>3, <1>7, <1>11 DEF Nested, Alone, InModel, InCall, InTool, Counted
  <1>12. CASE stage' = "modelError"
    BY <1>3, <1>7, <1>9, <1>12 DEF Nested, Alone, InModel, InCall, InTool, Counted, Live
  <1>13. CASE stage' = "account" /\ ModelOnTop'
    BY <1>3, <1>7, <1>13 DEF Nested, Alone, InModel, InCall, InTool, Counted
  <1> QED BY <1>8, <1>10, <1>11, <1>12, <1>13

\* Ending the model's span: the caller's span is alone again, or the handle
\* is spent.
LEMMA NestedEndModel ==
  ASSUME SoundWriter, Nested, EndModel
  PROVE  SoundWriter' /\ Nested'
  <1>1. /\ stage = "endModel" /\ UNCHANGED span
        /\ W!FinishSpan(span.model, "ok") \/ EndFails(span.model)
    BY DEF EndModel, Try
  <1>2. Live(span.model) /\ ModelOnTop /\ RootSpan \in Span
    BY <1>1, AgentAssumption DEF Nested, InModel, Counted
  <1>3. SoundWriter'
    BY <1>1, <1>2, CallsAreSound DEF Live
  <1>4. handle'[span.model] # "live"
    BY <1>1, <1>2, EndEffect DEF Live
  <1>5. CASE stage' = "modelError"
    BY <1>1, <1>2, <1>3, <1>4, <1>5
    DEF Nested, Alone, InModel, InCall, InTool, Counted, Live
  <1>6. CASE stage' # "modelError"
    <2>1. /\ W!FinishSpan(span.model, "ok")
          /\ stage' = "parse" \/ (stage' = "returned" /\ terminalState' = "budget_exhausted")
      BY <1>6 DEF EndModel, Try, Goto, Return
    <2>2. RootSpan # span.model
      BY <1>2, StackIsDistinct DEF ModelOnTop
    <2>3. activeSpanIds' = <<RootSpan>>
      BY <2>1, <2>2, <1>2, EndEffect, ShortStacks DEF Live, ModelOnTop
    <2> QED BY <2>1, <2>3, <1>3 DEF Nested, Alone, InModel, InCall, InTool, Counted
  <1> QED BY <1>5, <1>6

\* A provider error: the model's span is ended, and at most the span of the
\* failed call stays behind.
LEMMA NestedModelError ==
  ASSUME SoundWriter, Nested, ModelError
  PROVE  SoundWriter' /\ Nested'
  <1>1. /\ stage = "modelError" /\ UNCHANGED span
        /\ W!FinishSpan(span.model, "error") \/ EndFails(span.model)
    BY DEF ModelError, Try
  <1>2. span.model \in Span /\ RootSpan \in Span
    BY <1>1, AgentAssumption DEF Nested
  <1>3. SoundWriter'
    BY <1>1, <1>2, CallsAreSound
  <1>4. CASE stage' = "threw"
    BY <1>3, <1>4 DEF Nested, Alone, InModel, InCall, InTool, Counted
  <1>5. CASE stage' # "threw"
    <2>1. /\ W!FinishSpan(span.model, "error")
          /\ stage' = "returned" /\ terminalState' = "provider_error"
      BY <1>5 DEF ModelError, Try, Goto, Throw, Return
    <2>2. /\ handle[span.model] = "live"
          /\ activeSpanIds' = W!RemoveFirst(activeSpanIds, span.model)
      BY <2>1, <1>2, EndEffect
    <2>3. OneLeft(<<RootSpan, span.model>>)
      BY <2>2, <1>1, <1>2 DEF Nested, Live
    <2>4. OneLeft(<<RootSpan>>)'
      <3>1. CASE activeSpanIds = <<RootSpan, span.model>>
        <4>1. RootSpan # span.model
          BY <3>1, StackIsDistinct
        <4>2. activeSpanIds' = <<RootSpan>>
          BY <3>1, <4>1, <2>2, <1>2, ShortStacks
        <4> QED BY <4>2 DEF OneLeft
      <3>2. CASE \E left \in Span : activeSpanIds = Append(<<RootSpan, span.model>>, left)
        <4>1. PICK left \in Span : activeSpanIds = <<RootSpan, span.model, left>>
          BY <3>2, <1>2, AppendToShort
        <4>2. RootSpan # span.model /\ RootSpan # left /\ span.model # left
          BY <4>1, StackIsDistinct
        <4>3. activeSpanIds' = <<RootSpan, left>>
          BY <4>1, <4>2, <2>2, <1>2, ShortStacks
        <4>4. activeSpanIds' = Append(<<RootSpan>>, left)
          BY <4>3, <1>2, AppendToShort
        <4> QED BY <4>4 DEF OneLeft
      <3> QED BY <2>3, <3>1, <3>2 DEF OneLeft
    <2> QED BY <2>1, <2>4, <1>3 DEF Nested, Alone, InModel, InCall, InTool, Counted
  <1> QED BY <1>4, <1>5

\* Ending the tool's span, on both of its paths.
LEMMA NestedEndTool ==
  ASSUME SoundWriter, Nested, EndTool \/ EndToolError
  PROVE  SoundWriter' /\ Nested'
  <1> DEFINE status == IF stage = "endTool" THEN "ok" ELSE "error"
  <1>1. /\ stage \in {"endTool", "endToolError"} /\ UNCHANGED span
        /\ W!FinishSpan(span.tool, status) \/ EndFails(span.tool)
    BY DEF EndTool, EndToolError, Try
  <1>2. Live(span.tool) /\ ToolOnTop /\ RootSpan \in Span
    BY <1>1, AgentAssumption DEF Nested, InTool
  <1>3. SoundWriter'
    BY <1>1, <1>2, CallsAreSound DEF Live
  <1>4. handle'[span.tool] # "live"
    BY <1>1, <1>2, EndEffect DEF Live
  <1>5. CASE stage' \in {"toolError", "threw"}
    BY <1>1, <1>2, <1>3, <1>4, <1>5
    DEF Nested, Alone, InModel, InCall, InTool, Counted, Live
  <1>6. CASE stage' \notin {"toolError", "threw"}
    <2>1. /\ W!FinishSpan(span.tool, status)
          /\ \/ stage' = "check"
             \/ stage' = "returned" /\ terminalState' # "provider_error"
      BY <1>6 DEF EndTool, EndToolError, Try, Goto, Throw, Return
    <2>2. RootSpan # span.tool
      BY <1>2, StackIsDistinct DEF ToolOnTop
    <2> HIDE DEF status
    <2>3. activeSpanIds' = <<RootSpan>>
      BY <2>1, <2>2, <1>2, EndEffect, ShortStacks DEF Live, ToolOnTop
    <2> QED BY <2>1, <2>3, <1>3 DEF Nested, Alone, InModel, InCall, InTool, Counted
  <1> QED BY <1>5, <1>6

\* Whatever the agent does next, its spans stay nested and the writer sound.
LEMMA NestedStep ==
  SoundWriter /\ Nested /\ Control /\ History /\ [Next]_vars => SoundWriter' /\ Nested'
  <1> SUFFICES ASSUME SoundWriter, Nested, Control, History, [Next]_vars
               PROVE  SoundWriter' /\ Nested'
    OBVIOUS
  <1>1. CASE \/ BudgetStop \/ NextTurn \/ RefuseCall \/ Account \/ FinishReply \/ ActReply
             \/ TakeAction \/ Execute \/ Provider \/ Interrupt \/ DeadlinePasses \/ Finished
    BY <1>1, InertLoop, InertKeepsNested
  <1>2. CASE \/ UpdateCall \/ NoteCall \/ UpdateModel \/ NoteModel \/ InvalidReply
             \/ NoteAction \/ NoteTool \/ NoteToolError
    BY <1>2, InertNotes, InertKeepsNested
  <1>3. CASE \/ StartModel \/ StartTool \/ StartCall \/ EndCall \/ EndModel \/ ModelError
             \/ EndTool \/ EndToolError
    BY <1>3, NestedStartModel, NestedStartTool, NestedStartCall, NestedEndCall,
       NestedEndModel, NestedModelError, NestedEndTool
  <1>4. CASE UNCHANGED vars
    <2>1. UNCHANGED <<writer, span, stage, terminalState>>
      BY <1>4 DEF vars, result
    <2>2. SoundWriter'
      BY <2>1, CallsAreSound, AgentAssumption
    <2>3. Inert
      BY <2>1 DEF Inert, writer
    <2> QED BY <2>2, <2>3, InertKeepsNested
  <1> QED BY <1>1, <1>2, <1>3, <1>4 DEF Next, Step

\* Along every run the agent's spans nest as its stages say, in a sound writer.
THEOREM AgentNesting == Spec => [](SoundWriter /\ Nested /\ Control /\ History)
  BY ControlInit, ControlStep, HistoryInit, HistoryStep, SoundInit, NestedStep, PTL DEF Spec

\* A run that returns leaves only its caller's span open, but for a provider
\* error, which leaves at most the span of the failed call behind.
THEOREM WriterLeftClean == Spec => []LeavesWriterClean
  <1>1. SoundWriter /\ Nested => LeavesWriterClean
    <2> SUFFICES ASSUME SoundWriter, Nested, stage = "returned"
                 PROVE  IF terminalState = "provider_error"
                        THEN Cardinality(openSpans) <= 2 /\ Head(activeSpanIds) = RootSpan
                        ELSE activeSpanIds = <<RootSpan>>
      BY DEF LeavesWriterClean
    <2>1. CASE terminalState # "provider_error"
      BY <2>1 DEF Nested
    <2>2. CASE terminalState = "provider_error"
      <3>1. PICK left \in Span : activeSpanIds \in {<<RootSpan>>, <<RootSpan, left>>}
        BY <2>2, AppendToShort, AgentAssumption DEF Nested, OneLeft
      <3>2. openSpans \subseteq {RootSpan, left}
        BY <3>1, SoundWriterParts DEF W!TypeOK
      <3>3. Cardinality({RootSpan, left}) <= 2 /\ IsFiniteSet({RootSpan, left})
        <4>1. CASE left = RootSpan
          <5>1. {RootSpan, left} = {RootSpan}
            BY <4>1
          <5> QED BY <5>1, FS_Singleton
        <4>2. CASE left # RootSpan
          <5>1. IsFiniteSet({RootSpan}) /\ Cardinality({RootSpan}) = 1
            BY FS_Singleton
          <5>2. {RootSpan, left} = {RootSpan} \cup {left}
            OBVIOUS
          <5> QED BY <4>2, <5>1, <5>2, FS_AddElement
        <4> QED BY <4>1, <4>2
      <3>4. Cardinality(openSpans) <= 2
        <4>1. IsFiniteSet(openSpans) /\ Cardinality(openSpans) <= Cardinality({RootSpan, left})
          BY <3>2, <3>3, FS_Subset
        <4> QED BY <4>1, <3>3, FS_CardinalityType
      <3>5. Head(activeSpanIds) = RootSpan
        BY <3>1
      <3> QED BY <2>2, <3>4, <3>5
    <2> QED BY <2>1, <2>2
  <1> QED BY <1>1, AgentNesting, PTL

\* However the agent drives it, the writer keeps what TraceWriter promises of
\* the nesting in memory and of the rows in the store.
THEOREM WriterStaysSound == Spec => [](W!NestingIsSound /\ W!RowsAreTrue)
  <1>1. SoundWriter => W!NestingIsSound /\ W!RowsAreTrue
    BY DEF SoundWriter, Writer!Inv, W!NestingIsSound, W!RowsAreTrue,
      W!ActiveIsOpen, Writer!ActiveIsOpen, W!ToSet, Writer!ToSet, W!ParentBelowChild,
      Writer!ParentBelowChild, W!RowsFollowHandles, Writer!RowsFollowHandles,
      W!NoOrphanRows, Writer!NoOrphanRows
  <1> QED BY <1>1, AgentNesting, PTL

Verdict == terminalState \in {"none", "resolved", "task_failed", "provider_error",
                              "timeout", "budget_exhausted", "cancelled"}

LEMMA VerdictStep == Verdict /\ [Next]_vars => Verdict'
  <1> SUFFICES ASSUME Verdict, [Next]_vars PROVE Verdict'
    OBVIOUS
  <1> USE DEF Verdict, Goto, Return, Throw, Try, CallThrows, result
  <1>1. CASE BudgetStop \/ NextTurn \/ RefuseCall \/ Account \/ FinishReply \/ ActReply
             \/ TakeAction \/ Execute
    BY <1>1 DEF BudgetStop, NextTurn, RefuseCall, Account, FinishReply, ActReply,
      TakeAction, Execute, StopReason
  <1>2. CASE StartModel \/ StartCall \/ StartTool \/ UpdateCall \/ NoteCall \/ EndCall
    BY <1>2 DEF StartModel, StartCall, StartTool, UpdateCall, NoteCall, EndCall
  <1>3. CASE UpdateModel \/ NoteModel \/ EndModel \/ ModelError \/ InvalidReply
    BY <1>3 DEF UpdateModel, NoteModel, EndModel, ModelError, InvalidReply
  <1>4. CASE NoteAction \/ NoteTool \/ EndTool \/ NoteToolError \/ EndToolError
    BY <1>4 DEF NoteAction, NoteTool, EndTool, NoteToolError, EndToolError
  <1>5. CASE Provider \/ Interrupt \/ DeadlinePasses
    BY <1>5 DEF Provider, Answer, CallFails, Interrupt, DeadlinePasses
  <1>6. CASE UNCHANGED vars
    BY <1>6 DEF vars
  <1> QED BY <1>1, <1>2, <1>3, <1>4, <1>5, <1>6 DEF Next, Step, Finished

\* The loop's variables and the writer's keep their types together.
THEOREM AgentTypes == Spec => []TypeOK
  <1>1. Init => Verdict
    BY DEF Init, Verdict
  <1>2. SoundWriter /\ Control /\ History /\ Verdict => TypeOK
    BY SoundWriterParts
    DEF TypeOK, Control, ControlType, History, Verdict, Asking, Counted, Deciding,
      Preparing, Reporting, Ended
  <1> QED BY <1>1, <1>2, VerdictStep, AgentNesting, PTL DEF Spec
=============================================================================
