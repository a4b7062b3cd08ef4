-------------------------- MODULE MCReasoningAgent --------------------------
(* Small instances of ReasoningAgent for TLC. *)
EXTENDS ReasoningAgent

MCSpan == 1..7
AllFaults == {"store", "schema"}
NoFaults == {}

Max(input, output, cost, nominal) ==
  [r \in Resource |-> CASE r = "input" -> input [] r = "output" -> output
                        [] r = "cost" -> cost [] r = "nominal" -> nominal]

MCLimit ==
  { [turns |-> 2, timed |-> TRUE, total |-> Unlimited,
     max |-> Max(Unlimited, 2, Unlimited, Unlimited)],
    [turns |-> 2, timed |-> FALSE, total |-> 3,
     max |-> Max(2, Unlimited, Unlimited, 1)],
    [turns |-> 1, timed |-> TRUE, total |-> Unlimited,
     max |-> Max(Unlimited, Unlimited, 1, Unlimited)] }

MCUsage == { Max(1, 1, 0, 0), Max(1, 2, 1, 1), Max(0, 0, 2, 2) }
=============================================================================
