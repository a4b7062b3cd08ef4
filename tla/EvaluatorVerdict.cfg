SPECIFICATION Spec
CONSTANTS
  check1 = check1
  check2 = check2
  Command = {check1, check2}
  TaskCommand = check1
  Scenario <- Scenarios
  Configuration = {"left", "right"}
  EditConfiguration = {"right"}
  Task <- SomeTasks
  Latency = {5}
  Moment = {2}
INVARIANTS
  VerdictIsProved
  AggregateIsHonest
  ComparisonIsPaired
