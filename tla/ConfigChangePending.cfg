SPECIFICATION Spec
CONSTANTS
  j1 = j1
  j2 = j2
  j3 = j3
  NoId = NoId
  JobIds = {j1, j2}
  OperatorResets = FALSE
  OperatorPowers = FALSE
  OperatorStages = FALSE
  InitialScheduled <- AtMostOne
  InitialPower = {"on"}
  Settings = {"bios"}
  ApplyAsync = {FALSE}
  ComputeReset = {TRUE, FALSE}
  RefusalCodes = {400, 405}
  Faults = {}
  Requests <- CommittingPending
  JobForChange = {TRUE, FALSE}
CHECK_DEADLOCK FALSE
INVARIANT PendingAlwaysCommitted
