SPECIFICATION FairSpec
CONSTANTS
  j1 = j1
  j2 = j2
  j3 = j3
  NoId = NoId
  JobIds = {j1, j2}
  OperatorResets = TRUE
  OperatorPowers = FALSE
  OperatorStages = TRUE
  InitialScheduled <- AtMostOne
  InitialPower = {"on", "off"}
  Settings = {"bios"}
  ApplyAsync = {FALSE}
  ComputeReset = {TRUE}
  RefusalCodes = {400, 405, 503}
  Faults = {"read", "lost", "watch", "cut", "bare"}
  Requests <- Requested
  JobForChange = {TRUE, FALSE}
CHECK_DEADLOCK FALSE
INVARIANTS ResetsAreAskedFor CompletedIsInForce   OthersNotMixedIn PendingCommittedFirst
PROPERTY ChangeEnds
