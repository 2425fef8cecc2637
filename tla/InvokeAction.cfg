SPECIFICATION Spec
CONSTANTS
  uManager = uManager
  uOem = uOem
  uControl = uControl
  uEvent = uEvent
  NoTarget = NoTarget
  Targets = {uManager, uOem, uControl, uEvent}
  Names = {"ResetToDefaults", "SubmitTestEvent"}
  Types <- MCTypes
  ShortName <- MCShortName
  ActionPolicy <- MCActionPolicy
  Performs <- MCPerforms
  Blocks <- MCBlocks
  DoneCodes = {200, 201, 204, 206}
  RefusalCodes = {304, 400, 403, 405}
  ExpectedCodes = {202}
  IgnoredCodes = {0}
  AsyncModes = {TRUE, FALSE}
  TaskHeaders = {TRUE, FALSE}
INVARIANTS Authorised NamedIsPreferred PerformedIsReported
