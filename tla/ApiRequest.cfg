SPECIFICATION RequestSpec
CONSTANTS
  DoneCodes = {200, 201, 204, 206}
  RefusalCodes = {304, 400, 401, 403, 404, 405, 409}
  ExpectedCodes = {200, 202, 204}
  IgnoredCodes = {0, 405}
  AsyncModes = {TRUE, FALSE}
  TaskHeaders = {TRUE, FALSE}
CHECK_DEADLOCK FALSE
INVARIANTS SuccessIsTrue 
