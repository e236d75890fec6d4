SPECIFICATION Spec
CONSTANTS
  NoNumber = NoNumber
  Requests <- MCRequests
  Limit = 2
  MaxOut = 4
INVARIANT OneResponse
CHECK_DEADLOCK FALSE
