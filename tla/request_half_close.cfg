SPECIFICATION Spec
CONSTANTS
  NoNumber = NoNumber
  Requests <- MCRequests
  Limit = 2
  MaxOut = 4
PROPERTY HalfClosed
CHECK_DEADLOCK FALSE
