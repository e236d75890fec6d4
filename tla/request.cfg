SPECIFICATION Spec
CONSTANTS
  NoNumber = NoNumber
  Requests <- MCRequests
  Limit = 2
  MaxOut = 4
INVARIANT TypeOK
INVARIANT BodyWhole
INVARIANT AnswerFits
INVARIANT NoReset
PROPERTY AnswerHeard
CHECK_DEADLOCK FALSE
