SPECIFICATION MCSpec
CONSTANTS
  p1 = p1  i1 = i1  i2 = i2  u1 = u1  q1 = q1  q2 = q2
  Procs <- OneProc
  Words <- MCWords
  Files <- AllFiles
  Edits <- MCEdits
  Hosts <- MCHosts
  fold <- MCFold
  Tokens <- MCTokens
  Comment = "#"
  MaxRoutes = 2
  LineWords = 4
  Installs <- TwoInstalls
  Uninstalls <- OneUninstall
  Requests <- TwoRequests
INVARIANT CalmAnswers
PROPERTY InstallHeals
PROPERTY RightHandler
PROPERTY MetaAgrees
CHECK_DEADLOCK FALSE
