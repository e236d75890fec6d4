SPECIFICATION Spec
CONSTANTS
  c1 = c1  c2 = c2  p1 = p1  p2 = p2
  open = open  gated = gated  GET = GET  POST = POST
  Star = Star  Junk = Junk
  Routes <- GatedOnly
  Methods <- MCMethods
  RouteMethods <- GatedAllow
  Streaming <- NoStreams
  Conns <- OneConn
  Procs <- OneProc
  ProcOf <- Alone
  AcceptTimeout = 30
  PeekTries = 1
  CloExec = TRUE
PROPERTY ConnectWaitOnly
CHECK_DEADLOCK FALSE
