SPECIFICATION Spec
CONSTANTS
  c1 = c1  c2 = c2  p1 = p1  p2 = p2
  open = open  gated = gated  GET = GET  POST = POST
  Star = Star  Junk = Junk
  Routes <- MCRoutes
  Methods <- MCMethods
  RouteMethods <- MCAllow
  Streaming <- Streams
  Conns <- OneConn
  Procs <- OneProc
  ProcOf <- Alone
  AcceptTimeout = 30
  PeekTries = 2
  CloExec = TRUE
INVARIANT TypeOK
INVARIANT GateSound
INVARIANT HandlerUntimed
PROPERTY KeepsPromise
PROPERTY ConnectReturns
PROPERTY ShimLetsGo
PROPERTY RejectionHeard
PROPERTY ClientHears
PROPERTY StreamEnds
CHECK_DEADLOCK FALSE
