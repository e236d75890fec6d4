SPECIFICATION Spec
CONSTANTS
  c1 = c1  c2 = c2  p1 = p1  p2 = p2
  open = open  gated = gated  GET = GET  POST = POST
  Star = Star  Junk = Junk
  Routes <- OpenOnly
  Methods <- NoMethods
  RouteMethods <- OpenAllow
  Streaming <- Streams
  Conns <- TwoConns
  Procs <- OneProc
  ProcOf <- Threads
  AcceptTimeout = 30
  PeekTries = 1
  CloExec = FALSE
INVARIANT QueuedHasAcceptor
CHECK_DEADLOCK FALSE
SYMMETRY ConnSymmetry
