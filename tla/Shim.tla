-------------------------------- MODULE Shim --------------------------------
(***************************************************************************)
(* The connect() interposer of lib/intercept.c.  A caller's connect() to a *)
(* sentinel address opens a listening socket, double-forks a grandchild    *)
(* and redirects the caller to it.  The grandchild accepts under an alarm, *)
(* gates the request method on routes that have an allow-list, and either  *)
(* answers 405/400 itself or becomes the handler with exec().              *)
(*                                                                         *)
(* What is abstracted: a request is the amount of it that was sent and the *)
(* method its first line carries; a response is who wrote it; time is      *)
(* "a pending alarm may fire".  What is kept: every descriptor that fork   *)
(* and exec hand on, because who still holds a socket decides who sees     *)
(* end-of-file, SIGPIPE or a reset.                                        *)
(***************************************************************************)
EXTENDS Naturals

CONSTANTS
  Conns,          \* the connect() calls that hit a sentinel address
  Procs,          \* the processes that make them
  ProcOf,         \* the process of each call; calls of one process are threads
  Routes,         \* the routes of the table
  Methods,        \* the request methods that clients send
  Star,           \* the '*' of an allow-list
  Junk,           \* a first line without a readable method
  RouteMethods,   \* the allow-list of each route, {} when it has none
  Streaming,      \* routes whose handler streams until the client goes away
  AcceptTimeout,  \* INTERCEPT_ACCEPT_TIMEOUT in seconds, 0 = no alarm
  PeekTries,      \* how often an incomplete first line is looked at (500)
  CloExec         \* whether callers open their sockets close-on-exec

ASSUME ConnAssumption  == ProcOf \in [Conns -> Procs]
ASSUME RouteAssumption ==
  /\ RouteMethods \in [Routes -> SUBSET (Methods \cup {Star})]
  /\ Streaming \subseteq Routes
ASSUME MethodAssumption == Junk \notin Methods /\ Star \notin Methods /\ "unsaid" \notin Methods
ASSUME TimeAssumption  == AcceptTimeout \in Nat /\ PeekTries \in Nat \ {0}
ASSUME ExecAssumption  == CloExec \in BOOLEAN

VARIABLES
  alive,    \* alive[p]: caller process p runs
  call,     \* call[c]: how far connect() has come in the caller
  route,    \* route[c]: the route the sentinel address selected
  child,    \* child[c]: the intermediate process of the double fork
  grand,    \* grand[c]: the grandchild, later the handler
  alarm,    \* alarm[c]: the grandchild's pending alarm
  tries,    \* tries[c]: looks taken at an incomplete first line
  lfd,      \* lfd[c]: the processes with a descriptor of the listening socket
  cfd,      \* cfd[c]: the processes with a descriptor of the client's socket
  conn,     \* conn[c]: the connection, as seen from the accepting side
  wire,     \* wire[c]: how much of its request the client has sent
  req,      \* req[c]: the method of that request once its line is out
  shut,     \* shut[c]: the client half-closed its socket
  unread,   \* unread[c]: request bytes arrived that nobody has read
  answer,   \* answer[c]: who has written a response to the connection
  heard     \* heard[c]: what the client has read

vars == <<alive, call, route, child, grand, alarm, tries, lfd, cfd, conn,
          wire, req, shut, unread, answer, heard>>

\* Holders of descriptors.
Caller(p) == <<"caller", p>>
Child(c)  == <<"child", c>>
Grand(c)  == <<"grand", c>>
Holders   == {Caller(p) : p \in Procs} \cup {Child(c) : c \in Conns}
               \cup {Grand(c) : c \in Conns}

CallStates  == {"idle", "listening", "forked", "waiting", "connected",
                "closed", "failed"}
ChildStates == {"none", "running", "gone"}
GrandStates == {"none", "start", "accept", "peek", "admit", "say405",
                "say400", "said", "drain", "handler",
                "exited", "rejected", "failed", "killed"}
Ended       == {"exited", "rejected", "failed", "killed"}
ConnStates  == {"none", "queued", "open", "halfclosed", "finished", "reset"}
Sent        == {"nothing", "partial", "line", "full"}
Answers     == {"none", "405", "400", "handler"}
Heard       == {"nothing", "405", "400", "handler", "eof", "reset"}

\* A route without an allow-list, or with '*' in it, is not gated.
Gated(r) == RouteMethods[r] # {} /\ Star \notin RouteMethods[r]

method_allowed(r, m) == ~Gated(r) \/ m \in RouteMethods[r]

\* The descriptor tables after process h has given k a copy (fork), and
\* after h has closed all of its descriptors (exit, exec of close-on-exec).
Copied(f, h, k) == [d \in Conns |-> IF h \in f[d] THEN f[d] \cup {k} ELSE f[d]]
Closed(f, h)    == [d \in Conns |-> f[d] \ {h}]

\* A connection nobody accepted is reset with the last descriptor of its
\* listening socket.
Orphaned(lfds) ==
  [d \in Conns |-> IF conn[d] = "queued" /\ lfds[d] = {} THEN "reset" ELSE conn[d]]

\* The client's end is closed for good only when no process holds it.
ClientGone(c) == cfd[c] = {}
ClientFin(c)  == shut[c] \/ ClientGone(c)

Init ==
  /\ alive  = [p \in Procs |-> TRUE]
  /\ call   = [c \in Conns |-> "idle"]
  /\ route  \in [Conns -> Routes]
  /\ child  = [c \in Conns |-> "none"]
  /\ grand  = [c \in Conns |-> "none"]
  /\ alarm  = [c \in Conns |-> "off"]
  /\ tries  = [c \in Conns |-> 0]
  /\ lfd    = [c \in Conns |-> {}]
  /\ cfd    = [c \in Conns |-> {}]
  /\ conn   = [c \in Conns |-> "none"]
  /\ wire   = [c \in Conns |-> "nothing"]
  /\ req    = [c \in Conns |-> Junk]
  /\ shut   = [c \in Conns |-> FALSE]
  /\ unread = [c \in Conns |-> FALSE]
  /\ answer = [c \in Conns |-> "none"]
  /\ heard  = [c \in Conns |-> "nothing"]
-----------------------------------------------------------------------------
(* The caller, inside connect().                                           *)

\* socket, bind and listen on an ephemeral loopback port.
Listen(c) ==
  /\ alive[ProcOf[c]] /\ call[c] = "idle"
  /\ call' = [call EXCEPT ![c] = "listening"]
  /\ lfd' = [lfd EXCEPT ![c] = {Caller(ProcOf[c])}]
  /\ cfd' = [cfd EXCEPT ![c] = {Caller(ProcOf[c])}]
  /\ UNCHANGED <<alive, route, child, grand, alarm, tries, conn, wire, req,
                 shut, unread, answer, heard>>

\* socket, bind or listen fails: connect() returns -1.
ListenFails(c) ==
  /\ alive[ProcOf[c]] /\ call[c] = "idle"
  /\ call' = [call EXCEPT ![c] = "failed"]
  /\ UNCHANGED <<alive, route, child, grand, alarm, tries, lfd, cfd, conn,
                 wire, req, shut, unread, answer, heard>>

\* fork() copies every descriptor of the process, those of the sockets of
\* its other threads included.
Fork(c) ==
  /\ alive[ProcOf[c]] /\ call[c] = "listening"
  /\ call' = [call EXCEPT ![c] = "forked"]
  /\ child' = [child EXCEPT ![c] = "running"]
  /\ lfd' = Copied(lfd, Caller(ProcOf[c]), Child(c))
  /\ cfd' = Copied(cfd, Caller(ProcOf[c]), Child(c))
  /\ UNCHANGED <<alive, route, grand, alarm, tries, conn, wire, req, shut,
                 unread, answer, heard>>

ForkFails(c) ==
  /\ alive[ProcOf[c]] /\ call[c] = "listening"
  /\ call' = [call EXCEPT ![c] = "failed"]
  /\ lfd' = [lfd EXCEPT ![c] = @ \ {Caller(ProcOf[c])}]
  /\ UNCHANGED <<alive, route, child, grand, alarm, tries, cfd, conn, wire,
                 req, shut, unread, answer, heard>>

\* Mutated form: the parent keeps the listening descriptor while it connects.
CloseListenLate(c) ==
  /\ alive[ProcOf[c]] /\ call[c] = "forked"
  /\ call' = [call EXCEPT ![c] = "waiting"]
  /\ UNCHANGED <<alive, route, child, grand, alarm, tries, lfd, cfd, conn, wire,
                 req, shut, unread, answer, heard>>

\* The parent closes its listening descriptor before it waits.
CloseListen(c) ==
  /\ alive[ProcOf[c]] /\ call[c] = "forked"
  /\ call' = [call EXCEPT ![c] = "waiting"]
  /\ lfd' = [lfd EXCEPT ![c] = @ \ {Caller(ProcOf[c])}]
  /\ UNCHANGED <<alive, route, child, grand, alarm, tries, cfd, conn, wire,
                 req, shut, unread, answer, heard>>

\* The real connect() to the ephemeral port: the kernel completes it as long as
\* anyone holds the listening socket.
Redirect(c) ==
  /\ \/ /\ lfd[c] # {}
        /\ call' = [call EXCEPT ![c] = "connected"]
        /\ conn' = [conn EXCEPT ![c] = "queued"]
     \/ /\ lfd[c] = {}
        /\ call' = [call EXCEPT ![c] = "failed"]
        /\ UNCHANGED conn
  /\ UNCHANGED <<alive, route, child, grand, alarm, tries, lfd, cfd, wire,
                 req, shut, unread, answer, heard>>

\* waitpid() has reaped the child.
Connect(c) ==
  /\ alive[ProcOf[c]] /\ call[c] = "waiting" /\ child[c] = "gone"
  /\ Redirect(c)

\* A signal whose handler does not restart system calls ends waitpid(), whose
\* result nobody looks at, before the child has forked.
ConnectEarly(c) ==
  /\ alive[ProcOf[c]] /\ call[c] = "waiting" /\ child[c] = "running"
  /\ Redirect(c)
-----------------------------------------------------------------------------
(* The intermediate process of the double fork.                            *)

ChildForks(c) ==
  /\ child[c] = "running"
  /\ child' = [child EXCEPT ![c] = "gone"]
  /\ grand' = [grand EXCEPT ![c] = "start"]
  /\ lfd' = Closed(Copied(lfd, Child(c), Grand(c)), Child(c))
  /\ cfd' = Closed(Copied(cfd, Child(c), Grand(c)), Child(c))
  /\ UNCHANGED <<alive, call, route, alarm, tries, conn, wire, req, shut,
                 unread, answer, heard>>

\* Mutated form: the failing child returns -1 instead of _exit(1).
ChildForkFailsReturns(c) ==
  /\ child[c] = "running"
  /\ child' = [child EXCEPT ![c] = "none"]
  /\ UNCHANGED <<alive, call, route, grand, alarm, tries, lfd, cfd, conn, wire,
                 req, shut, unread, answer, heard>>

\* The second fork fails: _exit(1), nobody will accept.
ChildForkFails(c) ==
  /\ child[c] = "running"
  /\ child' = [child EXCEPT ![c] = "gone"]
  /\ lfd' = Closed(lfd, Child(c))
  /\ cfd' = Closed(cfd, Child(c))
  /\ conn' = Orphaned(lfd')
  /\ UNCHANGED <<alive, call, route, grand, alarm, tries, wire, req, shut,
                 unread, answer, heard>>
-----------------------------------------------------------------------------
(* The grandchild: accept, gate, reject or exec.                           *)

\* The process of grandchild c ends: the kernel closes all it holds.  With
\* request bytes unread the close resets the connection, otherwise it is a
\* FIN.
GrandEnds(c, how) ==
  /\ grand' = [grand EXCEPT ![c] = how]
  /\ lfd' = Closed(lfd, Grand(c))
  /\ cfd' = Closed(cfd, Grand(c))
  /\ conn' = [Orphaned(lfd') EXCEPT ![c] =
                IF conn[c] \notin {"open", "halfclosed"} THEN @
                ELSE IF unread[c] THEN "reset" ELSE "finished"]

\* alarm(accept_timeout); alarm(0) sets none.
StartAlarm(c) ==
  /\ grand[c] = "start"
  /\ grand' = [grand EXCEPT ![c] = "accept"]
  /\ alarm' = [alarm EXCEPT ![c] = IF AcceptTimeout > 0 THEN "accept" ELSE "off"]
  /\ UNCHANGED <<alive, call, route, child, tries, lfd, cfd, conn, wire, req,
                 shut, unread, answer, heard>>

\* Mutated form: the alarm is cancelled before the gate, not after it.
AcceptDisarms(c) ==
  /\ grand[c] = "accept" /\ conn[c] = "queued"
  /\ conn' = [conn EXCEPT ![c] = "open"]
  /\ lfd' = [lfd EXCEPT ![c] = @ \ {Grand(c)}]
  /\ grand' = [grand EXCEPT ![c] = IF Gated(route[c]) THEN "peek" ELSE "admit"]
  /\ alarm' = [alarm EXCEPT ![c] = "off"]
  /\ UNCHANGED <<alive, call, route, child, tries, cfd, wire, req, shut, unread,
                 answer, heard>>


Accept(c) ==
  /\ grand[c] = "accept" /\ conn[c] = "queued"
  /\ conn' = [conn EXCEPT ![c] = "open"]
  /\ lfd' = [lfd EXCEPT ![c] = @ \ {Grand(c)}]
  /\ grand' = [grand EXCEPT ![c] = IF Gated(route[c]) THEN "peek" ELSE "admit"]
  /\ UNCHANGED <<alive, call, route, child, alarm, tries, cfd, wire, req,
                 shut, unread, answer, heard>>

\* accept() returns -1: _exit(1).
AcceptFails(c) ==
  /\ grand[c] = "accept" /\ conn[c] = "queued"
  /\ GrandEnds(c, "failed")
  /\ UNCHANGED <<alive, call, route, child, alarm, tries, wire, req, shut,
                 unread, answer, heard>>

Decide(c, next) ==
  /\ grand' = [grand EXCEPT ![c] = next]
  /\ UNCHANGED <<alive, call, route, child, alarm, lfd, cfd, conn, wire, req,
                 shut, unread, answer, heard>>

\* recv(MSG_PEEK) returns 0: the client's FIN came before any byte.
PeekEof(c) ==
  /\ grand[c] = "peek" /\ wire[c] = "nothing" /\ ClientFin(c)
  /\ Decide(c, "say400")
  /\ UNCHANGED tries

\* Mutated forms: the gate fails open when its tries run out; it never
\* gives up.
PeekPartialOpen(c) ==
  /\ grand[c] = "peek" /\ wire[c] = "partial"
  /\ tries' = [tries EXCEPT ![c] = @ + 1]
  /\ Decide(c, IF tries[c] + 1 = PeekTries THEN "admit" ELSE "peek")

PeekPartialLong(c) ==
  /\ grand[c] = "peek" /\ wire[c] = "partial"
  /\ tries' = [tries EXCEPT ![c] = @ + 1]
  /\ Decide(c, IF tries[c] > PeekTries THEN "say400" ELSE "peek")

\* Bytes but no blank yet: look again, a bounded number of times.
PeekPartial(c) ==
  /\ grand[c] = "peek" /\ wire[c] = "partial"
  /\ tries' = [tries EXCEPT ![c] = @ + 1]
  /\ Decide(c, IF tries[c] + 1 = PeekTries THEN "say400" ELSE "peek")

\* Mutated form: an unreadable first token is looked at again, for ever.
PeekLineWaits(c) ==
  /\ grand[c] = "peek" /\ wire[c] \in {"line", "full"} /\ req[c] # Junk
  /\ Decide(c, IF method_allowed(route[c], req[c]) THEN "admit" ELSE "say405")
  /\ UNCHANGED tries

\* A whole first token.  Junk stands for every token peek_method refuses:
\* none in 256 bytes, empty, 32 bytes or more, an unprintable byte.
PeekLine(c) ==
  /\ grand[c] = "peek" /\ wire[c] \in {"line", "full"}
  /\ Decide(c, IF req[c] = Junk THEN "say400"
               ELSE IF method_allowed(route[c], req[c]) THEN "admit" ELSE "say405")
  /\ UNCHANGED tries

\* gate_reject: write the response ...
RejectWrite(c) ==
  /\ grand[c] \in {"say405", "say400"}
  /\ answer' = [answer EXCEPT ![c] = IF grand[c] = "say405" THEN "405" ELSE "400"]
  /\ grand' = [grand EXCEPT ![c] = "said"]
  /\ UNCHANGED <<alive, call, route, child, alarm, tries, lfd, cfd, conn,
                 wire, req, shut, unread, heard>>

\* Mutated form: close at once, without the drain.
RejectShutCloses(c) ==
  /\ grand[c] = "said"
  /\ grand' = [grand EXCEPT ![c] = "drain"]
  /\ alarm' = [alarm EXCEPT ![c] = "drain"]
  /\ conn' = [conn EXCEPT ![c] = IF unread[c] THEN "reset" ELSE "finished"]
  /\ UNCHANGED <<alive, call, route, child, tries, lfd, cfd, wire, req, shut,
                 unread, answer, heard>>

\* ... shutdown(SHUT_WR) and alarm(5) in place of the accept alarm ...
RejectShut(c) ==
  /\ grand[c] = "said"
  /\ conn' = [conn EXCEPT ![c] = "halfclosed"]
  /\ alarm' = [alarm EXCEPT ![c] = "drain"]
  /\ grand' = [grand EXCEPT ![c] = "drain"]
  /\ UNCHANGED <<alive, call, route, child, tries, lfd, cfd, wire, req, shut,
                 unread, answer, heard>>

\* ... read what the client still sends ...
DrainRead(c) ==
  /\ grand[c] = "drain" /\ unread[c]
  /\ unread' = [unread EXCEPT ![c] = FALSE]
  /\ UNCHANGED <<alive, call, route, child, grand, alarm, tries, lfd, cfd,
                 conn, wire, req, shut, answer, heard>>

\* Mutated form: the _exit(0) after gate_reject is missing.
DrainEofGoesOn(c) ==
  /\ grand[c] = "drain" /\ ~unread[c] /\ ClientFin(c)
  /\ Decide(c, "admit")
  /\ UNCHANGED tries

\* ... until its FIN, then close and _exit(0).
DrainEof(c) ==
  /\ grand[c] = "drain" /\ ~unread[c] /\ ClientFin(c)
  /\ GrandEnds(c, "rejected")
  /\ UNCHANGED <<alive, call, route, child, alarm, tries, wire, req, shut,
                 unread, answer, heard>>

\* Mutated forms: no alarm(0) before exec; close-on-exec is not honoured.
ExecKeepsAlarm(c) ==
  /\ grand[c] = "admit"
  /\ grand' = [grand EXCEPT ![c] = "handler"]
  /\ cfd' = IF CloExec THEN Closed(cfd, Grand(c)) ELSE cfd
  /\ UNCHANGED <<alive, call, route, child, alarm, tries, lfd, conn, wire, req,
                 shut, unread, answer, heard>>

ExecKeepsSockets(c) ==
  /\ grand[c] = "admit"
  /\ grand' = [grand EXCEPT ![c] = "handler"]
  /\ alarm' = [alarm EXCEPT ![c] = "off"]
  /\ UNCHANGED <<alive, call, route, child, tries, lfd, cfd, conn, wire, req,
                 shut, unread, answer, heard>>

\* alarm(0), dup2, exec of the handler: close-on-exec descriptors go, the
\* others stay with the handler.
Exec(c) ==
  /\ grand[c] = "admit"
  /\ grand' = [grand EXCEPT ![c] = "handler"]
  /\ alarm' = [alarm EXCEPT ![c] = "off"]
  /\ cfd' = IF CloExec THEN Closed(cfd, Grand(c)) ELSE cfd
  /\ UNCHANGED <<alive, call, route, child, tries, lfd, conn, wire, req, shut,
                 unread, answer, heard>>

\* SIGALRM kills the process.  A drain read finds local bytes within its 5 s,
\* so the drain alarm fires with none left unread.
AlarmFires(c) ==
  /\ alarm[c] # "off" /\ grand[c] \notin Ended
  /\ alarm[c] = "drain" => ~unread[c]
  /\ GrandEnds(c, "killed")
  /\ UNCHANGED <<alive, call, route, child, alarm, tries, wire, req, shut,
                 unread, answer, heard>>
-----------------------------------------------------------------------------
(* The handler: any program that reads a request and writes a response.    *)

HandlerAnswers(c) ==
  /\ grand[c] = "handler" /\ wire[c] = "full" /\ answer[c] = "none"
  /\ answer' = [answer EXCEPT ![c] = "handler"]
  /\ unread' = [unread EXCEPT ![c] = FALSE]
  /\ UNCHANGED <<alive, call, route, child, grand, alarm, tries, lfd, cfd,
                 conn, wire, req, shut, heard>>

\* It may stop at any point, except in a stream, which has no end of its own.
HandlerExits(c) ==
  /\ grand[c] = "handler" /\ ~(route[c] \in Streaming /\ answer[c] = "handler")
  /\ GrandEnds(c, "exited")
  /\ UNCHANGED <<alive, call, route, child, alarm, tries, wire, req, shut,
                 unread, answer, heard>>

\* The next event of a stream meets a closed client socket: SIGPIPE.
StreamBreaks(c) ==
  /\ grand[c] = "handler" /\ route[c] \in Streaming /\ answer[c] = "handler"
  /\ ClientGone(c)
  /\ GrandEnds(c, "exited")
  /\ UNCHANGED <<alive, call, route, child, alarm, tries, wire, req, shut,
                 unread, answer, heard>>
-----------------------------------------------------------------------------
(* The client over its connected socket.                                   *)

CanUse(c) == alive[ProcOf[c]] /\ call[c] = "connected"

\* Bytes sent to an end that is closed come back as a reset.
SendMore(c, upto, m) ==
  /\ CanUse(c) /\ ~shut[c]
  /\ wire' = [wire EXCEPT ![c] = upto]
  /\ req' = [req EXCEPT ![c] = m]
  /\ unread' = [unread EXCEPT ![c] = conn[c] \in {"queued", "open", "halfclosed"}]
  /\ conn' = [conn EXCEPT ![c] = IF @ = "finished" THEN "reset" ELSE @]
  /\ UNCHANGED <<alive, call, route, child, grand, alarm, tries, lfd, cfd,
                 shut, answer, heard>>

SendPartial(c) == wire[c] = "nothing" /\ SendMore(c, "partial", req[c])

SendLine(c) ==
  /\ wire[c] \in {"nothing", "partial"}
  /\ \E m \in Methods \cup {Junk} : SendMore(c, "line", m)

SendRest(c) == wire[c] = "line" /\ SendMore(c, "full", req[c])

ClientShuts(c) ==
  /\ CanUse(c) /\ ~shut[c]
  /\ shut' = [shut EXCEPT ![c] = TRUE]
  /\ UNCHANGED <<alive, call, route, child, grand, alarm, tries, lfd, cfd,
                 conn, wire, req, unread, answer, heard>>

\* After a reset the bytes that had arrived may or may not be readable.
Read(c) ==
  /\ CanUse(c) /\ heard[c] = "nothing"
  /\ \/ /\ answer[c] # "none"
        /\ heard' = [heard EXCEPT ![c] = answer[c]]
     \/ /\ answer[c] = "none" /\ conn[c] = "finished"
        /\ heard' = [heard EXCEPT ![c] = "eof"]
     \/ /\ conn[c] = "reset"
        /\ heard' = [heard EXCEPT ![c] = "reset"]
  /\ UNCHANGED <<alive, call, route, child, grand, alarm, tries, lfd, cfd,
                 conn, wire, req, shut, unread, answer>>

ClientCloses(c) ==
  /\ CanUse(c)
  /\ call' = [call EXCEPT ![c] = "closed"]
  /\ cfd' = [cfd EXCEPT ![c] = @ \ {Caller(ProcOf[c])}]
  /\ UNCHANGED <<alive, route, child, grand, alarm, tries, lfd, conn, wire,
                 req, shut, unread, answer, heard>>

\* The process of the caller is killed, wherever its threads are.
CallerDies(p) ==
  /\ alive[p]
  /\ alive' = [alive EXCEPT ![p] = FALSE]
  /\ lfd' = Closed(lfd, Caller(p))
  /\ cfd' = Closed(cfd, Caller(p))
  /\ conn' = Orphaned(lfd')
  /\ UNCHANGED <<call, route, child, grand, alarm, tries, wire, req, shut,
                 unread, answer, heard>>
-----------------------------------------------------------------------------
CallerStep(c) ==
  \/ Listen(c) \/ ListenFails(c) \/ Fork(c) \/ ForkFails(c)
  \/ CloseListen(c) \/ Connect(c) \/ ConnectEarly(c)

ChildStep(c) == ChildForks(c) \/ ChildForkFails(c)

GateStep(c) ==
  \/ StartAlarm(c) \/ Accept(c) \/ AcceptFails(c)
  \/ PeekEof(c) \/ PeekPartial(c) \/ PeekLine(c)
  \/ RejectWrite(c) \/ RejectShut(c) \/ DrainRead(c) \/ DrainEof(c)
  \/ Exec(c)

HandlerStep(c) == HandlerAnswers(c) \/ HandlerExits(c) \/ StreamBreaks(c)

ClientStep(c) ==
  \/ SendPartial(c) \/ SendLine(c) \/ SendRest(c) \/ ClientShuts(c)
  \/ Read(c) \/ ClientCloses(c)

Next ==
  \/ \E c \in Conns : \/ CallerStep(c) \/ ChildStep(c) \/ GateStep(c)
                      \/ AlarmFires(c) \/ HandlerStep(c) \/ ClientStep(c)
  \/ \E p \in Procs : CallerDies(p)

\* The kernel runs every process that can run and delivers every alarm, and
\* a client that can read does; nobody has to send, close or die.
Fairness ==
  \A c \in Conns :
    /\ WF_vars(CloseListen(c) \/ Connect(c) \/ Fork(c) \/ ForkFails(c))
    /\ WF_vars(ChildStep(c))
    /\ WF_vars(GateStep(c))
    /\ WF_vars(AlarmFires(c))
    /\ WF_vars(HandlerStep(c))
    /\ WF_vars(Read(c))

Spec == Init /\ [][Next]_vars /\ Fairness
-----------------------------------------------------------------------------
(* Properties.                                                             *)

\* Every variable keeps its type.
TypeOK ==
  /\ alive  \in [Procs -> BOOLEAN]
  /\ call   \in [Conns -> CallStates]
  /\ route  \in [Conns -> Routes]
  /\ child  \in [Conns -> ChildStates]
  /\ grand  \in [Conns -> GrandStates]
  /\ alarm  \in [Conns -> {"off", "accept", "drain"}]
  /\ tries  \in [Conns -> 0 .. PeekTries]
  /\ lfd    \in [Conns -> SUBSET Holders]
  /\ cfd    \in [Conns -> SUBSET Holders]
  /\ conn   \in [Conns -> ConnStates]
  /\ wire   \in [Conns -> Sent]
  /\ req    \in [Conns -> Methods \cup {Junk}]
  /\ shut   \in [Conns -> BOOLEAN]
  /\ unread \in [Conns -> BOOLEAN]
  /\ answer \in [Conns -> Answers]
  /\ heard  \in [Conns -> Heard]

\* "A denied request never runs any handler code": when a handler runs or has
\* run on a gated route, the first line it reads is out and its method is in
\* the allow-list, however the client cut the line into packets
\* (peek_method, method_allowed and the branch around gate_reject).
GateSound ==
  \A c \in Conns :
    grand[c] \in {"handler", "exited"} /\ Gated(route[c]) =>
      /\ wire[c] \in {"line", "full"}
      /\ req[c] \in RouteMethods[route[c]]

\* A handler runs unbounded: no alarm of the shim is pending in it, on gated
\* and ungated routes alike, because exec() would keep one (alarm(0)).
HandlerUntimed ==
  \A c \in Conns : grand[c] = "handler" => alarm[c] = "off"

\* A connection waits in the backlog only while its grandchild is still to be
\* forked or on its way to accept(), or while a process forked by another thread of the
\* same caller holds a stray copy of its listening socket: connect() never
\* succeeds towards a socket that its own fork failure has left to nobody.
QueuedHasAcceptor ==
  \A c \in Conns :
    conn[c] = "queued" =>
      \/ child[c] = "running" \/ grand[c] \in {"start", "accept"}
      \/ \E d \in Conns \ {c} :
           /\ ProcOf[d] = ProcOf[c]
           /\ lfd[c] \cap {Child(d), Grand(d)} # {}

\* Every connect() returns, with a connection or an error, unless its
\* process is killed: the parent waits only for a child that exits at once.
ConnectReturns ==
  \A c \in Conns :
    call[c] \in {"listening", "forked", "waiting"} ~>
      call[c] \in {"connected", "failed", "closed"} \/ ~alive[ProcOf[c]]

\* With the accept timeout on, no shim process stays behind: whatever the
\* caller does or dies of, a grandchild becomes the handler or ends.
ShimLetsGo ==
  \A c \in Conns :
    grand[c] \in GrandStates \ (Ended \cup {"none", "handler"}) ~>
      grand[c] \in Ended \cup {"handler"}

\* A refused client that has sent its request and goes on reading gets the
\* 405 or 400, never a reset in its place (shutdown, drain and alarm(5)).
RejectionHeard ==
  \A c \in Conns :
    grand[c] = "drain" /\ wire[c] = "full" /\ CanUse(c) ~>
      heard[c] = answer[c] \/ ~CanUse(c)

\* A client that has sent its whole request is not left hanging: it reads a
\* response, an end of file or a reset, whatever fails on the other side.
ClientHears ==
  \A c \in Conns :
    CanUse(c) /\ wire[c] = "full" ~> heard[c] # "nothing" \/ ~CanUse(c)

\* "Events are flushed until the client goes away (SIGPIPE kills us)": a
\* streaming handler ends after its client has closed the connection.
StreamEnds ==
  \A c \in Conns :
    grand[c] = "handler" /\ answer[c] = "handler" /\ ~CanUse(c) ~>
      grand[c] = "exited"

\* "The only timeout the shim imposes is the initial accept window, between
\* handler spawn and the caller's connect()": that alarm never kills a
\* process whose caller is already connected.
ConnectWaitOnly ==
  [][\A c \in Conns :
       grand[c] # "killed" /\ grand'[c] = "killed" /\ alarm[c] = "accept" =>
         conn[c] \in {"none", "queued"}]_vars
-----------------------------------------------------------------------------
(* The promise that the shim implements.                                   *)

\* What Interception sees of a connection.
Link      == [c \in Conns |-> IF conn[c] # "none" THEN "attached"
                              ELSE IF call[c] = "failed" THEN "refused"
                              ELSE "none"]
Over      == [c \in Conns |-> conn[c] \in {"finished", "reset"}]
Requested == [c \in Conns |-> IF wire[c] \in {"line", "full"} THEN req[c] ELSE "unsaid"]
Verdict   == [c \in Conns |-> CASE grand[c] \in {"handler", "exited"} -> "handler"
                                [] grand[c] = "say405" -> "405"
                                [] grand[c] = "say400" -> "400"
                                [] OTHER -> answer[c]]

Promise ==
  INSTANCE Interception WITH
    Open    <- {r \in Routes : ~Gated(r)},
    Admits  <- [r \in Routes |-> RouteMethods[r] \cap Methods],
    link    <- Link,
    over    <- Over,
    request <- Requested,
    verdict <- Verdict

\* Every step of the shim is a step of Interception or leaves its state
\* alone: one verdict per connection, made for the request that was sent,
\* and heard by the client that sent it.
KeepsPromise == Promise!Spec
=============================================================================
