---------------------------- MODULE Interception ----------------------------
(***************************************************************************)
(* What an intercepted connection promises its caller, without processes,  *)
(* descriptors or alarms: connect() is refused or attached once; an        *)
(* attached connection gets at most one verdict, made for the request it   *)
(* carries; and the client hears that verdict or the end of the            *)
(* connection, never somebody else's answer.                               *)
(***************************************************************************)
CONSTANTS
  Conns,     \* the intercepted connections
  Routes,    \* the routes of the table
  Methods,   \* the methods of readable requests
  Junk,      \* a request without a readable method
  Open,      \* the routes that admit every request
  Admits     \* the methods the other routes admit

VARIABLES
  link,      \* link[c]: none, attached or refused
  over,      \* over[c]: the serving side has ended the connection
  route,     \* route[c]: its route
  request,   \* request[c]: the method of its request, "unsaid" before
  verdict,   \* verdict[c]: none, handler, 405 or 400
  heard      \* heard[c]: what the client has read

vars == <<link, over, route, request, verdict, heard>>

Init ==
  /\ link    = [c \in Conns |-> "none"]
  /\ over    = [c \in Conns |-> FALSE]
  /\ route   \in [Conns -> Routes]
  /\ request = [c \in Conns |-> "unsaid"]
  /\ verdict = [c \in Conns |-> "none"]
  /\ heard   = [c \in Conns |-> "nothing"]

Settle(c, how) ==
  /\ link[c] = "none"
  /\ link' = [link EXCEPT ![c] = how]
  /\ UNCHANGED <<over, route, request, verdict, heard>>

Say(c) ==
  /\ link[c] = "attached" /\ request[c] = "unsaid"
  /\ \E m \in Methods \cup {Junk} : request' = [request EXCEPT ![c] = m]
  /\ UNCHANGED <<link, over, route, verdict, heard>>

\* The verdicts a route may give to a request.
Verdicts(c) ==
  IF route[c] \in Open THEN {"handler"}
  ELSE IF request[c] \notin Methods THEN {"400"}
  ELSE IF request[c] \in Admits[route[c]] THEN {"handler"}
  ELSE {"405"}

Judge(c) ==
  /\ link[c] = "attached" /\ ~over[c] /\ verdict[c] = "none"
  /\ verdict' \in {[verdict EXCEPT ![c] = v] : v \in Verdicts(c)}
  /\ UNCHANGED <<link, over, route, request, heard>>

\* The serving side of some connections ends, of several at once when one
\* process kept them.  A verdict of the gate that a client has not heard may be
\* lost with it.
End(S) ==
  /\ \A c \in S : link[c] = "attached" /\ ~over[c]
  /\ over' = [c \in Conns |-> over[c] \/ c \in S]
  /\ \E lost \in SUBSET {c \in S : verdict[c] \in {"405", "400"} /\ heard[c] = "nothing"} :
       verdict' = [c \in Conns |-> IF c \in lost THEN "none" ELSE verdict[c]]
  /\ UNCHANGED <<link, route, request, heard>>

Hear(c) ==
  /\ link[c] = "attached" /\ heard[c] = "nothing"
  /\ \E h \in {"handler", "405", "400", "eof", "reset"} :
       /\ \/ h = verdict[c]
          \/ h = "eof" /\ over[c] /\ verdict[c] \in {"none", "handler"}
          \/ h = "reset" /\ over[c]
       /\ heard' = [heard EXCEPT ![c] = h]
  /\ UNCHANGED <<link, over, route, request, verdict>>

Next ==
  \/ \E c \in Conns :
       \/ Settle(c, "attached") \/ Settle(c, "refused")
       \/ Say(c) \/ Judge(c) \/ Hear(c)
  \/ \E S \in SUBSET Conns : End(S)

Spec == Init /\ [][Next]_vars
=============================================================================
