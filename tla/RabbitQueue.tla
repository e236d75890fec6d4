----------------------------- MODULE RabbitQueue ----------------------------
(***************************************************************************)
(* The rabbit handler (handlers/lib/rabbit/handler.py): concurrent         *)
(* requests for one queue, each served by a process with a broker          *)
(* connection of its own.  The broker is external: a classic queue that    *)
(* keeps publish order, holds what was delivered until it is acknowledged, *)
(* and takes it back when the connection that holds it ends.  Messages are *)
(* numbered in the order in which the broker accepted them.                *)
(*                                                                         *)
(* Publishes, nacks and the goodbye of a connection are frames on their    *)
(* way to the broker; declare, get, purge and consume wait for the         *)
(* broker's answer, so they come after every frame sent before them.       *)
(***************************************************************************)
EXTENDS Naturals, Sequences, FiniteSetsExt, SequencesExt

CONSTANTS
  Handlers,   \* processes, each serving one request
  Limits,     \* the values of ?limit=
  Backlogs    \* how many messages the queue holds at first

ASSUME NatAssumption == Limits \subseteq Nat /\ Backlogs \subseteq Nat

VARIABLES
  queue,   \* exists; last: newest message; ready: can be handed out;
           \* gone: purged or consumed
  conn,    \* conn[p], at the broker and on the way to it - link: its state;
           \* frames: not yet taken; held: delivered, not acknowledged;
           \* consumer: messages are pushed; arrived: its publish was enqueued
  proc,    \* proc[p] - op: the route served; limit: ?limit=, at least 1; pc;
           \* got: messages received, in order; reply: what was answered
  client   \* client[p]: p's HTTP client, as p's socket knows it

vars == <<queue, conn, proc, client>>

Ops   == {"count", "post", "purge", "peek", "tail", "exchange"}
Steps == {"idle", "find", "declare", "work", "answer", "stream", "close", "closing", "done"}
Frame == [kind : {"publish", "route", "nack", "close"}, message : Nat]

Queue(exists, n) == [exists |-> exists, last |-> n, ready |-> 1..n, gone |-> {}]

Init ==
  /\ queue \in {Queue(FALSE, 0)} \cup {Queue(TRUE, n) : n \in Backlogs}
  /\ conn = [p \in Handlers |-> [link |-> "none", frames |-> <<>>, held |-> {},
                                 consumer |-> FALSE, arrived |-> FALSE]]
  /\ proc = [p \in Handlers |-> [op |-> "none", limit |-> 1, pc |-> "idle",
                                 got |-> <<>>, reply |-> "none"]]
  /\ client = [p \in Handlers |-> "there"]

At(p, ops, step) == proc[p].op \in ops /\ proc[p].pc = step
Goto(p, next)    == proc' = [proc EXCEPT ![p].pc = next]
Up(p)            == conn[p].link = "up"

\* p waits for the broker: the connection is up and all it sent has been taken.
InStep(p) == Up(p) /\ conn[p].frames = <<>>

\* The frames fs are written; a connection that has broken may still take them.
Send(p, fs) == conn' = [conn EXCEPT ![p].frames = IF Up(p) THEN @ \o fs ELSE @]

Nack(m) == [kind |-> "nack", message |-> m]
First   == Min(queue.ready)   \* the head of the queue
-----------------------------------------------------------------------------
(* The handler                                                             *)

\* Mutated form: the limit is taken as it comes.
StartUnclamped(p, o, n) ==
  /\ proc[p].pc = "idle"
  /\ proc' = [proc EXCEPT ![p].op = o, ![p].limit = IF o = "peek" THEN n ELSE 1,
                          ![p].pc = IF o = "exchange" THEN "work" ELSE "find"]
  /\ conn' = [conn EXCEPT ![p].link = "up"]
  /\ UNCHANGED <<queue, client>>

\* route(): the request is read and the connection opened.  A request refused
\* before that (payload_error(), amqp_conn() failing) is one never started.
Start(p, o, n) ==
  /\ proc[p].pc = "idle"
  /\ proc' = [proc EXCEPT ![p].op = o, ![p].limit = IF o = "peek" THEN Max({1, n}) ELSE 1,
                          ![p].pc = IF o = "exchange" THEN "work" ELSE "find"]
  /\ conn' = [conn EXCEPT ![p].link = "up"]
  /\ UNCHANGED <<queue, client>>

\* _queue(): a passive declare finds the queue ...
Found(p) ==
  /\ At(p, Ops, "find") /\ InStep(p) /\ queue.exists
  /\ Goto(p, "work") /\ UNCHANGED <<queue, conn, client>>

\* Mutated form: a missing queue is declared whatever the method.
MissingCreates(p) ==
  /\ At(p, Ops, "find") /\ InStep(p) /\ ~queue.exists
  /\ Goto(p, "declare") /\ UNCHANGED <<queue, conn, client>>

\* Mutated form: POST trusts the default exchange to know the queue.
MissingPublishes(p) ==
  /\ At(p, Ops, "find") /\ InStep(p) /\ ~queue.exists
  /\ Goto(p, IF proc[p].op = "post" THEN "work" ELSE "close")
  /\ UNCHANGED <<queue, conn, client>>

\* ... or does not: only POST goes on, to declare it; QueueNotFound for others.
Missing(p) ==
  /\ At(p, Ops, "find") /\ InStep(p) /\ ~queue.exists
  /\ Goto(p, IF proc[p].op = "post" THEN "declare" ELSE "close")
  /\ UNCHANGED <<queue, conn, client>>

Declare(p) ==
  /\ At(p, Ops, "declare") /\ InStep(p)
  /\ queue' = [queue EXCEPT !.exists = TRUE]
  /\ Goto(p, "work") /\ UNCHANGED <<conn, client>>

\* The counts came with the declare.
Count(p) ==
  /\ At(p, {"count"}, "work")
  /\ Goto(p, "answer") /\ UNCHANGED <<queue, conn, client>>

\* basic_publish() returns when the frame is written; no confirm is awaited.
Publish(p) ==
  /\ At(p, {"post", "exchange"}, "work")
  /\ Send(p, <<[kind |-> IF proc[p].op = "post" THEN "publish" ELSE "route", message |-> 0]>>)
  /\ Goto(p, "answer") /\ UNCHANGED <<queue, client>>

\* queue_purge() removes what is ready, not what other connections hold.
Purge(p) ==
  /\ At(p, {"purge"}, "work") /\ InStep(p)
  /\ queue' = [queue EXCEPT !.gone = @ \cup queue.ready, !.ready = {}]
  /\ Goto(p, "answer") /\ UNCHANGED <<conn, client>>

\* peek's loop: basic_get until the limit, or until nothing is ready.
More(p) == queue.ready # {} /\ Len(proc[p].got) < proc[p].limit

\* Mutated form: auto_ack=True.
GetAcked(p) ==
  /\ At(p, {"peek"}, "work") /\ InStep(p) /\ More(p)
  /\ proc' = [proc EXCEPT ![p].got = Append(@, First)]
  /\ queue' = [queue EXCEPT !.ready = @ \ {First}]
  /\ UNCHANGED <<conn, client>>

\* Mutated form: every message is put back as soon as it has been read.
GetNacks(p) ==
  /\ At(p, {"peek"}, "work") /\ InStep(p) /\ More(p)
  /\ proc' = [proc EXCEPT ![p].got = Append(@, First)]
  /\ queue' = [queue EXCEPT !.ready = @ \ {First}]
  /\ conn' = [conn EXCEPT ![p].held = @ \cup {First}, ![p].frames = <<Nack(First)>>]
  /\ UNCHANGED client

\* basic_get(auto_ack=False)
Get(p) ==
  /\ At(p, {"peek"}, "work") /\ InStep(p) /\ More(p)
  /\ proc' = [proc EXCEPT ![p].got = Append(@, First)]
  /\ queue' = [queue EXCEPT !.ready = @ \ {First}]
  /\ conn' = [conn EXCEPT ![p].held = @ \cup {First}]
  /\ UNCHANGED client

\* All go back, with one nack each.
NackAll(p) ==
  /\ At(p, {"peek"}, "work") /\ InStep(p) /\ ~More(p)
  /\ Send(p, [i \in DOMAIN proc[p].got |-> Nack(proc[p].got[i])])
  /\ Goto(p, "answer") /\ UNCHANGED <<queue, client>>

\* send_json(200), before the connection is closed.
Answer(p) ==
  /\ At(p, Ops, "answer")
  /\ proc' = [proc EXCEPT ![p].reply = "200", ![p].pc = "close"]
  /\ UNCHANGED <<queue, conn, client>>

\* send_sse_headers() and consume(auto_ack=False): no prefetch limit is set.
Consume(p) ==
  /\ At(p, {"tail"}, "work") /\ InStep(p)
  /\ proc' = [proc EXCEPT ![p].reply = "sse", ![p].pc = "stream"]
  /\ conn' = [conn EXCEPT ![p].consumer = TRUE]
  /\ UNCHANGED <<queue, client>>

\* The first write to a socket whose client has gone still succeeds; it makes
\* the client's side answer with a reset.
Written(p) ==
  /\ client[p] # "reset"
  /\ client' = [client EXCEPT ![p] = IF @ = "gone" THEN "reset" ELSE @]

WriteEvent(p) ==
  /\ At(p, {"tail"}, "stream") /\ proc[p].got # <<>> /\ Written(p)
  /\ proc' = [proc EXCEPT ![p].got = Tail(@)]
  /\ UNCHANGED <<queue, conn>>

\* Mutated form: the comment stays in the buffer.
WriteIdleUnflushed(p) ==
  /\ At(p, {"tail"}, "stream") /\ proc[p].got = <<>>
  /\ UNCHANGED vars

\* inactivity_timeout: a comment after every second without a message.
WriteIdle(p) ==
  /\ At(p, {"tail"}, "stream") /\ proc[p].got = <<>> /\ Written(p)
  /\ UNCHANGED <<queue, conn, proc>>

\* The process has answered, or is killed: its memory is no more.
Exit(p, reply) ==
  proc' = [proc EXCEPT ![p].pc = "done", ![p].got = <<>>, ![p].limit = 1, ![p].reply = reply]

\* The next write meets the reset.  SIGPIPE has its default action and kills
\* the handler: the kernel closes the connection ...
Killed(p) ==
  /\ At(p, {"tail"}, "stream") /\ client[p] = "reset"
  /\ Exit(p, "sse")
  /\ conn' = [conn EXCEPT ![p].link = IF Up(p) THEN "broken" ELSE @, ![p].frames = <<>>]
  /\ UNCHANGED <<queue, client>>

\* ... or it fails with ECONNRESET, and the loop is left by its except.
StreamEnds(p) ==
  /\ At(p, {"tail"}, "stream") /\ client[p] = "reset"
  /\ Goto(p, "close") /\ UNCHANGED <<queue, conn, client>>

\* A call that needs the broker fails: the exception passes `finally` and
\* reaches main(), whose 500 is an answer only where none was written.
Fail(p) ==
  /\ proc[p].pc \in {"find", "declare", "work", "stream"} /\ ~Up(p)
  /\ Exit(p, IF proc[p].reply = "none" THEN "error" ELSE proc[p].reply)
  /\ UNCHANGED <<queue, conn, client>>

\* conn.close() says goodbye and waits ...
Close(p) ==
  /\ At(p, Ops, "close") /\ Up(p)
  /\ Send(p, <<[kind |-> "close", message |-> 0]>>)
  /\ Goto(p, "closing") /\ UNCHANGED <<queue, client>>

\* ... for the broker; QueueNotFound is answered only then, by main_route().
\* On a broken connection close() raises, and main() answers 500 instead.
Closed(p) ==
  /\ proc[p].pc \in {"close", "closing"} /\ ~Up(p)
  /\ Exit(p, IF proc[p].reply # "none" THEN proc[p].reply
             ELSE IF conn[p].link = "down" THEN "404" ELSE "error")
  /\ UNCHANGED <<queue, conn, client>>

Handler(p) ==
  \/ Found(p) \/ Missing(p) \/ Declare(p) \/ Count(p) \/ Publish(p) \/ Purge(p)
  \/ Get(p) \/ NackAll(p) \/ Answer(p) \/ Consume(p) \/ WriteEvent(p) \/ WriteIdle(p)
  \/ Killed(p) \/ StreamEnds(p) \/ Fail(p) \/ Close(p) \/ Closed(p)
-----------------------------------------------------------------------------
(* The broker, the network and the clients                                 *)

Incoming(p, kind) == conn[p].frames # <<>> /\ Head(conn[p].frames).kind = kind

Enqueue(p) ==
  /\ queue' = [queue EXCEPT !.last = @ + 1, !.ready = @ \cup {queue.last + 1}]
  /\ conn' = [conn EXCEPT ![p].frames = Tail(@), ![p].arrived = TRUE]

Drop(p) ==
  /\ conn' = [conn EXCEPT ![p].frames = Tail(@)]
  /\ UNCHANGED queue

\* The default exchange hands a message to the queue of that name, or drops it.
TakePublish(p) ==
  /\ Incoming(p, "publish")
  /\ IF queue.exists THEN Enqueue(p) ELSE Drop(p)
  /\ UNCHANGED <<proc, client>>

\* A named exchange may be bound to the queue, to others, or not be there.
TakeRoute(p) ==
  /\ Incoming(p, "route")
  /\ \/ queue.exists /\ Enqueue(p)
     \/ Drop(p)
  /\ UNCHANGED <<proc, client>>

\* A requeued message goes back to where it was in the queue.
TakeNack(p) ==
  /\ Incoming(p, "nack")
  /\ LET m == Head(conn[p].frames).message
     IN  /\ conn' = [conn EXCEPT ![p].frames = Tail(@), ![p].held = @ \ {m}]
         /\ queue' = [queue EXCEPT !.ready = @ \cup {m}]
  /\ UNCHANGED <<proc, client>>

\* A connection that ends gives back what it still holds.
GiveBack(p, link) ==
  /\ queue' = [queue EXCEPT !.ready = @ \cup conn[p].held]
  /\ conn' = [conn EXCEPT ![p].held = {}, ![p].consumer = FALSE,
                          ![p].frames = <<>>, ![p].link = link]
  /\ UNCHANGED <<proc, client>>

TakeClose(p) == Incoming(p, "close") /\ GiveBack(p, "down")

\* The broker notices a broken connection (a reset, or missed heartbeats).
Notice(p) == conn[p].link = "broken" /\ GiveBack(p, "lost")

\* Messages are pushed to a consumer until its end is noticed.
Deliver(p) ==
  /\ conn[p].consumer /\ queue.ready # {}
  /\ conn' = [conn EXCEPT ![p].held = @ \cup {First}]
  /\ proc' = IF Up(p) THEN [proc EXCEPT ![p].got = Append(@, First)] ELSE proc
  /\ queue' = [queue EXCEPT !.ready = @ \ {First}]
  /\ UNCHANGED client

\* (Bound: one connection at most breaks by itself.)
LinkBreaks(p) ==
  /\ Up(p) /\ \A r \in Handlers : conn[r].link \notin {"broken", "lost"}
  /\ conn' = [conn EXCEPT ![p].link = "broken", ![p].frames = <<>>]
  /\ UNCHANGED <<queue, proc, client>>

\* An ordinary consumer of the queue takes a message and acknowledges it.
OtherConsumes ==
  /\ queue.ready # {}
  /\ queue' = [queue EXCEPT !.gone = @ \cup {First}, !.ready = @ \ {First}]
  /\ UNCHANGED <<conn, proc, client>>

\* Only a tail outlives its client's patience.
ClientLeaves(p) ==
  /\ At(p, {"tail"}, "stream") /\ client[p] = "there"
  /\ client' = [client EXCEPT ![p] = "gone"]
  /\ UNCHANGED <<queue, conn, proc>>

Broker(p) ==
  \/ TakePublish(p) \/ TakeRoute(p) \/ TakeNack(p) \/ TakeClose(p)
  \/ Notice(p) \/ Deliver(p)
-----------------------------------------------------------------------------
Next ==
  \/ \E p \in Handlers :
       \/ \E o \in Ops, n \in Limits : Start(p, o, n)
       \/ Handler(p) \/ Broker(p) \/ LinkBreaks(p) \/ ClientLeaves(p)
  \/ OtherConsumes

\* A handler that can take a step takes one, and so does the broker for each
\* of its connections.  Nobody must start, leave, break or consume.
Fairness == \A p \in Handlers : WF_vars(Handler(p)) /\ WF_vars(Broker(p))

Spec == Init /\ [][Next]_vars /\ Fairness
-----------------------------------------------------------------------------
TypeOK ==
  /\ queue.exists \in BOOLEAN /\ queue.last \in Nat
  /\ queue.ready \subseteq 1..queue.last /\ queue.gone \subseteq 1..queue.last
  /\ conn \in [Handlers -> [link : {"none", "up", "broken", "lost", "down"},
                            frames : Seq(Frame), held : SUBSET (1..queue.last),
                            consumer : BOOLEAN, arrived : BOOLEAN]]
  /\ proc \in [Handlers -> [op : Ops \cup {"none"}, limit : Nat \ {0}, pc : Steps,
                            got : Seq(1..queue.last),
                            reply : {"none", "200", "404", "error", "sse"}]]
  /\ client \in [Handlers -> {"there", "gone", "reset"}]

\* No message is lost or doubled by peek, tail or a broken connection: each one
\* the broker accepted is ready, held by one connection, or was purged or
\* consumed, and never two of these.
Conserved ==
  /\ 1..queue.last = queue.ready \cup queue.gone \cup UNION {conn[p].held : p \in Handlers}
  /\ queue.ready \cap queue.gone = {}
  /\ \A p \in Handlers : conn[p].held \cap (queue.ready \cup queue.gone) = {}
  /\ \A p, r \in Handlers : p # r => conn[p].held \cap conn[r].held = {}

\* What a peek has collected are different messages, at most as many as asked
\* for: a message goes back only after the last has been fetched.
PeekDistinct ==
  \A p \in Handlers : proc[p].op = "peek" =>
    Len(proc[p].got) <= proc[p].limit /\ IsInjective(proc[p].got)

\* Only a POST that has not answered yet creates a queue.
OnlyPostCreates ==
  [][queue'.exists # queue.exists =>
       \E p \in Handlers : /\ proc[p].op = "post" /\ proc[p].reply = "none"
                           /\ proc'[p].pc # proc[p].pc]_vars

\* A peek, and a tail whose client has gone, hands back all it holds, however
\* it ends: normally, killed, or with a broken connection.
HeldComesBack ==
  \A p \in Handlers :
    (conn[p].held # {} /\ (proc[p].op = "peek" \/ client[p] # "there"))
      ~> (conn[p].held = {})

\* A message that was reported as published reaches the queue, unless the
\* connection breaks: the 200 does not wait for the broker.
PublishedArrives ==
  \A p \in Handlers :
    (proc[p].op = "post" /\ proc[p].reply = "200")
      ~> (conn[p].arrived \/ conn[p].link \in {"broken", "lost"})
=============================================================================
