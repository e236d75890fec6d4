------------------------------ MODULE MqttTopic ----------------------------
(***************************************************************************)
(* POST, GET and DELETE /stream/{topic} of the mqtt handler, concurrently  *)
(* on one topic: publish with its wait for an acknowledgement, read the    *)
(* retained message, clear it.  Each handler process has a connection to   *)
(* the broker, which is external.  Processes are numbered in the order in  *)
(* which they begin, and a message has the number of its publisher.        *)
(***************************************************************************)
EXTENDS Naturals, Sequences

CONSTANT Requests \* how many requests there are, each with its process

ASSUME TopicAssumption == Requests \in Nat

Procs  == 1..Requests
Nobody == 0

VARIABLES
  held,   \* what the broker retains
  took,   \* the processes whose message the broker has taken
  line,   \* line[p] - link; out: frames to the broker; in: frames from it;
          \* joined: it has the subscription
  hand    \* hand[p] - op; qos; pc; acked; found: messages with the retain
          \* flag; kept: what was retained since it began; reply

topicVars == <<held, took, line, hand>>

TopicInit ==
  /\ held = Nobody
  /\ took = {}
  /\ line = [p \in Procs |-> [link |-> "none", out |-> <<>>, in |-> <<>>, joined |-> FALSE]]
  /\ hand = [p \in Procs |-> [op |-> "none", qos |-> 0, pc |-> "idle",
                              acked |-> FALSE, found |-> <<>>, kept |-> {}, reply |-> 0]]

Does(p, ops)    == hand[p].op \in ops
Stands(p, step) == hand[p].pc = step

\* The answer, and c.disconnect(); what was written may still arrive.
Ends(p, status) ==
  /\ hand' = [hand EXCEPT ![p].pc = "done", ![p].reply = status]
  /\ line' = [line EXCEPT ![p].in = <<>>, ![p].joined = FALSE]

Ack    == [kind |-> "ack", from |-> Nobody, retain |-> FALSE]
Msg(q, flag) == [kind |-> "message", from |-> q, retain |-> flag]
-----------------------------------------------------------------------------
(* The broker (external)                                                   *)

\* The next frame of p arrives.  Subscribers get what is published; the retain
\* flag marks what was there before them.  Empty and retained: nothing is.
BrokerTakes(p) ==
  /\ line[p].link = "up" /\ line[p].out # <<>>
  /\ LET frame == Head(line[p].out)
         rest(q) == IF q = p THEN Tail(line[q].out) ELSE line[q].out
         push(q) ==
           IF frame.kind = "subscribe"
             THEN IF q = p /\ held # Nobody THEN <<Msg(held, TRUE)>> ELSE <<>>
             ELSE (IF line[q].joined /\ line[q].link = "up" THEN <<Msg(p, FALSE)>> ELSE <<>>)
                  \o (IF q = p /\ frame.qos > 0 /\ ~Stands(q, "done") THEN <<Ack>> ELSE <<>>)
     IN /\ line' = [q \in Procs |->
                      [line[q] EXCEPT !.out = rest(q), !.in = @ \o push(q),
                                      !.joined = @ \/ (q = p /\ frame.kind = "subscribe")]]
        /\ held' = IF frame.kind = "subscribe" \/ ~frame.retain THEN held
                   ELSE IF frame.empty THEN Nobody ELSE p
        /\ hand' = [q \in Procs |-> [hand[q] EXCEPT !.kept =
                      @ \cup IF Does(q, {"get"}) /\ Stands(q, "loop") THEN {held'} ELSE {}]]
        /\ took' = IF frame.kind = "publish" THEN took \cup {p} ELSE took

\* One connection may break; or the broker closes it, for two handlers that
\* share a configured client_id.
Breaks(p) ==
  /\ line[p].link = "up" /\ ~Stands(p, "done")
  /\ \A q \in Procs : line[q].link # "lost"
  /\ line' = [line EXCEPT ![p].link = "lost", ![p].out = <<>>, ![p].in = <<>>]
  /\ UNCHANGED <<held, took, hand>>
-----------------------------------------------------------------------------
(* The handler                                                             *)

\* route() and client(): CONNACK within the deadline, or a 502.  Then
\* c.publish() or c.subscribe() writes a frame; at QoS 0 that is all, and DELETE
\* publishes an empty retained message at QoS 1.
Begin(p, op, qos, retain) ==
  /\ Stands(p, "idle") /\ \A q \in 1..(p-1) : ~Stands(q, "idle")
  /\ op # "post" => qos = 1 /\ retain = (op = "delete")
  /\ \E ok \in BOOLEAN :
       /\ hand' = [hand EXCEPT ![p].op = op, ![p].qos = qos,
                               ![p].kept = IF op = "get" THEN {held} ELSE {},
                               ![p].acked = ok /\ qos = 0, ![p].pc = IF ok THEN "loop" ELSE "done",
                               ![p].reply = IF ok THEN 0 ELSE 502]
       /\ line' = IF ~ok THEN line
                  ELSE [line EXCEPT ![p].link = "up",
                                    ![p].out = <<[kind |-> IF op = "get" THEN "subscribe" ELSE "publish",
                                                  qos |-> qos, retain |-> retain, empty |-> op = "delete"]>>]
  /\ UNCHANGED <<held, took>>

\* The loops' conditions: publish and clear stop at the acknowledgement, the
\* read of a single topic at the first message found.
Waiting(p) ==
  /\ Stands(p, "loop") /\ ~hand[p].acked /\ hand[p].found = <<>>

\* Mutated form: any message on the topic will do.
LoopAny(p) ==
  /\ Waiting(p) /\ line[p].in # <<>>
  /\ hand' = [hand EXCEPT ![p].acked = Head(line[p].in).kind = "ack",
                          ![p].found = IF Head(line[p].in).kind = "ack" THEN @
                                       ELSE Append(@, Head(line[p].in).from)]
  /\ line' = [line EXCEPT ![p].in = Tail(@)]
  /\ UNCHANGED <<held, took>>

\* c.loop() takes what has come; on_message() keeps what has the retain flag.
Loop(p) ==
  /\ Waiting(p) /\ line[p].in # <<>>
  /\ LET frame == Head(line[p].in)
     IN hand' = [hand EXCEPT ![p].acked = frame.kind = "ack",
                             ![p].found = IF frame.retain THEN Append(@, frame.from) ELSE @]
  /\ line' = [line EXCEPT ![p].in = Tail(@)]
  /\ UNCHANGED <<held, took>>

\* The loop is over, or the deadline is, at any moment; on a broken connection
\* c.loop() only returns an error.  handle_clear() does not ask whether the
\* deadline or the acknowledgement came first.
AnswerTopic(p) ==
  /\ Stands(p, "loop")
  /\ Ends(p, CASE Does(p, {"get"}) /\ hand[p].found = <<>> -> 404
               [] Does(p, {"post"}) /\ hand[p].qos > 0 /\ ~hand[p].acked -> 502
               [] OTHER -> 200)
  /\ UNCHANGED <<held, took>>

TopicNext ==
  \E p \in Procs :
    \/ \E op \in {"post", "get", "delete"}, qos \in {0, 1}, retain \in BOOLEAN : Begin(p, op, qos, retain)
    \/ Loop(p) \/ AnswerTopic(p)
    \/ BrokerTakes(p) \/ Breaks(p)

TopicSpec == TopicInit /\ [][TopicNext]_topicVars
-----------------------------------------------------------------------------
(* Properties                                                              *)

\* A 200 to a publish at QoS 1 or 2 means that the broker has the message.
AckedIsTaken ==
  \A p \in Procs : hand[p].reply = 200 /\ Does(p, {"post"}) /\ hand[p].qos > 0 => p \in took

\* A message that GET answers with was retained when the request began, or
\* became so later; never one that was only passing, or had been cleared.
FoundIsRetained ==
  \A p \in Procs : hand[p].reply = 200 /\ Does(p, {"get"}) => Head(hand[p].found) \in hand[p].kept

\* A publish that is answered with 200 at QoS 1 or 2 is the broker's, and what a
\* GET answers with 200 was retained, while others publish, clear and read, and
\* over connections that break.  A DELETE, which answers 200 without an
\* acknowledgement, and a GET that finds nothing by its deadline are left out.
TopicAnswersTrue == AckedIsTaken /\ FoundIsRetained
=============================================================================
