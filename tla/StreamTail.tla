----------------------------- MODULE StreamTail ----------------------------
(***************************************************************************)
(* GET /stream/{name}/tail of the mqtt, redis, kafka and postgres          *)
(* handlers: a subscription at a broker, turned into Server-Sent Events    *)
(* for a client that may leave, over a broker connection that may break.   *)
(* (RabbitMQ, whose tail holds messages, is in RabbitQueue.)  The brokers  *)
(* and their client libraries are external.  Messages are numbered in the  *)
(* order in which the broker took them.                                    *)
(***************************************************************************)
EXTENDS Naturals, Sequences, SequencesExt

CONSTANTS
  Feeds,        \* which of the four brokers
  LastMessage,  \* messages that others publish
  IdleTicks     \* silent rounds before mqtt's comment (ten)

ASSUME TailAssumption ==
  /\ Feeds \subseteq {"mqtt", "redis", "kafka", "postgres"}
  /\ LastMessage \in Nat /\ IdleTicks \in Nat \ {0}

VARIABLES
  bus,    \* the broker - log: messages published; low: the oldest one kept
          \* (kafka); link: the connection to the handler; joined: it has the
          \* subscription; wire: pushed, not yet taken; broke: it did, once
  tail,   \* the handler - feed; earliest: ?from= (kafka); pc; next: position
          \* (kafka); batch: taken, not yet written; idle: silent rounds
  sse,    \* events: messages written, in order; last: the last thing written;
          \* peer: the client - one write to a closed socket still succeeds
  missed, \* messages the subscription was not given
  start   \* the first message after it was made

tailVars == <<bus, tail, sse, missed, start>>

TailInit ==
  /\ bus = [log |-> 0, low |-> 1, link |-> "none", joined |-> FALSE, wire |-> <<>>,
            broke |-> FALSE]
  /\ tail \in [feed : Feeds, earliest : BOOLEAN, pc : {"connect"}, next : {0},
               batch : {<<>>}, idle : {0}]
  /\ tail.earliest => tail.feed = "kafka"
  /\ sse = [events |-> <<>>, last |-> "nothing", peer |-> "there"]
  /\ missed = {} /\ start = 0

Feed(b)  == tail.feed = b
In(step) == tail.pc = step
Live     == bus.link = "up"
-----------------------------------------------------------------------------
(* The brokers and their libraries (external)                              *)

Publish ==
  /\ bus.log < LastMessage
  /\ bus' = [bus EXCEPT !.log = @ + 1,
                        !.wire = IF bus.joined /\ Live THEN Append(@, bus.log + 1) ELSE @]
  /\ missed' = IF Feed("kafka") \/ start = 0 \/ (bus.joined /\ Live) THEN missed
               ELSE missed \cup {bus.log + 1}
  /\ UNCHANGED <<tail, sse, start>>

\* The subscription arrives.  No handler waits for that before its headers.
Join ==
  /\ ~Feed("kafka") /\ Live /\ ~bus.joined
  /\ bus' = [bus EXCEPT !.joined = TRUE]
  /\ start' = IF start = 0 THEN bus.log + 1 ELSE start
  /\ UNCHANGED <<tail, sse, missed>>

\* Retention deletes the oldest record.
Truncate ==
  /\ Feed("kafka") /\ bus.low <= bus.log
  /\ bus' = [bus EXCEPT !.low = @ + 1]
  /\ missed' = missed \cup {bus.low}
  /\ UNCHANGED <<tail, sse, start>>

Break ==
  /\ Live /\ ~bus.broke
  /\ bus' = [bus EXCEPT !.link = "lost", !.joined = FALSE, !.wire = <<>>, !.broke = TRUE]
  /\ missed' = missed \cup Range(bus.wire)
  /\ UNCHANGED <<tail, sse, start>>

\* librdkafka reconnects, and so may redis-py, which subscribes again and does
\* not tell what it missed.
Reconnect ==
  /\ bus.link = "lost" /\ tail.feed \in {"kafka", "redis"}
  /\ bus' = [bus EXCEPT !.link = "up"]
  /\ UNCHANGED <<tail, sse, missed, start>>

PeerLeaves ==
  /\ sse.peer = "there" /\ ~In("done")
  /\ sse' = [sse EXCEPT !.peer = "gone"]
  /\ UNCHANGED <<bus, tail, missed, start>>

World == Publish \/ Join \/ Truncate \/ Break \/ Reconnect \/ PeerLeaves
-----------------------------------------------------------------------------
(* The handlers                                                            *)

\* The handler goes on as t and writes: what, with the messages ms.  A write
\* that fails (BrokenPipeError) ends it.
Write(t, what, ms) ==
  /\ tail' = IF sse.peer = "reset" THEN [t EXCEPT !.pc = "done"] ELSE t
  /\ sse' = CASE sse.peer = "there" -> [sse EXCEPT !.events = @ \o ms, !.last = what]
              [] sse.peer = "gone"  -> [sse EXCEPT !.peer = "reset"]
              [] OTHER              -> sse

\* mqtt waits for its CONNACK; kafka reads the watermarks, from which it will
\* consume, and nothing published later is skipped.
Attach ==
  /\ In("connect")
  /\ bus' = [bus EXCEPT !.link = "up"]
  /\ IF Feed("kafka")
       THEN start' = IF tail.earliest THEN bus.low ELSE bus.log + 1
       ELSE UNCHANGED start
  /\ tail' = [tail EXCEPT !.pc = "head", !.next = start']
  /\ UNCHANGED <<sse, missed>>

\* The answers to a tail that cannot begin: a topic, a channel or a start that is
\* none, a topic that is not there, a broker that does not answer (a 500 of main(),
\* a 502 of mqtt's route()).
Refusals ==
  [mqtt |-> {"400", "502"}, redis |-> {"500"}, kafka |-> {"400", "404", "500"},
   postgres |-> {"400", "500"}]

AttachFails ==
  /\ In("connect")
  /\ \E status \in Refusals[tail.feed] : Write([tail EXCEPT !.pc = "done"], status, <<>>)
  /\ UNCHANGED <<bus, missed, start>>

\* send_sse_headers() and the comment that names the subscription.
SendHead ==
  /\ In("head")
  /\ Write([tail EXCEPT !.pc = "wait"], "head", <<>>)
  /\ UNCHANGED <<bus, missed, start>>

\* Mutated form: a batch replaces the one before it was written.
MqttLoopLast ==
  /\ Feed("mqtt") /\ In("wait")
  /\ tail' = [tail EXCEPT !.pc = "flush", !.batch = IF bus.wire = <<>> THEN <<>> ELSE <<Last(bus.wire)>>]
  /\ bus' = [bus EXCEPT !.wire = <<>>]
  /\ UNCHANGED <<sse, missed, start>>

\* c.loop(timeout=0.5): on_message() fills pending, and the library has
\* acknowledged what it took.
MqttLoop ==
  /\ Feed("mqtt") /\ In("wait")
  /\ \E n \in IF bus.wire = <<>> THEN {0} ELSE 1..Len(bus.wire) :
       /\ tail' = [tail EXCEPT !.pc = "flush", !.batch = SubSeq(bus.wire, 1, n)]
       /\ bus' = [bus EXCEPT !.wire = SubSeq(@, n + 1, Len(@))]
  /\ UNCHANGED <<sse, missed, start>>

MqttFlush ==
  /\ Feed("mqtt") /\ In("flush") /\ tail.batch # <<>>
  /\ Write([tail EXCEPT !.batch = Tail(@), !.idle = 0,
                        !.pc = IF Len(tail.batch) = 1 THEN "check" ELSE "flush"],
           "event", <<Head(tail.batch)>>)
  /\ UNCHANGED <<bus, missed, start>>

\* Mutated form: silent rounds are not counted.
MqttSilent ==
  /\ Feed("mqtt") /\ In("flush") /\ tail.batch = <<>>
  /\ tail' = [tail EXCEPT !.pc = "check"]
  /\ UNCHANGED <<bus, sse, missed, start>>

MqttQuiet ==
  /\ Feed("mqtt") /\ In("flush") /\ tail.batch = <<>>
  /\ IF tail.idle + 1 < IdleTicks
       THEN tail' = [tail EXCEPT !.pc = "check", !.idle = @ + 1] /\ UNCHANGED sse
       ELSE Write([tail EXCEPT !.pc = "check", !.idle = 0], "comment", <<>>)
  /\ UNCHANGED <<bus, missed, start>>

\* Mutated form: the loop just ends.
MqttLeaves ==
  /\ Feed("mqtt") /\ In("check")
  /\ tail' = [tail EXCEPT !.pc = IF Live THEN "wait" ELSE "done"]
  /\ UNCHANGED <<bus, sse, missed, start>>

\* is_connected(), or an error event and the end.
MqttCheck ==
  /\ Feed("mqtt") /\ In("check")
  /\ IF Live THEN tail' = [tail EXCEPT !.pc = "wait"] /\ UNCHANGED sse
             ELSE Write([tail EXCEPT !.pc = "done"], "error", <<>>)
  /\ UNCHANGED <<bus, missed, start>>

\* redis listen() blocks until a message comes; postgres notifies() ends after
\* a second.
Take ==
  /\ tail.feed \in {"redis", "postgres"} /\ In("wait") /\ bus.wire # <<>>
  /\ bus' = [bus EXCEPT !.wire = Tail(@)]
  /\ Write(tail, "event", <<Head(bus.wire)>>)
  /\ UNCHANGED <<missed, start>>

PostgresQuiet ==
  /\ Feed("postgres") /\ In("wait") /\ Live /\ bus.wire = <<>>
  /\ Write(tail, "comment", <<>>)
  /\ UNCHANGED <<bus, missed, start>>

\* The libraries' own errors are no OSError: main() writes its 500 into the
\* stream.
LibraryFails ==
  /\ tail.feed \in {"redis", "postgres"} /\ In("wait") /\ bus.link = "lost"
  /\ Write([tail EXCEPT !.pc = "done"], "500", <<>>)
  /\ UNCHANGED <<bus, missed, start>>

KafkaPoll ==
  /\ Feed("kafka") /\ In("wait") /\ Live /\ tail.next \in bus.low..bus.log
  /\ Write([tail EXCEPT !.next = @ + 1], "event", <<tail.next>>)
  /\ UNCHANGED <<bus, missed, start>>

\* The position has been truncated: auto.offset.reset is the ?from= of the
\* request, and latest skips to the end.
KafkaReset ==
  /\ Feed("kafka") /\ In("wait") /\ Live /\ tail.next < bus.low
  /\ tail' = [tail EXCEPT !.next = IF tail.earliest THEN bus.low ELSE bus.log + 1]
  /\ missed' = missed \cup (tail.next..(tail'.next - 1))
  /\ UNCHANGED <<bus, sse, start>>

\* Nothing within a second, or an error event; the loop goes on either way.
KafkaQuiet ==
  /\ Feed("kafka") /\ In("wait") /\ (~Live \/ tail.next > bus.log)
  /\ \E what \in {"comment", "error"} :
       /\ what = "error" => ~Live
       /\ Write(tail, what, <<>>)
  /\ UNCHANGED <<bus, missed, start>>

Handler ==
  \/ Attach \/ SendHead
  \/ MqttLoop \/ MqttFlush \/ MqttQuiet \/ MqttCheck
  \/ Take \/ PostgresQuiet \/ LibraryFails
  \/ KafkaPoll \/ KafkaReset \/ KafkaQuiet

TailNext == World \/ Handler \/ AttachFails

\* The handler runs.  Nobody has to publish, to leave, or to reconnect.
TailSpec == TailInit /\ [][TailNext]_tailVars /\ WF_tailVars(Handler)
-----------------------------------------------------------------------------
(* Properties                                                              *)

\* Events come in the order of the messages, none twice, and none is left out
\* since the subscription that the broker or the library did not take away:
\* the handlers' buffers lose nothing, whenever connections break.
TailComplete ==
  /\ \A i \in 2..Len(sse.events) : sse.events[i-1] < sse.events[i]
  /\ sse.events # <<>> =>
       \A m \in start..Last(sse.events) : m \in Range(sse.events) \cup missed

\* A tail that ends while its client is there has said so.
TailTellsEnd ==
  In("done") /\ sse.peer = "there" => sse.last \in {"error", "400", "404", "500", "502"}

\* A tail ends after its client, because it writes on a silent feed, too; all
\* but redis, which blocks until somebody publishes.
TailEnds == sse.peer # "there" /\ ~Feed("redis") ~> In("done")
=============================================================================
