---------------------------- MODULE StreamProofs ----------------------------
(***************************************************************************)
(* Proofs about the handlers of queues and topics.                         *)
(*                                                                         *)
(* StreamTail, for every number of messages and any idle time: the events  *)
(* of a tail are the messages in order, none twice, and what is missing    *)
(* was missed by the subscription and not by a handler's buffer.           *)
(*                                                                         *)
(* MqttTopic, for any processes: a 200 to a POST is an acknowledgement of  *)
(* its own publish, and a GET shows what the topic retained meanwhile.     *)
(*                                                                         *)
(* KafkaPeek, for any partitions, limits and offsets: a peek holds to its  *)
(* limit and shows the newest records of a topic that stands still.        *)
(***************************************************************************)
EXTENDS StreamTail, MqttTopic, KafkaPeek, SequenceTheorems, FiniteSetTheorems, TLAPS

-----------------------------------------------------------------------------
(* A tail: the invariant                                                   *)

BusRec  == [log : Nat, low : Nat, link : {"none", "up", "lost"}, joined : BOOLEAN,
            wire : Seq(Nat), broke : BOOLEAN]
TailRec == [feed : {"mqtt", "redis", "kafka", "postgres"}, earliest : BOOLEAN,
            pc : {"connect", "head", "wait", "flush", "check", "done"}, next : Nat,
            batch : Seq(Nat), idle : Nat]
Whats   == {"nothing", "head", "event", "comment", "error", "400", "404", "500", "502"}
SseRec  == [events : Seq(Nat), last : Whats, peer : {"there", "gone", "reset"}]

TailTypes ==
  /\ bus \in BusRec /\ tail \in TailRec /\ sse \in SseRec
  /\ missed \in SUBSET Nat /\ start \in Nat

Rising(s)    == \A i, j \in 1..Len(s) : i < j => s[i] < s[j]
Before(s, t) == \A x \in Range(s), y \in Range(t) : x < y
Within(s, n) == \A x \in Range(s) : x <= n

\* What was written comes before what was taken, and that before what is still
\* on the wire; kafka's handler has no buffer, only a position.
InOrder ==
  /\ Rising(sse.events)
  /\ Feed("kafka") => \A m \in Range(sse.events) : m < tail.next
  /\ ~ Feed("kafka") =>
       /\ Rising(tail.batch) /\ Rising(bus.wire)
       /\ Before(sse.events, tail.batch) /\ Before(sse.events, bus.wire)
       /\ Before(tail.batch, bus.wire)
       /\ Within(sse.events, bus.log) /\ Within(tail.batch, bus.log) /\ Within(bus.wire, bus.log)

\* How far the subscription is: nothing is taken, pushed or written before it,
\* and nothing is left in a buffer between two rounds.
Stages ==
  /\ In("connect") => start = 0 /\ bus.link = "none"
  /\ tail.batch # <<>> => tail.pc \in {"flush", "done"}
  /\ start = 0 => sse.events = <<>> /\ tail.batch = <<>>
  /\ ~ bus.joined => bus.wire = <<>>
  /\ bus.joined => Live /\ start # 0 /\ ~ Feed("kafka")
  /\ Feed("kafka") => /\ bus.low \in 1..(bus.log + 1) /\ tail.batch = <<>>
                      /\ \A m \in 1..(bus.low - 1) : m \in missed
                      /\ start = 0 => tail.pc \in {"connect", "done"}

\* As long as its client is there, a tail has written, has in its hands, is
\* being pushed or has missed every message since its subscription; kafka's
\* has written or missed every one before its position.
Covered ==
  sse.peer = "there" /\ start # 0 =>
    IF Feed("kafka")
      THEN \A m \in start..(tail.next - 1) : m \in Range(sse.events) \cup missed
      ELSE \A m \in start..bus.log :
             m \in Range(sse.events) \cup Range(tail.batch) \cup Range(bus.wire) \cup missed

\* There is no gap before the last event that was not missed.
Complete ==
  sse.events # <<>> =>
    \A m \in start..Last(sse.events) : m \in Range(sse.events) \cup missed

TailInv == TailTypes /\ InOrder /\ Stages /\ Covered /\ Complete /\ TailTellsEnd

-----------------------------------------------------------------------------
(* Sequences of messages                                                   *)

\* What a sequence holds is what is at one of its places.
LEMMA InRange ==
  ASSUME NEW S, NEW s \in Seq(S), NEW m
  PROVE  m \in Range(s) <=> \E i \in 1..Len(s) : s[i] = m
  BY DEF Range

\* A write reaches a client that is there, and leaves the rest to the handler.
LEMMA WriteEffect ==
  ASSUME TailTypes, NEW t \in TailRec, NEW what \in Whats, NEW ms \in Seq(Nat),
         Write(t, what, ms)
  PROVE  /\ tail' \in TailRec /\ sse' \in SseRec
         /\ tail'.feed = t.feed /\ tail'.next = t.next /\ tail'.batch = t.batch
         /\ tail'.pc \in {t.pc, "done"}
         /\ sse.peer = "there" => /\ sse'.events = sse.events \o ms /\ sse'.peer = "there"
                                  /\ sse'.last = what /\ tail'.pc = t.pc
         /\ sse.peer # "there" => sse'.events = sse.events /\ sse'.peer # "there"
<1>1. sse \in SseRec /\ sse.events \o ms \in Seq(Nat)
  BY DEF TailTypes, SseRec
<1>2. tail' = IF sse.peer = "reset" THEN [t EXCEPT !.pc = "done"] ELSE t
  BY DEF Write
<1>3. /\ tail' \in TailRec
      /\ tail'.feed = t.feed /\ tail'.next = t.next /\ tail'.batch = t.batch
  BY <1>2 DEF TailRec
<1>4. tail'.pc \in {t.pc, "done"}
  BY <1>2 DEF TailRec
<1>5. sse.peer = "there" => tail'.pc = t.pc
  BY <1>2
<1>6. /\ sse' \in SseRec
      /\ sse.peer = "there" => sse'.events = sse.events \o ms /\ sse'.peer = "there"
      /\ sse.peer = "there" => sse'.last = what
      /\ sse.peer # "there" => sse'.events = sse.events /\ sse'.peer # "there"
  <2>1. CASE sse.peer = "there"
    <3>1. sse' = [sse EXCEPT !.events = sse.events \o ms, !.last = what]
      BY <2>1 DEF Write
    <3>2. QED
      BY <1>1, <2>1, <3>1 DEF SseRec
  <2>2. CASE sse.peer = "gone"
    <3>1. sse' = [sse EXCEPT !.peer = "reset"]
      BY <2>2 DEF Write
    <3>2. QED
      BY <1>1, <2>2, <3>1 DEF SseRec
  <2>3. CASE sse.peer = "reset"
    <3>1. sse' = sse
      BY <2>3 DEF Write
    <3>2. QED
      BY <1>1, <2>3, <3>1
  <2>4. QED
    BY <1>1, <2>1, <2>2, <2>3 DEF SseRec
<1>7. QED
  BY <1>3, <1>4, <1>5, <1>6, Zenon

\* Messages are numbers.
LEMMA Numbers ==
  ASSUME NEW s \in Seq(Nat)
  PROVE  \A x \in Range(s) : x \in Nat
  BY DEF Range

\* An empty sequence holds nothing and is in order.
LEMMA Nothing ==
  /\ <<>> \in Seq(Nat) /\ Range(<<>>) = {} /\ Rising(<<>>)
  /\ \A s : Before(s, <<>>) /\ Before(<<>>, s)
  /\ \A n : Within(<<>>, n)
<1>1. <<>> \in Seq(Nat) /\ Len(<<>>) = 0
  OBVIOUS
<1>2. Range(<<>>) = {}
  <2>1. DOMAIN <<>> = {}
    BY <1>1
  <2>2. QED
    BY <2>1 DEF Range
<1>3. QED
  BY <1>1, <1>2 DEF Rising, Before, Within

\* Taking the first of a sequence leaves the others, in their order.
LEMMA TailOf ==
  ASSUME NEW s \in Seq(Nat), s # <<>>
  PROVE  /\ Tail(s) \in Seq(Nat) /\ Head(s) \in Nat
         /\ \A x : x \in Range(s) <=> x = Head(s) \/ x \in Range(Tail(s))
         /\ Rising(s) => Rising(Tail(s)) /\ \A x \in Range(Tail(s)) : Head(s) < x
         /\ \A n \in Nat : Within(s, n) => Within(Tail(s), n) /\ Head(s) <= n
<1>1. /\ Tail(s) \in Seq(Nat) /\ Head(s) = s[1] /\ Head(s) \in Nat
      /\ Len(s) \in Nat \ {0} /\ Len(Tail(s)) = Len(s) - 1
      /\ \A i \in 1..Len(Tail(s)) : Tail(s)[i] = s[i + 1]
  OBVIOUS
<1>2. /\ \A i \in 1..Len(Tail(s)) : i + 1 \in 1..Len(s) /\ 1 < i + 1
      /\ \A i \in 1..Len(s) : i # 1 => i - 1 \in 1..Len(Tail(s)) /\ (i - 1) + 1 = i
      /\ 1 \in 1..Len(s)
  BY <1>1
<1>3. ASSUME NEW x
      PROVE  x \in Range(s) <=> x = Head(s) \/ x \in Range(Tail(s))
  <2>1. ASSUME x \in Range(s)
        PROVE  x = Head(s) \/ x \in Range(Tail(s))
    <3>1. PICK i \in 1..Len(s) : s[i] = x
      BY <2>1, InRange
    <3>2. CASE i = 1
      BY <1>1, <3>1, <3>2
    <3>3. CASE i # 1
      <4>1. i - 1 \in 1..Len(Tail(s)) /\ Tail(s)[i - 1] = x
        BY <1>1, <1>2, <3>1, <3>3
      <4>2. QED
        BY <1>1, <4>1, InRange
    <3>4. QED
      BY <3>2, <3>3
  <2>2. ASSUME x \in Range(Tail(s))
        PROVE  x \in Range(s)
    <3>1. PICK i \in 1..Len(Tail(s)) : Tail(s)[i] = x
      BY <1>1, <2>2, InRange
    <3>2. i + 1 \in 1..Len(s) /\ s[i + 1] = x
      BY <1>1, <1>2, <3>1
    <3>3. QED
      BY <3>2, InRange
  <2>3. Head(s) \in Range(s)
    BY <1>1, <1>2, InRange
  <2>4. QED
    BY <2>1, <2>2, <2>3
<1>4. ASSUME Rising(s)
      PROVE  Rising(Tail(s)) /\ \A x \in Range(Tail(s)) : Head(s) < x
  <2>1. Rising(Tail(s))
    BY <1>1, <1>2, <1>4 DEF Rising
  <2>2. ASSUME NEW x \in Range(Tail(s))
        PROVE  Head(s) < x
    <3>1. PICK i \in 1..Len(Tail(s)) : Tail(s)[i] = x
      BY <1>1, <2>2, InRange
    <3>2. QED
      BY <1>1, <1>2, <1>4, <3>1 DEF Rising
  <2>3. QED
    BY <2>1, <2>2
<1>5. \A n \in Nat : Within(s, n) => Within(Tail(s), n) /\ Head(s) <= n
  BY <1>3 DEF Within
<1>6. QED
  BY <1>1, <1>3, <1>4, <1>5, Zenon

\* A number beyond all others goes behind them.
LEMMA AppendTo ==
  ASSUME NEW s \in Seq(Nat), NEW m \in Nat, \A x \in Range(s) : x < m
  PROVE  /\ Append(s, m) \in Seq(Nat) /\ Append(s, m) # <<>> /\ Last(Append(s, m)) = m
         /\ \A x : x \in Range(Append(s, m)) <=> x = m \/ x \in Range(s)
         /\ Rising(s) => Rising(Append(s, m))
         /\ \A n \in Nat : Within(s, n) /\ m <= n => Within(Append(s, m), n)
<1> DEFINE t == Append(s, m)
<1>1. /\ t \in Seq(Nat) /\ t # <<>> /\ Len(s) \in Nat /\ Len(t) = Len(s) + 1 /\ t[Len(s) + 1] = m
      /\ \A i \in 1..Len(s) : t[i] = s[i] /\ s[i] \in Nat
  <2>1. /\ t \in Seq(Nat) /\ Len(s) \in Nat /\ Len(t) = Len(s) + 1 /\ t[Len(s) + 1] = m
        /\ \A i \in 1..Len(s) : t[i] = s[i]
    OBVIOUS
  <2>2. \A i \in 1..Len(s) : s[i] \in Nat
    OBVIOUS
  <2>3. t # <<>>
    <3>1. SUFFICES ASSUME t = <<>> PROVE FALSE
      OBVIOUS
    <3> HIDE DEF t
    <3>2. Len(t) = 0
      BY <3>1
    <3>3. QED
      BY <2>1, <3>2
  <2>4. QED
    BY <2>1, <2>2, <2>3
<1> HIDE DEF t
<1>2. /\ \A i \in 1..Len(t) : i \in 1..Len(s) \/ i = Len(s) + 1
      /\ \A i \in 1..Len(s) : i \in 1..Len(t) /\ i # Len(s) + 1
      /\ Len(s) + 1 \in 1..Len(t)
      /\ \A i, j \in 1..Len(t) : i < j => i \in 1..Len(s)
  BY <1>1
<1>3. Last(t) = m
  BY <1>1 DEF Last
<1>4. ASSUME NEW x
      PROVE  x \in Range(t) <=> x = m \/ x \in Range(s)
  <2>1. ASSUME x \in Range(t)
        PROVE  x = m \/ x \in Range(s)
    <3>1. PICK i \in 1..Len(t) : t[i] = x
      BY <1>1, <2>1, InRange
    <3>2. CASE i \in 1..Len(s)
      BY <1>1, <3>1, <3>2, InRange
    <3>3. QED
      BY <1>1, <1>2, <3>1, <3>2
  <2>2. ASSUME x \in Range(s)
        PROVE  x \in Range(t)
    <3>1. PICK i \in 1..Len(s) : s[i] = x
      BY <2>2, InRange
    <3>2. i \in 1..Len(t) /\ t[i] = x
      BY <1>1, <1>2, <3>1
    <3>3. QED
      BY <1>1, <3>2, InRange
  <2>3. m \in Range(t)
    BY <1>1, <1>2, InRange
  <2>4. QED
    BY <2>1, <2>2, <2>3
<1>5. ASSUME Rising(s)
      PROVE  Rising(t)
  <2>1. ASSUME NEW i \in 1..Len(t), NEW j \in 1..Len(t), i < j
        PROVE  t[i] < t[j]
    <3>1. i \in 1..Len(s) /\ t[i] = s[i]
      BY <1>1, <1>2, <2>1
    <3>2. CASE j \in 1..Len(s)
      BY <1>1, <1>5, <2>1, <3>1, <3>2 DEF Rising
    <3>3. CASE j = Len(s) + 1
      <4>1. s[i] \in Range(s)
        BY <3>1, InRange
      <4>2. QED
        BY <1>1, <3>1, <3>3, <4>1
    <3>4. QED
      BY <1>2, <3>2, <3>3
  <2>2. QED
    BY <2>1 DEF Rising
<1>6. \A n \in Nat : Within(s, n) /\ m <= n => Within(t, n)
  BY <1>4 DEF Within
<1>7. QED
  BY <1>1, <1>3, <1>4, <1>5, <1>6, Zenon DEF t

-----------------------------------------------------------------------------
(* The ways in which messages move                                         *)

\* The client may leave, but does not come back; the feed is one and the same.
Onwards == tail'.feed = tail.feed /\ (sse'.peer = "there" => sse.peer = "there")

Unwritten == sse'.events = sse.events
Unmissed  == missed' = missed
Buffered  == tail'.batch = tail.batch /\ tail'.next = tail.next
OnTheWire == bus'.wire = bus.wire

Rests ==
  Onwards /\ Unwritten /\ Unmissed /\ Buffered /\ OnTheWire /\ bus'.log = bus.log /\ start' = start

\* A message is published: pushed to the subscription, missed, or kept in a log.
Grows ==
  /\ Onwards /\ Unwritten /\ Buffered /\ start' = start
  /\ bus'.log = bus.log + 1
  /\ \/ bus'.wire = Append(bus.wire, bus.log + 1) /\ Unmissed
     \/ OnTheWire /\ Unmissed /\ (Feed("kafka") \/ start = 0)
     \/ OnTheWire /\ missed' = missed \cup {bus.log + 1}

Joins ==
  /\ Onwards /\ Unwritten /\ Unmissed /\ Buffered /\ OnTheWire /\ bus'.log = bus.log
  /\ ~ Feed("kafka")
  /\ start' = start \/ (start = 0 /\ start' = bus.log + 1)

\* Messages are taken away from the subscription and counted as missed.
Misses ==
  /\ Onwards /\ Unwritten /\ Buffered /\ bus'.log = bus.log /\ start' = start
  /\ \/ OnTheWire /\ missed \subseteq missed'
     \/ bus'.wire = <<>> /\ missed' = missed \cup Range(bus.wire)

\* Before this nothing has been written or taken.
Attaches ==
  /\ Onwards /\ Unwritten /\ Unmissed /\ OnTheWire /\ bus'.log = bus.log
  /\ tail'.batch = tail.batch /\ tail'.next = start' /\ start = 0
  /\ ~ Feed("kafka") => start' = 0

\* The oldest messages on the wire are taken into the buffer.
Takes ==
  /\ Onwards /\ Unwritten /\ Unmissed /\ bus'.log = bus.log /\ start' = start
  /\ ~ Feed("kafka") /\ tail.batch = <<>>
  /\ \E n \in 0..Len(bus.wire) :
       /\ tail'.batch = SubSeq(bus.wire, 1, n)
       /\ bus'.wire = SubSeq(bus.wire, n + 1, Len(bus.wire))

\* m is written, if somebody reads it.
Says(m) ==
  /\ sse.peer = "there" => sse'.events = Append(sse.events, m)
  /\ sse.peer # "there" => Unwritten

WritesTaken ==
  /\ Onwards /\ Unmissed /\ OnTheWire /\ bus'.log = bus.log /\ start' = start
  /\ ~ Feed("kafka") /\ start # 0 /\ tail.batch # <<>>
  /\ tail'.batch = Tail(tail.batch) /\ Says(Head(tail.batch))

WritesPushed ==
  /\ Onwards /\ Unmissed /\ bus'.log = bus.log /\ start' = start
  /\ ~ Feed("kafka") /\ start # 0 /\ bus.wire # <<>>
  /\ tail.batch = <<>> /\ tail'.batch = <<>>
  /\ bus'.wire = Tail(bus.wire) /\ Says(Head(bus.wire))

WritesNext ==
  /\ Onwards /\ Unmissed /\ OnTheWire /\ bus'.log = bus.log /\ start' = start
  /\ Feed("kafka") /\ start # 0 /\ tail'.next = tail.next + 1 /\ Says(tail.next)

Skips ==
  /\ Onwards /\ Unwritten /\ OnTheWire /\ bus'.log = bus.log /\ start' = start
  /\ Feed("kafka") /\ tail'.next >= tail.next
  /\ missed' = missed \cup (tail.next..(tail'.next - 1))

Moves ==
  \/ Rests \/ Grows \/ Joins \/ Misses \/ Attaches \/ Takes
  \/ WritesTaken \/ WritesPushed \/ WritesNext \/ Skips

Whole == InOrder /\ Covered /\ Complete

-----------------------------------------------------------------------------
(* None of them opens a gap                                                *)

\* As long as nothing is written, what was written stays without gaps.
LEMMA CompleteStays ==
  ASSUME Complete, Unwritten, start' = start \/ sse.events = <<>>, missed \subseteq missed'
  PROVE  Complete'
  BY DEF Complete, Unwritten

\* The first way: no message moves.
LEMMA RestsWhole ==
  ASSUME TailInv, TailTypes', Rests
  PROVE  Whole'
  BY CompleteStays DEF TailInv, Rests, Onwards, Unwritten, Unmissed, Buffered, OnTheWire, Whole,
     InOrder, Covered, Feed

\* A message is published: it is on the wire, missed, or in nobody's tail yet.
LEMMA GrowsWhole ==
  ASSUME TailInv, TailTypes', Grows
  PROVE  Whole'
<1> DEFINE w == Append(bus.wire, bus.log + 1)
<1>1. /\ bus.log \in Nat /\ start \in Nat /\ bus.wire \in Seq(Nat)
      /\ tail.batch \in Seq(Nat) /\ sse.events \in Seq(Nat)
  BY DEF TailInv, TailTypes, BusRec, TailRec, SseRec
<1>2. /\ \A x \in Range(bus.wire) : x \in Nat
      /\ \A x \in Range(tail.batch) : x \in Nat
      /\ \A x \in Range(sse.events) : x \in Nat
  BY <1>1, Numbers
<1>3. \A n \in Nat : n <= bus.log => n <= bus.log + 1 /\ n < bus.log + 1
  BY <1>1
<1>4. bus'.wire = bus.wire \/ bus'.wire = w
  BY DEF Grows, OnTheWire
<1>5. ASSUME ~ Feed("kafka")
      PROVE  /\ \A x : x \in Range(w) <=> x = bus.log + 1 \/ x \in Range(bus.wire)
             /\ Rising(bus.wire) => Rising(w)
             /\ Within(w, bus.log + 1)
  <2>1. Within(bus.wire, bus.log)
    BY <1>5 DEF TailInv, InOrder
  <2>2. \A x \in Range(bus.wire) : x < bus.log + 1 /\ x <= bus.log + 1
    BY <1>2, <1>3, <2>1 DEF Within
  <2>3. Within(bus.wire, bus.log + 1) /\ bus.log + 1 \in Nat /\ bus.log + 1 <= bus.log + 1
    BY <1>1, <2>2 DEF Within
  <2>4. QED
    BY <1>1, <2>2, <2>3, AppendTo, Zenon
<1> HIDE DEF w
<1>6. InOrder'
  <2>1. InOrder
    BY DEF TailInv
  <2>2. CASE Feed("kafka")
    BY <2>1, <2>2 DEF InOrder, Grows, Onwards, Unwritten, Buffered, Feed
  <2>3. CASE ~ Feed("kafka")
    <3>1. /\ Within(sse.events, bus.log + 1) /\ Within(tail.batch, bus.log + 1)
          /\ Within(bus'.wire, bus.log + 1)
      BY <1>2, <1>3, <1>4, <1>5, <2>1, <2>3 DEF InOrder, Within
    <3>2. Rising(bus'.wire)
      BY <1>4, <1>5, <2>1, <2>3 DEF InOrder
    <3>3. Before(sse.events, bus'.wire) /\ Before(tail.batch, bus'.wire)
      BY <1>2, <1>3, <1>4, <1>5, <2>1, <2>3 DEF InOrder, Before, Within
    <3>4. QED
      BY <2>1, <2>3, <3>1, <3>2, <3>3 DEF InOrder, Grows, Onwards, Unwritten, Buffered, Feed
  <2>4. QED
    BY <2>2, <2>3
<1>7. Covered'
  <2>1. SUFFICES ASSUME sse'.peer = "there", start # 0, ~ Feed("kafka"),
                        NEW m \in start..(bus.log + 1)
                 PROVE  m \in Range(sse.events) \cup Range(tail.batch) \cup Range(bus'.wire)
                               \cup missed'
    BY DEF Covered, TailInv, Grows, Onwards, Unwritten, Unmissed, Buffered, Feed
  <2>2. m \in start..bus.log \/ m = bus.log + 1
    BY <1>1
  <2>3. m \in start..bus.log =>
          m \in Range(sse.events) \cup Range(tail.batch) \cup Range(bus.wire) \cup missed
    BY <2>1 DEF Covered, TailInv, Grows, Onwards
  <2>4. QED
    BY <1>5, <2>1, <2>2, <2>3 DEF Grows, OnTheWire, Unmissed, w
<1>8. Complete'
  BY CompleteStays DEF TailInv, Grows, Unmissed
<1>9. QED
  BY <1>6, <1>7, <1>8 DEF Whole

\* A subscription starts with what comes next.
LEMMA JoinsWhole ==
  ASSUME TailInv, TailTypes', Joins
  PROVE  Whole'
<1>1. bus.log \in Nat /\ start \in Nat
  BY DEF TailInv, TailTypes, BusRec
<1>2. InOrder'
  BY DEF TailInv, Joins, Onwards, Unwritten, Unmissed, Buffered, OnTheWire, InOrder, Feed
<1>3. Covered'
  BY <1>1 DEF TailInv, Joins, Onwards, Unwritten, Unmissed, Buffered, OnTheWire, Covered, Feed
<1>4. start = 0 => sse.events = <<>>
  BY DEF TailInv, Stages
<1>5. Complete'
  BY <1>4, CompleteStays DEF TailInv, Joins, Unmissed
<1>6. QED
  BY <1>2, <1>3, <1>5 DEF Whole

\* What is lost with a connection is missed, and is not in a buffer.
LEMMA MissesWhole ==
  ASSUME TailInv, TailTypes', Misses
  PROVE  Whole'
<1>1. InOrder'
  <2>1. CASE bus'.wire = bus.wire
    BY <2>1 DEF TailInv, Misses, Onwards, Unwritten, Buffered, InOrder, Feed
  <2>2. CASE bus'.wire = <<>>
    BY <2>2, Nothing DEF TailInv, Misses, Onwards, Unwritten, Buffered, InOrder, Feed
  <2>3. QED
    BY <2>1, <2>2 DEF Misses, OnTheWire
<1>2. Covered'
  BY DEF TailInv, Misses, Onwards, Unwritten, Buffered, OnTheWire, Covered, Feed
<1>3. Complete'
  BY CompleteStays DEF TailInv, Misses
<1>4. QED
  BY <1>1, <1>2, <1>3 DEF Whole

\* A consumer takes its position before it has written anything.
LEMMA AttachesWhole ==
  ASSUME TailInv, TailTypes', Attaches
  PROVE  Whole'
<1>1. sse.events = <<>> /\ tail.batch = <<>>
  BY DEF TailInv, Stages, Attaches
<1>2. InOrder'
  BY <1>1, Nothing DEF TailInv, Attaches, Onwards, Unwritten, OnTheWire, InOrder, Feed
<1>3. start' \in Nat
  BY DEF TailTypes
<1>4. Covered'
  BY <1>3 DEF TailInv, Attaches, Onwards, Covered, Feed
<1>5. Complete'
  BY <1>1 DEF Attaches, Unwritten, Complete
<1>6. QED
  BY <1>2, <1>4, <1>5 DEF Whole

\* A part of a sequence and the rest: together they hold what it held, in order.
LEMMA Parted ==
  ASSUME NEW s \in Seq(Nat), NEW n \in 0..Len(s)
  PROVE  LET t == SubSeq(s, 1, n)
             r == SubSeq(s, n + 1, Len(s))
         IN  /\ t \in Seq(Nat) /\ r \in Seq(Nat)
             /\ \A x : x \in Range(s) <=> x \in Range(t) \/ x \in Range(r)
             /\ Rising(s) => Rising(t) /\ Rising(r) /\ Before(t, r)
<1> DEFINE t == SubSeq(s, 1, n)
           r == SubSeq(s, n + 1, Len(s))
<1>1. /\ Len(s) \in Nat /\ n \in Nat /\ n <= Len(s)
      /\ t \in Seq(Nat) /\ Len(t) = n /\ \A i \in 1..n : t[i] = s[i]
  OBVIOUS
<1>2. /\ r \in Seq(Nat) /\ Len(r) = Len(s) - n
      /\ \A i \in 1..(Len(s) - n) : r[i] = s[i + n]
  <2>1. \A i \in (n + 1)..Len(s) : s[i] \in Nat
    BY <1>1
  <2>2. r \in Seq(Nat) /\ Len(r) = IF n + 1 <= Len(s) THEN Len(s) - (n + 1) + 1 ELSE 0
    BY <1>1, <2>1
  <2>3. Len(r) = Len(s) - n
    BY <1>1, <2>2
  <2>4. \A i \in 1..(Len(s) - n) : r[i] = s[(n + 1) + i - 1]
    BY <1>1, <2>2
  <2>5. \A i \in 1..(Len(s) - n) : (n + 1) + i - 1 = i + n
    BY <1>1
  <2>6. QED
    BY <2>2, <2>3, <2>4, <2>5
<1> HIDE DEF t, r
<1>3. /\ \A i \in 1..n : i \in 1..Len(s)
      /\ \A i \in 1..(Len(s) - n) : i + n \in 1..Len(s)
      /\ \A i \in 1..Len(s) : i \notin 1..n => i - n \in 1..(Len(s) - n) /\ (i - n) + n = i
      /\ \A i \in 1..n, j \in 1..(Len(s) - n) : i < j + n
      /\ \A i, j \in 1..(Len(s) - n) : i < j => i + n < j + n
  BY <1>1
<1>4. ASSUME NEW x
      PROVE  x \in Range(s) <=> x \in Range(t) \/ x \in Range(r)
  <2>1. ASSUME x \in Range(s)
        PROVE  x \in Range(t) \/ x \in Range(r)
    <3>1. PICK i \in 1..Len(s) : s[i] = x
      BY <2>1, InRange
    <3>2. CASE i \in 1..n
      BY <1>1, <3>1, <3>2, InRange
    <3>3. CASE i \notin 1..n
      <4>1. i - n \in 1..Len(r) /\ r[i - n] = x
        BY <1>2, <1>3, <3>1, <3>3
      <4>2. QED
        BY <1>2, <4>1, InRange
    <3>4. QED
      BY <3>2, <3>3
  <2>2. ASSUME x \in Range(t)
        PROVE  x \in Range(s)
    <3>1. PICK i \in 1..n : t[i] = x
      BY <1>1, <2>2, InRange
    <3>2. QED
      BY <1>1, <1>3, <3>1, InRange
  <2>3. ASSUME x \in Range(r)
        PROVE  x \in Range(s)
    <3>1. PICK i \in 1..(Len(s) - n) : r[i] = x
      BY <1>2, <2>3, InRange
    <3>2. i + n \in 1..Len(s) /\ s[i + n] = x
      BY <1>2, <1>3, <3>1
    <3>3. QED
      BY <3>2, InRange
  <2>4. QED
    BY <2>1, <2>2, <2>3
<1>5. ASSUME Rising(s)
      PROVE  Rising(t) /\ Rising(r) /\ Before(t, r)
  <2>1. Rising(t)
    BY <1>1, <1>3, <1>5 DEF Rising
  <2>2. ASSUME NEW i \in 1..Len(r), NEW j \in 1..Len(r), i < j
        PROVE  r[i] < r[j]
    <3>1. i \in 1..(Len(s) - n) /\ j \in 1..(Len(s) - n)
      BY <1>2
    <3>2. i + n < j + n /\ i + n \in 1..Len(s) /\ j + n \in 1..Len(s)
      BY <1>3, <2>2, <3>1
    <3>3. QED
      BY <1>2, <1>5, <3>1, <3>2 DEF Rising
  <2>3. ASSUME NEW x \in Range(t), NEW y \in Range(r)
        PROVE  x < y
    <3>1. PICK i \in 1..n : t[i] = x
      BY <1>1, <2>3, InRange
    <3>2. PICK j \in 1..(Len(s) - n) : r[j] = y
      BY <1>2, <2>3, InRange
    <3>3. s[i] = x /\ s[j + n] = y /\ i \in 1..Len(s) /\ j + n \in 1..Len(s) /\ i < j + n
      BY <1>1, <1>2, <1>3, <3>1, <3>2
    <3>4. QED
      BY <1>5, <3>3 DEF Rising
  <2>4. QED
    BY <2>1, <2>2, <2>3 DEF Before, Rising
<1>6. QED
  BY <1>1, <1>2, <1>4, <1>5, Zenon DEF t, r

\* The handler takes the front of the wire into its buffer.
LEMMA TakesWhole ==
  ASSUME TailInv, TailTypes', Takes
  PROVE  Whole'
<1>1. bus.wire \in Seq(Nat)
  BY DEF TailInv, TailTypes, BusRec
<1>2. PICK n \in 0..Len(bus.wire) :
        /\ tail'.batch = SubSeq(bus.wire, 1, n)
        /\ bus'.wire = SubSeq(bus.wire, n + 1, Len(bus.wire))
  BY DEF Takes
<1>3. /\ \A x : x \in Range(bus.wire) <=> x \in Range(tail'.batch) \/ x \in Range(bus'.wire)
      /\ Rising(bus.wire) =>
           Rising(tail'.batch) /\ Rising(bus'.wire) /\ Before(tail'.batch, bus'.wire)
  BY <1>1, <1>2, Parted, Zenon
<1>4. InOrder'
  BY <1>3 DEF TailInv, Takes, Onwards, Unwritten, InOrder, Feed, Before, Within
<1>5. Covered'
  <2>1. Range(tail.batch) = {}
    BY Nothing DEF Takes
  <2>2. QED
    BY <1>3, <2>1 DEF TailInv, Takes, Onwards, Unwritten, Unmissed, Covered, Feed
<1>6. Complete'
  BY CompleteStays DEF TailInv, Takes, Unmissed
<1>7. QED
  BY <1>4, <1>5, <1>6 DEF Whole

\* The next message in the order is written: the events stay without gaps.
LEMMA SaysWhole ==
  ASSUME TailTypes, Complete, Rising(sse.events), NEW m \in Nat, Says(m), start' = start, Unmissed,
         \A x \in Range(sse.events) : x < m,
         sse.peer = "there" => \A x \in start..m : x = m \/ x \in Range(sse.events) \/ x \in missed
  PROVE  /\ Complete' /\ Rising(sse'.events)
         /\ \A x \in Range(sse'.events) : x = m \/ x \in Range(sse.events)
         /\ sse.peer = "there" => m \in Range(sse'.events)
         /\ \A x \in Range(sse.events) : x \in Range(sse'.events)
<1>1. sse.events \in Seq(Nat)
  BY DEF TailTypes, SseRec
<1> DEFINE t == Append(sse.events, m)
<1>2. /\ Last(t) = m /\ Rising(t)
      /\ \A x : x \in Range(t) <=> x = m \/ x \in Range(sse.events)
  BY <1>1, AppendTo, Zenon
<1>3. \/ sse'.events = t /\ sse.peer = "there"
      \/ sse'.events = sse.events /\ sse.peer # "there"
  BY DEF Says, Unwritten
<1> HIDE DEF t
<1>4. Complete'
  <2>1. CASE sse'.events = t /\ sse.peer = "there"
    BY <1>2, <2>1 DEF Complete, Unmissed
  <2>2. CASE sse'.events = sse.events
    BY <2>2 DEF Complete, Unmissed
  <2>3. QED
    BY <1>3, <2>1, <2>2
<1>5. Rising(sse'.events)
  BY <1>2, <1>3
<1>6. /\ \A x \in Range(sse'.events) : x = m \/ x \in Range(sse.events)
      /\ sse.peer = "there" => m \in Range(sse'.events)
      /\ \A x \in Range(sse.events) : x \in Range(sse'.events)
  BY <1>2, <1>3
<1>7. QED
  BY <1>4, <1>5, <1>6

\* The front of the buffer is written.
LEMMA WritesTakenWhole ==
  ASSUME TailInv, TailTypes', WritesTaken
  PROVE  Whole'
<1> DEFINE m == Head(tail.batch)
<1>1. /\ tail.batch \in Seq(Nat) /\ bus.wire \in Seq(Nat) /\ sse.events \in Seq(Nat)
      /\ bus.log \in Nat /\ start \in Nat /\ tail.batch # <<>>
  BY DEF TailInv, TailTypes, BusRec, TailRec, SseRec, WritesTaken
<1>2. /\ m \in Nat /\ tail'.batch = Tail(tail.batch)
      /\ \A x : x \in Range(tail.batch) <=> x = m \/ x \in Range(tail'.batch)
      /\ Rising(tail.batch) => Rising(tail'.batch) /\ \A x \in Range(tail'.batch) : m < x
  BY <1>1, TailOf DEF WritesTaken
<1> HIDE DEF m
<1>3. /\ Rising(sse.events) /\ Rising(tail.batch) /\ Rising(bus.wire)
      /\ Before(sse.events, tail.batch) /\ Before(sse.events, bus.wire)
      /\ Before(tail.batch, bus.wire)
      /\ Within(sse.events, bus.log) /\ Within(tail.batch, bus.log) /\ Within(bus.wire, bus.log)
  BY DEF TailInv, InOrder, WritesTaken
<1>4. \A x \in Range(sse.events) : x < m
  BY <1>2, <1>3 DEF Before
<1>5. sse.peer = "there" => \A x \in start..m : x = m \/ x \in Range(sse.events) \/ x \in missed
  <2>1. SUFFICES ASSUME sse.peer = "there", NEW x \in start..m, x # m
                 PROVE  x \in Range(sse.events) \/ x \in missed
    OBVIOUS
  <2>2. m <= bus.log
    BY <1>2, <1>3 DEF Within
  <2>3. x \in start..bus.log /\ x < m /\ x \in Nat
    BY <1>1, <1>2, <2>1, <2>2
  <2>4. x \in Range(sse.events) \cup Range(tail.batch) \cup Range(bus.wire) \cup missed
    BY <2>1, <2>3 DEF TailInv, Covered, WritesTaken
  <2>5. x \notin Range(tail.batch) /\ x \notin Range(bus.wire)
    <3>1. \A y \in Range(tail.batch) \cup Range(bus.wire) : y \in Nat /\ (y = m \/ m < y)
      BY <1>1, <1>2, <1>3, Numbers DEF Before
    <3>2. QED
      BY <1>2, <2>3, <3>1
  <2>6. QED
    BY <2>4, <2>5
<1>6. /\ Complete' /\ Rising(sse'.events)
      /\ \A x \in Range(sse'.events) : x = m \/ x \in Range(sse.events)
      /\ sse.peer = "there" => m \in Range(sse'.events)
      /\ \A x \in Range(sse.events) : x \in Range(sse'.events)
  BY <1>2, <1>3, <1>4, <1>5, SaysWhole DEF TailInv, WritesTaken, m
<1>7. InOrder'
  <2>1. /\ Before(sse'.events, tail'.batch) /\ Before(sse'.events, bus.wire)
        /\ Before(tail'.batch, bus.wire)
    BY <1>2, <1>3, <1>6 DEF Before
  <2>2. Within(sse'.events, bus.log) /\ Within(tail'.batch, bus.log)
    BY <1>2, <1>3, <1>6 DEF Within
  <2>3. QED
    BY <1>2, <1>3, <1>6, <2>1, <2>2 DEF InOrder, WritesTaken, Onwards, OnTheWire, Feed
<1>8. Covered'
  BY <1>2, <1>6 DEF TailInv, Covered, WritesTaken, Onwards, Unmissed, OnTheWire, Feed
<1>9. QED
  BY <1>6, <1>7, <1>8 DEF Whole

\* The front of the wire is written, when there is no buffer.
LEMMA WritesPushedWhole ==
  ASSUME TailInv, TailTypes', WritesPushed
  PROVE  Whole'
<1> DEFINE m == Head(bus.wire)
<1>1. /\ bus.wire \in Seq(Nat) /\ sse.events \in Seq(Nat) /\ bus.log \in Nat /\ start \in Nat
      /\ bus.wire # <<>> /\ Range(tail.batch) = {} /\ tail'.batch = <<>>
  BY Nothing DEF TailInv, TailTypes, BusRec, TailRec, SseRec, WritesPushed
<1>2. /\ m \in Nat /\ bus'.wire = Tail(bus.wire)
      /\ \A x : x \in Range(bus.wire) <=> x = m \/ x \in Range(bus'.wire)
      /\ Rising(bus.wire) => Rising(bus'.wire) /\ \A x \in Range(bus'.wire) : m < x
  BY <1>1, TailOf DEF WritesPushed
<1> HIDE DEF m
<1>3. /\ Rising(sse.events) /\ Rising(bus.wire) /\ Before(sse.events, bus.wire)
      /\ Within(sse.events, bus.log) /\ Within(bus.wire, bus.log)
  BY DEF TailInv, InOrder, WritesPushed
<1>4. \A x \in Range(sse.events) : x < m
  BY <1>2, <1>3 DEF Before
<1>5. sse.peer = "there" => \A x \in start..m : x = m \/ x \in Range(sse.events) \/ x \in missed
  <2>1. SUFFICES ASSUME sse.peer = "there", NEW x \in start..m, x # m
                 PROVE  x \in Range(sse.events) \/ x \in missed
    OBVIOUS
  <2>2. m <= bus.log
    BY <1>2, <1>3 DEF Within
  <2>3. x \in start..bus.log /\ x < m /\ x \in Nat
    BY <1>1, <1>2, <2>1, <2>2
  <2>4. x \in Range(sse.events) \cup Range(bus.wire) \cup missed
    BY <1>1, <2>1, <2>3 DEF TailInv, Covered, WritesPushed
  <2>5. x \notin Range(bus.wire)
    <3>1. \A y \in Range(bus.wire) : y \in Nat /\ (y = m \/ m < y)
      BY <1>1, <1>2, <1>3, Numbers
    <3>2. QED
      BY <1>2, <2>3, <3>1
  <2>6. QED
    BY <2>4, <2>5
<1>6. /\ Complete' /\ Rising(sse'.events)
      /\ \A x \in Range(sse'.events) : x = m \/ x \in Range(sse.events)
      /\ sse.peer = "there" => m \in Range(sse'.events)
      /\ \A x \in Range(sse.events) : x \in Range(sse'.events)
  BY <1>2, <1>3, <1>4, <1>5, SaysWhole DEF TailInv, WritesPushed, m
<1>7. InOrder'
  <2>1. Before(sse'.events, bus'.wire)
    BY <1>2, <1>3, <1>6 DEF Before
  <2>2. Within(sse'.events, bus.log) /\ Within(bus'.wire, bus.log)
    BY <1>2, <1>3, <1>6 DEF Within
  <2>3. QED
    BY <1>1, <1>2, <1>3, <1>6, <2>1, <2>2, Nothing DEF InOrder, WritesPushed, Onwards, Feed
<1>8. Covered'
  BY <1>1, <1>2, <1>6 DEF TailInv, Covered, WritesPushed, Onwards, Unmissed, Feed
<1>9. QED
  BY <1>6, <1>7, <1>8 DEF Whole

\* kafka writes the message at its position.
LEMMA WritesNextWhole ==
  ASSUME TailInv, TailTypes', WritesNext
  PROVE  Whole'
<1> DEFINE m == tail.next
<1>1. /\ m \in Nat /\ start \in Nat /\ Feed("kafka") /\ tail'.next = m + 1
      /\ sse.events \in Seq(Nat)
  BY DEF TailInv, TailTypes, TailRec, SseRec, WritesNext
<1>2. Rising(sse.events) /\ \A x \in Range(sse.events) : x < m
  BY <1>1 DEF TailInv, InOrder
<1>3. sse.peer = "there" => \A x \in start..(m - 1) : x \in Range(sse.events) \cup missed
  BY <1>1 DEF TailInv, Covered, WritesNext
<1>4. \A x \in start..m : x = m \/ x \in start..(m - 1)
  BY <1>1
<1>5. sse.peer = "there" => \A x \in start..m : x = m \/ x \in Range(sse.events) \/ x \in missed
  BY <1>3, <1>4
<1>6. /\ Complete' /\ Rising(sse'.events)
      /\ \A x \in Range(sse'.events) : x = m \/ x \in Range(sse.events)
      /\ sse.peer = "there" => m \in Range(sse'.events)
      /\ \A x \in Range(sse.events) : x \in Range(sse'.events)
  BY <1>1, <1>2, <1>5, SaysWhole DEF TailInv, WritesNext
<1> HIDE DEF m
<1>7. InOrder'
  <2>1. \A x \in Range(sse'.events) : x < m + 1
    BY <1>1, <1>2, <1>6, Numbers
  <2>2. QED
    BY <1>1, <1>6, <2>1 DEF InOrder, WritesNext, Onwards, Feed
<1>8. Covered'
  <2>1. (m + 1) - 1 = m
    BY <1>1
  <2>2. QED
    BY <1>1, <1>5, <1>6, <2>1 DEF Covered, WritesNext, Onwards, Unmissed, Feed
<1>9. QED
  BY <1>6, <1>7, <1>8 DEF Whole

\* kafka skips what retention has deleted, which is then missed.
LEMMA SkipsWhole ==
  ASSUME TailInv, TailTypes', Skips
  PROVE  Whole'
<1>1. /\ tail.next \in Nat /\ tail'.next \in Nat /\ start \in Nat /\ sse.events \in Seq(Nat)
  BY DEF TailInv, TailTypes, TailRec, SseRec
<1>2. InOrder'
  <2>1. \A x \in Range(sse.events) : x < tail'.next
    BY <1>1, Numbers DEF TailInv, InOrder, Skips
  <2>2. QED
    BY <2>1 DEF TailInv, InOrder, Skips, Onwards, Unwritten, Feed
<1>3. Covered'
  <2>1. \A x \in start..(tail'.next - 1) :
          x \in start..(tail.next - 1) \/ x \in tail.next..(tail'.next - 1)
    BY <1>1
  <2>2. QED
    BY <2>1 DEF TailInv, Covered, Skips, Onwards, Unwritten, Feed
<1>4. Complete'
  BY CompleteStays DEF TailInv, Skips
<1>5. QED
  BY <1>2, <1>3, <1>4 DEF Whole

\* However messages move, the events stay in order and without gaps.
LEMMA MovesWhole ==
  ASSUME TailInv, TailTypes', Moves
  PROVE  Whole'
  BY RestsWhole, GrowsWhole, JoinsWhole, MissesWhole, AttachesWhole, TakesWhole,
     WritesTakenWhole, WritesPushedWhole, WritesNextWhole, SkipsWhole DEF Moves

-----------------------------------------------------------------------------
(* Every step                                                              *)

\* What each step has to show.
Kept == TailTypes' /\ Moves /\ Stages' /\ TailTellsEnd'

\* What is known of the records at any time.
LEMMA TailKnown ==
  ASSUME TailInv
  PROVE  /\ bus \in BusRec /\ tail \in TailRec /\ sse \in SseRec
         /\ bus.log \in Nat /\ bus.low \in Nat /\ bus.wire \in Seq(Nat)
         /\ bus.link \in {"none", "up", "lost"}
         /\ tail.next \in Nat /\ tail.batch \in Seq(Nat) /\ tail.idle \in Nat
         /\ tail.feed \in {"mqtt", "redis", "kafka", "postgres"}
         /\ tail.pc \in {"connect", "head", "wait", "flush", "check", "done"}
         /\ sse.events \in Seq(Nat) /\ sse.peer \in {"there", "gone", "reset"}
         /\ missed \in SUBSET Nat /\ start \in Nat
  BY DEF TailInv, TailTypes, BusRec, TailRec, SseRec

\* Every action of the bus, the handlers and the client moves messages in one of
\* these ways and keeps the types, the stages and the last word: a publish.
LEMMA PublishKept ==
  ASSUME TailInv, Publish
  PROVE  Kept
<1> DEFINE w == IF bus.joined /\ Live THEN Append(bus.wire, bus.log + 1) ELSE bus.wire
<1>1. w \in Seq(Nat) /\ bus.log + 1 \in Nat
  BY TailKnown
<1>2. /\ bus' = [bus EXCEPT !.log = bus.log + 1, !.wire = w]
      /\ tail' = tail /\ sse' = sse /\ start' = start
  BY TailKnown DEF Publish, BusRec
<1> HIDE DEF w
<1>3. /\ bus' \in BusRec /\ bus'.log = bus.log + 1 /\ bus'.low = bus.low /\ bus'.link = bus.link
      /\ bus'.wire = w
  BY <1>1, <1>2, TailKnown DEF BusRec
<1>4. (bus'.joined => bus.joined) /\ (bus.joined => bus'.joined)
  BY <1>1, <1>2, TailKnown DEF BusRec
<1>5. missed' = missed \/ missed' = missed \cup {bus.log + 1}
  BY DEF Publish
<1>6. TailTypes'
  BY <1>1, <1>2, <1>3, <1>5 DEF TailTypes, TailInv
<1>7. Grows
  BY <1>2, <1>3 DEF Grows, Onwards, Unwritten, Buffered, OnTheWire, Unmissed, Publish, Feed, w
<1>8. Stages'
  <2>1. missed \subseteq missed'
    BY <1>5
  <2>2. ~ bus.joined => w = bus.wire
    BY DEF w
  <2>3. bus.low \in 1..(bus.log + 1) => bus.low \in 1..(bus.log + 1 + 1)
    BY TailKnown
  <2>4. QED
    BY <1>2, <1>3, <1>4, <2>1, <2>2, <2>3 DEF Stages, TailInv, Feed, In, Live
<1>9. QED
  BY <1>2, <1>6, <1>7, <1>8 DEF Kept, Moves, TailInv, TailTellsEnd, In

\* The broker takes the subscription.
LEMMA JoinKept ==
  ASSUME TailInv, Join
  PROVE  Kept
<1>1. /\ bus' = [bus EXCEPT !.joined = TRUE] /\ tail' = tail /\ sse' = sse /\ missed' = missed
      /\ ~ Feed("kafka") /\ Live /\ ~ bus.joined
      /\ start' = IF start = 0 THEN bus.log + 1 ELSE start
  BY DEF Join
<1>2. /\ bus' \in BusRec /\ bus'.log = bus.log /\ bus'.low = bus.low /\ bus'.link = bus.link
      /\ bus'.wire = bus.wire
  BY <1>1, TailKnown DEF BusRec
<1>3. start' \in Nat /\ start' # 0
  BY <1>1, TailKnown
<1>4. TailTypes'
  BY <1>1, <1>2, <1>3 DEF TailTypes, TailInv
<1>5. Joins
  BY <1>1, <1>2 DEF Joins, Onwards, Unwritten, Buffered, OnTheWire, Unmissed, Feed
<1>6. Stages'
  BY <1>1, <1>2, <1>3 DEF Stages, TailInv, Feed, In, Live
<1>7. QED
  BY <1>1, <1>4, <1>5, <1>6 DEF Kept, Moves, TailInv, TailTellsEnd, In

\* Retention deletes the oldest record.
LEMMA TruncateKept ==
  ASSUME TailInv, Truncate
  PROVE  Kept
<1>1. /\ bus' = [bus EXCEPT !.low = bus.low + 1] /\ tail' = tail /\ sse' = sse /\ start' = start
      /\ Feed("kafka") /\ bus.low <= bus.log /\ missed' = missed \cup {bus.low}
  BY TailKnown DEF Truncate, BusRec
<1>2. bus.low \in Nat /\ bus.low + 1 \in Nat /\ bus.log \in Nat
  BY TailKnown
<1>3. /\ bus' \in BusRec /\ bus'.log = bus.log /\ bus'.low = bus.low + 1 /\ bus'.link = bus.link
      /\ bus'.wire = bus.wire
  BY <1>1, <1>2, TailKnown DEF BusRec
<1>4. bus'.joined => bus.joined
  BY <1>1, <1>2, TailKnown DEF BusRec
<1>5. ~ bus.joined
  BY <1>1 DEF TailInv, Stages
<1>6. TailTypes'
  BY <1>1, <1>2, <1>3 DEF TailTypes, TailInv
<1>7. Misses
  BY <1>1, <1>3 DEF Misses, Onwards, Unwritten, Buffered, OnTheWire, Feed
<1>8. Stages'
  <2>1. bus.low + 1 \in 1..(bus.log + 1)
    BY <1>1, <1>2
  <2>2. \A m \in 1..((bus.low + 1) - 1) : m = bus.low \/ m \in 1..(bus.low - 1)
    BY <1>2
  <2>3. QED
    BY <1>1, <1>3, <1>4, <1>5, <2>1, <2>2 DEF Stages, TailInv, Feed, In, Live
<1>9. QED
  BY <1>1, <1>6, <1>7, <1>8 DEF Kept, Moves, TailInv, TailTellsEnd, In

\* The connection to the broker breaks.
LEMMA BreakKept ==
  ASSUME TailInv, Break
  PROVE  Kept
<1>1. /\ bus' = [bus EXCEPT !.link = "lost", !.joined = FALSE, !.wire = <<>>, !.broke = TRUE]
      /\ tail' = tail /\ sse' = sse /\ start' = start /\ missed' = missed \cup Range(bus.wire)
      /\ bus.link = "up"
  BY DEF Break, Live
<1>2. /\ bus' \in BusRec /\ bus'.log = bus.log /\ bus'.low = bus.low /\ bus'.link = "lost"
      /\ bus'.wire = <<>>
  BY <1>1, Nothing, TailKnown DEF BusRec
<1>3. ~ bus'.joined
  BY <1>1, TailKnown DEF BusRec
<1>4. \A x \in Range(bus.wire) : x \in Nat
  BY TailKnown, Numbers
<1>5. TailTypes'
  BY <1>1, <1>2, <1>4 DEF TailTypes, TailInv
<1>6. Misses
  BY <1>1, <1>2 DEF Misses, Onwards, Unwritten, Buffered
<1>7. Stages'
  BY <1>1, <1>2, <1>3 DEF Stages, TailInv, Feed, In, Live
<1>8. QED
  BY <1>1, <1>5, <1>6, <1>7 DEF Kept, Moves, TailInv, TailTellsEnd, In

\* The library connects again.
LEMMA ReconnectKept ==
  ASSUME TailInv, Reconnect
  PROVE  Kept
<1>1. /\ bus' = [bus EXCEPT !.link = "up"] /\ tail' = tail /\ sse' = sse /\ start' = start
      /\ missed' = missed /\ bus.link = "lost"
  BY DEF Reconnect
<1>2. /\ bus' \in BusRec /\ bus'.log = bus.log /\ bus'.low = bus.low /\ bus'.link = "up"
      /\ bus'.wire = bus.wire
  BY <1>1, TailKnown DEF BusRec
<1>3. (bus'.joined => bus.joined) /\ (bus.joined => bus'.joined)
  BY <1>1, TailKnown DEF BusRec
<1>4. TailTypes'
  BY <1>1, <1>2 DEF TailTypes, TailInv
<1>5. Rests
  BY <1>1, <1>2 DEF Rests, Onwards, Unwritten, Unmissed, Buffered, OnTheWire
<1>6. Stages'
  BY <1>1, <1>2, <1>3 DEF Stages, TailInv, Feed, In, Live
<1>7. QED
  BY <1>1, <1>4, <1>5, <1>6 DEF Kept, Moves, TailInv, TailTellsEnd, In

\* The client leaves.
LEMMA PeerLeavesKept ==
  ASSUME TailInv, PeerLeaves
  PROVE  Kept
<1>1. /\ sse' = [sse EXCEPT !.peer = "gone"] /\ tail' = tail /\ bus' = bus /\ start' = start
      /\ missed' = missed
  BY DEF PeerLeaves
<1>2. sse' \in SseRec /\ sse'.events = sse.events /\ sse'.peer = "gone"
  BY <1>1, TailKnown DEF SseRec
<1>3. TailTypes'
  BY <1>1, <1>2 DEF TailTypes, TailInv
<1>4. Rests
  BY <1>1, <1>2 DEF Rests, Onwards, Unwritten, Unmissed, Buffered, OnTheWire
<1>5. Stages'
  BY <1>1, <1>2 DEF Stages, TailInv, Feed, In, Live
<1>6. QED
  BY <1>1, <1>2, <1>3, <1>4, <1>5 DEF Kept, Moves, TailTellsEnd, In

\* A write that carries no message moves none.
LEMMA QuietWriteKept ==
  ASSUME TailInv, NEW t \in TailRec, NEW what \in Whats, Write(t, what, <<>>),
         t.feed = tail.feed, t.next = tail.next, t.batch = tail.batch,
         bus' = bus, missed' = missed, start' = start,
         t.pc # "connect", tail.batch # <<>> => t.pc \in {"flush", "done"},
         t.pc = "done" => what \in {"error", "400", "404", "500", "502"},
         Feed("kafka") => tail.pc # "connect" \/ t.pc = "done",
         tail.pc # "done"
  PROVE  Kept
<1>1. <<>> \in Seq(Nat) /\ sse.events \o <<>> = sse.events
  BY TailKnown
<1>2. /\ tail' \in TailRec /\ sse' \in SseRec
      /\ tail'.feed = t.feed /\ tail'.next = t.next /\ tail'.batch = t.batch
      /\ tail'.pc \in {t.pc, "done"}
      /\ sse.peer = "there" => /\ sse'.events = sse.events \o <<>> /\ sse'.peer = "there"
                               /\ sse'.last = what /\ tail'.pc = t.pc
      /\ sse.peer # "there" => sse'.events = sse.events /\ sse'.peer # "there"
  BY <1>1, WriteEffect, Zenon DEF TailInv
<1>3. sse'.events = sse.events
  BY <1>1, <1>2
<1>4. TailTypes'
  BY <1>2 DEF TailTypes, TailInv
<1>5. Rests
  BY <1>2, <1>3 DEF Rests, Onwards, Unwritten, Unmissed, Buffered, OnTheWire
<1>6. Stages'
  BY <1>2, <1>3 DEF Stages, TailInv, Feed, In, Live
<1>7. TailTellsEnd'
  BY <1>2 DEF TailTellsEnd, In
<1>8. QED
  BY <1>4, <1>5, <1>6, <1>7 DEF Kept, Moves

\* The handler subscribes.
LEMMA AttachKept ==
  ASSUME TailInv, Attach
  PROVE  Kept
<1>1. /\ bus' = [bus EXCEPT !.link = "up"] /\ tail' = [tail EXCEPT !.pc = "head", !.next = start']
      /\ sse' = sse /\ missed' = missed /\ tail.pc = "connect"
  BY DEF Attach, In
<1>2. /\ start = 0 /\ sse.events = <<>> /\ tail.batch = <<>> /\ ~ bus.joined /\ bus.wire = <<>>
  BY <1>1 DEF TailInv, Stages, In, Live
<1>3. /\ start' \in Nat
      /\ Feed("kafka") => start' # 0
      /\ ~ Feed("kafka") => start' = start
  <2>1. Feed("kafka") => bus.low \in 1..(bus.log + 1)
    BY DEF TailInv, Stages
  <2>2. QED
    BY <2>1, TailKnown DEF Attach
<1>4. /\ bus' \in BusRec /\ bus'.log = bus.log /\ bus'.low = bus.low /\ bus'.link = "up"
      /\ bus'.wire = bus.wire
  BY <1>1, TailKnown DEF BusRec
<1>5. ~ bus'.joined
  BY <1>1, <1>2, TailKnown DEF BusRec
<1>6. /\ tail' \in TailRec /\ tail'.feed = tail.feed /\ tail'.pc = "head" /\ tail'.next = start'
      /\ tail'.batch = tail.batch
  BY <1>1, <1>3, TailKnown DEF TailRec
<1>7. TailTypes'
  BY <1>1, <1>3, <1>4, <1>6 DEF TailTypes, TailInv
<1>8. Attaches
  BY <1>1, <1>2, <1>3, <1>4, <1>6 DEF Attaches, Onwards, Unwritten, Unmissed, OnTheWire, Feed
<1>9. Stages'
  BY <1>1, <1>2, <1>3, <1>4, <1>5, <1>6 DEF Stages, TailInv, Feed, In, Live
<1>10. QED
  BY <1>6, <1>7, <1>8, <1>9 DEF Kept, Moves, TailTellsEnd, In

\* It cannot: one of the answers to that.
LEMMA AttachFailsKept ==
  ASSUME TailInv, AttachFails
  PROVE  Kept
<1> DEFINE t == [tail EXCEPT !.pc = "done"]
<1>1. /\ t \in TailRec /\ t.feed = tail.feed /\ t.next = tail.next /\ t.batch = tail.batch
      /\ t.pc = "done"
  BY TailKnown DEF TailRec
<1>2. PICK what \in Refusals[tail.feed] : Write(t, what, <<>>)
  BY DEF AttachFails
<1>3. what \in {"400", "404", "500", "502"} /\ what \in Whats
  BY <1>2, TailKnown DEF Refusals, TailRec, Whats
<1>4. bus' = bus /\ missed' = missed /\ start' = start /\ tail.pc = "connect"
  BY DEF AttachFails, In
<1> HIDE DEF t
<1>5. QED
  BY <1>1, <1>2, <1>3, <1>4, QuietWriteKept

\* The head of the event stream.
LEMMA SendHeadKept ==
  ASSUME TailInv, SendHead
  PROVE  Kept
<1> DEFINE t == [tail EXCEPT !.pc = "wait"]
<1>1. /\ t \in TailRec /\ t.feed = tail.feed /\ t.next = tail.next /\ t.batch = tail.batch
      /\ t.pc = "wait"
  BY TailKnown DEF TailRec
<1>2. tail.pc = "head" /\ "head" \in Whats
  BY DEF SendHead, In, Whats
<1>3. Write(t, "head", <<>>) /\ bus' = bus /\ missed' = missed /\ start' = start
  BY DEF SendHead
<1>4. tail.batch = <<>>
  BY <1>2 DEF TailInv, Stages, In
<1> HIDE DEF t
<1>5. QED
  BY <1>1, <1>2, <1>3, <1>4, QuietWriteKept

\* A round of mqtt's loop that goes on without writing.
LEMMA GoesOnKept ==
  ASSUME TailInv, NEW t \in TailRec, tail' = t, UNCHANGED <<bus, sse, missed, start>>,
         t.feed = tail.feed, t.next = tail.next, t.batch = tail.batch,
         Feed("mqtt"), t.pc \in {"wait", "check"}, tail.batch = <<>>, tail.pc # "connect"
  PROVE  Kept
<1>1. TailTypes'
  BY DEF TailTypes, TailInv
<1>2. Rests
  BY DEF Rests, Onwards, Unwritten, Unmissed, Buffered, OnTheWire
<1>3. Stages'
  BY DEF Stages, TailInv, Feed, In, Live
<1>4. QED
  BY <1>1, <1>2, <1>3 DEF Kept, Moves, TailTellsEnd, In

\* The mqtt loop writes a comment when it is silent.
LEMMA MqttQuietKept ==
  ASSUME TailInv, MqttQuiet
  PROVE  Kept
<1>1. /\ Feed("mqtt") /\ tail.pc = "flush" /\ tail.batch = <<>>
      /\ bus' = bus /\ missed' = missed /\ start' = start
  BY DEF MqttQuiet, In
<1>2. CASE tail.idle + 1 < IdleTicks
  <2> DEFINE t == [tail EXCEPT !.pc = "check", !.idle = tail.idle + 1]
  <2>0. tail.idle + 1 \in Nat
    BY TailKnown
  <2>1. /\ t \in TailRec /\ t.feed = tail.feed /\ t.next = tail.next /\ t.batch = tail.batch
        /\ t.pc = "check"
    BY <2>0, TailKnown DEF TailRec
  <2>2. tail' = t /\ sse' = sse
    BY <1>2, TailKnown DEF MqttQuiet, TailRec
  <2> HIDE DEF t
  <2>3. QED
    BY <1>1, <2>1, <2>2, GoesOnKept
<1>3. CASE ~ (tail.idle + 1 < IdleTicks)
  <2> DEFINE t == [tail EXCEPT !.pc = "check", !.idle = 0]
  <2>1. /\ t \in TailRec /\ t.feed = tail.feed /\ t.next = tail.next /\ t.batch = tail.batch
        /\ t.pc = "check"
    BY TailKnown DEF TailRec
  <2>2. Write(t, "comment", <<>>) /\ "comment" \in Whats
    BY <1>3 DEF MqttQuiet, Whats
  <2> HIDE DEF t
  <2>3. QED
    BY <1>1, <2>1, <2>2, QuietWriteKept DEF Feed
<1>4. QED
  BY <1>2, <1>3

\* The mqtt loop looks at its connection.
LEMMA MqttCheckKept ==
  ASSUME TailInv, MqttCheck
  PROVE  Kept
<1>1. /\ Feed("mqtt") /\ tail.pc = "check" /\ tail.batch = <<>>
      /\ bus' = bus /\ missed' = missed /\ start' = start
  BY DEF MqttCheck, In, TailInv, Stages
<1>2. CASE Live
  <2> DEFINE t == [tail EXCEPT !.pc = "wait"]
  <2>1. /\ t \in TailRec /\ t.feed = tail.feed /\ t.next = tail.next /\ t.batch = tail.batch
        /\ t.pc = "wait"
    BY TailKnown DEF TailRec
  <2>2. tail' = t /\ sse' = sse
    BY <1>2 DEF MqttCheck
  <2> HIDE DEF t
  <2>3. QED
    BY <1>1, <2>1, <2>2, GoesOnKept
<1>3. CASE ~ Live
  <2> DEFINE t == [tail EXCEPT !.pc = "done"]
  <2>1. /\ t \in TailRec /\ t.feed = tail.feed /\ t.next = tail.next /\ t.batch = tail.batch
        /\ t.pc = "done"
    BY TailKnown DEF TailRec
  <2>2. Write(t, "error", <<>>) /\ "error" \in Whats
    BY <1>3 DEF MqttCheck, Whats
  <2> HIDE DEF t
  <2>3. QED
    BY <1>1, <2>1, <2>2, QuietWriteKept DEF Feed
<1>4. QED
  BY <1>2, <1>3

\* postgres writes a comment when nothing came for a second.
LEMMA PostgresQuietKept ==
  ASSUME TailInv, PostgresQuiet
  PROVE  Kept
<1>1. /\ tail.pc = "wait" /\ tail \in TailRec /\ Write(tail, "comment", <<>>) /\ "comment" \in Whats
      /\ bus' = bus /\ missed' = missed /\ start' = start /\ tail.batch = <<>>
  BY TailKnown DEF PostgresQuiet, In, Whats, TailInv, Stages
<1>2. QED
  BY <1>1, QuietWriteKept

\* The library raises.
LEMMA LibraryFailsKept ==
  ASSUME TailInv, LibraryFails
  PROVE  Kept
<1> DEFINE t == [tail EXCEPT !.pc = "done"]
<1>1. /\ t \in TailRec /\ t.feed = tail.feed /\ t.next = tail.next /\ t.batch = tail.batch
      /\ t.pc = "done"
  BY TailKnown DEF TailRec
<1>2. tail.pc = "wait" /\ "500" \in Whats
  BY DEF LibraryFails, In, Whats
<1>3. Write(t, "500", <<>>) /\ bus' = bus /\ missed' = missed /\ start' = start
  BY DEF LibraryFails
<1> HIDE DEF t
<1>4. QED
  BY <1>1, <1>2, <1>3, QuietWriteKept

\* kafka goes on after a silent second, or after an error that it tells.
LEMMA KafkaQuietKept ==
  ASSUME TailInv, KafkaQuiet
  PROVE  Kept
<1>1. PICK what \in {"comment", "error"} : Write(tail, what, <<>>)
  BY DEF KafkaQuiet
<1>2. /\ tail.pc = "wait" /\ tail \in TailRec /\ what \in Whats
      /\ bus' = bus /\ missed' = missed /\ start' = start /\ tail.batch = <<>>
  BY TailKnown DEF KafkaQuiet, In, Whats, TailInv, Stages
<1>3. QED
  BY <1>1, <1>2, QuietWriteKept

\* paho's loop hands over what arrived.
LEMMA MqttLoopKept ==
  ASSUME TailInv, MqttLoop
  PROVE  Kept
<1>1. /\ Feed("mqtt") /\ tail.pc = "wait" /\ tail.batch = <<>>
      /\ sse' = sse /\ missed' = missed /\ start' = start
  BY DEF MqttLoop, In, TailInv, Stages
<1>2. bus.wire \in Seq(Nat) /\ Len(bus.wire) \in Nat
  BY TailKnown
<1>3. PICK n \in 0..Len(bus.wire) :
        /\ tail' = [tail EXCEPT !.pc = "flush", !.batch = SubSeq(bus.wire, 1, n)]
        /\ bus' = [bus EXCEPT !.wire = SubSeq(bus.wire, n + 1, Len(bus.wire))]
  <2>1. PICK n \in IF bus.wire = <<>> THEN {0} ELSE 1..Len(bus.wire) :
          /\ tail' = [tail EXCEPT !.pc = "flush", !.batch = SubSeq(bus.wire, 1, n)]
          /\ bus' = [bus EXCEPT !.wire = SubSeq(@, n + 1, Len(@))]
    BY DEF MqttLoop
  <2>2. n \in 0..Len(bus.wire)
    BY <1>2
  <2>3. bus' = [bus EXCEPT !.wire = SubSeq(bus.wire, n + 1, Len(bus.wire))]
    BY <2>1, TailKnown DEF BusRec
  <2>4. QED
    BY <2>1, <2>2, <2>3
<1> DEFINE b == SubSeq(bus.wire, 1, n)
           w == SubSeq(bus.wire, n + 1, Len(bus.wire))
<1>4. /\ b \in Seq(Nat) /\ w \in Seq(Nat)
      /\ \A x : x \in Range(bus.wire) <=> x \in Range(b) \/ x \in Range(w)
  BY <1>2, Parted, Zenon
<1>5. bus.wire = <<>> => b = <<>> /\ w = <<>>
  <2>1. ASSUME bus.wire = <<>>
        PROVE  Len(b) = 0 /\ Len(w) = 0
    <3>1. Len(bus.wire) = 0 /\ n = 0
      BY <2>1
    <3>2. Len(b) = 0
      BY <1>2, <3>1
    <3>3. Len(w) = 0
      BY <1>2, <3>1
    <3>4. QED
      BY <3>2, <3>3
  <2> HIDE DEF b, w
  <2>2. QED
    BY <1>4, <2>1
<1>6. /\ tail' = [tail EXCEPT !.pc = "flush", !.batch = b] /\ bus' = [bus EXCEPT !.wire = w]
  BY <1>3
<1>7. Takes
  <2>1. tail'.batch = b /\ bus'.wire = w /\ bus'.log = bus.log /\ tail'.feed = tail.feed
    BY <1>6, TailKnown DEF TailRec, BusRec
  <2>2. QED
    BY <1>1, <2>1 DEF Takes, Onwards, Unwritten, Unmissed, Feed
<1> HIDE DEF b, w
<1>8. /\ tail' \in TailRec /\ tail'.feed = tail.feed /\ tail'.pc = "flush" /\ tail'.batch = b
  BY <1>4, <1>6, TailKnown DEF TailRec
<1>9. /\ bus' \in BusRec /\ bus'.log = bus.log /\ bus'.low = bus.low /\ bus'.link = bus.link
      /\ bus'.wire = w
  BY <1>4, <1>6, TailKnown DEF BusRec
<1>10. (bus'.joined => bus.joined) /\ (bus.joined => bus'.joined)
  BY <1>6, TailKnown DEF BusRec
<1>11. TailTypes'
  BY <1>1, <1>8, <1>9 DEF TailTypes, TailInv
<1>12. Stages'
  <2>1. /\ start = 0 => sse.events = <<>> /\ bus.wire = <<>>
        /\ ~ bus.joined => bus.wire = <<>>
        /\ bus.joined => Live /\ start # 0
    BY DEF TailInv, Stages
  <2>2. QED
    BY <1>1, <1>5, <1>8, <1>9, <1>10, <2>1 DEF Stages, Feed, In, Live
<1>13. QED
  BY <1>7, <1>8, <1>11, <1>12 DEF Kept, Moves, TailTellsEnd, In

\* A write of the message m.
LEMMA EventWrite ==
  ASSUME TailInv, NEW t \in TailRec, NEW m \in Nat, Write(t, "event", <<m>>),
         t.feed = tail.feed, t.pc # "done"
  PROVE  /\ tail' \in TailRec /\ sse' \in SseRec
         /\ tail'.feed = tail.feed /\ tail'.next = t.next /\ tail'.batch = t.batch
         /\ tail'.pc \in {t.pc, "done"}
         /\ Says(m) /\ Onwards /\ TailTellsEnd'
<1>1. <<m>> \in Seq(Nat) /\ sse.events \o <<m>> = Append(sse.events, m) /\ "event" \in Whats
  BY TailKnown DEF Whats
<1>2. /\ tail' \in TailRec /\ sse' \in SseRec
      /\ tail'.feed = t.feed /\ tail'.next = t.next /\ tail'.batch = t.batch
      /\ tail'.pc \in {t.pc, "done"}
      /\ sse.peer = "there" => /\ sse'.events = sse.events \o <<m>> /\ sse'.peer = "there"
                               /\ sse'.last = "event" /\ tail'.pc = t.pc
      /\ sse.peer # "there" => sse'.events = sse.events /\ sse'.peer # "there"
  BY <1>1, WriteEffect, Zenon DEF TailInv
<1>3. Says(m)
  BY <1>1, <1>2 DEF Says, Unwritten
<1>4. Onwards
  BY <1>2 DEF Onwards
<1>5. TailTellsEnd'
  BY <1>2 DEF TailTellsEnd, In
<1>6. QED
  BY <1>2, <1>3, <1>4, <1>5

\* The mqtt handler writes what it was handed.
LEMMA MqttFlushKept ==
  ASSUME TailInv, MqttFlush
  PROVE  Kept
<1>1. /\ Feed("mqtt") /\ tail.pc = "flush" /\ tail.batch # <<>>
      /\ bus' = bus /\ missed' = missed /\ start' = start
  BY DEF MqttFlush, In
<1> DEFINE p == IF Len(tail.batch) = 1 THEN "check" ELSE "flush"
           t == [tail EXCEPT !.batch = Tail(tail.batch), !.idle = 0, !.pc = p]
           m == Head(tail.batch)
<1>2. tail.batch \in Seq(Nat) /\ m \in Nat /\ Tail(tail.batch) \in Seq(Nat)
  BY <1>1, TailKnown, TailOf
<1>3. Len(tail.batch) = 1 => Tail(tail.batch) = <<>>
  <2>1. Len(tail.batch) = 1 => Len(Tail(tail.batch)) = 0
    BY <1>1, <1>2
  <2> DEFINE r == Tail(tail.batch)
  <2>2. r \in Seq(Nat)
    BY <1>2
  <2> HIDE DEF r
  <2>3. Len(r) = 0 => r = <<>>
    BY <2>2
  <2>4. QED
    BY <2>1, <2>3 DEF r
<1>4. /\ t \in TailRec /\ t.feed = tail.feed /\ t.next = tail.next
      /\ t.batch = Tail(tail.batch) /\ t.pc = p
  BY <1>2, TailKnown DEF TailRec
<1>5. Write(t, "event", <<m>>)
  <2>1. t = [tail EXCEPT !.batch = Tail(@), !.idle = 0, !.pc = p]
    BY TailKnown DEF TailRec
  <2>2. QED
    BY <2>1 DEF MqttFlush
<1> HIDE DEF t
<1>6. /\ tail' \in TailRec /\ sse' \in SseRec
      /\ tail'.feed = tail.feed /\ tail'.next = t.next /\ tail'.batch = t.batch
      /\ tail'.pc \in {t.pc, "done"}
      /\ Says(m) /\ Onwards /\ TailTellsEnd'
  <2>1. t.pc # "done"
    BY <1>4
  <2> HIDE DEF m
  <2>2. QED
    BY <1>2, <1>4, <1>5, <2>1, EventWrite
<1>7. start # 0
  BY <1>1 DEF TailInv, Stages
<1>8. TailTypes'
  BY <1>1, <1>6 DEF TailTypes, TailInv
<1>9. WritesTaken
  BY <1>1, <1>4, <1>6, <1>7 DEF WritesTaken, Unmissed, OnTheWire, Feed
<1>10. Stages'
  BY <1>1, <1>3, <1>4, <1>6, <1>7 DEF Stages, TailInv, Feed, In, Live
<1>11. QED
  BY <1>6, <1>8, <1>9, <1>10 DEF Kept, Moves

\* redis and postgres write what they are handed at once.
LEMMA TakeKept ==
  ASSUME TailInv, Take
  PROVE  Kept
<1>1. /\ ~ Feed("kafka") /\ tail.pc = "wait" /\ tail.batch = <<>> /\ bus.wire # <<>>
      /\ bus' = [bus EXCEPT !.wire = Tail(bus.wire)] /\ missed' = missed /\ start' = start
  BY TailKnown DEF Take, In, TailInv, Stages, Feed, BusRec
<1> DEFINE m == Head(bus.wire)
<1>2. bus.wire \in Seq(Nat) /\ m \in Nat /\ Tail(bus.wire) \in Seq(Nat)
  BY <1>1, TailKnown, TailOf
<1>3. Write(tail, "event", <<m>>) /\ tail \in TailRec /\ tail.pc # "done"
  BY <1>1, TailKnown DEF Take
<1>4. /\ bus' \in BusRec /\ bus'.log = bus.log /\ bus'.low = bus.low /\ bus'.link = bus.link
      /\ bus'.wire = Tail(bus.wire)
  BY <1>1, <1>2, TailKnown DEF BusRec
<1>5. (bus'.joined => bus.joined) /\ (bus.joined => bus'.joined)
  BY <1>1, <1>2, TailKnown DEF BusRec
<1>6. bus.joined /\ start # 0
  BY <1>1 DEF TailInv, Stages
<1>7. /\ tail' \in TailRec /\ sse' \in SseRec
      /\ tail'.feed = tail.feed /\ tail'.next = tail.next /\ tail'.batch = tail.batch
      /\ tail'.pc \in {tail.pc, "done"}
      /\ Says(m) /\ Onwards /\ TailTellsEnd'
  <2> HIDE DEF m
  <2>1. QED
    BY <1>2, <1>3, EventWrite
<1>8. TailTypes'
  BY <1>1, <1>4, <1>7 DEF TailTypes, TailInv
<1>9. WritesPushed
  BY <1>1, <1>4, <1>6, <1>7 DEF WritesPushed, Unmissed, Feed
<1>10. Stages'
  BY <1>1, <1>4, <1>5, <1>6, <1>7 DEF Stages, TailInv, Feed, In, Live
<1>11. QED
  BY <1>7, <1>8, <1>9, <1>10 DEF Kept, Moves

\* The consumer hands over the next message.
LEMMA KafkaPollKept ==
  ASSUME TailInv, KafkaPoll
  PROVE  Kept
<1> DEFINE t == [tail EXCEPT !.next = tail.next + 1]
           m == tail.next
<1>0. m \in Nat /\ m + 1 \in Nat
  BY TailKnown
<1>1. /\ Feed("kafka") /\ tail.pc = "wait" /\ tail.batch = <<>> /\ start # 0
      /\ bus' = bus /\ missed' = missed /\ start' = start
  BY DEF KafkaPoll, In, TailInv, Stages
<1>2. /\ m \in Nat /\ t \in TailRec /\ t.feed = tail.feed /\ t.next = m + 1 /\ t.batch = tail.batch
      /\ t.pc = "wait"
  BY <1>0, <1>1, TailKnown DEF TailRec
<1>3. Write(t, "event", <<m>>)
  <2>1. t = [tail EXCEPT !.next = @ + 1]
    BY TailKnown DEF TailRec
  <2>2. QED
    BY <2>1 DEF KafkaPoll
<1> HIDE DEF t
<1>4. /\ tail' \in TailRec /\ sse' \in SseRec
      /\ tail'.feed = tail.feed /\ tail'.next = t.next /\ tail'.batch = t.batch
      /\ tail'.pc \in {t.pc, "done"}
      /\ Says(m) /\ Onwards /\ TailTellsEnd'
  BY <1>2, <1>3, EventWrite
<1>5. TailTypes'
  BY <1>1, <1>4 DEF TailTypes, TailInv
<1>6. WritesNext
  BY <1>1, <1>2, <1>4 DEF WritesNext, Unmissed, OnTheWire, Feed
<1>7. Stages'
  BY <1>1, <1>2, <1>4 DEF Stages, TailInv, Feed, In, Live
<1>8. QED
  BY <1>4, <1>5, <1>6, <1>7 DEF Kept, Moves

\* The position of the consumer is reset.
LEMMA KafkaResetKept ==
  ASSUME TailInv, KafkaReset
  PROVE  Kept
<1> DEFINE q == IF tail.earliest THEN bus.low ELSE bus.log + 1
<1>1. /\ Feed("kafka") /\ tail.pc = "wait" /\ tail.batch = <<>> /\ start # 0
      /\ bus' = bus /\ sse' = sse /\ start' = start
      /\ tail' = [tail EXCEPT !.next = q] /\ missed' = missed \cup (tail.next..(tail'.next - 1))
  BY DEF KafkaReset, In, TailInv, Stages
<1>2. q \in Nat /\ q >= tail.next
  <2>1. bus.low \in 1..(bus.log + 1) /\ tail.next < bus.low
    BY <1>1 DEF TailInv, Stages, KafkaReset
  <2>2. QED
    BY <2>1, TailKnown
<1> HIDE DEF q
<1>3. /\ tail' \in TailRec /\ tail'.feed = tail.feed /\ tail'.next = q /\ tail'.batch = tail.batch
      /\ tail'.pc = "wait"
  BY <1>1, <1>2, TailKnown DEF TailRec
<1>4. \A x \in tail.next..(q - 1) : x \in Nat
  BY <1>2, TailKnown
<1>5. TailTypes'
  BY <1>1, <1>3, <1>4 DEF TailTypes, TailInv
<1>6. Skips
  BY <1>1, <1>2, <1>3 DEF Skips, Onwards, Unwritten, OnTheWire, Feed
<1>7. Stages'
  BY <1>1, <1>3 DEF Stages, TailInv, Feed, In, Live
<1>8. QED
  BY <1>3, <1>5, <1>6, <1>7 DEF Kept, Moves, TailTellsEnd, In

\* Every step keeps the invariant.
LEMMA TailStep ==
  ASSUME TailInv, [TailNext]_tailVars
  PROVE  TailInv'
<1>1. ASSUME TailNext
      PROVE  Kept
  BY <1>1, PublishKept, JoinKept, TruncateKept, BreakKept, ReconnectKept, PeerLeavesKept,
     AttachKept, AttachFailsKept, SendHeadKept, MqttLoopKept, MqttFlushKept, MqttQuietKept,
     MqttCheckKept, TakeKept, PostgresQuietKept, LibraryFailsKept, KafkaPollKept,
     KafkaResetKept, KafkaQuietKept, Zenon
     DEF TailNext, World, Handler
<1>2. CASE TailNext
  BY <1>1, <1>2, MovesWhole DEF Kept, Whole, TailInv
<1>3. CASE UNCHANGED tailVars
  <2>1. /\ bus' = bus /\ tail' = tail /\ sse' = sse /\ missed' = missed /\ start' = start
    BY <1>3 DEF tailVars
  <2>2. QED
    BY <2>1 DEF TailInv, TailTypes, InOrder, Stages, Covered, Complete, TailTellsEnd, Feed, In,
       Live
<1>4. QED
  BY <1>2, <1>3

\* A tail begins with nothing seen and nothing missed.
LEMMA TailBegins ==
  ASSUME TailInit
  PROVE  TailInv
<1>1. /\ bus.log = 0 /\ bus.low = 1 /\ bus.link = "none" /\ ~ bus.joined /\ bus.wire = <<>>
      /\ tail.pc = "connect" /\ tail.next = 0 /\ tail.batch = <<>>
      /\ sse.events = <<>> /\ sse.last = "nothing" /\ missed = {} /\ start = 0
  BY DEF TailInit
<1>2. bus \in BusRec /\ sse \in SseRec
  BY Nothing DEF TailInit, BusRec, SseRec, Whats
<1>3. tail \in TailRec
  <2>1. Feeds \subseteq {"mqtt", "redis", "kafka", "postgres"}
    BY TailAssumption
  <2>2. {<<>>} \subseteq Seq(Nat) /\ {0} \subseteq Nat
    BY Nothing
  <2>3. QED
    BY <2>1, <2>2 DEF TailInit, TailRec
<1>4. TailTypes
  BY <1>1, <1>2, <1>3 DEF TailTypes
<1>5. InOrder
  BY <1>1, Nothing DEF InOrder
<1>6. Stages /\ Covered /\ Complete /\ TailTellsEnd
  BY <1>1 DEF Stages, Covered, Complete, TailTellsEnd, In, Live
<1>7. QED
  BY <1>4, <1>5, <1>6 DEF TailInv

\* The invariant of a tail.
LEMMA TailInvariant == TailSpec => []TailInv
<1>1. TailInit => TailInv
  BY TailBegins
<1>2. TailInv /\ [TailNext]_tailVars => TailInv'
  BY TailStep
<1>3. QED
  BY <1>1, <1>2, PTL DEF TailSpec

\* However brokers break, truncate and push, and whenever the client leaves:
\* the events of a tail come in the order of the messages, none twice, and one
\* that is left out was missed by the subscription.
THEOREM TailsAreComplete == TailSpec => []TailComplete
<1>1. ASSUME TailInv
      PROVE  TailComplete
  <2>1. ASSUME NEW i \in 2..Len(sse.events)
        PROVE  sse.events[i-1] < sse.events[i]
    <3>1. Len(sse.events) \in Nat
      BY <1>1, TailKnown
    <3>2. i - 1 \in 1..Len(sse.events) /\ i \in 1..Len(sse.events) /\ i - 1 < i
      BY <3>1
    <3>3. QED
      BY <1>1, <3>2 DEF TailInv, InOrder, Rising
  <2>2. QED
    BY <1>1, <2>1 DEF TailComplete, TailInv, Complete
<1>2. QED
  BY <1>1, TailInvariant, PTL

\* No tail ends without a word to a client that is still there.
THEOREM TailsTellTheEnd == TailSpec => []TailTellsEnd
<1>1. TailInv => TailTellsEnd
  BY DEF TailInv
<1>2. QED
  BY <1>1, TailInvariant, PTL

-----------------------------------------------------------------------------
(* The mqtt handlers of one topic                                          *)

OutFrame == [kind : {"subscribe", "publish"}, qos : {0, 1}, retain : BOOLEAN, empty : BOOLEAN]
InFrame  == [kind : {"ack", "message"}, from : Nat, retain : BOOLEAN]
LineRec  == [link : {"none", "up", "lost"}, out : Seq(OutFrame), in : Seq(InFrame),
             joined : BOOLEAN]
HandRec  == [op : {"none", "post", "get", "delete"}, qos : {0, 1}, pc : {"idle", "loop", "done"},
             acked : BOOLEAN, found : Seq(Nat), kept : SUBSET Nat, reply : Nat]

\* A handler h on the connection l, when the messages of the processes in t
\* have been taken: it has not begun; an acknowledgement on its way to it, or
\* with it, is true; a GET is sent and holds what was retained since it began,
\* and its answer says what it holds.
Honest(p, h, l, t) ==
  /\ h.pc = "idle" => /\ l.link = "none" /\ l.in = <<>> /\ ~ l.joined
                      /\ h.found = <<>>
  /\ h.pc # "done" => h.reply = 0
  /\ \A f \in Range(l.in) : f.kind = "ack" => p \in t
  /\ h.acked /\ h.qos > 0 => p \in t
  /\ h.op = "get" =>
       /\ h.pc = "loop" => \A f \in Range(l.in) : f.retain => f.from \in h.kept
       /\ \A x \in Range(h.found) : x \in h.kept
  /\ h.reply = 200 /\ h.op = "post" /\ h.qos > 0 => h.acked
  /\ h.reply = 200 /\ h.op = "get" => h.found # <<>>

TopicTypes == held \in Nat /\ line \in [Procs -> LineRec] /\ hand \in [Procs -> HandRec]

TopicInv == TopicTypes /\ \A p \in Procs : Honest(p, hand[p], line[p], took)

\* An empty sequence holds nothing.
LEMMA NothingHeld ==
  /\ \A S : <<>> \in Seq(S)
  /\ Range(<<>>) = {}
<1>1. DOMAIN <<>> = {}
  OBVIOUS
<1>2. QED
  BY <1>1 DEF Range

\* A sequence of one frame.
LEMMA Single ==
  ASSUME NEW S, NEW x \in S
  PROVE  <<x>> \in Seq(S) /\ Range(<<x>>) = {x}
<1>1. DOMAIN <<x>> = {1} /\ <<x>>[1] = x
  OBVIOUS
<1>2. QED
  BY <1>1 DEF Range

\* What is left of a sequence was in it, and so was its head.
LEMMA HeadAndRest ==
  ASSUME NEW S, NEW s \in Seq(S), s # <<>>
  PROVE  /\ Head(s) \in S /\ Head(s) \in Range(s)
         /\ Tail(s) \in Seq(S) /\ Range(Tail(s)) \subseteq Range(s)
<1>1. /\ Tail(s) \in Seq(S) /\ Head(s) = s[1] /\ Head(s) \in S
      /\ Len(s) \in Nat \ {0} /\ Len(Tail(s)) = Len(s) - 1
      /\ \A i \in 1..Len(Tail(s)) : Tail(s)[i] = s[i + 1]
  OBVIOUS
<1>2. \A i \in 1..Len(Tail(s)) : i + 1 \in 1..Len(s)
  BY <1>1
<1>3. 1 \in 1..Len(s)
  BY <1>1
<1>4. ASSUME NEW x \in Range(Tail(s))
      PROVE  x \in Range(s)
  <2>1. PICK i \in 1..Len(Tail(s)) : Tail(s)[i] = x
    BY <1>1, <1>4, InRange
  <2>2. s[i + 1] = x /\ i + 1 \in 1..Len(s)
    BY <1>1, <1>2, <2>1
  <2>3. QED
    BY <2>2, InRange
<1>5. QED
  BY <1>1, <1>3, <1>4, InRange

\* A step of one process that leaves it honest leaves all of them so.
LEMMA OneStep ==
  ASSUME TopicInv, NEW p \in Procs, NEW h \in HandRec, NEW l \in LineRec,
         hand' = [hand EXCEPT ![p] = h], line' = [line EXCEPT ![p] = l],
         held' = held, took' = took, Honest(p, h, l, took)
  PROVE  TopicInv'
<1>1. /\ hand' \in [Procs -> HandRec] /\ line' \in [Procs -> LineRec]
      /\ hand'[p] = h /\ line'[p] = l
      /\ \A q \in Procs : q # p => hand'[q] = hand[q] /\ line'[q] = line[q]
  BY DEF TopicInv, TopicTypes
<1>2. TopicTypes'
  BY <1>1 DEF TopicInv, TopicTypes
<1>3. ASSUME NEW q \in Procs
      PROVE  Honest(q, hand'[q], line'[q], took')
  <2>1. CASE q = p
    BY <1>1, <2>1
  <2>2. CASE q # p
    BY <1>1, <2>2 DEF TopicInv
  <2>3. QED
    BY <2>1, <2>2
<1>4. QED
  BY <1>2, <1>3 DEF TopicInv, Procs

\* What is known of a process and its connection.
LEMMA TopicKnown ==
  ASSUME TopicInv, NEW p \in Procs
  PROVE  /\ p \in Nat /\ held \in Nat
         /\ hand[p] \in HandRec /\ line[p] \in LineRec
         /\ hand[p].found \in Seq(Nat) /\ hand[p].kept \in SUBSET Nat /\ hand[p].reply \in Nat
         /\ hand[p].op \in {"none", "post", "get", "delete"} /\ hand[p].qos \in {0, 1}
         /\ hand[p].pc \in {"idle", "loop", "done"}
         /\ line[p].out \in Seq(OutFrame) /\ line[p].in \in Seq(InFrame)
         /\ Honest(p, hand[p], line[p], took)
  BY DEF TopicInv, TopicTypes, Procs, HandRec, LineRec

\* A request begins: its frames go out, or 502.
LEMMA BeginHonest ==
  ASSUME TopicInv, NEW p \in Procs, NEW op \in {"post", "get", "delete"}, NEW qos \in {0, 1},
         NEW retain \in BOOLEAN, Begin(p, op, qos, retain)
  PROVE  TopicInv'
<1> DEFINE k     == IF op = "get" THEN {held} ELSE {}
           a(ok) == ok /\ qos = 0
           c(ok) == IF ok THEN "loop" ELSE "done"
           s(ok) == IF ok THEN 0 ELSE 502
           h(ok) == [hand[p] EXCEPT !.op = op, !.qos = qos, !.kept = k, !.acked = a(ok),
                                    !.pc = c(ok), !.reply = s(ok)]
           f == [kind |-> IF op = "get" THEN "subscribe" ELSE "publish",
                 qos |-> qos, retain |-> retain, empty |-> op = "delete"]
           l == [line[p] EXCEPT !.link = "up", !.out = <<f>>]
<1>1. PICK ok \in BOOLEAN :
        /\ hand' = [hand EXCEPT ![p].op = op, ![p].qos = qos, ![p].kept = k, ![p].acked = a(ok),
                                ![p].pc = c(ok), ![p].reply = s(ok)]
        /\ line' = IF ~ok THEN line ELSE [line EXCEPT ![p].link = "up", ![p].out = <<f>>]
  BY DEF Begin
<1>2. Stands(p, "idle") /\ held' = held /\ took' = took
  BY DEF Begin
<1>3. /\ line[p].link = "none" /\ line[p].in = <<>> /\ ~ line[p].joined
      /\ hand[p].found = <<>> /\ hand[p].pc = "idle"
  BY <1>2, TopicKnown DEF Stands, Honest
<1>4. f \in OutFrame
  <2>1. f.kind \in {"subscribe", "publish"} /\ f.empty \in BOOLEAN
    OBVIOUS
  <2>2. QED
    BY <2>1 DEF OutFrame
<1>5. /\ l \in LineRec /\ l.in = <<>> /\ l.joined = line[p].joined
  <2>1. <<f>> \in Seq(OutFrame)
    BY <1>4
  <2> HIDE DEF f
  <2>2. QED
    BY <2>1, <1>3, TopicKnown DEF LineRec
<1>6. k \in SUBSET Nat /\ s(ok) \in Nat \ {200} /\ (c(ok) = "loop" => s(ok) = 0)
  BY TopicKnown
<1>7. /\ a(ok) \in BOOLEAN /\ (a(ok) => qos = 0)
      /\ c(ok) \in {"loop", "done"}
  OBVIOUS
<1> DEFINE g == h(ok)
<1> HIDE DEF k, a, c, s, f
<1>8. /\ hand' = [hand EXCEPT ![p] = g]
      /\ line' = line \/ line' = [line EXCEPT ![p] = l]
  <2>1. hand' = [hand EXCEPT ![p] = g]
    BY <1>1 DEF TopicInv, TopicTypes
  <2>2. line' = line \/ line' = [line EXCEPT ![p] = l]
    BY <1>1 DEF TopicInv, TopicTypes
  <2>3. QED
    BY <2>1, <2>2
<1>9. /\ g \in HandRec /\ g.op = op /\ g.qos = qos /\ g.found = <<>> /\ g.pc = c(ok)
      /\ g.reply = s(ok)
  <2>1. /\ s(ok) \in Nat /\ c(ok) \in {"idle", "loop", "done"}
        /\ op \in {"none", "post", "get", "delete"}
    BY <1>6, <1>7
  <2>2. g \in HandRec
    <3>1. hand[p] \in HandRec /\ k \in SUBSET Nat
      BY <1>6, TopicKnown
    <3>2. QED
      BY <1>7, <2>1, <3>1 DEF HandRec
  <2>3. g.op = op /\ g.qos = qos /\ g.pc = c(ok) /\ g.reply = s(ok) /\ g.found = hand[p].found
    BY TopicKnown DEF HandRec
  <2>4. QED
    BY <1>3, <2>2, <2>3
<1>10. g.acked => a(ok)
  BY TopicKnown DEF HandRec
<1> HIDE DEF g, l, h
<1>11. ASSUME NEW m \in LineRec, m.in = <<>>
       PROVE  Honest(p, g, m, took)
  BY <1>6, <1>7, <1>9, <1>10, <1>11, NothingHeld DEF Honest
<1>12. CASE line' = [line EXCEPT ![p] = l]
  BY <1>2, <1>5, <1>8, <1>9, <1>11, <1>12, OneStep
<1>13. CASE line' = line
  <2>1. line' = [line EXCEPT ![p] = line[p]]
    BY <1>13 DEF TopicInv, TopicTypes
  <2>2. QED
    BY <1>2, <1>3, <1>8, <1>9, <1>11, <2>1, TopicKnown, OneStep
<1>14. QED
  BY <1>8, <1>12, <1>13

\* The handler takes one frame.
LEMMA LoopHonest ==
  ASSUME TopicInv, NEW p \in Procs, Loop(p)
  PROVE  TopicInv'
<1> DEFINE f == Head(line[p].in)
           n == IF f.retain THEN Append(hand[p].found, f.from) ELSE hand[p].found
           h == [hand[p] EXCEPT !.acked = f.kind = "ack", !.found = n]
           l == [line[p] EXCEPT !.in = Tail(line[p].in)]
<1>1. /\ line[p].in # <<>> /\ hand[p].pc = "loop" /\ held' = held /\ took' = took
  BY DEF Loop, Waiting, Stands
<1>2. hand' = [hand EXCEPT ![p] = h] /\ line' = [line EXCEPT ![p] = l]
  BY DEF Loop
<1>3. /\ f \in InFrame /\ f \in Range(line[p].in) /\ Tail(line[p].in) \in Seq(InFrame)
      /\ Range(Tail(line[p].in)) \subseteq Range(line[p].in)
  BY <1>1, TopicKnown, HeadAndRest
<1> HIDE DEF f
<1>4. /\ f.from \in Nat /\ (f.kind = "ack") \in BOOLEAN
  BY <1>3 DEF InFrame
<1>5. /\ n \in Seq(Nat)
      /\ hand[p].op = "get" => \A x \in Range(n) : x \in hand[p].kept
  <2>1. CASE f.retain
    <3>1. n = Append(hand[p].found, f.from) /\ n \in Seq(Nat)
      BY <1>4, <2>1, TopicKnown
    <3>2. ASSUME NEW x \in Range(n)
          PROVE  x = f.from \/ x \in Range(hand[p].found)
      <4> DEFINE s == hand[p].found
      <4>1. s \in Seq(Nat) /\ Len(s) \in Nat
        BY TopicKnown
      <4> HIDE DEF s, n
      <4>2. n = Append(s, f.from)
        BY <3>1 DEF s
      <4>3. /\ Len(n) = Len(s) + 1 /\ n[Len(s) + 1] = f.from
            /\ \A i \in 1..Len(s) : n[i] = s[i]
        BY <1>4, <4>1, <4>2
      <4>4. PICK i \in 1..Len(n) : n[i] = x
        BY <3>1, <3>2, InRange
      <4>5. i = Len(s) + 1 \/ i \in 1..Len(s)
        BY <4>1, <4>3
      <4>6. QED
        BY <4>1, <4>3, <4>4, <4>5, InRange DEF s
    <3>3. hand[p].op = "get" => f.from \in hand[p].kept
      BY <1>1, <1>3, <2>1, TopicKnown DEF Honest
    <3> HIDE DEF n
    <3>4. QED
      BY <3>1, <3>2, <3>3, TopicKnown DEF Honest
  <2>2. CASE ~ f.retain
    BY <2>2, TopicKnown DEF Honest
  <2>3. QED
    BY <2>1, <2>2
<1> HIDE DEF n
<1>6. /\ h \in HandRec /\ h.op = hand[p].op /\ h.qos = hand[p].qos /\ h.pc = "loop"
      /\ h.found = n /\ h.kept = hand[p].kept /\ h.reply = hand[p].reply
  BY <1>1, <1>4, <1>5, TopicKnown DEF HandRec
<1>7. h.acked => f.kind = "ack"
  BY TopicKnown DEF HandRec
<1>8. l \in LineRec /\ l.in = Tail(line[p].in)
  BY <1>3, TopicKnown DEF LineRec
<1> HIDE DEF h, l
<1>9. Honest(p, h, l, took)
  <2>1. Honest(p, hand[p], line[p], took)
    BY TopicKnown
  <2>2. \A x \in Range(l.in) : x \in Range(line[p].in)
    BY <1>3, <1>8
  <2>3. h.acked => p \in took
    BY <1>3, <1>7, <2>1 DEF Honest
  <2>4. h.reply = 0
    BY <1>1, <1>6, <2>1 DEF Honest
  <2>5. h.op = "get" => \A x \in Range(h.found) : x \in h.kept
    BY <1>5, <1>6
  <2>6. QED
    BY <1>1, <1>6, <2>1, <2>2, <2>3, <2>4, <2>5 DEF Honest
<1>10. QED
  BY <1>1, <1>2, <1>6, <1>8, <1>9, OneStep

\* The handler answers with what it has.
LEMMA AnswerHonest ==
  ASSUME TopicInv, NEW p \in Procs, AnswerTopic(p)
  PROVE  TopicInv'
<1> DEFINE status == CASE Does(p, {"get"}) /\ hand[p].found = <<>> -> 404
                       [] Does(p, {"post"}) /\ hand[p].qos > 0 /\ ~hand[p].acked -> 502
                       [] OTHER -> 200
           h == [hand[p] EXCEPT !.pc = "done", !.reply = status]
           l == [line[p] EXCEPT !.in = <<>>, !.joined = FALSE]
<1>1. /\ hand[p].pc = "loop" /\ held' = held /\ took' = took
      /\ hand' = [hand EXCEPT ![p] = h] /\ line' = [line EXCEPT ![p] = l]
  <2>1. Ends(p, status)
    BY DEF AnswerTopic
  <2> HIDE DEF status
  <2>2. hand' = [hand EXCEPT ![p] = h]
    BY <2>1 DEF Ends, TopicInv, TopicTypes
  <2>3. line' = [line EXCEPT ![p] = l]
    BY <2>1 DEF Ends, TopicInv, TopicTypes
  <2>4. QED
    BY <2>2, <2>3 DEF AnswerTopic, Stands
<1>2. /\ status \in Nat
      /\ status = 200 /\ hand[p].op = "get" => hand[p].found # <<>>
      /\ status = 200 /\ hand[p].op = "post" /\ hand[p].qos > 0 => hand[p].acked
  <2>1. CASE Does(p, {"get"}) /\ hand[p].found = <<>>
    <3>1. status = 404
      BY <2>1 DEF Does
    <3>2. QED
      BY <3>1
  <2>2. CASE Does(p, {"post"}) /\ hand[p].qos > 0 /\ ~hand[p].acked
    <3>1. status = 502
      BY <2>2 DEF Does
    <3>2. QED
      BY <3>1
  <2>3. CASE /\ ~ (Does(p, {"get"}) /\ hand[p].found = <<>>)
             /\ ~ (Does(p, {"post"}) /\ hand[p].qos > 0 /\ ~hand[p].acked)
    <3>1. status = 200
      BY <2>3
    <3>2. QED
      BY <2>3, <3>1 DEF Does
  <2>4. QED
    BY <2>1, <2>2, <2>3
<1> HIDE DEF status
<1>3. /\ h \in HandRec /\ h.op = hand[p].op /\ h.qos = hand[p].qos /\ h.pc = "done"
      /\ h.found = hand[p].found /\ h.kept = hand[p].kept /\ h.reply = status
  BY <1>2, TopicKnown DEF HandRec
<1>4. (h.acked => hand[p].acked) /\ (hand[p].acked => h.acked)
  BY TopicKnown DEF HandRec
<1>5. l \in LineRec /\ l.in = <<>>
  BY NothingHeld, TopicKnown DEF LineRec
<1> HIDE DEF h, l
<1>6. Honest(p, h, l, took)
  BY <1>2, <1>3, <1>4, <1>5, NothingHeld, TopicKnown DEF Honest
<1>7. QED
  BY <1>1, <1>3, <1>5, <1>6, OneStep

\* A connection breaks, and takes the frames on it away.
LEMMA BreakHonest ==
  ASSUME TopicInv, NEW p \in Procs, Breaks(p)
  PROVE  TopicInv'
<1> DEFINE l == [line[p] EXCEPT !.link = "lost", !.out = <<>>, !.in = <<>>]
<1>1. /\ line[p].link = "up" /\ held' = held /\ took' = took
      /\ hand' = [hand EXCEPT ![p] = hand[p]] /\ line' = [line EXCEPT ![p] = l]
  BY DEF Breaks, TopicInv, TopicTypes
<1>2. l \in LineRec /\ l.in = <<>>
  BY NothingHeld, TopicKnown DEF LineRec
<1> HIDE DEF l
<1>3. Honest(p, hand[p], l, took)
  BY <1>1, <1>2, NothingHeld, TopicKnown DEF Honest
<1>4. QED
  BY <1>1, <1>2, <1>3, TopicKnown, OneStep

\* The broker's step concerns all connections of the topic.
LEMMA BrokerHonest ==
  ASSUME TopicInv, NEW p \in Procs, BrokerTakes(p)
  PROVE  TopicInv'
<1> DEFINE frame   == Head(line[p].out)
           rest(q) == IF q = p THEN Tail(line[q].out) ELSE line[q].out
           push(q) ==
             IF frame.kind = "subscribe"
               THEN IF q = p /\ held # Nobody THEN <<Msg(held, TRUE)>> ELSE <<>>
               ELSE (IF line[q].joined /\ line[q].link = "up" THEN <<Msg(p, FALSE)>> ELSE <<>>)
                    \o (IF q = p /\ frame.qos > 0 /\ ~Stands(q, "done") THEN <<Ack>> ELSE <<>>)
           joins(q) == line[q].joined \/ (q = p /\ frame.kind = "subscribe")
           l(q) == [line[q] EXCEPT !.out = rest(q), !.in = line[q].in \o push(q),
                                   !.joined = joins(q)]
           more(q) == hand[q].kept \cup
                        IF Does(q, {"get"}) /\ Stands(q, "loop") THEN {held'} ELSE {}
           h(q) == [hand[q] EXCEPT !.kept = more(q)]
<1>1. line[p].link = "up" /\ line[p].out # <<>>
  BY DEF BrokerTakes
<1>2. line' = [q \in Procs |-> l(q)]
  BY DEF BrokerTakes, TopicInv, TopicTypes, LineRec
<1>3. hand' = [q \in Procs |-> h(q)]
  BY DEF BrokerTakes, TopicInv, TopicTypes, HandRec
<1>4. /\ held' = IF frame.kind = "subscribe" \/ ~frame.retain THEN held
                 ELSE IF frame.empty THEN Nobody ELSE p
      /\ took' = IF frame.kind = "publish" THEN took \cup {p} ELSE took
  BY DEF BrokerTakes
<1>5. frame \in OutFrame /\ Tail(line[p].out) \in Seq(OutFrame)
  BY <1>1, TopicKnown, HeadAndRest
<1> HIDE DEF frame
<1>6. held' \in Nat /\ took \subseteq took'
  BY <1>4, TopicKnown DEF Nobody
<1>7. ASSUME NEW q \in Procs
      PROVE  /\ push(q) \in Seq(InFrame)
             /\ \A f \in Range(push(q)) : f.kind = "ack" => q \in took'
             /\ \A f \in Range(push(q)) : f.retain => f.from = held'
             /\ line[q].link # "up" /\ ~ line[q].joined => push(q) = <<>>
  <2>1. /\ Ack \in InFrame /\ Msg(p, FALSE) \in InFrame /\ Msg(held, TRUE) \in InFrame
        /\ ~ Ack.retain /\ ~ Msg(p, FALSE).retain /\ Msg(held, TRUE).from = held
        /\ Msg(p, FALSE).kind # "ack" /\ Msg(held, TRUE).kind # "ack"
    BY TopicKnown DEF Ack, Msg, InFrame, Nobody
  <2>5. /\ <<Ack>> \in Seq(InFrame) /\ Range(<<Ack>>) = {Ack}
        /\ <<Msg(p, FALSE)>> \in Seq(InFrame) /\ Range(<<Msg(p, FALSE)>>) = {Msg(p, FALSE)}
        /\ <<Msg(held, TRUE)>> \in Seq(InFrame) /\ Range(<<Msg(held, TRUE)>>) = {Msg(held, TRUE)}
        /\ <<>> \in Seq(InFrame) /\ Range(<<>>) = {}
    BY <2>1, Single, NothingHeld, Zenon
  <2>2. CASE frame.kind = "subscribe"
    <3>1. held' = held
      BY <1>4, <2>2
    <3>2. push(q) = <<Msg(held, TRUE)>> \/ push(q) = <<>>
      BY <2>2
    <3>3. line[q].link # "up" => push(q) = <<>>
      BY <1>1, <2>2
    <3> HIDE DEF push
    <3>4. \A f \in Range(push(q)) : f = Msg(held, TRUE)
      BY <2>5, <3>2
    <3>5. push(q) \in Seq(InFrame)
      BY <2>5, <3>2
    <3>6. QED
      BY <2>1, <3>1, <3>3, <3>4, <3>5
  <2>3. CASE frame.kind # "subscribe"
    <3> DEFINE m == IF line[q].joined /\ line[q].link = "up" THEN <<Msg(p, FALSE)>> ELSE <<>>
               a == IF q = p /\ frame.qos > 0 /\ ~Stands(q, "done") THEN <<Ack>> ELSE <<>>
    <3>1. push(q) = m \o a
      BY <2>3
    <3>2. /\ m = <<Msg(p, FALSE)>> \/ m = <<>>
          /\ (a = <<Ack>> /\ q = p) \/ a = <<>>
      OBVIOUS
    <3>5. line[q].link # "up" /\ ~ line[q].joined => m = <<>> /\ a = <<>>
      BY <1>1
    <3> HIDE DEF m, a, push
    <3>3. m \in Seq(InFrame) /\ \A f \in Range(m) : f = Msg(p, FALSE)
      BY <2>5, <3>2
    <3>4. a \in Seq(InFrame) /\ \A f \in Range(a) : f = Ack /\ q = p
      BY <2>5, <3>2
    <3>6. /\ push(q) \in Seq(InFrame)
          /\ Range(push(q)) = Range(m) \cup Range(a)
      BY <3>1, <3>3, <3>4, RangeConcatenation
    <3>7. p \in took'
      BY <1>4, <1>5, <2>3 DEF OutFrame
    <3>8. line[q].link # "up" /\ ~ line[q].joined => push(q) = <<>>
      BY <3>1, <3>5
    <3>9. QED
      BY <2>1, <3>3, <3>4, <3>6, <3>7, <3>8
  <2>4. QED
    BY <2>2, <2>3
<1> HIDE DEF push
<1>8. ASSUME NEW q \in Procs
      PROVE  /\ l(q) \in LineRec /\ h(q) \in HandRec /\ Honest(q, h(q), l(q), took')
  <2>1. rest(q) \in Seq(OutFrame)
    BY <1>5, TopicKnown
  <2>2. line[q].in \o push(q) \in Seq(InFrame)
    BY <1>7, TopicKnown
  <2>3. joins(q) \in BOOLEAN
    BY TopicKnown DEF LineRec
  <2>4. ~ line[q].joined /\ line[q].link # "up" => ~ joins(q)
    BY <1>1
  <2> HIDE DEF rest, joins
  <2>5. /\ l(q) \in LineRec /\ l(q).link = line[q].link /\ l(q).in = line[q].in \o push(q)
    BY <2>1, <2>2, <2>3, TopicKnown DEF LineRec
  <2>6. l(q).joined => joins(q)
    BY TopicKnown DEF LineRec
  <2>7. more(q) \in SUBSET Nat /\ hand[q].kept \subseteq more(q)
    BY <1>6, TopicKnown
  <2>8. hand[q].op = "get" /\ hand[q].pc = "loop" => held' \in more(q)
    BY DEF Does, Stands
  <2> HIDE DEF more
  <2>9. /\ h(q) \in HandRec /\ h(q).op = hand[q].op /\ h(q).qos = hand[q].qos
        /\ h(q).pc = hand[q].pc /\ h(q).found = hand[q].found /\ h(q).kept = more(q)
        /\ h(q).reply = hand[q].reply
    BY <2>7, TopicKnown DEF HandRec
  <2>10. (h(q).acked => hand[q].acked) /\ (hand[q].acked => h(q).acked)
    BY TopicKnown DEF HandRec
  <2>11. Range(line[q].in \o push(q)) = Range(line[q].in) \cup Range(push(q))
    BY <1>7, TopicKnown, RangeConcatenation
  <2>12. line[q].in = <<>> /\ push(q) = <<>> => line[q].in \o push(q) = <<>>
    OBVIOUS
  <2>13. Honest(q, hand[q], line[q], took) /\ took \subseteq took'
    BY <1>6, TopicKnown
  <2>14. h(q).pc = "idle" => /\ l(q).link = "none" /\ l(q).in = <<>> /\ ~ l(q).joined
                             /\ h(q).found = <<>>
    BY <1>7, <2>4, <2>5, <2>6, <2>9, <2>12, <2>13 DEF Honest
  <2>15. \A f \in Range(l(q).in) : f.kind = "ack" => q \in took'
    BY <1>7, <2>5, <2>11, <2>13 DEF Honest
  <2>16. h(q).acked /\ h(q).qos > 0 => q \in took'
    BY <2>9, <2>10, <2>13 DEF Honest
  <2>17. h(q).op = "get" =>
           /\ h(q).pc = "loop" => \A f \in Range(l(q).in) : f.retain => f.from \in h(q).kept
           /\ \A x \in Range(h(q).found) : x \in h(q).kept
    BY <1>7, <2>5, <2>7, <2>8, <2>9, <2>11, <2>13 DEF Honest
  <2>18. /\ h(q).pc # "done" => h(q).reply = 0
         /\ h(q).reply = 200 /\ h(q).op = "post" /\ h(q).qos > 0 => h(q).acked
         /\ h(q).reply = 200 /\ h(q).op = "get" => h(q).found # <<>>
    BY <2>9, <2>10, <2>13 DEF Honest
  <2> HIDE DEF h, l
  <2>19. Honest(q, h(q), l(q), took')
    BY <2>14, <2>15, <2>16, <2>17, <2>18 DEF Honest
  <2>20. QED
    BY <2>5, <2>9, <2>19
<1> HIDE DEF l, h
<1>9. TopicTypes'
  BY <1>2, <1>3, <1>6, <1>8 DEF TopicTypes, Procs
<1>10. \A q \in Procs : Honest(q, hand'[q], line'[q], took')
  BY <1>2, <1>3, <1>8
<1>11. QED
  BY <1>9, <1>10 DEF TopicInv, Procs

\* The invariant of a topic.
LEMMA TopicInvariant == TopicSpec => []TopicInv
<1>1. TopicInit => TopicInv
  <2>1. SUFFICES ASSUME TopicInit PROVE TopicInv
    OBVIOUS
  <2> DEFINE l == [link |-> "none", out |-> <<>>, in |-> <<>>, joined |-> FALSE]
             h == [op |-> "none", qos |-> 0, pc |-> "idle",
                   acked |-> FALSE, found |-> <<>>, kept |-> {}, reply |-> 0]
  <2>2. held = 0 /\ line = [p \in Procs |-> l] /\ hand = [p \in Procs |-> h]
    BY <2>1 DEF TopicInit, Nobody
  <2>3. l \in LineRec /\ l.link = "none" /\ l.in = <<>> /\ ~ l.joined
    BY NothingHeld DEF LineRec
  <2>4. /\ h \in HandRec /\ h.pc = "idle" /\ h.found = <<>> /\ h.reply = 0 /\ ~ h.acked
        /\ h.op = "none"
    BY NothingHeld DEF HandRec
  <2> HIDE DEF l, h
  <2>5. \A p \in Procs : Honest(p, h, l, took)
    BY <2>3, <2>4, NothingHeld DEF Honest
  <2>6. QED
    BY <2>2, <2>3, <2>4, <2>5 DEF TopicInv, TopicTypes
<1>2. TopicInv /\ [TopicNext]_topicVars => TopicInv'
  <2>1. SUFFICES ASSUME TopicInv, [TopicNext]_topicVars PROVE TopicInv'
    OBVIOUS
  <2>2. CASE TopicNext
    BY <2>1, <2>2, BeginHonest, LoopHonest, AnswerHonest, BrokerHonest, BreakHonest DEF TopicNext
  <2>3. CASE UNCHANGED topicVars
    BY <2>1, <2>3 DEF topicVars, TopicInv, TopicTypes
  <2>4. QED
    BY <2>1, <2>2, <2>3
<1>3. QED
  BY <1>1, <1>2, PTL DEF TopicSpec

\* Whatever others publish, clear and read at the same time and whichever
\* connections break: a 200 to a publish at QoS 1 or 2 means that the broker has
\* the message, and the message of a 200 to a GET was retained.
THEOREM TopicsAreTold == TopicSpec => []TopicAnswersTrue
<1>1. TopicInv => TopicAnswersTrue
  <2>1. SUFFICES ASSUME TopicInv, NEW p \in Procs, hand[p].reply = 200
                 PROVE  /\ Does(p, {"post"}) /\ hand[p].qos > 0 => p \in took
                        /\ Does(p, {"get"}) => Head(hand[p].found) \in hand[p].kept
    BY DEF TopicAnswersTrue, AckedIsTaken, FoundIsRetained
  <2>2. Honest(p, hand[p], line[p], took)
    BY <2>1, TopicKnown
  <2>3. Does(p, {"post"}) /\ hand[p].qos > 0 => p \in took
    BY <2>1, <2>2 DEF Honest, Does
  <2>4. ASSUME Does(p, {"get"})
        PROVE  Head(hand[p].found) \in hand[p].kept
    <3>1. hand[p].found # <<>> /\ hand[p].op = "get"
      BY <2>1, <2>2, <2>4 DEF Honest, Does
    <3>2. hand[p].found \in Seq(Nat)
      BY <2>1, TopicKnown
    <3>3. Head(hand[p].found) \in Range(hand[p].found)
      BY <3>1, <3>2, HeadAndRest
    <3>4. QED
      BY <2>2, <3>1, <3>3 DEF Honest
  <2>5. QED
    BY <2>3, <2>4
<1>2. QED
  BY <1>1, TopicInvariant, PTL

-----------------------------------------------------------------------------
(* The kafka handler on a topic of several partitions                      *)

PartRec == [low : Nat, high : Nat]
Topics  == [Partitions -> PartRec] \cup {<<>>}
PosSet  == UNION {[D -> Nat] : D \in SUBSET Partitions}
LookRec == [op : {"peek", "post"}, limit : Limits, pc : {"meta", "marks", "poll", "flush", "done"},
            pos : PosSet, read : SUBSET (Partitions \X Nat), reply : Nat,
            at : {<<>>} \cup (Partitions \X Nat)]

\* The oldest of the newest n offsets of a partition.
Oldest(b, n) == IF b.low >= b.high - n THEN b.low ELSE b.high - n

\* Others only add at one end of a partition and delete at the other.
Grown ==
  /\ DOMAIN begun = DOMAIN parts
  /\ Known => \A p \in Partitions : /\ begun[p].low <= parts[p].low
                                    /\ begun[p].high <= parts[p].high
                                    /\ parts[p].low <= parts[p].high

PeekStages ==
  /\ At("meta") => DOMAIN look.pos = {}
  /\ At("meta") \/ At("marks") => look.read = {}
  /\ At("marks") \/ At("poll") => look.op = "peek" /\ Known
  /\ At("flush") => look.op = "post"
  /\ At("poll") \/ Peeked => Known /\ DOMAIN look.pos = Partitions
  /\ ~ At("done") => look.reply = 0
  /\ look.at # <<>> => look.at \in mine
  /\ look.op = "post" /\ look.reply = 200 => look.at # <<>>

Counted ==
  /\ IsFiniteSet(look.read)
  /\ Cardinality(look.read) <= IF look.limit >= 0 THEN look.limit ELSE 0

\* No position, and nothing read, is older than a partition's share.
NotOlder ==
  /\ \A p \in DOMAIN look.pos : look.pos[p] >= begun[p].high - Share
  /\ \A p \in Partitions, o \in Nat :
       <<p, o>> \in look.read => o >= begun[p].high - Share

\* As long as the topic stands still, what was read of a partition is its share
\* up to the position.
Still ==
  parts = begun =>
    \A p \in DOMAIN look.pos :
      /\ look.pos[p] \in Oldest(parts[p], Share)..parts[p].high
      /\ \A o \in Nat : <<p, o>> \in look.read <=> o \in Oldest(parts[p], Share)..(look.pos[p] - 1)

\* A peek that was not hurried has reached its limit or every end.
Stopped ==
  Peeked /\ ~ hurried =>
    \/ Cardinality(look.read) >= look.limit
    \/ \A p \in Partitions : look.pos[p] >= parts[p].high

PeekInv ==
  /\ parts \in Topics /\ begun \in Topics /\ look \in LookRec
  /\ Grown /\ PeekStages /\ Counted /\ NotOlder /\ Still /\ Stopped

\* The larger and the smaller of two numbers.
LEMMA TwoNumbers ==
  ASSUME NEW a \in Int, NEW b \in Int
  PROVE  /\ Max({a, b}) = IF a >= b THEN a ELSE b
         /\ Min({a, b}) = IF a <= b THEN a ELSE b
  BY DEF Max, Min

\* The share that the handler computes is the one that its limit grants, and
\* all shares together do not exceed a limit of at least one for each.
LEMMA Shares ==
  ASSUME look \in LookRec
  PROVE  /\ Cardinality(Partitions) \in Nat \ {0} /\ look.limit \in Int
         /\ Share \in Nat \ {0} /\ PerPart = Share
         /\ Cardinality(Partitions) <= look.limit => Cardinality(Partitions) * Share <= look.limit
         /\ Cardinality(Partitions) > look.limit => Share = 1
<1> DEFINE n == Cardinality(Partitions)
           d == look.limit \div n
<1>1. n \in Nat \ {0}
  BY PeekAssumption, FS_CardinalityType, FS_EmptySet
<1>2. look.limit \in Int
  BY PeekAssumption DEF LookRec
<1> HIDE DEF n
<1>3. /\ d \in Int
      /\ look.limit < n => d <= 0
      /\ look.limit >= n => d >= 1
      /\ n * d <= look.limit
  BY <1>1, <1>2
<1>4. PerPart = Max({1, d}) /\ Share = IF look.limit < n THEN 1 ELSE d
  BY DEF PerPart, Share, n
<1> HIDE DEF d
<1>5. Max({1, d}) = IF 1 >= d THEN 1 ELSE d
  BY <1>3, TwoNumbers
<1>6. QED
  BY <1>1, <1>2, <1>3, <1>4, <1>5 DEF n

\* What is known of the request at any time.
LEMMA PeekKnown ==
  ASSUME PeekInv
  PROVE  /\ look \in LookRec /\ look.limit \in Int /\ Share \in Nat \ {0}
         /\ look.op \in {"peek", "post"} /\ look.pos \in PosSet
         /\ DOMAIN look.pos \subseteq Partitions
         /\ \A p \in DOMAIN look.pos : look.pos[p] \in Nat
         /\ look.read \subseteq Partitions \X Nat /\ look.reply \in Nat
         /\ Known => /\ parts \in [Partitions -> PartRec] /\ begun \in [Partitions -> PartRec]
                     /\ \A p \in Partitions : /\ parts[p].low \in Nat /\ parts[p].high \in Nat
                                              /\ begun[p].low \in Nat /\ begun[p].high \in Nat
<1>1. look \in LookRec
  BY DEF PeekInv
<1>2. look.pos \in PosSet
  BY <1>1 DEF LookRec
<1>3. PICK D \in SUBSET Partitions : look.pos \in [D -> Nat]
  BY <1>2 DEF PosSet
<1>4. Known => parts \in [Partitions -> PartRec] /\ begun \in [Partitions -> PartRec]
  BY PeekAssumption DEF Known, Topics, PeekInv, Grown
<1>5. /\ look.op \in {"peek", "post"} /\ look.read \subseteq Partitions \X Nat /\ look.reply \in Nat
  BY <1>1 DEF LookRec
<1>6. look.limit \in Int /\ Share \in Nat \ {0}
  BY <1>1, Shares
<1>7. \A p \in DOMAIN look.pos : look.pos[p] \in Nat
  BY <1>3
<1>8. DOMAIN look.pos \subseteq Partitions
  BY <1>3
<1>9. Known => \A p \in Partitions : /\ parts[p].low \in Nat /\ parts[p].high \in Nat
                                     /\ begun[p].low \in Nat /\ begun[p].high \in Nat
  BY <1>4 DEF PartRec
<1>10. QED
  BY <1>1, <1>2, <1>4, <1>5, <1>6, <1>7, <1>8, <1>9

\* Others write to the topic or delete from it, and it stands still no more.
LEMMA TopicGrows ==
  ASSUME PeekInv, ~ At("done"), Known, NEW p \in Partitions,
         parts' \in [Partitions -> PartRec], \A q \in Partitions : q # p => parts'[q] = parts[q],
         parts'[p].low >= parts[p].low, parts'[p].high >= parts[p].high,
         parts'[p].low <= parts'[p].high, parts'[p] # parts[p], begun' = begun,
         look' \in LookRec, look'.op = look.op, look'.limit = look.limit, look'.pc = look.pc,
         look'.pos = look.pos, look'.read = look.read, look'.reply = look.reply,
         look'.at # <<>> => look'.at \in mine'
  PROVE  PeekInv'
<1> DEFINE r == parts'[p]
<1>1. r \in PartRec /\ \A q \in Partitions : parts'[q] \in PartRec
  OBVIOUS
<1>2. Share' = Share
  BY DEF Share
<1>3. Grown'
  <2>1. \A q \in Partitions : /\ begun[q].low <= parts[q].low /\ begun[q].high <= parts[q].high
                              /\ parts[q].low <= parts[q].high
    BY DEF PeekInv, Grown
  <2>2. r.low \in Nat /\ r.high \in Nat
    BY DEF PartRec
  <2>3. \A q \in Partitions : /\ begun[q].low <= parts'[q].low /\ begun[q].high <= parts'[q].high
                              /\ parts'[q].low <= parts'[q].high
    BY <1>1, <2>1, <2>2, PeekKnown
  <2>4. DOMAIN parts' = Partitions /\ DOMAIN begun = Partitions
    BY <1>1, PeekKnown
  <2>5. QED
    BY <2>3, <2>4 DEF Grown, Known
<1>4. parts' # begun'
  <2>1. begun[p].low <= parts[p].low /\ begun[p].high <= parts[p].high
    BY DEF PeekInv, Grown
  <2>2. r.low \in Nat /\ r.high \in Nat
    BY DEF PartRec
  <2>3. begun[p] = r => parts[p].low = r.low /\ parts[p].high = r.high
    BY <2>1, <2>2, PeekKnown
  <2>4. parts[p] = [low |-> parts[p].low, high |-> parts[p].high]
        /\ r = [low |-> r.low, high |-> r.high]
    BY <1>1, PeekKnown DEF PartRec
  <2>5. QED
    BY <2>3, <2>4
<1>5. DOMAIN parts' = Partitions /\ Known'
  BY <1>1 DEF Known
<1>6. look.reply = 0
  BY DEF PeekInv, PeekStages
<1>7. PeekStages'
  BY <1>5, <1>6 DEF PeekInv, PeekStages, At, Peeked
<1>8. Counted'
  BY DEF PeekInv, Counted
<1>9. NotOlder'
  BY <1>2 DEF PeekInv, NotOlder
<1>10. Still' /\ Stopped'
  BY <1>4, <1>6 DEF Still, Stopped, Peeked
<1>11. parts' \in Topics /\ begun' \in Topics
  BY <1>1 DEF Topics, PeekInv
<1>12. QED
  BY <1>3, <1>7, <1>8, <1>9, <1>10, <1>11 DEF PeekInv

\* Somebody else produces.
LEMMA AppendsKept ==
  ASSUME PeekInv, NEW p \in Partitions, Appends(p)
  PROVE  PeekInv'
<1> DEFINE r == [parts[p] EXCEPT !.high = parts[p].high + 1]
<1>1. /\ Known /\ ~ At("done") /\ look' = look /\ begun' = begun /\ mine' = mine
  BY DEF Appends
<1>2. parts' = [parts EXCEPT ![p] = r]
  BY <1>1, PeekKnown DEF Appends, PartRec
<1>3. r \in PartRec /\ r.low = parts[p].low /\ r.high = parts[p].high + 1
  BY <1>1, PeekKnown DEF PartRec
<1>r. /\ parts' \in [Partitions -> PartRec] /\ parts'[p] = r
      /\ \A q \in Partitions : q # p => parts'[q] = parts[q]
  BY <1>1, <1>2, <1>3, PeekKnown
<1> HIDE DEF r
<1>4. r.low <= r.high
  BY <1>1, <1>3, PeekKnown DEF PeekInv, Grown
<1>5. r.low >= parts[p].low /\ r.high > parts[p].high
  BY <1>1, <1>3, PeekKnown
<1>6. look.at # <<>> => look.at \in mine
  BY DEF PeekInv, PeekStages
<1>7. QED
  BY <1>1, <1>2, <1>3, <1>4, <1>5, <1>6, <1>r, PeekKnown, TopicGrows

\* Retention deletes the oldest record.
LEMMA RetentionKept ==
  ASSUME PeekInv, NEW p \in Partitions, Retention(p)
  PROVE  PeekInv'
<1> DEFINE r == [parts[p] EXCEPT !.low = parts[p].low + 1]
<1>1. /\ Known /\ ~ At("done") /\ look' = look /\ begun' = begun /\ mine' = mine
      /\ parts[p].high - parts[p].low > 0
  BY DEF Retention, Size
<1>2. parts' = [parts EXCEPT ![p] = r]
  BY <1>1, PeekKnown DEF Retention, PartRec
<1>3. r \in PartRec /\ r.low = parts[p].low + 1 /\ r.high = parts[p].high
  BY <1>1, PeekKnown DEF PartRec
<1>r. /\ parts' \in [Partitions -> PartRec] /\ parts'[p] = r
      /\ \A q \in Partitions : q # p => parts'[q] = parts[q]
  BY <1>1, <1>2, <1>3, PeekKnown
<1> HIDE DEF r
<1>4. r.low <= r.high /\ r.low > parts[p].low /\ r.high >= parts[p].high
  BY <1>1, <1>3, PeekKnown
<1>5. look.at # <<>> => look.at \in mine
  BY DEF PeekInv, PeekStages
<1>6. QED
  BY <1>1, <1>2, <1>3, <1>4, <1>5, <1>r, PeekKnown, TopicGrows

\* The broker writes the record of the request, once or again.
LEMMA WritesMineKept ==
  ASSUME PeekInv, NEW p \in Partitions, WritesMine(p)
  PROVE  PeekInv'
<1> DEFINE r == [parts[p] EXCEPT !.high = parts[p].high + 1]
           a == <<p, parts[p].high>>
<1>1. /\ Known /\ ~ At("done") /\ begun' = begun /\ mine' = mine \cup {a}
      /\ look' = [look EXCEPT !.at = a] \/ look' = look
  BY DEF WritesMine, At
<1>2. parts' = [parts EXCEPT ![p] = r]
  BY <1>1, PeekKnown DEF WritesMine, PartRec
<1>3. r \in PartRec /\ r.low = parts[p].low /\ r.high = parts[p].high + 1
  BY <1>1, PeekKnown DEF PartRec
<1>4. a \in Partitions \X Nat
  BY <1>1, PeekKnown
<1>r. /\ parts' \in [Partitions -> PartRec] /\ parts'[p] = r
      /\ \A q \in Partitions : q # p => parts'[q] = parts[q]
  BY <1>1, <1>2, <1>3, PeekKnown
<1> HIDE DEF r, a
<1>5. r.low <= r.high
  BY <1>1, <1>3, PeekKnown DEF PeekInv, Grown
<1>6. r.low >= parts[p].low /\ r.high > parts[p].high
  BY <1>1, <1>3, PeekKnown
<1>7. /\ look' \in LookRec /\ look'.op = look.op /\ look'.limit = look.limit /\ look'.pc = look.pc
      /\ look'.pos = look.pos /\ look'.read = look.read /\ look'.reply = look.reply
      /\ look'.at \in {look.at, a}
  BY <1>1, <1>4 DEF PeekInv, LookRec
<1>8. look'.at # <<>> => look'.at \in mine'
  BY <1>1, <1>7 DEF PeekInv, PeekStages
<1>9. QED
  BY <1>1, <1>2, <1>3, <1>5, <1>6, <1>7, <1>8, <1>r, PeekKnown, TopicGrows

\* The handler goes from one step to the next, or answers, and reads nothing.
LEMMA HandlerGoesOn ==
  ASSUME PeekInv, UNCHANGED <<parts, begun, mine>>, ~ At("done"),
         look' \in LookRec, look'.op = look.op, look'.limit = look.limit,
         look'.pos = look.pos, look'.read = look.read, look'.at = look.at,
         look'.pc # "done" =>
           /\ look'.reply = 0 /\ At("meta")
           /\ \/ look'.pc = "marks" /\ look.op = "peek" /\ Known
              \/ look'.pc = "flush" /\ look.op = "post",
         look'.reply = 200 /\ look.op = "post" => look.at # <<>>,
         look'.reply = 200 /\ look.op = "peek" => At("poll") /\ hurried' = (GoesOn /\ More # {})
  PROVE  PeekInv'
<1>1. look' \in LookRec
  OBVIOUS
<1>2. Share' = Share
  BY <1>1 DEF Share
<1>3. PeekStages'
  BY <1>1 DEF PeekInv, PeekStages, At, Peeked, Known
<1>4. Counted' /\ NotOlder' /\ Still' /\ Grown'
  BY <1>1, <1>2 DEF PeekInv, Counted, NotOlder, Still, Grown, Known
<1>5. Stopped'
  <2>1. SUFFICES ASSUME look'.reply = 200, look.op = "peek", ~ hurried',
                        Cardinality(look.read) < look.limit, NEW p \in Partitions
                 PROVE  look.pos[p] >= parts[p].high
    <3>1. Cardinality(look.read) \in Nat /\ look.limit \in Int
      BY PeekKnown, FS_CardinalityType DEF PeekInv, Counted
    <3>2. QED
      BY <1>1, <2>1, <3>1 DEF Stopped, Peeked
  <2>2. At("poll") /\ GoesOn
    BY <2>1 DEF GoesOn
  <2>3. p \notin More
    BY <2>1, <2>2 DEF More
  <2>4. Known /\ DOMAIN look.pos = Partitions
    BY <2>2 DEF PeekInv, PeekStages
  <2>5. QED
    BY <2>3, <2>4, PeekKnown DEF More
<1>6. QED
  BY <1>1, <1>3, <1>4, <1>5 DEF PeekInv

\* The handler asks for the topic.
LEMMA AskMetaKept ==
  ASSUME PeekInv, AskMeta
  PROVE  PeekInv'
<1> DEFINE Same == /\ look' \in LookRec /\ look'.op = look.op /\ look'.limit = look.limit
                   /\ look'.pos = look.pos /\ look'.read = look.read /\ look'.at = look.at
<1>1. /\ At("meta") /\ UNCHANGED <<parts, begun, mine>> /\ ~ At("done") /\ look.reply = 0
  BY DEF AskMeta, At, PeekInv, PeekStages
<1>2. ASSUME NEW s \in {400, 404}, Replies(s)
      PROVE  PeekInv'
  <2>1. s \in Nat /\ s # 200
    OBVIOUS
  <2>2. Same /\ look'.pc = "done" /\ look'.reply = s
    BY <1>2, <2>1, PeekKnown DEF Replies, LookRec
  <2>3. QED
    BY <1>1, <2>1, <2>2, HandlerGoesOn
<1>3. CASE look.op = "peek" /\ Known /\ look' = [look EXCEPT !.pc = "marks"]
  <2>1. Same /\ look'.pc = "marks" /\ look'.reply = 0
    BY <1>1, <1>3, PeekKnown DEF LookRec
  <2>2. QED
    BY <1>1, <1>3, <2>1, HandlerGoesOn
<1>4. CASE look.op = "post" /\ look' = [look EXCEPT !.pc = "flush"]
  <2>1. Same /\ look'.pc = "flush" /\ look'.reply = 0
    BY <1>1, <1>4, PeekKnown DEF LookRec
  <2>2. QED
    BY <1>1, <1>4, <2>1, HandlerGoesOn
<1>5. QED
  BY <1>2, <1>3, <1>4 DEF AskMeta

\* The request ends, with whatever answer.
LEMMA EndsKept ==
  ASSUME PeekInv, LibraryRaises \/ PeekAnswers \/ FlushEnds
  PROVE  PeekInv'
<1> DEFINE Same == /\ look' \in LookRec /\ look'.op = look.op /\ look'.limit = look.limit
                   /\ look'.pos = look.pos /\ look'.read = look.read /\ look'.at = look.at
                   /\ look'.pc = "done"
<1>1. ASSUME NEW s \in Nat, Replies(s)
      PROVE  Same /\ look'.reply = s
  BY <1>1, PeekKnown DEF Replies, LookRec
<1>2. CASE LibraryRaises
  <2>1. UNCHANGED <<parts, begun, mine>> /\ ~ At("done") /\ Replies(500)
    BY <1>2 DEF LibraryRaises, At
  <2>2. Same /\ look'.reply = 500
    BY <1>1, <2>1
  <2>3. QED
    BY <2>1, <2>2, HandlerGoesOn
<1>3. CASE PeekAnswers
  <2>1. /\ UNCHANGED <<parts, begun, mine>> /\ ~ At("done") /\ At("poll") /\ Replies(200)
        /\ hurried' = (GoesOn /\ More # {})
    BY <1>3 DEF PeekAnswers, At
  <2>2. Same /\ look.op = "peek"
    BY <1>1, <2>1 DEF PeekInv, PeekStages
  <2>3. QED
    BY <2>1, <2>2, HandlerGoesOn
<1>4. CASE FlushEnds
  <2>1. PICK s \in {200, 502} : (s = 200 => look.at # <<>>) /\ Replies(s)
    BY <1>4 DEF FlushEnds
  <2>2. UNCHANGED <<parts, begun, mine>> /\ ~ At("done") /\ At("flush")
    BY <1>4 DEF FlushEnds, At
  <2>3. Same /\ look'.reply = s /\ look.op # "peek"
    BY <1>1, <2>1, <2>2 DEF PeekInv, PeekStages
  <2>4. QED
    BY <2>1, <2>2, <2>3, HandlerGoesOn
<1>5. QED
  BY <1>2, <1>3, <1>4

\* A partition gets its first position, which is its share from the end.
LEMMA MarksKept ==
  ASSUME PeekInv, NEW p \in Partitions, Marks(p)
  PROVE  PeekInv'
<1> DEFINE from == Max({parts[p].low, parts[p].high - PerPart})
           seen == DOMAIN look.pos \cup {p}
           n    == [q \in seen |-> IF q = p THEN from ELSE look.pos[q]]
           c    == IF seen = Partitions THEN "poll" ELSE "marks"
<1>1. /\ At("marks") /\ p \notin DOMAIN look.pos /\ UNCHANGED <<parts, begun, hurried, mine>>
      /\ look' = [look EXCEPT !.pos = n, !.pc = c]
  BY DEF Marks
<1>2. look.op = "peek" /\ Known /\ look.read = {} /\ look.reply = 0
  BY <1>1 DEF PeekInv, PeekStages, At
<1>3. from = Oldest(parts[p], Share) /\ from \in Nat
  <2>1. PerPart = Share /\ Share \in Nat \ {0}
    BY Shares, PeekKnown
  <2>2. parts[p].low \in Nat /\ parts[p].high \in Nat /\ parts[p].high - PerPart \in Int
    BY <1>2, <2>1, PeekKnown
  <2>3. from = IF parts[p].low >= parts[p].high - PerPart THEN parts[p].low
               ELSE parts[p].high - PerPart
    BY <2>2, TwoNumbers
  <2>4. QED
    BY <2>1, <2>2, <2>3 DEF Oldest
<1> HIDE DEF from
<1>4. /\ DOMAIN n = seen /\ seen \in SUBSET Partitions /\ n \in [seen -> Nat]
      /\ n[p] = from /\ \A q \in DOMAIN look.pos : q # p /\ n[q] = look.pos[q]
  BY <1>1, <1>3, PeekKnown
<1>5. n \in PosSet
  BY <1>4 DEF PosSet
<1>6. c \in {"marks", "poll"} /\ (c = "poll" => seen = Partitions)
  OBVIOUS
<1> HIDE DEF n, c
<1>7. /\ look' \in LookRec /\ look'.op = look.op /\ look'.limit = look.limit /\ look'.pc = c
      /\ look'.pos = n /\ look'.read = {} /\ look'.reply = 0 /\ look'.at = look.at
  BY <1>1, <1>2, <1>5, <1>6, PeekKnown DEF LookRec
<1>8. Share' = Share
  BY <1>7 DEF Share
<1>9. PeekStages'
  BY <1>1, <1>2, <1>4, <1>6, <1>7 DEF PeekInv, PeekStages, At, Peeked, Known
<1>10. Counted'
  BY <1>2, <1>7 DEF PeekInv, Counted
<1>11. from <= parts[p].high /\ from >= parts[p].high - Share /\ from >= begun[p].high - Share
  BY <1>2, <1>3, PeekKnown DEF PeekInv, Grown, Oldest
<1>12. NotOlder'
  BY <1>1, <1>4, <1>7, <1>8, <1>11 DEF PeekInv, NotOlder
<1>13. Still'
  <2>1. SUFFICES ASSUME parts = begun, NEW q \in seen
                 PROVE  /\ n[q] \in Oldest(parts[q], Share)..parts[q].high
                        /\ \A o \in Nat : o \notin Oldest(parts[q], Share)..(n[q] - 1)
    BY <1>1, <1>4, <1>7, <1>8 DEF Still
  <2>2. CASE q = p
    BY <1>2, <1>3, <1>4, <1>11, <2>2, PeekKnown
  <2>3. CASE q # p
    BY <1>2, <1>4, <2>1, <2>3 DEF PeekInv, Still
  <2>4. QED
    BY <2>2, <2>3
<1>14. Stopped' /\ Grown'
  BY <1>1, <1>7 DEF Stopped, Peeked, PeekInv, Grown, Known
<1>15. QED
  BY <1>1, <1>7, <1>9, <1>10, <1>12, <1>13, <1>14 DEF PeekInv

\* One record is read, and the position of its partition is behind it.
LEMMA PollTakesKept ==
  ASSUME PeekInv, NEW p \in Partitions, PollTakes(p)
  PROVE  PeekInv'
<1> DEFINE o == Max({look.pos[p], parts[p].low})
<1>1. /\ At("poll") /\ Cardinality(look.read) < look.limit /\ look.pos[p] < parts[p].high
      /\ UNCHANGED <<parts, begun, hurried, mine>>
  BY DEF PollTakes, GoesOn, More
<1>2. /\ look.op = "peek" /\ Known /\ look.reply = 0 /\ DOMAIN look.pos = Partitions
  BY <1>1 DEF PeekInv, PeekStages, At
<1>3. o = (IF look.pos[p] >= parts[p].low THEN look.pos[p] ELSE parts[p].low) /\ o \in Nat
  <2>1. look.pos[p] \in Nat /\ parts[p].low \in Nat
    BY <1>2, PeekKnown
  <2>2. QED
    BY <2>1, TwoNumbers
<1>4. look' = IF o < parts[p].high
                THEN [look EXCEPT !.pos[p] = o + 1, !.read = look.read \cup {<<p, o>>}]
                ELSE [look EXCEPT !.pos[p] = o]
  BY PeekKnown DEF PollTakes, LookRec
<1> HIDE DEF o
<1>5. look.pos \in [Partitions -> Nat]
  BY <1>2, PeekKnown DEF PosSet
<1>6. ASSUME NEW m \in Nat
      PROVE  [look.pos EXCEPT ![p] = m] \in PosSet
  BY <1>5 DEF PosSet
<1>7. o >= look.pos[p] /\ o >= begun[p].high - Share
  <2>1. look.pos[p] >= begun[p].high - Share
    BY <1>2 DEF PeekInv, NotOlder
  <2>2. QED
    BY <1>2, <1>3, <2>1, PeekKnown
<1>8. IsFiniteSet(look.read) /\ Cardinality(look.read) \in Nat
  BY FS_CardinalityType DEF PeekInv, Counted
<1>9. parts = begun => o = look.pos[p]
  <2>1. parts = begun => look.pos[p] >= parts[p].low
    BY <1>2, PeekKnown DEF PeekInv, Still, Oldest
  <2>2. QED
    BY <1>3, <2>1
<1>10. CASE o < parts[p].high
  <2> DEFINE n == [look.pos EXCEPT ![p] = o + 1]
             r == look.read \cup {<<p, o>>}
  <2>1. look' = [look EXCEPT !.pos = n, !.read = r]
    BY <1>4, <1>10, PeekKnown DEF LookRec
  <2>2. /\ n \in PosSet /\ r \in SUBSET (Partitions \X Nat)
        /\ DOMAIN n = Partitions /\ n[p] = o + 1
        /\ \A q \in Partitions : q # p => n[q] = look.pos[q]
    BY <1>3, <1>5, <1>6, PeekKnown
  <2>3. \A q \in Partitions, x \in Nat :
          <<q, x>> \in r <=> <<q, x>> \in look.read \/ (q = p /\ x = o)
    OBVIOUS
  <2>4. IsFiniteSet(r) /\ Cardinality(r) <= look.limit /\ look.limit >= 0
    <3>1. /\ IsFiniteSet(r)
          /\ Cardinality(r) = IF <<p, o>> \in look.read THEN Cardinality(look.read)
                              ELSE Cardinality(look.read) + 1
      BY <1>8, FS_AddElement, Zenon
    <3>2. QED
      BY <1>1, <1>8, <3>1, PeekKnown
  <2> HIDE DEF n, r
  <2>5. /\ look' \in LookRec /\ look'.op = look.op /\ look'.limit = look.limit /\ look'.pc = look.pc
        /\ look'.pos = n /\ look'.read = r /\ look'.reply = look.reply /\ look'.at = look.at
    BY <2>1, <2>2, PeekKnown DEF LookRec
  <2>6. Share' = Share
    BY <2>5 DEF Share
  <2>7. PeekStages'
    BY <1>1, <1>2, <2>2, <2>5 DEF PeekInv, PeekStages, At, Peeked, Known
  <2>8. Counted'
    BY <2>4, <2>5 DEF Counted
  <2>9. NotOlder'
    <3>1. \A q \in Partitions : n[q] >= begun[q].high - Share
      <4>1. \A q \in Partitions : look.pos[q] >= begun[q].high - Share
        BY <1>2 DEF PeekInv, NotOlder
      <4>2. o + 1 >= begun[p].high - Share
        BY <1>2, <1>3, <1>7, PeekKnown
      <4>3. QED
        BY <2>2, <4>1, <4>2
    <3>2. \A q \in Partitions, x \in Nat : <<q, x>> \in r => x >= begun[q].high - Share
      BY <1>7, <2>3 DEF PeekInv, NotOlder
    <3>3. QED
      BY <1>1, <2>2, <2>5, <2>6, <3>1, <3>2 DEF NotOlder
  <2>10. Still'
    <3>1. SUFFICES ASSUME parts = begun, NEW q \in Partitions
                   PROVE  /\ n[q] \in Oldest(parts[q], Share)..parts[q].high
                          /\ \A x \in Nat : <<q, x>> \in r <=>
                               x \in Oldest(parts[q], Share)..(n[q] - 1)
      BY <1>1, <2>2, <2>5, <2>6 DEF Still
    <3>2. /\ look.pos[q] \in Oldest(parts[q], Share)..parts[q].high
          /\ \A x \in Nat : <<q, x>> \in look.read <=>
               x \in Oldest(parts[q], Share)..(look.pos[q] - 1)
      BY <1>2, <3>1 DEF PeekInv, Still
    <3>3. CASE q = p
      <4> DEFINE f == Oldest(parts[q], Share)
      <4>1. f \in Int /\ look.pos[q] \in Nat /\ parts[q].high \in Nat /\ o = look.pos[q]
        BY <1>2, <1>9, <3>1, <3>3, PeekKnown DEF Oldest
      <4> HIDE DEF f
      <4>2. look.pos[q] \in f..parts[q].high
        BY <3>2 DEF f
      <4>3. o + 1 \in f..parts[q].high
        BY <1>3, <1>10, <3>3, <4>1, <4>2
      <4>4. \A x \in Nat : x \in f..((o + 1) - 1) <=> x \in f..(look.pos[q] - 1) \/ x = o
        BY <1>3, <4>1, <4>2
      <4>5. QED
        BY <2>2, <2>3, <3>2, <3>3, <4>3, <4>4 DEF f
    <3>4. CASE q # p
      BY <2>2, <2>3, <3>2, <3>4
    <3>5. QED
      BY <3>3, <3>4
  <2>11. Stopped' /\ Grown'
    BY <1>1, <1>2, <2>5 DEF Stopped, Peeked, PeekInv, Grown, Known
  <2>12. QED
    BY <1>1, <2>5, <2>7, <2>8, <2>9, <2>10, <2>11 DEF PeekInv
<1>11. CASE ~ (o < parts[p].high)
  <2> DEFINE n == [look.pos EXCEPT ![p] = o]
  <2>1. look' = [look EXCEPT !.pos = n]
    BY <1>4, <1>11, PeekKnown DEF LookRec
  <2>2. /\ n \in PosSet /\ DOMAIN n = Partitions /\ n[p] = o
        /\ \A q \in Partitions : q # p => n[q] = look.pos[q]
    BY <1>3, <1>5, <1>6, PeekKnown
  <2> HIDE DEF n
  <2>3. /\ look' \in LookRec /\ look'.op = look.op /\ look'.limit = look.limit /\ look'.pc = look.pc
        /\ look'.pos = n /\ look'.read = look.read /\ look'.reply = look.reply
        /\ look'.at = look.at
    BY <2>1, <2>2, PeekKnown DEF LookRec
  <2>4. Share' = Share
    BY <2>3 DEF Share
  <2>5. parts # begun
    BY <1>1, <1>2, <1>9, <1>11, PeekKnown
  <2>6. PeekStages'
    BY <1>1, <1>2, <2>2, <2>3 DEF PeekInv, PeekStages, At, Peeked, Known
  <2>7. Counted'
    BY <2>3 DEF PeekInv, Counted
  <2>8. NotOlder'
    <3>1. \A q \in Partitions : n[q] >= begun[q].high - Share
      BY <1>2, <1>7, <2>2 DEF PeekInv, NotOlder
    <3>2. QED
      BY <1>1, <2>2, <2>3, <2>4, <3>1 DEF PeekInv, NotOlder
  <2>9. Still' /\ Stopped' /\ Grown'
    BY <1>1, <1>2, <2>3, <2>5 DEF Still, Stopped, Peeked, PeekInv, Grown, Known
  <2>10. QED
    BY <1>1, <2>3, <2>6, <2>7, <2>8, <2>9 DEF PeekInv
<1>12. QED
  BY <1>10, <1>11

\* The invariant of a peek.
LEMMA PeekInvariant == PeekSpec => []PeekInv
<1>1. PeekInit => PeekInv
  <2>1. SUFFICES ASSUME PeekInit PROVE PeekInv
    OBVIOUS
  <2>2. /\ begun = parts /\ look.op \in {"peek", "post"} /\ look.limit \in Limits
        /\ look.pc = "meta" /\ look.pos = <<>> /\ look.read = {} /\ look.reply = 0
        /\ look.at = <<>>
    BY <2>1 DEF PeekInit
  <2>3. <<>> \in PosSet /\ DOMAIN <<>> = {}
    <3>1. DOMAIN <<>> = {}
      OBVIOUS
    <3>2. <<>> \in [{} -> Nat] /\ {} \in SUBSET Partitions
      OBVIOUS
    <3>3. QED
      BY <3>1, <3>2 DEF PosSet
  <2>4. look \in LookRec
    BY <2>1, <2>3 DEF PeekInit, LookRec
  <2>5. /\ parts \in Topics
        /\ Known => \A p \in Partitions : parts[p].low = 0 /\ parts[p].high \in Nat
    <3>1. CASE parts = <<>>
      BY <2>3, <3>1, PeekAssumption DEF Known, Topics
    <3>2. CASE parts \in [Partitions -> [low : {0}, high : 0..Offsets]]
      <4>1. \A p \in Partitions : parts[p] \in PartRec /\ parts[p].low = 0 /\ parts[p].high \in Nat
        BY <3>2 DEF PartRec
      <4>2. QED
        BY <3>2, <4>1 DEF Topics
    <3>3. QED
      BY <2>1, <3>1, <3>2 DEF PeekInit
  <2>6. Grown
    BY <2>2, <2>5 DEF Grown
  <2>7. PeekStages
    BY <2>2, <2>3 DEF PeekStages, At, Peeked
  <2>8. Counted
    BY <2>2, <2>4, Shares, FS_EmptySet DEF Counted
  <2>9. NotOlder /\ Still /\ Stopped
    BY <2>2, <2>3 DEF NotOlder, Still, Stopped, Peeked
  <2>10. QED
    BY <2>2, <2>4, <2>5, <2>6, <2>7, <2>8, <2>9 DEF PeekInv
<1>2. PeekInv /\ [PeekNext]_peekVars => PeekInv'
  <2>1. SUFFICES ASSUME PeekInv, [PeekNext]_peekVars PROVE PeekInv'
    OBVIOUS
  <2>2. CASE PeekNext
    BY <2>1, <2>2, AppendsKept, RetentionKept, WritesMineKept, MarksKept, PollTakesKept,
       AskMetaKept, EndsKept DEF PeekNext
  <2>3. CASE UNCHANGED peekVars
    BY <2>1, <2>3 DEF peekVars, PeekInv, Grown, PeekStages, Counted, NotOlder, Still, Stopped,
       Peeked, At, Known, Share
  <2>4. QED
    BY <2>1, <2>2, <2>3
<1>3. QED
  BY <1>1, <1>2, PTL DEF PeekSpec

\* All the newest records of a topic, of n from each partition: they are not
\* more than n for each.
LEMMA NewestCount ==
  ASSUME Known, parts \in [Partitions -> PartRec], NEW n \in Nat \ {0},
         NEW T, T = {r \in Partitions \X Nat : r[2] \in Newest(parts[r[1]], n)}
  PROVE  IsFiniteSet(T) /\ Cardinality(T) <= Cardinality(Partitions) * n
<1> DEFINE U == Partitions \X (1..n)
           f == [r \in T |-> <<r[1], parts[r[1]].high - r[2]>>]
<1>1. IsFiniteSet(U) /\ Cardinality(U) = Cardinality(Partitions) * n
  <2>1. IsFiniteSet(1..n) /\ Cardinality(1..n) = n
    BY FS_Interval
  <2>2. QED
    BY <2>1, PeekAssumption, FS_Product
<1>2. \A r \in T : /\ r[1] \in Partitions /\ r[2] \in Nat /\ parts[r[1]].high \in Nat
                    /\ r = <<r[1], r[2]>> /\ parts[r[1]].high - r[2] \in 1..n
  BY DEF Newest, PartRec
<1>3. f \in [T -> U]
  BY <1>2
<1>4. \A r, s \in T : f[r] = f[s] => r = s
  <2>1. SUFFICES ASSUME NEW r \in T, NEW s \in T, f[r] = f[s] PROVE r = s
    OBVIOUS
  <2>2. r[1] = s[1] /\ parts[r[1]].high - r[2] = parts[s[1]].high - s[2]
    BY <2>1
  <2>3. r[2] = s[2]
    BY <1>2, <2>2
  <2>4. QED
    BY <1>2, <2>2, <2>3
<1> HIDE DEF f, U
<1>5. f \in Injection(T, U)
  BY <1>3, <1>4 DEF Injection, IsInjective
<1>6. IsFiniteSet(T) /\ Cardinality(T) <= Cardinality(U)
  BY <1>1, <1>5, FS_Injection
<1>7. QED
  BY <1>1, <1>6

\* On a topic that stands still, a peek that was not hurried has every
\* partition's share, or as many newest records as its limit grants.
LEMMA StillIsNewest ==
  ASSUME PeekInv
  PROVE  PeekNewest
<1> DEFINE N == Cardinality(Partitions)
           S(p) == Newest(parts[p], Share)
           T == {r \in Partitions \X Nat : r[2] \in Newest(parts[r[1]], Share)}
<1>1. SUFFICES ASSUME Peeked, parts = begun, ~ hurried, look.limit > 0
               PROVE  IF N <= look.limit
                        THEN \A p \in Partitions : OfPart(p) = S(p)
                        ELSE /\ \A p \in Partitions : OfPart(p) \in {{}, S(p)}
                             /\ Cardinality(look.read) =
                                  Min({look.limit, Cardinality({p \in Partitions : Size(p) > 0})})
  BY DEF PeekNewest
<1>2. Known /\ DOMAIN look.pos = Partitions /\ parts \in [Partitions -> PartRec]
  BY <1>1, PeekKnown DEF PeekInv, PeekStages
<1>3. /\ N \in Nat \ {0} /\ look.limit \in Int /\ Share \in Nat \ {0}
      /\ N <= look.limit => N * Share <= look.limit
      /\ N > look.limit => Share = 1
  BY PeekKnown, Shares
<1>4. ASSUME NEW p \in Partitions
      PROVE  /\ S(p) = Oldest(parts[p], Share)..(parts[p].high - 1)
             /\ look.pos[p] \in Oldest(parts[p], Share)..parts[p].high
             /\ OfPart(p) = Oldest(parts[p], Share)..(look.pos[p] - 1)
             /\ Oldest(parts[p], Share) \in Nat /\ parts[p].high \in Nat /\ parts[p].low \in Nat
             /\ look.pos[p] \in Nat /\ parts[p].low <= parts[p].high
  <2>1. /\ parts[p].low \in Nat /\ parts[p].high \in Nat /\ look.pos[p] \in Nat
        /\ parts[p].low <= parts[p].high
    BY <1>2, PeekKnown DEF PeekInv, Grown
  <2>2. S(p) = Oldest(parts[p], Share)..(parts[p].high - 1)
    BY <1>3, <2>1 DEF Newest, Oldest
  <2>3. Oldest(parts[p], Share) \in Nat
    BY <1>3, <2>1 DEF Oldest
  <2>4. /\ look.pos[p] \in Oldest(parts[p], Share)..parts[p].high
        /\ \A o \in Nat :
             <<p, o>> \in look.read <=> o \in Oldest(parts[p], Share)..(look.pos[p] - 1)
    BY <1>1, <1>2 DEF PeekInv, Still
  <2>5. \A o : o \in OfPart(p) <=> o \in Nat /\ <<p, o>> \in look.read
    BY PeekKnown DEF OfPart
  <2>6. \A o \in Oldest(parts[p], Share)..(look.pos[p] - 1) : o \in Nat
    BY <2>1, <2>3
  <2>7. OfPart(p) = Oldest(parts[p], Share)..(look.pos[p] - 1)
    BY <2>4, <2>5, <2>6
  <2>8. QED
    BY <2>1, <2>2, <2>3, <2>4, <2>7
<1>5. /\ look.read \subseteq T
      /\ \A p \in Partitions : OfPart(p) \subseteq S(p)
  <2>1. \A p \in Partitions : OfPart(p) \subseteq S(p)
    BY <1>4
  <2>2. \A r \in look.read : r \in Partitions \X Nat /\ r[2] \in OfPart(r[1])
    BY PeekKnown DEF OfPart
  <2>3. QED
    BY <2>1, <2>2
<1>6. /\ IsFiniteSet(look.read) /\ Cardinality(look.read) \in Nat
      /\ Cardinality(look.read) <= look.limit
  BY <1>1, <1>3, FS_CardinalityType DEF PeekInv, Counted
<1>7. IsFiniteSet(T) /\ Cardinality(T) <= N * Share /\ Cardinality(T) \in Nat
  BY <1>2, <1>3, NewestCount, FS_CardinalityType
<1>8. /\ Cardinality(look.read) <= Cardinality(T)
      /\ Cardinality(T) = Cardinality(look.read) => T = look.read
  BY <1>5, <1>7, FS_Subset
<1>9. Cardinality(look.read) >= look.limit \/ T = look.read
  <2>1. SUFFICES ASSUME \A p \in Partitions : look.pos[p] >= parts[p].high
                 PROVE  T \subseteq look.read
    BY <1>1, <1>5 DEF PeekInv, Stopped
  <2>2. \A p \in Partitions : OfPart(p) = S(p)
    BY <1>4, <2>1
  <2>3. \A p \in Partitions, o \in Nat : o \in OfPart(p) => <<p, o>> \in look.read
    BY PeekKnown DEF OfPart
  <2>4. QED
    BY <2>2, <2>3
<1>10. CASE N <= look.limit
  <2>1. T = look.read
    BY <1>3, <1>6, <1>7, <1>8, <1>9, <1>10
  <2>2. \A p \in Partitions : \A o \in S(p) : <<p, o>> \in T
    BY <1>4
  <2>3. ASSUME NEW p \in Partitions, NEW o \in S(p)
        PROVE  o \in OfPart(p)
    <3>1. <<p, o>> \in {x \in look.read : x[1] = p}
      BY <2>1, <2>2, <2>3
    <3>2. QED
      BY <3>1 DEF OfPart
  <2>4. QED
    BY <1>5, <1>10, <2>3
<1>11. CASE N > look.limit
  <2> DEFINE P == {p \in Partitions : Size(p) > 0}
             g == [p \in P |-> <<p, parts[p].high - 1>>]
  <2>1. \A p \in Partitions : OfPart(p) \in {{}, S(p)}
    BY <1>3, <1>4, <1>11 DEF Oldest
  <2>2. /\ \A r \in T : r[1] \in P /\ r = <<r[1], parts[r[1]].high - 1>>
        /\ \A p \in P : <<p, parts[p].high - 1>> \in T
    BY <1>3, <1>4, <1>11 DEF Newest, Size
  <2>3. g \in Bijection(P, T)
    <3>1. g \in [P -> T]
      BY <2>2
    <3>2. \A p, q \in P : g[p] = g[q] => p = q
      OBVIOUS
    <3>3. \A r \in T : r[1] \in P /\ g[r[1]] = r
      BY <2>2
    <3> HIDE DEF g, P, T
    <3>4. QED
      BY <3>1, <3>2, <3>3 DEF Bijection, Injection, IsInjective, Surjection
  <2>4. IsFiniteSet(P)
    BY PeekAssumption, FS_Subset
  <2> HIDE DEF P, g
  <2>5. ExistsBijection(P, T)
    BY <2>3 DEF ExistsBijection
  <2>6. Cardinality(T) = Cardinality(P)
    BY <2>4, <2>5, FS_Bijection
  <2>7. Cardinality(look.read) =
          IF look.limit <= Cardinality(P) THEN look.limit ELSE Cardinality(P)
    <3> HIDE DEF T, N
    <3>1. look.limit \in Int /\ Cardinality(P) \in Nat /\ Cardinality(T) = Cardinality(P)
      BY <1>3, <1>7, <2>6
    <3>2. CASE T = look.read
      BY <1>6, <3>1, <3>2
    <3>3. CASE T # look.read
      BY <1>6, <1>8, <1>9, <3>1, <3>3
    <3>4. QED
      BY <3>2, <3>3
  <2>8. Min({look.limit, Cardinality(P)}) =
          IF look.limit <= Cardinality(P) THEN look.limit ELSE Cardinality(P)
    <3>1. look.limit \in Int /\ Cardinality(P) \in Int
      BY <1>3, <1>7, <2>6
    <3>2. QED
      BY <3>1, TwoNumbers
  <2>9. QED
    BY <1>3, <1>11, <2>1, <2>7, <2>8 DEF P
<1>12. QED
  BY <1>3, <1>10, <1>11

\* Whoever else writes to a topic and whatever retention deletes: a peek holds
\* to its limit and, on a topic that stands still, shows the newest records; a
\* 200 to a POST names a record that it wrote.
THEOREM TopicsArePeeked == PeekSpec => []KafkaAnswersTrue
<1>1. PeekInv => KafkaAnswersTrue
  <2>1. SUFFICES ASSUME PeekInv PROVE KafkaAnswersTrue
    OBVIOUS
  <2>2. WithinLimit
    <3>1. SUFFICES ASSUME Peeked
                   PROVE  /\ Cardinality(look.read) <= Max({0, look.limit})
                          /\ \A p \in Partitions : \A o \in OfPart(p) : o >= begun[p].high - Share
      BY DEF WithinLimit
    <3>2. Max({0, look.limit}) = IF 0 >= look.limit THEN 0 ELSE look.limit
      BY <2>1, PeekKnown, TwoNumbers
    <3>3. /\ Cardinality(look.read) <= IF look.limit >= 0 THEN look.limit ELSE 0
          /\ look.limit \in Int /\ Cardinality(look.read) \in Nat
      BY <2>1, PeekKnown, FS_CardinalityType DEF PeekInv, Counted
    <3>4. \A p \in Partitions : \A o \in OfPart(p) : o \in Nat /\ <<p, o>> \in look.read
      BY <2>1, PeekKnown DEF OfPart
    <3>5. \A p \in Partitions, o \in Nat : <<p, o>> \in look.read => o >= begun[p].high - Share
      BY <2>1 DEF PeekInv, NotOlder
    <3>6. Cardinality(look.read) <= Max({0, look.limit})
      BY <3>2, <3>3
    <3>7. QED
      BY <3>4, <3>5, <3>6
  <2>3. PeekNewest
    BY <2>1, StillIsNewest
  <2>4. ProducedIsWritten
    BY <2>1 DEF ProducedIsWritten, PeekInv, PeekStages
  <2>5. QED
    BY <2>2, <2>3, <2>4 DEF KafkaAnswersTrue
<1>2. QED
  BY <1>1, PeekInvariant, PTL
=============================================================================
