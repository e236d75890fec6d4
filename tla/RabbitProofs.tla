---------------------------- MODULE RabbitProofs ----------------------------
(***************************************************************************)
(* What a queue keeps and what a peek shows, for any number of handlers,   *)
(* any limits and any backlog: messages are neither lost nor doubled       *)
(* whatever handlers, broker and broken connections do in between.         *)
(***************************************************************************)
EXTENDS RabbitQueue, SequenceTheorems, WellFoundedInduction, TLAPS

-----------------------------------------------------------------------------
(* The invariant                                                           *)

Links   == {"none", "up", "broken", "lost", "down"}
Replies == {"none", "200", "404", "error", "sse"}

ConnRec  == [link : Links, frames : Seq(Frame), held : SUBSET Nat,
             consumer : BOOLEAN, arrived : BOOLEAN]
ProcRec  == [op : Ops \cup {"none"}, limit : Nat \ {0}, pc : Steps,
             got : Seq(Nat), reply : Replies]
QueueRec == [exists : BOOLEAN, last : Nat, ready : SUBSET Nat, gone : SUBSET Nat]

\* TypeOK without the bound on the numbers of messages, which is Numbered.
Types ==
  /\ queue \in QueueRec
  /\ conn \in [Handlers -> ConnRec]
  /\ proc \in [Handlers -> ProcRec]
  /\ client \in [Handlers -> {"there", "gone", "reset"}]

\* Every number of a message is that of one the broker has accepted.
NumberedAt(p) ==
  /\ conn[p].held \subseteq 1..queue.last
  /\ \A i \in 1..Len(proc[p].got) : proc[p].got[i] \in 1..queue.last

\* How far a request is when it has sent something, answered or been pushed
\* messages: frames are under way only after its work is done and while the
\* connection stands, and only a POST gets to declare.
PhaseAt(p) ==
  /\ proc[p].pc = "idle" => /\ proc[p].op = "none" /\ proc[p].got = <<>>
                            /\ conn[p].held = {} /\ ~conn[p].consumer
  /\ proc[p].pc = "declare" => proc[p].op = "post"
  /\ proc[p].pc \in {"idle", "find", "declare", "work"} => proc[p].reply = "none"
  /\ proc[p].pc \in {"idle", "find", "declare", "work", "stream"} => conn[p].frames = <<>>
  /\ ~Up(p) => conn[p].frames = <<>>
  /\ conn[p].consumer => proc[p].op = "tail"

\* What a peek has got are different messages, at most as many as asked for,
\* and it holds them all until it sends the nacks or its connection is gone.
PeekAt(p) ==
  proc[p].op = "peek" =>
    /\ Len(proc[p].got) <= proc[p].limit
    /\ \A i, j \in 1..Len(proc[p].got) : proc[p].got[i] = proc[p].got[j] => i = j
    /\ proc[p].pc \in {"find", "work"} /\ Up(p) =>
         \A i \in 1..Len(proc[p].got) : proc[p].got[i] \in conn[p].held

\* The nacks under way are for different messages, all of them still held.
NacksAt(p) ==
  /\ \A i \in 1..Len(conn[p].frames) :
       conn[p].frames[i].kind = "nack" => conn[p].frames[i].message \in conn[p].held
  /\ \A i, j \in 1..Len(conn[p].frames) :
       /\ conn[p].frames[i].kind = "nack" /\ conn[p].frames[j].kind = "nack"
       /\ conn[p].frames[i].message = conn[p].frames[j].message
       => i = j

RabbitInv ==
  /\ Types
  /\ \A p \in Handlers : NumberedAt(p) /\ PhaseAt(p) /\ PeekAt(p) /\ NacksAt(p)
  /\ queue.ready \subseteq 1..queue.last /\ queue.gone \subseteq 1..queue.last
  /\ Conserved

-----------------------------------------------------------------------------
(* The head of a queue, the least limit, and what sequences keep           *)

\* A queue that is not empty has a head, and the head is one of its messages.
LEMMA HeadIsReady ==
  ASSUME NEW S \in SUBSET Nat, S # {}
  PROVE  Min(S) \in S
<1>1. IsWellFoundedOn(OpToRel(<, Nat), Nat)
  BY NatLessThanWellFounded
<1>2. PICK x \in S : \A y \in S : ~ (<<y, x>> \in OpToRel(<, Nat))
  BY <1>1, WFMin, Zenon
<1>3. \A y \in S : ~ (y < x)
  <2>1. \A y \in S : y \in Nat /\ x \in Nat /\ <<y, x>>[1] = y /\ <<y, x>>[2] = x
    OBVIOUS
  <2>2. \A y \in S : <<y, x>> \in Nat \X Nat
    BY <2>1
  <2>3. QED
    BY <1>2, <2>1, <2>2, Zenon DEF OpToRel
<1>4. \A y \in S : x <= y
  BY <1>3
<1>5. QED
  BY <1>2, <1>4, Zenon DEF Min

\* The limit of a peek is at least 1.
LEMMA LimitIsPositive ==
  ASSUME NEW n \in Nat
  PROVE  Max({1, n}) \in Nat \ {0}
<1>1. \E x \in {1, n} : \A y \in {1, n} : x >= y
  <2>1. CASE n >= 1 BY <2>1
  <2>2. CASE n < 1 BY <2>2
  <2>3. QED BY <2>1, <2>2
<1>2. Max({1, n}) \in {1, n} /\ \A y \in {1, n} : Max({1, n}) >= y
  BY <1>1, Zenon DEF Max
<1>3. QED
  BY <1>2

-----------------------------------------------------------------------------
(* Every step, invariant by invariant                                      *)

\* The frames, the messages and the counts that steps are made of.
LEMMA Parts ==
  ASSUME Types, NEW p \in Handlers
  PROVE  /\ conn[p] \in ConnRec /\ proc[p] \in ProcRec /\ queue \in QueueRec
         /\ conn[p].link \in Links /\ conn[p].frames \in Seq(Frame)
         /\ conn[p].held \in SUBSET Nat /\ conn[p].consumer \in BOOLEAN
         /\ proc[p].got \in Seq(Nat) /\ proc[p].reply \in Replies /\ proc[p].pc \in Steps
         /\ proc[p].limit \in Nat \ {0}
         /\ queue.last \in Nat /\ queue.ready \in SUBSET Nat /\ queue.gone \in SUBSET Nat
         /\ queue.ready # {} => First \in queue.ready /\ First \in Nat
         /\ conn[p].frames # <<>> =>
              /\ Tail(conn[p].frames) \in Seq(Frame)
              /\ Head(conn[p].frames) \in Frame /\ Head(conn[p].frames).message \in Nat
         /\ proc[p].got # <<>> => Tail(proc[p].got) \in Seq(Nat)
<1>1. conn[p] \in ConnRec /\ proc[p] \in ProcRec /\ queue \in QueueRec
  BY DEF Types
<1>2. /\ conn[p].link \in Links /\ conn[p].frames \in Seq(Frame)
      /\ conn[p].held \in SUBSET Nat /\ conn[p].consumer \in BOOLEAN
  BY <1>1 DEF ConnRec
<1>3. /\ proc[p].got \in Seq(Nat) /\ proc[p].reply \in Replies /\ proc[p].pc \in Steps
      /\ proc[p].limit \in Nat \ {0}
  BY <1>1 DEF ProcRec
<1>4. queue.last \in Nat /\ queue.ready \in SUBSET Nat /\ queue.gone \in SUBSET Nat
  BY <1>1 DEF QueueRec
<1>5. queue.ready # {} => First \in queue.ready /\ First \in Nat
  BY <1>4, HeadIsReady DEF First
<1>6. conn[p].frames # <<>> =>
        /\ Tail(conn[p].frames) \in Seq(Frame)
        /\ Head(conn[p].frames) \in Frame /\ Head(conn[p].frames).message \in Nat
  <2>1. conn[p].frames # <<>> =>
          /\ Tail(conn[p].frames) \in Seq(Frame) /\ Head(conn[p].frames) \in Frame
    BY <1>2
  <2>2. QED
    BY <2>1 DEF Frame
<1>7. proc[p].got # <<>> => Tail(proc[p].got) \in Seq(Nat)
  BY <1>3
<1>8. QED
  BY <1>1, <1>2, <1>3, <1>4, <1>5, <1>6, <1>7
\* A step that writes the record of one connection and of its request.
LEMMA Typed ==
  ASSUME Types, NEW p \in Handlers, NEW c \in ConnRec, NEW r \in ProcRec,
         queue' \in QueueRec, client' \in [Handlers -> {"there", "gone", "reset"}],
         conn' = conn \/ conn' = [conn EXCEPT ![p] = c],
         proc' = proc \/ proc' = [proc EXCEPT ![p] = r]
  PROVE  Types'
  BY DEF Types

\* The record of a request whose process is no more.
LEMMA EndTyped ==
  ASSUME NEW r \in ProcRec, NEW got \in Seq(Nat), NEW n \in Nat \ {0}, NEW reply \in Replies
  PROVE  [r EXCEPT !.pc = "done", !.got = got, !.limit = n, !.reply = reply] \in ProcRec
  BY DEF ProcRec, Steps

\* Every step keeps the types.
LEMMA TypesStep ==
  ASSUME Types, [Next]_vars
  PROVE  Types'
<1>1. ASSUME NEW p \in Handlers, NEW o \in Ops, NEW n \in Limits, Start(p, o, n)
      PROVE  Types'
  <2>1. conn[p] \in ConnRec /\ proc[p] \in ProcRec
    BY Parts
  <2>2. (IF o = "peek" THEN Max({1, n}) ELSE 1) \in Nat \ {0}
    BY LimitIsPositive, NatAssumption
  <2> DEFINE C == [conn[p] EXCEPT !.link = "up"]
             R1 == [proc[p] EXCEPT !.op = o, !.limit = IF o = "peek" THEN Max({1, n}) ELSE 1,
                                                 !.pc = IF o = "exchange" THEN "work" ELSE "find"]
  <2>3. C \in ConnRec
    BY <2>1, <2>2 DEF ConnRec, Links
  <2>4. R1 \in ProcRec
    BY <2>1, <2>2 DEF ProcRec, Steps, Replies, Ops
  <2>5. /\ conn' = [conn EXCEPT ![p] = C]
        /\ proc' = [proc EXCEPT ![p] = R1]
        /\ queue' = queue
        /\ client' = client
    BY <1>1, <2>1 DEF Types, ConnRec, ProcRec, QueueRec, Start
  <2> HIDE DEF C, R1
  <2>6. QED
    BY <2>1, <2>3, <2>4, <2>5, Typed, Zenon DEF Types
<1>2. ASSUME NEW p \in Handlers, Found(p)
      PROVE  Types'
  <2>1. conn[p] \in ConnRec /\ proc[p] \in ProcRec
    BY Parts
  <2> DEFINE R1 == [proc[p] EXCEPT !.pc = "work"]
  <2>2. R1 \in ProcRec
    BY <2>1 DEF ProcRec, Steps, Replies, Ops
  <2>3. conn' = conn /\ proc' = [proc EXCEPT ![p] = R1] /\ queue' = queue /\ client' = client
    BY <1>2, <2>1 DEF Types, ConnRec, ProcRec, QueueRec, Found, Goto
  <2> HIDE DEF R1
  <2>4. QED
    BY <2>1, <2>2, <2>3, Typed, Zenon DEF Types
<1>3. ASSUME NEW p \in Handlers, Missing(p)
      PROVE  Types'
  <2>1. conn[p] \in ConnRec /\ proc[p] \in ProcRec
    BY Parts
  <2> DEFINE R1 == [proc[p] EXCEPT !.pc = IF proc[p].op = "post" THEN "declare" ELSE "close"]
  <2>2. R1 \in ProcRec
    BY <2>1 DEF ProcRec, Steps, Replies, Ops
  <2>3. conn' = conn /\ proc' = [proc EXCEPT ![p] = R1] /\ queue' = queue /\ client' = client
    BY <1>3, <2>1 DEF Types, ConnRec, ProcRec, QueueRec, Missing, Goto
  <2> HIDE DEF R1
  <2>4. QED
    BY <2>1, <2>2, <2>3, Typed, Zenon DEF Types
<1>4. ASSUME NEW p \in Handlers, Declare(p)
      PROVE  Types'
  <2>1. conn[p] \in ConnRec /\ proc[p] \in ProcRec
    BY Parts
  <2> DEFINE R1 == [proc[p] EXCEPT !.pc = "work"]
             Q == [queue EXCEPT !.exists = TRUE]
  <2>2. R1 \in ProcRec
    BY <2>1 DEF ProcRec, Steps, Replies, Ops
  <2>3. Q \in QueueRec
    BY <2>1, Parts DEF QueueRec
  <2>4. conn' = conn /\ proc' = [proc EXCEPT ![p] = R1] /\ queue' = Q /\ client' = client
    BY <1>4, <2>1 DEF Types, ConnRec, ProcRec, QueueRec, Declare, Goto
  <2> HIDE DEF R1, Q
  <2>5. QED
    BY <2>1, <2>2, <2>3, <2>4, Typed, Zenon DEF Types
<1>5. ASSUME NEW p \in Handlers, Count(p)
      PROVE  Types'
  <2>1. conn[p] \in ConnRec /\ proc[p] \in ProcRec
    BY Parts
  <2> DEFINE R1 == [proc[p] EXCEPT !.pc = "answer"]
  <2>2. R1 \in ProcRec
    BY <2>1 DEF ProcRec, Steps, Replies, Ops
  <2>3. conn' = conn /\ proc' = [proc EXCEPT ![p] = R1] /\ queue' = queue /\ client' = client
    BY <1>5, <2>1 DEF Types, ConnRec, ProcRec, QueueRec, Count, Goto
  <2> HIDE DEF R1
  <2>4. QED
    BY <2>1, <2>2, <2>3, Typed, Zenon DEF Types
<1>6. ASSUME NEW p \in Handlers, Publish(p)
      PROVE  Types'
  <2>1. conn[p] \in ConnRec /\ proc[p] \in ProcRec
    BY Parts
  <2> DEFINE x == [kind |-> IF proc[p].op = "post" THEN "publish" ELSE "route", message |-> 0]
             F == IF Up(p) THEN conn[p].frames \o <<x>> ELSE conn[p].frames
  <2>2. [kind |-> IF proc[p].op = "post" THEN "publish" ELSE "route", message |-> 0] \in Frame
    BY DEF Frame
  <2>3. F \in Seq(Frame)
    BY <2>2, Parts
  <2> DEFINE C == [conn[p] EXCEPT !.frames = F]
             R1 == [proc[p] EXCEPT !.pc = "answer"]
  <2>4. C \in ConnRec
    BY <2>1, <2>2, <2>3 DEF ConnRec, Links
  <2>5. R1 \in ProcRec
    BY <2>1, <2>2, <2>3 DEF ProcRec, Steps, Replies, Ops
  <2>6. /\ conn' = [conn EXCEPT ![p] = C]
        /\ proc' = [proc EXCEPT ![p] = R1]
        /\ queue' = queue
        /\ client' = client
    BY <1>6, <2>1 DEF Types, ConnRec, ProcRec, QueueRec, Publish, Goto, Send
  <2> HIDE DEF C, R1
  <2>7. QED
    BY <2>1, <2>4, <2>5, <2>6, Typed, Zenon DEF Types
<1>7. ASSUME NEW p \in Handlers, Purge(p)
      PROVE  Types'
  <2>1. conn[p] \in ConnRec /\ proc[p] \in ProcRec
    BY Parts
  <2>2. queue.gone \cup queue.ready \in SUBSET Nat
    BY Parts
  <2> DEFINE R1 == [proc[p] EXCEPT !.pc = "answer"]
             Q == [queue EXCEPT !.gone = queue.gone \cup queue.ready, !.ready = {}]
  <2>3. R1 \in ProcRec
    BY <2>1, <2>2 DEF ProcRec, Steps, Replies, Ops
  <2>4. Q \in QueueRec
    BY <2>1, <2>2, Parts DEF QueueRec
  <2>5. conn' = conn /\ proc' = [proc EXCEPT ![p] = R1] /\ queue' = Q /\ client' = client
    BY <1>7, <2>1 DEF Types, ConnRec, ProcRec, QueueRec, Purge, Goto
  <2> HIDE DEF R1, Q
  <2>6. QED
    BY <2>1, <2>3, <2>4, <2>5, Typed, Zenon DEF Types
<1>8. ASSUME NEW p \in Handlers, Get(p)
      PROVE  Types'
  <2>1. conn[p] \in ConnRec /\ proc[p] \in ProcRec
    BY Parts
  <2>2. queue.ready \ {First} \in SUBSET Nat /\ conn[p].held \cup {First} \in SUBSET Nat
        /\ Append(proc[p].got, First) \in Seq(Nat)
    BY <1>8, Parts DEF Get, More
  <2> DEFINE C == [conn[p] EXCEPT !.held = conn[p].held \cup {First}]
             R1 == [proc[p] EXCEPT !.got = Append(proc[p].got, First)]
             Q == [queue EXCEPT !.ready = queue.ready \ {First}]
  <2>3. C \in ConnRec
    BY <2>1, <2>2 DEF ConnRec, Links
  <2>4. R1 \in ProcRec
    BY <2>1, <2>2 DEF ProcRec, Steps, Replies, Ops
  <2>5. Q \in QueueRec
    BY <2>1, <2>2, Parts DEF QueueRec
  <2>6. /\ conn' = [conn EXCEPT ![p] = C]
        /\ proc' = [proc EXCEPT ![p] = R1]
        /\ queue' = Q
        /\ client' = client
    BY <1>8, <2>1 DEF Types, ConnRec, ProcRec, QueueRec, Get
  <2> HIDE DEF C, R1, Q
  <2>7. QED
    BY <2>1, <2>3, <2>4, <2>5, <2>6, Typed, Zenon DEF Types
<1>9. ASSUME NEW p \in Handlers, NackAll(p)
      PROVE  Types'
  <2>1. conn[p] \in ConnRec /\ proc[p] \in ProcRec
    BY Parts
  <2> DEFINE N == [i \in DOMAIN proc[p].got |-> Nack(proc[p].got[i])]
             F == IF Up(p) THEN conn[p].frames \o N ELSE conn[p].frames
  <2>2. \A i \in DOMAIN proc[p].got : proc[p].got[i] \in Nat
    BY Parts
  <2>3. \A i \in DOMAIN proc[p].got : Nack(proc[p].got[i]) \in Frame
    BY <2>2 DEF Frame, Nack
  <2>4. N \in Seq(Frame)
    BY <2>3, Parts
  <2>5. F \in Seq(Frame)
    BY <2>4, Parts
  <2> DEFINE C == [conn[p] EXCEPT !.frames = F]
             R1 == [proc[p] EXCEPT !.pc = "answer"]
  <2>6. C \in ConnRec
    BY <2>1, <2>2, <2>3, <2>4, <2>5 DEF ConnRec, Links
  <2>7. R1 \in ProcRec
    BY <2>1, <2>2, <2>3, <2>4, <2>5 DEF ProcRec, Steps, Replies, Ops
  <2>8. /\ conn' = [conn EXCEPT ![p] = C]
        /\ proc' = [proc EXCEPT ![p] = R1]
        /\ queue' = queue
        /\ client' = client
    BY <1>9, <2>1 DEF Types, ConnRec, ProcRec, QueueRec, NackAll, Goto, Send
  <2> HIDE DEF C, R1
  <2>9. QED
    BY <2>1, <2>6, <2>7, <2>8, Typed, Zenon DEF Types
<1>10. ASSUME NEW p \in Handlers, Answer(p)
      PROVE  Types'
  <2>1. conn[p] \in ConnRec /\ proc[p] \in ProcRec
    BY Parts
  <2> DEFINE R1 == [proc[p] EXCEPT !.reply = "200", !.pc = "close"]
  <2>2. R1 \in ProcRec
    BY <2>1 DEF ProcRec, Steps, Replies, Ops
  <2>3. conn' = conn /\ proc' = [proc EXCEPT ![p] = R1] /\ queue' = queue /\ client' = client
    BY <1>10, <2>1 DEF Types, ConnRec, ProcRec, QueueRec, Answer
  <2> HIDE DEF R1
  <2>4. QED
    BY <2>1, <2>2, <2>3, Typed, Zenon DEF Types
<1>11. ASSUME NEW p \in Handlers, Consume(p)
      PROVE  Types'
  <2>1. conn[p] \in ConnRec /\ proc[p] \in ProcRec
    BY Parts
  <2> DEFINE C == [conn[p] EXCEPT !.consumer = TRUE]
             R1 == [proc[p] EXCEPT !.reply = "sse", !.pc = "stream"]
  <2>2. C \in ConnRec
    BY <2>1 DEF ConnRec, Links
  <2>3. R1 \in ProcRec
    BY <2>1 DEF ProcRec, Steps, Replies, Ops
  <2>4. /\ conn' = [conn EXCEPT ![p] = C]
        /\ proc' = [proc EXCEPT ![p] = R1]
        /\ queue' = queue
        /\ client' = client
    BY <1>11, <2>1 DEF Types, ConnRec, ProcRec, QueueRec, Consume
  <2> HIDE DEF C, R1
  <2>5. QED
    BY <2>1, <2>2, <2>3, <2>4, Typed, Zenon DEF Types
<1>12. ASSUME NEW p \in Handlers, WriteEvent(p)
      PROVE  Types'
  <2>1. conn[p] \in ConnRec /\ proc[p] \in ProcRec
    BY Parts
  <2>2. Tail(proc[p].got) \in Seq(Nat)
    BY <1>12, Parts DEF WriteEvent, Written
  <2> DEFINE R1 == [proc[p] EXCEPT !.got = Tail(proc[p].got)]
  <2>3. R1 \in ProcRec
    BY <2>1, <2>2 DEF ProcRec, Steps, Replies, Ops
  <2>4. conn' = conn /\ proc' = [proc EXCEPT ![p] = R1] /\ queue' = queue
    BY <1>12, <2>1 DEF Types, ConnRec, ProcRec, QueueRec, WriteEvent, Written
  <2>5. client' \in [Handlers -> {"there", "gone", "reset"}]
    BY <1>12 DEF WriteEvent, Written, Types
  <2> HIDE DEF R1
  <2>6. QED
    BY <2>1, <2>3, <2>4, <2>5, Typed, Zenon DEF Types
<1>13. ASSUME NEW p \in Handlers, WriteIdle(p)
      PROVE  Types'
  <2>1. conn[p] \in ConnRec /\ proc[p] \in ProcRec
    BY Parts
  <2>2. conn' = conn /\ proc' = proc /\ queue' = queue
    BY <1>13, <2>1 DEF Types, ConnRec, ProcRec, QueueRec, WriteIdle, Written
  <2>3. client' \in [Handlers -> {"there", "gone", "reset"}]
    BY <1>13 DEF WriteIdle, Written, Types
  <2>4. QED
    BY <2>1, <2>2, <2>3, Typed, Zenon DEF Types
<1>14. ASSUME NEW p \in Handlers, Killed(p)
      PROVE  Types'
  <2>1. conn[p] \in ConnRec /\ proc[p] \in ProcRec
    BY Parts
  <2>2. <<>> \in Seq(Frame) /\ <<>> \in Seq(Nat) /\ {} \in SUBSET Nat
    OBVIOUS
  <2>3. "sse" \in Replies
    BY DEF Replies
  <2>4. (IF Up(p) THEN "broken" ELSE conn[p].link) \in Links
    BY Parts DEF Links
  <2> DEFINE C == [conn[p] EXCEPT !.link = IF Up(p) THEN "broken" ELSE conn[p].link,
                               !.frames = <<>>]
             R1 == [proc[p] EXCEPT !.pc = "done", !.got = <<>>, !.limit = 1, !.reply = "sse"]
  <2>5. C \in ConnRec
    BY <2>1, <2>2, <2>3, <2>4 DEF ConnRec, Links
  <2>6. 1 \in Nat \ {0}
    OBVIOUS
  <2>7. R1 \in ProcRec
    BY <2>1, <2>2, <2>3, <2>4, <2>6, EndTyped, Zenon
  <2>8. /\ conn' = [conn EXCEPT ![p] = C]
        /\ proc' = [proc EXCEPT ![p] = R1]
        /\ queue' = queue
        /\ client' = client
    BY <1>14, <2>1 DEF Types, ConnRec, ProcRec, QueueRec, Killed, Exit
  <2> HIDE DEF C, R1
  <2>9. QED
    BY <2>1, <2>5, <2>6, <2>7, <2>8, Typed, Zenon DEF Types
<1>15. ASSUME NEW p \in Handlers, StreamEnds(p)
      PROVE  Types'
  <2>1. conn[p] \in ConnRec /\ proc[p] \in ProcRec
    BY Parts
  <2> DEFINE R1 == [proc[p] EXCEPT !.pc = "close"]
  <2>2. R1 \in ProcRec
    BY <2>1 DEF ProcRec, Steps, Replies, Ops
  <2>3. conn' = conn /\ proc' = [proc EXCEPT ![p] = R1] /\ queue' = queue /\ client' = client
    BY <1>15, <2>1 DEF Types, ConnRec, ProcRec, QueueRec, StreamEnds, Goto
  <2> HIDE DEF R1
  <2>4. QED
    BY <2>1, <2>2, <2>3, Typed, Zenon DEF Types
<1>16. ASSUME NEW p \in Handlers, Fail(p)
      PROVE  Types'
  <2>1. conn[p] \in ConnRec /\ proc[p] \in ProcRec
    BY Parts
  <2>2. <<>> \in Seq(Frame) /\ <<>> \in Seq(Nat) /\ {} \in SUBSET Nat
    OBVIOUS
  <2>3. (IF proc[p].reply = "none" THEN "error" ELSE proc[p].reply) \in Replies
    BY Parts DEF Replies
  <2> DEFINE R1 == [proc[p] EXCEPT !.pc = "done", !.got = <<>>, !.limit = 1,
                           !.reply = IF proc[p].reply = "none" THEN "error" ELSE proc[p].reply]
  <2>4. 1 \in Nat \ {0}
    OBVIOUS
  <2>5. R1 \in ProcRec
    BY <2>1, <2>2, <2>3, <2>4, EndTyped, Zenon
  <2>6. conn' = conn /\ proc' = [proc EXCEPT ![p] = R1] /\ queue' = queue /\ client' = client
    BY <1>16, <2>1 DEF Types, ConnRec, ProcRec, QueueRec, Fail, Exit
  <2> HIDE DEF R1
  <2>7. QED
    BY <2>1, <2>4, <2>5, <2>6, Typed, Zenon DEF Types
<1>17. ASSUME NEW p \in Handlers, Close(p)
      PROVE  Types'
  <2>1. conn[p] \in ConnRec /\ proc[p] \in ProcRec
    BY Parts
  <2> DEFINE F == IF Up(p) THEN conn[p].frames \o <<[kind |-> "close", message |-> 0]>>
                  ELSE conn[p].frames
  <2>2. [kind |-> "close", message |-> 0] \in Frame
    BY DEF Frame
  <2>3. F \in Seq(Frame)
    BY <2>2, Parts
  <2> DEFINE C == [conn[p] EXCEPT !.frames = F]
             R1 == [proc[p] EXCEPT !.pc = "closing"]
  <2>4. C \in ConnRec
    BY <2>1, <2>2, <2>3 DEF ConnRec, Links
  <2>5. R1 \in ProcRec
    BY <2>1, <2>2, <2>3 DEF ProcRec, Steps, Replies, Ops
  <2>6. /\ conn' = [conn EXCEPT ![p] = C]
        /\ proc' = [proc EXCEPT ![p] = R1]
        /\ queue' = queue
        /\ client' = client
    BY <1>17, <2>1 DEF Types, ConnRec, ProcRec, QueueRec, Close, Goto, Send
  <2> HIDE DEF C, R1
  <2>7. QED
    BY <2>1, <2>4, <2>5, <2>6, Typed, Zenon DEF Types
<1>18. ASSUME NEW p \in Handlers, Closed(p)
      PROVE  Types'
  <2>1. conn[p] \in ConnRec /\ proc[p] \in ProcRec
    BY Parts
  <2>2. <<>> \in Seq(Frame) /\ <<>> \in Seq(Nat) /\ {} \in SUBSET Nat
    OBVIOUS
  <2> DEFINE R == IF proc[p].reply # "none" THEN proc[p].reply
                  ELSE IF conn[p].link = "down" THEN "404" ELSE "error"
  <2>3. R \in Replies
    BY Parts DEF Replies
  <2>4. Exit(p, R)
    BY <1>18, Zenon DEF Closed
  <2> HIDE DEF R
  <2> DEFINE R1 == [proc[p] EXCEPT !.pc = "done", !.got = <<>>, !.limit = 1, !.reply = R]
  <2>5. 1 \in Nat \ {0}
    OBVIOUS
  <2>6. R1 \in ProcRec
    BY <2>1, <2>2, <2>3, <2>4, <2>5, EndTyped, Zenon
  <2>7. conn' = conn /\ proc' = [proc EXCEPT ![p] = R1] /\ queue' = queue /\ client' = client
    BY <1>18, <2>1, <2>4 DEF Types, ConnRec, ProcRec, QueueRec, Closed, Exit
  <2> HIDE DEF R1
  <2>8. QED
    BY <2>1, <2>5, <2>6, <2>7, Typed, Zenon DEF Types
<1>19. ASSUME NEW p \in Handlers, TakePublish(p)
      PROVE  Types'
  <2>1. conn[p] \in ConnRec /\ proc[p] \in ProcRec
    BY Parts
  <2>2. conn[p].frames # <<>>
    BY <1>19 DEF TakePublish, Incoming, Enqueue, Drop
  <2>3. Tail(conn[p].frames) \in Seq(Frame) /\ queue.last + 1 \in Nat
        /\ queue.ready \cup {queue.last + 1} \in SUBSET Nat
    BY <2>2, Parts
  <2> DEFINE C == [conn[p] EXCEPT !.frames = Tail(conn[p].frames), !.arrived = TRUE]
             D == [conn[p] EXCEPT !.frames = Tail(conn[p].frames)]
             Q == [queue EXCEPT !.last = queue.last + 1,
                              !.ready = queue.ready \cup {queue.last + 1}]
  <2>4. queue \in QueueRec /\ C \in ConnRec /\ D \in ConnRec /\ Q \in QueueRec
    BY <2>1, <2>3, Parts DEF ConnRec, QueueRec
  <2>5. /\ (queue' = queue \/ queue' = Q)
        /\ (conn' = [conn EXCEPT ![p] = C] \/ conn' = [conn EXCEPT ![p] = D])
        /\ proc' = proc /\ client' = client
    BY <1>19 DEF TakePublish, Incoming, Enqueue, Drop
  <2> HIDE DEF C, D, Q
  <2>6. QED
    BY <2>1, <2>4, <2>5, Typed, Zenon DEF Types
<1>20. ASSUME NEW p \in Handlers, TakeRoute(p)
      PROVE  Types'
  <2>1. conn[p] \in ConnRec /\ proc[p] \in ProcRec
    BY Parts
  <2>2. conn[p].frames # <<>>
    BY <1>20 DEF TakeRoute, Incoming, Enqueue, Drop
  <2>3. Tail(conn[p].frames) \in Seq(Frame) /\ queue.last + 1 \in Nat
        /\ queue.ready \cup {queue.last + 1} \in SUBSET Nat
    BY <2>2, Parts
  <2> DEFINE C == [conn[p] EXCEPT !.frames = Tail(conn[p].frames), !.arrived = TRUE]
             D == [conn[p] EXCEPT !.frames = Tail(conn[p].frames)]
             Q == [queue EXCEPT !.last = queue.last + 1,
                              !.ready = queue.ready \cup {queue.last + 1}]
  <2>4. queue \in QueueRec /\ C \in ConnRec /\ D \in ConnRec /\ Q \in QueueRec
    BY <2>1, <2>3, Parts DEF ConnRec, QueueRec
  <2>5. /\ (queue' = queue \/ queue' = Q)
        /\ (conn' = [conn EXCEPT ![p] = C] \/ conn' = [conn EXCEPT ![p] = D])
        /\ proc' = proc /\ client' = client
    BY <1>20 DEF TakeRoute, Incoming, Enqueue, Drop
  <2> HIDE DEF C, D, Q
  <2>6. QED
    BY <2>1, <2>4, <2>5, Typed, Zenon DEF Types
<1>21. ASSUME NEW p \in Handlers, TakeNack(p)
      PROVE  Types'
  <2>1. conn[p] \in ConnRec /\ proc[p] \in ProcRec
    BY Parts
  <2>2. conn[p].frames # <<>>
    BY <1>21 DEF TakeNack, Incoming
  <2>3. Tail(conn[p].frames) \in Seq(Frame)
        /\ conn[p].held \ {Head(conn[p].frames).message} \in SUBSET Nat
        /\ queue.ready \cup {Head(conn[p].frames).message} \in SUBSET Nat
    BY <2>2, Parts
  <2> DEFINE C == [conn[p] EXCEPT !.frames = Tail(conn[p].frames),
                               !.held = conn[p].held \ {Head(conn[p].frames).message}]
             Q == [queue EXCEPT !.ready = queue.ready \cup {Head(conn[p].frames).message}]
  <2>4. C \in ConnRec
    BY <2>1, <2>2, <2>3 DEF ConnRec, Links
  <2>5. Q \in QueueRec
    BY <2>1, <2>2, <2>3, Parts DEF QueueRec
  <2>6. conn' = [conn EXCEPT ![p] = C] /\ proc' = proc /\ queue' = Q /\ client' = client
    BY <1>21, <2>1 DEF Types, ConnRec, ProcRec, QueueRec, TakeNack, Incoming
  <2> HIDE DEF C, Q
  <2>7. QED
    BY <2>1, <2>4, <2>5, <2>6, Typed, Zenon DEF Types
<1>22. ASSUME NEW p \in Handlers, NEW link \in Links, GiveBack(p, link)
      PROVE  Types'
  <2>1. conn[p] \in ConnRec /\ proc[p] \in ProcRec
    BY Parts
  <2>2. <<>> \in Seq(Frame) /\ <<>> \in Seq(Nat) /\ {} \in SUBSET Nat
    OBVIOUS
  <2>3. queue.ready \cup conn[p].held \in SUBSET Nat /\ link \in Links
    BY Parts
  <2> DEFINE C == [conn[p] EXCEPT !.held = {}, !.consumer = FALSE, !.frames = <<>>, !.link = link]
             Q == [queue EXCEPT !.ready = queue.ready \cup conn[p].held]
  <2>4. C \in ConnRec
    BY <2>1, <2>2, <2>3 DEF ConnRec, Links
  <2>5. Q \in QueueRec
    BY <2>1, <2>2, <2>3, Parts DEF QueueRec
  <2>6. conn' = [conn EXCEPT ![p] = C] /\ proc' = proc /\ queue' = Q /\ client' = client
    BY <1>22, <2>1 DEF Types, ConnRec, ProcRec, QueueRec, GiveBack
  <2> HIDE DEF C, Q
  <2>7. QED
    BY <2>1, <2>4, <2>5, <2>6, Typed, Zenon DEF Types
<1>23. ASSUME NEW p \in Handlers, Deliver(p)
      PROVE  Types'
  <2>1. conn[p] \in ConnRec /\ proc[p] \in ProcRec
    BY Parts
  <2>2. queue.ready \ {First} \in SUBSET Nat /\ conn[p].held \cup {First} \in SUBSET Nat
        /\ Append(proc[p].got, First) \in Seq(Nat)
    BY <1>23, Parts DEF Deliver, More
  <2> DEFINE C == [conn[p] EXCEPT !.held = conn[p].held \cup {First}]
             R1 == [proc[p] EXCEPT !.got = Append(proc[p].got, First)]
             Q == [queue EXCEPT !.ready = queue.ready \ {First}]
  <2>3. C \in ConnRec
    BY <2>1, <2>2 DEF ConnRec, Links
  <2>4. R1 \in ProcRec
    BY <2>1, <2>2 DEF ProcRec, Steps, Replies, Ops
  <2>5. Q \in QueueRec
    BY <2>1, <2>2, Parts DEF QueueRec
  <2>6. /\ conn' = [conn EXCEPT ![p] = C]
        /\ (proc' = [proc EXCEPT ![p] = R1] \/ proc' = proc)
        /\ queue' = Q
        /\ client' = client
    BY <1>23, <2>1 DEF Types, ConnRec, ProcRec, QueueRec, Deliver
  <2> HIDE DEF C, R1, Q
  <2>7. QED
    BY <2>1, <2>3, <2>4, <2>5, <2>6, Typed, Zenon DEF Types
<1>24. ASSUME NEW p \in Handlers, LinkBreaks(p)
      PROVE  Types'
  <2>1. conn[p] \in ConnRec /\ proc[p] \in ProcRec
    BY Parts
  <2>2. <<>> \in Seq(Frame) /\ <<>> \in Seq(Nat) /\ {} \in SUBSET Nat
    OBVIOUS
  <2> DEFINE C == [conn[p] EXCEPT !.link = "broken", !.frames = <<>>]
  <2>3. C \in ConnRec
    BY <2>1, <2>2 DEF ConnRec, Links
  <2>4. conn' = [conn EXCEPT ![p] = C] /\ proc' = proc /\ queue' = queue /\ client' = client
    BY <1>24, <2>1 DEF Types, ConnRec, ProcRec, QueueRec, LinkBreaks
  <2> HIDE DEF C
  <2>5. QED
    BY <2>1, <2>3, <2>4, Typed, Zenon DEF Types
<1>25. ASSUME NEW p \in Handlers, ClientLeaves(p)
      PROVE  Types'
  <2>1. conn[p] \in ConnRec /\ proc[p] \in ProcRec
    BY Parts
  <2>2. conn' = conn /\ proc' = proc /\ queue' = queue
    BY <1>25, <2>1 DEF Types, ConnRec, ProcRec, QueueRec, ClientLeaves
  <2>3. client' \in [Handlers -> {"there", "gone", "reset"}]
    BY <1>25 DEF ClientLeaves, Types
  <2>4. QED
    BY <2>1, <2>2, <2>3, Typed, Zenon DEF Types
<1>26. ASSUME NEW p \in Handlers, TakeClose(p) \/ Notice(p)
      PROVE  Types'
  BY <1>26, <1>22 DEF TakeClose, Notice, Links
<1>27. CASE OtherConsumes
  <2>1. queue.gone \cup {First} \in SUBSET Nat /\ queue.ready \ {First} \in SUBSET Nat
    BY <1>27, HeadIsReady DEF OtherConsumes, First, Types, QueueRec
  <2>2. queue' \in QueueRec
    BY <1>27, <2>1 DEF OtherConsumes, Types, QueueRec
  <2>3. QED
    BY <1>27, <2>2 DEF OtherConsumes, Types
<1>28. CASE UNCHANGED vars
  BY <1>28 DEF vars, Types
<1>29. QED
  BY <1>1, <1>2, <1>3, <1>4, <1>5, <1>6, <1>7, <1>8, <1>9, <1>10, <1>11, <1>12, <1>13, <1>14,
     <1>15, <1>16, <1>17, <1>18, <1>19, <1>20, <1>21, <1>23, <1>24, <1>25, <1>26, <1>27,
     <1>28, Zenon DEF Next, Handler, Broker

-----------------------------------------------------------------------------
(* What a step does to one connection, and that it is only one             *)

\* Nothing but p's connection and request is touched.
Same(p) == \A q \in Handlers \ {p} : conn'[q] = conn[q] /\ proc'[q] = proc[q]

\* Where messages go: none moves, p is handed one, p's go back, the broker
\* accepts one, or ready ones are purged or consumed.
Keeps(p)   == queue'.last = queue.last /\ queue'.gone = queue.gone
Rests(p)   == /\ Keeps(p) /\ queue'.ready = queue.ready /\ conn'[p].held = conn[p].held
Hands(p)   == /\ Keeps(p) /\ First \in queue.ready /\ queue'.ready = queue.ready \ {First}
              /\ conn'[p].held = conn[p].held \cup {First}
Returns(p) == \E S \in SUBSET conn[p].held :
                /\ Keeps(p) /\ queue'.ready = queue.ready \cup S
                /\ conn'[p].held = conn[p].held \ S
Accepts(p) == /\ queue'.last = queue.last + 1 /\ queue'.gone = queue.gone
              /\ queue'.ready = queue.ready \cup {queue.last + 1}
              /\ conn'[p].held = conn[p].held
Loses(p)   == \E S \in SUBSET queue.ready :
                /\ queue'.last = queue.last /\ queue'.gone = queue.gone \cup S
                /\ queue'.ready = queue.ready \ S /\ conn'[p].held = conn[p].held

Moves(p) == Rests(p) \/ Hands(p) \/ Returns(p) \/ Accepts(p) \/ Loses(p)

Local(p) == Same(p) /\ Moves(p) /\ NumberedAt(p)' /\ PhaseAt(p)' /\ PeekAt(p)' /\ NacksAt(p)'

\* A peek that neither gets nor gives back keeps what it has.
LEMMA PeekStays ==
  ASSUME NEW p \in Handlers, PeekAt(p),
         proc'[p].op = proc[p].op, proc'[p].got = proc[p].got, proc'[p].limit = proc[p].limit,
         conn[p].held \subseteq conn'[p].held,
         proc'[p].pc \in {"find", "work"} /\ Up(p)' => proc[p].pc \in {"find", "work"} /\ Up(p)
  PROVE  PeekAt(p)'
  BY DEF PeekAt

\* What is sent is written behind what is under way, if the connection stands.
LEMMA Sends ==
  ASSUME Types, NEW p \in Handlers, NEW fs, Send(p, fs), Up(p), conn[p].frames \o fs \in Seq(Frame)
  PROVE  /\ conn'[p].frames = conn[p].frames \o fs
         /\ conn'[p].link = conn[p].link /\ conn'[p].held = conn[p].held
         /\ conn'[p].consumer => conn[p].consumer
<1> DEFINE F == conn[p].frames \o fs
<1>1. conn' = [conn EXCEPT ![p] = [conn[p] EXCEPT !.frames = F]]
  BY DEF Send, Types, ConnRec
<1> HIDE DEF F
<1>2. conn'[p] = [conn[p] EXCEPT !.frames = F]
  BY <1>1 DEF Types
<1>3. conn[p] \in ConnRec
  BY DEF Types
<1>4. conn'[p].frames = F /\ conn'[p].link = conn[p].link /\ conn'[p].held = conn[p].held
  BY <1>2, <1>3 DEF ConnRec
<1>5. conn'[p].consumer => conn[p].consumer
  BY <1>2, <1>3 DEF ConnRec
<1>6. QED
  BY <1>4, <1>5 DEF F

\* A frame that is no nack is sent: the nacks under way stay as they are.
LEMMA NacksSent ==
  ASSUME Types, NEW p \in Handlers, NacksAt(p), NEW x \in Frame, x.kind # "nack",
         conn'[p].frames = conn[p].frames \o <<x>>, conn'[p].held = conn[p].held
  PROVE  NacksAt(p)'
<1> DEFINE fs == conn[p].frames
<1>1. fs \in Seq(Frame)
  BY Parts
<1>2. /\ Len(fs \o <<x>>) = Len(fs) + 1 /\ (fs \o <<x>>)[Len(fs) + 1] = x
      /\ \A i \in 1..Len(fs) : (fs \o <<x>>)[i] = fs[i]
  BY <1>1
<1>3. QED
  BY <1>1, <1>2 DEF NacksAt

\* The broker takes a frame: if it is a nack, its message is given back.
LEMMA NacksTaken ==
  ASSUME Types, NEW p \in Handlers, NacksAt(p), conn[p].frames # <<>>,
         conn'[p].frames = Tail(conn[p].frames),
         \/ conn'[p].held = conn[p].held
         \/ /\ conn'[p].held = conn[p].held \ {Head(conn[p].frames).message}
            /\ Head(conn[p].frames).kind = "nack"
  PROVE  NacksAt(p)'
<1> DEFINE fs == conn[p].frames
<1>1. fs \in Seq(Frame) /\ fs # <<>>
  BY Parts
<1>2. /\ Len(fs) >= 1 /\ Head(fs) = fs[1] /\ Len(Tail(fs)) = Len(fs) - 1
      /\ \A i \in 1..Len(Tail(fs)) : Tail(fs)[i] = fs[i + 1]
  BY <1>1
<1>3. \A i \in 1..Len(Tail(fs)) : i + 1 \in 1..Len(fs) /\ i + 1 # 1
  BY <1>1, <1>2
<1>4. QED
  BY <1>1, <1>2, <1>3 DEF NacksAt

\* A passive declare finds the queue: the request goes on to its work.
LEMMA FoundLocal ==
  ASSUME RabbitInv, NEW p \in Handlers, Found(p)
  PROVE  Local(p)
<1>1. Same(p)
  BY DEF Same, RabbitInv, Types, Found, Goto, At, InStep
<1>2. /\ conn'[p] = conn[p]
      /\ queue' = queue
      /\ proc'[p].op = proc[p].op
      /\ proc'[p].limit = proc[p].limit
      /\ proc'[p].pc = "work"
      /\ proc'[p].got = proc[p].got
      /\ proc'[p].reply = proc[p].reply
      /\ proc[p].pc = "find"
  BY Parts DEF RabbitInv, Types, ConnRec, ProcRec, QueueRec, Found, Goto, At, InStep
<1>3. Rests(p)
  BY <1>2, Parts DEF Rests, Keeps, RabbitInv
<1>4. NumberedAt(p)'
  BY <1>2, Parts DEF NumberedAt, RabbitInv
<1>5. PhaseAt(p)'
  BY <1>2, Parts DEF PhaseAt, RabbitInv, Up
<1>6. PeekAt(p)'
  BY <1>2, PeekStays DEF RabbitInv, Up
<1>7. NacksAt(p)'
  BY <1>2, Parts DEF NacksAt, RabbitInv
<1>8. QED
  BY <1>1, <1>3, <1>4, <1>5, <1>6, <1>7 DEF Local, Moves

\* It does not: a POST goes on to declare the queue, the others to close.
LEMMA MissingLocal ==
  ASSUME RabbitInv, NEW p \in Handlers, Missing(p)
  PROVE  Local(p)
<1>1. Same(p)
  BY DEF Same, RabbitInv, Types, Missing, Goto, At, InStep
<1>2. /\ conn'[p] = conn[p]
      /\ queue' = queue
      /\ proc'[p].op = proc[p].op
      /\ proc'[p].limit = proc[p].limit
      /\ proc'[p].pc = IF proc[p].op = "post" THEN "declare" ELSE "close"
      /\ proc'[p].got = proc[p].got
      /\ proc'[p].reply = proc[p].reply
      /\ proc[p].pc = "find"
  BY Parts DEF RabbitInv, Types, ConnRec, ProcRec, QueueRec, Missing, Goto, At, InStep
<1>3. Rests(p)
  BY <1>2, Parts DEF Rests, Keeps, RabbitInv
<1>4. NumberedAt(p)'
  BY <1>2, Parts DEF NumberedAt, RabbitInv
<1>5. PhaseAt(p)'
  BY <1>2, Parts DEF PhaseAt, RabbitInv, Up
<1>6. PeekAt(p)'
  BY <1>2, PeekStays DEF RabbitInv, Up
<1>7. NacksAt(p)'
  BY <1>2, Parts DEF NacksAt, RabbitInv
<1>8. QED
  BY <1>1, <1>3, <1>4, <1>5, <1>6, <1>7 DEF Local, Moves

\* The queue exists from now on; no message moves.
LEMMA DeclareLocal ==
  ASSUME RabbitInv, NEW p \in Handlers, Declare(p)
  PROVE  Local(p)
<1>1. Same(p)
  BY DEF Same, RabbitInv, Types, Declare, Goto, At, InStep
<1>2. /\ conn'[p] = conn[p]
      /\ queue'.last = queue.last
      /\ queue'.ready = queue.ready
      /\ queue'.gone = queue.gone
      /\ proc'[p].op = proc[p].op
      /\ proc'[p].limit = proc[p].limit
      /\ proc'[p].pc = "work"
      /\ proc'[p].got = proc[p].got
      /\ proc'[p].reply = proc[p].reply
      /\ proc[p].pc = "declare"
  BY Parts DEF RabbitInv, Types, ConnRec, ProcRec, QueueRec, Declare, Goto, At, InStep
<1>3. Rests(p)
  BY <1>2, Parts DEF Rests, Keeps, RabbitInv
<1>4. NumberedAt(p)'
  BY <1>2, Parts DEF NumberedAt, RabbitInv
<1>5. PhaseAt(p)'
  BY <1>2, Parts DEF PhaseAt, RabbitInv, Up
<1>6. PeekAt(p)'
  BY <1>2, Parts DEF PeekAt, PhaseAt, RabbitInv, Up
<1>7. NacksAt(p)'
  BY <1>2, Parts DEF NacksAt, RabbitInv
<1>8. QED
  BY <1>1, <1>3, <1>4, <1>5, <1>6, <1>7 DEF Local, Moves

\* The counts are answered from the declare.
LEMMA CountLocal ==
  ASSUME RabbitInv, NEW p \in Handlers, Count(p)
  PROVE  Local(p)
<1>1. Same(p)
  BY DEF Same, RabbitInv, Types, Count, Goto, At
<1>2. /\ conn'[p] = conn[p]
      /\ queue' = queue
      /\ proc'[p].op = proc[p].op
      /\ proc'[p].limit = proc[p].limit
      /\ proc'[p].pc = "answer"
      /\ proc'[p].got = proc[p].got
      /\ proc'[p].reply = proc[p].reply
      /\ proc[p].op = "count"
  BY Parts DEF RabbitInv, Types, ConnRec, ProcRec, QueueRec, Count, Goto, At
<1>3. Rests(p)
  BY <1>2, Parts DEF Rests, Keeps, RabbitInv
<1>4. NumberedAt(p)'
  BY <1>2, Parts DEF NumberedAt, RabbitInv
<1>5. PhaseAt(p)'
  BY <1>2, Parts DEF PhaseAt, RabbitInv, Up
<1>6. PeekAt(p)'
  BY <1>2, Parts DEF PeekAt, PhaseAt, RabbitInv, Up
<1>7. NacksAt(p)'
  BY <1>2, Parts DEF NacksAt, RabbitInv
<1>8. QED
  BY <1>1, <1>3, <1>4, <1>5, <1>6, <1>7 DEF Local, Moves

\* A purge takes what is ready, and nothing that is held.
LEMMA PurgeLocal ==
  ASSUME RabbitInv, NEW p \in Handlers, Purge(p)
  PROVE  Local(p)
<1>1. Same(p)
  BY DEF Same, RabbitInv, Types, Purge, Goto, At
<1>2. /\ conn'[p] = conn[p]
      /\ queue'.last = queue.last
      /\ queue'.ready = {}
      /\ queue'.gone = queue.gone \cup queue.ready
      /\ proc'[p].op = proc[p].op
      /\ proc'[p].limit = proc[p].limit
      /\ proc'[p].pc = "answer"
      /\ proc'[p].got = proc[p].got
      /\ proc'[p].reply = proc[p].reply
      /\ proc[p].op = "purge"
  BY Parts DEF RabbitInv, Types, ConnRec, ProcRec, QueueRec, Purge, Goto, At
<1>3. Loses(p)
  BY <1>2, Parts DEF Loses, Keeps, RabbitInv
<1>4. NumberedAt(p)'
  BY <1>2, Parts DEF NumberedAt, RabbitInv
<1>5. PhaseAt(p)'
  BY <1>2, Parts DEF PhaseAt, RabbitInv, Up
<1>6. PeekAt(p)'
  BY <1>2, Parts DEF PeekAt, PhaseAt, RabbitInv, Up
<1>7. NacksAt(p)'
  BY <1>2, Parts DEF NacksAt, RabbitInv
<1>8. QED
  BY <1>1, <1>3, <1>4, <1>5, <1>6, <1>7 DEF Local, Moves

\* The answer goes out; a peek still holds what its nacks have not given back.
LEMMA AnswerLocal ==
  ASSUME RabbitInv, NEW p \in Handlers, Answer(p)
  PROVE  Local(p)
<1>1. Same(p)
  BY DEF Same, RabbitInv, Types, Answer
<1>2. /\ conn'[p] = conn[p]
      /\ queue' = queue
      /\ proc'[p].op = proc[p].op
      /\ proc'[p].limit = proc[p].limit
      /\ proc'[p].pc = "close"
      /\ proc'[p].got = proc[p].got
      /\ proc'[p].reply = "200"
  BY Parts DEF RabbitInv, Types, ConnRec, ProcRec, QueueRec, Answer
<1>3. Rests(p)
  BY <1>2, Parts DEF Rests, Keeps, RabbitInv
<1>4. NumberedAt(p)'
  BY <1>2, Parts DEF NumberedAt, RabbitInv
<1>5. PhaseAt(p)'
  BY <1>2, Parts DEF PhaseAt, RabbitInv, Up
<1>6. PeekAt(p)'
  BY <1>2, PeekStays DEF RabbitInv, Up
<1>7. NacksAt(p)'
  BY <1>2, Parts DEF NacksAt, RabbitInv
<1>8. QED
  BY <1>1, <1>3, <1>4, <1>5, <1>6, <1>7 DEF Local, Moves

\* A tail becomes a consumer; it has sent nothing that could still arrive.
LEMMA ConsumeLocal ==
  ASSUME RabbitInv, NEW p \in Handlers, Consume(p)
  PROVE  Local(p)
<1>1. Same(p)
  BY DEF Same, RabbitInv, Types, Consume, At
<1>2. /\ conn'[p].link = conn[p].link
      /\ conn'[p].frames = conn[p].frames
      /\ conn'[p].held = conn[p].held
      /\ conn'[p].frames = conn[p].frames
      /\ queue' = queue
      /\ proc'[p].op = proc[p].op
      /\ proc'[p].limit = proc[p].limit
      /\ proc'[p].pc = "stream"
      /\ proc'[p].got = proc[p].got
      /\ proc'[p].reply = "sse"
      /\ proc[p].op = "tail"
      /\ proc[p].pc = "work"
  BY Parts DEF RabbitInv, Types, ConnRec, ProcRec, QueueRec, Consume, At
<1>3. Rests(p)
  BY <1>2, Parts DEF Rests, Keeps, RabbitInv
<1>4. NumberedAt(p)'
  BY <1>2, Parts DEF NumberedAt, RabbitInv
<1>5. PhaseAt(p)'
  BY <1>2, Parts DEF PhaseAt, RabbitInv, Up
<1>6. PeekAt(p)'
  BY <1>2, Parts DEF PeekAt, PhaseAt, RabbitInv, Up
<1>7. NacksAt(p)'
  BY <1>2, Parts DEF NacksAt, RabbitInv
<1>8. QED
  BY <1>1, <1>3, <1>4, <1>5, <1>6, <1>7 DEF Local, Moves

\* A tail writes the oldest message it was pushed.
LEMMA WriteEventLocal ==
  ASSUME RabbitInv, NEW p \in Handlers, WriteEvent(p)
  PROVE  Local(p)
<1>1. Same(p)
  BY DEF Same, RabbitInv, Types, WriteEvent, At
<1>2. /\ conn'[p] = conn[p]
      /\ queue' = queue
      /\ proc'[p].op = proc[p].op
      /\ proc'[p].limit = proc[p].limit
      /\ proc'[p].pc = proc[p].pc
      /\ proc'[p].got = Tail(proc[p].got)
      /\ proc'[p].reply = proc[p].reply
      /\ proc[p].op = "tail"
      /\ proc[p].got # <<>>
      /\ proc[p].pc = "stream"
  BY Parts DEF RabbitInv, Types, ConnRec, ProcRec, QueueRec, WriteEvent, At
<1>3. Rests(p)
  BY <1>2, Parts DEF Rests, Keeps, RabbitInv
<1>4. NumberedAt(p)'
  BY <1>2, Parts DEF NumberedAt, RabbitInv
<1>5. PhaseAt(p)'
  BY <1>2, Parts DEF PhaseAt, RabbitInv, Up
<1>6. PeekAt(p)'
  BY <1>2, Parts DEF PeekAt, PhaseAt, RabbitInv, Up
<1>7. NacksAt(p)'
  BY <1>2, Parts DEF NacksAt, RabbitInv
<1>8. QED
  BY <1>1, <1>3, <1>4, <1>5, <1>6, <1>7 DEF Local, Moves

\* A comment changes neither connection nor messages.
LEMMA WriteIdleLocal ==
  ASSUME RabbitInv, NEW p \in Handlers, WriteIdle(p)
  PROVE  Local(p)
<1>1. Same(p)
  BY DEF Same, RabbitInv, Types, WriteIdle
<1>2. /\ conn'[p] = conn[p]
      /\ queue' = queue
      /\ proc'[p] = proc[p]
  BY Parts DEF RabbitInv, Types, ConnRec, ProcRec, QueueRec, WriteIdle
<1>3. Rests(p)
  BY <1>2, Parts DEF Rests, Keeps, RabbitInv
<1>4. NumberedAt(p)'
  BY <1>2, Parts DEF NumberedAt, RabbitInv
<1>5. PhaseAt(p)'
  BY <1>2, Parts DEF PhaseAt, RabbitInv, Up
<1>6. PeekAt(p)'
  BY <1>2, Parts DEF PeekAt, PhaseAt, RabbitInv, Up
<1>7. NacksAt(p)'
  BY <1>2, Parts DEF NacksAt, RabbitInv
<1>8. QED
  BY <1>1, <1>3, <1>4, <1>5, <1>6, <1>7 DEF Local, Moves

\* A tail's loop is left; what it holds stays held until its connection ends.
LEMMA StreamEndsLocal ==
  ASSUME RabbitInv, NEW p \in Handlers, StreamEnds(p)
  PROVE  Local(p)
<1>1. Same(p)
  BY DEF Same, RabbitInv, Types, StreamEnds, Goto, At
<1>2. /\ conn'[p] = conn[p]
      /\ queue' = queue
      /\ proc'[p].op = proc[p].op
      /\ proc'[p].limit = proc[p].limit
      /\ proc'[p].pc = "close"
      /\ proc'[p].got = proc[p].got
      /\ proc'[p].reply = proc[p].reply
      /\ proc[p].op = "tail"
  BY Parts DEF RabbitInv, Types, ConnRec, ProcRec, QueueRec, StreamEnds, Goto, At
<1>3. Rests(p)
  BY <1>2, Parts DEF Rests, Keeps, RabbitInv
<1>4. NumberedAt(p)'
  BY <1>2, Parts DEF NumberedAt, RabbitInv
<1>5. PhaseAt(p)'
  BY <1>2, Parts DEF PhaseAt, RabbitInv, Up
<1>6. PeekAt(p)'
  BY <1>2, Parts DEF PeekAt, PhaseAt, RabbitInv, Up
<1>7. NacksAt(p)'
  BY <1>2, Parts DEF NacksAt, RabbitInv
<1>8. QED
  BY <1>1, <1>3, <1>4, <1>5, <1>6, <1>7 DEF Local, Moves

\* A handler without a broker ends; its messages stay with the connection.
LEMMA FailLocal ==
  ASSUME RabbitInv, NEW p \in Handlers, Fail(p)
  PROVE  Local(p)
<1>1. Same(p)
  BY DEF Same, RabbitInv, Types, Fail, Exit
<1>2. /\ conn'[p] = conn[p]
      /\ queue' = queue
      /\ proc'[p].op = proc[p].op
      /\ proc'[p].pc = "done"
      /\ proc'[p].got = <<>>
      /\ proc'[p].limit = 1
  BY Parts DEF RabbitInv, Types, ConnRec, ProcRec, QueueRec, Fail, Exit
<1>3. Rests(p)
  BY <1>2, Parts DEF Rests, Keeps, RabbitInv
<1>4. NumberedAt(p)'
  BY <1>2, Parts DEF NumberedAt, RabbitInv
<1>5. PhaseAt(p)'
  BY <1>2, Parts DEF PhaseAt, RabbitInv, Up
<1>6. PeekAt(p)'
  BY <1>2, Parts DEF PeekAt, PhaseAt, RabbitInv, Up
<1>7. NacksAt(p)'
  BY <1>2, Parts DEF NacksAt, RabbitInv
<1>8. QED
  BY <1>1, <1>3, <1>4, <1>5, <1>6, <1>7 DEF Local, Moves

\* A handler whose connection has ended is done.
LEMMA ClosedLocal ==
  ASSUME RabbitInv, NEW p \in Handlers, Closed(p)
  PROVE  Local(p)
<1>1. Same(p)
  BY DEF Same, RabbitInv, Types, Closed, Exit
<1>2. /\ conn'[p] = conn[p]
      /\ queue' = queue
      /\ proc'[p].op = proc[p].op
      /\ proc'[p].pc = "done"
      /\ proc'[p].got = <<>>
      /\ proc'[p].limit = 1
  BY Parts DEF RabbitInv, Types, ConnRec, ProcRec, QueueRec, Closed, Exit
<1>3. Rests(p)
  BY <1>2, Parts DEF Rests, Keeps, RabbitInv
<1>4. NumberedAt(p)'
  BY <1>2, Parts DEF NumberedAt, RabbitInv
<1>5. PhaseAt(p)'
  BY <1>2, Parts DEF PhaseAt, RabbitInv, Up
<1>6. PeekAt(p)'
  BY <1>2, Parts DEF PeekAt, PhaseAt, RabbitInv, Up
<1>7. NacksAt(p)'
  BY <1>2, Parts DEF NacksAt, RabbitInv
<1>8. QED
  BY <1>1, <1>3, <1>4, <1>5, <1>6, <1>7 DEF Local, Moves

\* A killed tail leaves a broken connection that still holds its messages.
LEMMA KilledLocal ==
  ASSUME RabbitInv, NEW p \in Handlers, Killed(p)
  PROVE  Local(p)
<1>1. Same(p)
  BY DEF Same, RabbitInv, Types, Killed, Exit, At
<1>2. /\ (conn[p].link # "up" => conn'[p].link # "up")
      /\ conn'[p].frames = <<>>
      /\ conn'[p].held = conn[p].held
      /\ (conn'[p].consumer => conn[p].consumer)
      /\ queue' = queue
      /\ proc'[p].op = proc[p].op
      /\ proc'[p].limit = 1
      /\ proc'[p].pc = "done"
      /\ proc'[p].got = <<>>
      /\ proc'[p].reply = "sse"
      /\ proc[p].op = "tail"
  BY Parts DEF RabbitInv, Types, ConnRec, ProcRec, QueueRec, Killed, Exit, At
<1>3. Rests(p)
  BY <1>2, Parts DEF Rests, Keeps, RabbitInv
<1>4. NumberedAt(p)'
  BY <1>2, Parts DEF NumberedAt, RabbitInv
<1>5. PhaseAt(p)'
  BY <1>2, Parts DEF PhaseAt, RabbitInv, Up
<1>6. PeekAt(p)'
  BY <1>2, Parts DEF PeekAt, PhaseAt, RabbitInv, Up
<1>7. NacksAt(p)'
  BY <1>2, Parts DEF NacksAt, RabbitInv
<1>8. QED
  BY <1>1, <1>3, <1>4, <1>5, <1>6, <1>7 DEF Local, Moves

\* The goodbye goes behind the nacks that are under way.
LEMMA CloseLocal ==
  ASSUME RabbitInv, NEW p \in Handlers, Close(p)
  PROVE  Local(p)
<1>1. Same(p)
  BY DEF Same, RabbitInv, Types, Close, Goto, Send, Up
<1>2. /\ conn'[p].frames = conn[p].frames \o <<[kind |-> "close", message |-> 0]>>
      /\ conn'[p].link = "up" /\ conn[p].link = "up" /\ conn'[p].held = conn[p].held
      /\ conn'[p].consumer => conn[p].consumer
      /\ queue' = queue
      /\ proc'[p].op = proc[p].op /\ proc'[p].limit = proc[p].limit
      /\ proc[p].pc = "close" /\ proc'[p].pc = "closing"
      /\ proc'[p].got = proc[p].got /\ proc'[p].reply = proc[p].reply
  <2> DEFINE fs == <<[kind |-> "close", message |-> 0]>>
  <2>1. Send(p, fs) /\ Up(p) /\ queue' = queue /\ proc[p].pc = "close"
    BY DEF Close, At
  <2>2. conn[p].frames \o fs \in Seq(Frame)
    BY Parts DEF RabbitInv, Frame
  <2>3. proc'[p].op = proc[p].op /\ proc'[p].limit = proc[p].limit
        /\ proc'[p].pc = "closing" /\ proc'[p].got = proc[p].got /\ proc'[p].reply = proc[p].reply
    BY DEF Close, Goto, RabbitInv, Types, ProcRec
  <2> HIDE DEF fs
  <2>4. /\ conn'[p].frames = conn[p].frames \o fs
        /\ conn'[p].link = conn[p].link /\ conn'[p].held = conn[p].held
        /\ conn'[p].consumer => conn[p].consumer
    BY <2>1, <2>2, Sends, Zenon DEF RabbitInv
  <2>5. QED
    BY <2>1, <2>3, <2>4 DEF fs, Up
<1>3. Rests(p)
  BY <1>2, Parts DEF Rests, Keeps, RabbitInv
<1>4. NumberedAt(p)'
  BY <1>2, Parts DEF NumberedAt, RabbitInv
<1>5. PhaseAt(p)'
  BY <1>2, Parts DEF PhaseAt, RabbitInv, Up
<1>6. PeekAt(p)'
  BY <1>2, PeekStays DEF RabbitInv, Up
<1>7. NacksAt(p)'
  <2>1. [kind |-> "close", message |-> 0] \in Frame
    BY DEF Frame
  <2>2. QED
    BY <1>2, <2>1, NacksSent DEF RabbitInv
<1>8. QED
  BY <1>1, <1>3, <1>4, <1>5, <1>6, <1>7 DEF Local, Moves

\* A get hands over the head of the queue, which was held by nobody.
LEMMA GetLocal ==
  ASSUME RabbitInv, NEW p \in Handlers, Get(p)
  PROVE  Local(p)
<1>1. Same(p)
  BY DEF Same, RabbitInv, Types, Get, At, InStep, Up, More
<1>2. /\ conn'[p].link = conn[p].link
      /\ conn'[p].frames = conn[p].frames
      /\ conn'[p].held = conn[p].held \cup {First}
      /\ (conn'[p].consumer => conn[p].consumer)
      /\ queue'.last = queue.last
      /\ queue'.ready = queue.ready \ {First}
      /\ queue'.gone = queue.gone
      /\ proc'[p].op = proc[p].op
      /\ proc'[p].limit = proc[p].limit
      /\ proc'[p].pc = proc[p].pc
      /\ proc'[p].got = Append(proc[p].got, First)
      /\ proc'[p].reply = proc[p].reply
      /\ proc[p].op = "peek"
      /\ proc[p].pc = "work"
      /\ conn[p].link = "up"
      /\ conn[p].frames = <<>>
      /\ queue.ready # {}
      /\ Len(proc[p].got) < proc[p].limit
  BY Parts DEF RabbitInv, Types, ConnRec, ProcRec, QueueRec, Get, At, InStep, Up, More
<1>3. Hands(p)
  BY <1>2, Parts DEF Hands, Keeps, RabbitInv
<1>4. NumberedAt(p)'
  BY <1>2, Parts DEF NumberedAt, RabbitInv
<1>5. PhaseAt(p)'
  BY <1>2, Parts DEF PhaseAt, RabbitInv, Up
<1>6. PeekAt(p)'
  <2>1. First \in queue.ready /\ First \in Nat /\ proc[p].got \in Seq(Nat) /\ proc[p].limit \in Nat
    BY <1>2, Parts DEF RabbitInv
  <2>2. First \notin conn[p].held
    BY <2>1, Zenon DEF RabbitInv, Conserved
  <2>3. /\ Len(proc'[p].got) = Len(proc[p].got) + 1
        /\ proc'[p].got[Len(proc[p].got) + 1] = First
        /\ \A i \in 1..Len(proc[p].got) : proc'[p].got[i] = proc[p].got[i]
    BY <1>2, <2>1
  <2>4. /\ \A i \in 1..Len(proc[p].got) : proc[p].got[i] \in conn[p].held
        /\ \A i, j \in 1..Len(proc[p].got) : proc[p].got[i] = proc[p].got[j] => i = j
    BY <1>2 DEF RabbitInv, PeekAt, Up
  <2>5. Len(proc'[p].got) <= proc'[p].limit
    BY <1>2, <2>1, <2>3
  <2>6. \A i, j \in 1..Len(proc'[p].got) : proc'[p].got[i] = proc'[p].got[j] => i = j
    <3>1. TAKE i, j \in 1..Len(proc'[p].got)
    <3>2. HAVE proc'[p].got[i] = proc'[p].got[j]
    <3>3. i \in 1..Len(proc[p].got) \/ i = Len(proc[p].got) + 1
      BY <2>1, <2>3
    <3>4. j \in 1..Len(proc[p].got) \/ j = Len(proc[p].got) + 1
      BY <2>1, <2>3
    <3>5. i \in 1..Len(proc[p].got) => proc'[p].got[i] \in conn[p].held
      BY <2>3, <2>4
    <3>6. j \in 1..Len(proc[p].got) => proc'[p].got[j] \in conn[p].held
      BY <2>3, <2>4
    <3>7. QED
      BY <2>2, <2>3, <2>4, <3>2, <3>3, <3>4, <3>5, <3>6
  <2>7. \A i \in 1..Len(proc'[p].got) : proc'[p].got[i] \in conn'[p].held
    BY <1>2, <2>1, <2>3, <2>4
  <2>8. QED
    BY <2>5, <2>6, <2>7 DEF PeekAt
<1>7. NacksAt(p)'
  BY <1>2, Parts DEF NacksAt, RabbitInv
<1>8. QED
  BY <1>1, <1>3, <1>4, <1>5, <1>6, <1>7 DEF Local, Moves

\* A broken connection loses its frames, and keeps what it holds until noticed.
LEMMA LinkBreaksLocal ==
  ASSUME RabbitInv, NEW p \in Handlers, LinkBreaks(p)
  PROVE  Local(p)
<1>1. Same(p)
  BY DEF Same, RabbitInv, Types, LinkBreaks
<1>2. /\ conn'[p].link = "broken"
      /\ conn'[p].frames = <<>>
      /\ conn'[p].held = conn[p].held
      /\ (conn'[p].consumer => conn[p].consumer)
      /\ proc'[p] = proc[p]
      /\ queue' = queue
  BY Parts DEF RabbitInv, Types, ConnRec, ProcRec, QueueRec, LinkBreaks
<1>3. Rests(p)
  BY <1>2, Parts DEF Rests, Keeps, RabbitInv
<1>4. NumberedAt(p)'
  BY <1>2, Parts DEF NumberedAt, RabbitInv
<1>5. PhaseAt(p)'
  BY <1>2, Parts DEF PhaseAt, RabbitInv, Up
<1>6. PeekAt(p)'
  BY <1>2, PeekStays DEF RabbitInv, Up
<1>7. NacksAt(p)'
  BY <1>2, Parts DEF NacksAt, RabbitInv
<1>8. QED
  BY <1>1, <1>3, <1>4, <1>5, <1>6, <1>7 DEF Local, Moves

\* A client that leaves touches nothing of the broker's.
LEMMA ClientLeavesLocal ==
  ASSUME RabbitInv, NEW p \in Handlers, ClientLeaves(p)
  PROVE  Local(p)
<1>1. Same(p)
  BY DEF Same, RabbitInv, Types, ClientLeaves
<1>2. /\ conn'[p] = conn[p]
      /\ queue' = queue
      /\ proc'[p] = proc[p]
  BY Parts DEF RabbitInv, Types, ConnRec, ProcRec, QueueRec, ClientLeaves
<1>3. Rests(p)
  BY <1>2, Parts DEF Rests, Keeps, RabbitInv
<1>4. NumberedAt(p)'
  BY <1>2, Parts DEF NumberedAt, RabbitInv
<1>5. PhaseAt(p)'
  BY <1>2, Parts DEF PhaseAt, RabbitInv, Up
<1>6. PeekAt(p)'
  BY <1>2, Parts DEF PeekAt, PhaseAt, RabbitInv, Up
<1>7. NacksAt(p)'
  BY <1>2, Parts DEF NacksAt, RabbitInv
<1>8. QED
  BY <1>1, <1>3, <1>4, <1>5, <1>6, <1>7 DEF Local, Moves

\* A request starts: it has nothing, and its limit is at least 1.
LEMMA StartLocal ==
  ASSUME RabbitInv, NEW p \in Handlers, NEW o \in Ops, NEW n \in Limits, Start(p, o, n)
  PROVE  Local(p)
<1>1. Same(p)
  BY DEF Same, RabbitInv, Types, Start
<1>2. /\ conn'[p].frames = conn[p].frames /\ conn'[p].held = conn[p].held
      /\ conn'[p].consumer => conn[p].consumer
      /\ conn'[p].link = "up"
      /\ queue' = queue
      /\ proc'[p].op = o /\ proc'[p].pc \in {"find", "work"}
      /\ proc'[p].got = proc[p].got /\ proc'[p].reply = proc[p].reply
      /\ proc[p].pc = "idle"
  BY Parts DEF RabbitInv, Types, ConnRec, ProcRec, Start
<1>3. proc'[p].limit \in Nat \ {0}
  <2>1. (IF o = "peek" THEN Max({1, n}) ELSE 1) \in Nat \ {0}
    BY LimitIsPositive, NatAssumption
  <2>2. QED
    BY <2>1 DEF RabbitInv, Types, ProcRec, Start
<1>4. /\ proc[p].got = <<>> /\ conn[p].held = {} /\ ~ conn[p].consumer
      /\ conn[p].frames = <<>> /\ proc[p].reply = "none"
  BY <1>2 DEF RabbitInv, PhaseAt
<1>5. Rests(p)
  BY <1>2, Parts DEF Rests, Keeps, RabbitInv
<1>6. NumberedAt(p)' /\ PhaseAt(p)'
  BY <1>2, <1>4 DEF NumberedAt, PhaseAt, Up
<1>7. PeekAt(p)' /\ NacksAt(p)'
  BY <1>2, <1>3, <1>4 DEF PeekAt, NacksAt
<1>8. QED
  BY <1>1, <1>5, <1>6, <1>7 DEF Local, Moves

\* A message is published, or lost in a connection that no longer stands.
LEMMA PublishLocal ==
  ASSUME RabbitInv, NEW p \in Handlers, Publish(p)
  PROVE  Local(p)
<1>1. Same(p)
  BY DEF Same, RabbitInv, Types, Publish, Goto, Send
<1> DEFINE x == [kind |-> IF proc[p].op = "post" THEN "publish" ELSE "route", message |-> 0]
<1>2. x \in Frame /\ x.kind # "nack"
  BY DEF Frame
<1>3. Send(p, <<x>>) /\ queue' = queue
  BY DEF Publish
<1>4. /\ proc[p].op \in {"post", "exchange"} /\ proc[p].pc = "work"
      /\ proc'[p].op = proc[p].op /\ proc'[p].limit = proc[p].limit
      /\ proc'[p].pc = "answer" /\ proc'[p].got = proc[p].got /\ proc'[p].reply = proc[p].reply
  BY DEF Publish, Goto, At, RabbitInv, Types, ProcRec
<1> HIDE DEF x
<1>5. /\ conn'[p].link = conn[p].link /\ conn'[p].held = conn[p].held
      /\ conn'[p].consumer => conn[p].consumer
      /\ NacksAt(p)'
      /\ ~ Up(p) => conn'[p].frames = conn[p].frames
  <2>1. CASE Up(p)
    <3>1. conn[p].frames \o <<x>> \in Seq(Frame)
      BY <1>2, Parts DEF RabbitInv
    <3>2. /\ conn'[p].frames = conn[p].frames \o <<x>>
          /\ conn'[p].link = conn[p].link /\ conn'[p].held = conn[p].held
          /\ conn'[p].consumer => conn[p].consumer
      BY <1>3, <2>1, <3>1, Sends, Zenon DEF RabbitInv
    <3>3. NacksAt(p)'
      BY <1>2, <3>2, NacksSent DEF RabbitInv
    <3>4. QED
      BY <2>1, <3>2, <3>3
  <2>2. CASE ~ Up(p)
    <3>1. conn' = conn
      BY <1>3, <2>2 DEF Send, RabbitInv, Types, ConnRec
    <3>2. QED
      BY <3>1 DEF RabbitInv, NacksAt
  <2>3. QED
    BY <2>1, <2>2
<1>6. Rests(p)
  BY <1>3, <1>5 DEF Rests, Keeps
<1>7. NumberedAt(p)' /\ PhaseAt(p)' /\ PeekAt(p)'
  BY <1>3, <1>4, <1>5 DEF NumberedAt, PhaseAt, PeekAt, RabbitInv, Up
<1>8. QED
  BY <1>1, <1>5, <1>6, <1>7 DEF Local, Moves

\* A peek sends one nack for each message it has got and holds.
LEMMA NackAllLocal ==
  ASSUME RabbitInv, NEW p \in Handlers, NackAll(p)
  PROVE  Local(p)
<1>1. Same(p)
  BY DEF Same, RabbitInv, Types, NackAll, Goto, Send
<1> DEFINE N == [i \in DOMAIN proc[p].got |-> Nack(proc[p].got[i])]
<1>2. Send(p, N) /\ Up(p) /\ queue' = queue /\ conn[p].frames = <<>>
  BY DEF NackAll, InStep
<1>3. /\ proc[p].op = "peek" /\ proc[p].pc = "work"
      /\ proc'[p].op = proc[p].op /\ proc'[p].limit = proc[p].limit
      /\ proc'[p].pc = "answer" /\ proc'[p].got = proc[p].got /\ proc'[p].reply = proc[p].reply
  BY DEF NackAll, Goto, At, RabbitInv, Types, ProcRec
<1>4. proc[p].got \in Seq(Nat)
  BY Parts DEF RabbitInv
<1>5. \A i \in DOMAIN proc[p].got : Nack(proc[p].got[i]) \in Frame
  <2>1. \A i \in DOMAIN proc[p].got : proc[p].got[i] \in Nat
    BY <1>4
  <2>2. QED
    BY <2>1 DEF Frame, Nack
<1>6. N \in Seq(Frame)
  BY <1>4, <1>5
<1>7. \A i \in 1..Len(proc[p].got) : N[i].kind = "nack" /\ N[i].message = proc[p].got[i]
  BY <1>4 DEF Nack
<1>8. Len(N) = Len(proc[p].got)
  BY <1>4
<1> HIDE DEF N
<1>9. conn[p].frames \o N = N
  BY <1>2, <1>6
<1>10. /\ conn'[p].frames = N
       /\ conn'[p].link = conn[p].link /\ conn'[p].held = conn[p].held
       /\ conn'[p].consumer => conn[p].consumer
  BY <1>2, <1>6, <1>9, Sends, Zenon DEF RabbitInv
<1>11. Rests(p)
  BY <1>2, <1>10 DEF Rests, Keeps
<1>12. NumberedAt(p)' /\ PhaseAt(p)'
  BY <1>2, <1>3, <1>10 DEF NumberedAt, PhaseAt, RabbitInv, Up
<1>13. PeekAt(p)'
  BY <1>3, <1>10, PeekStays DEF RabbitInv, Up
<1>14. NacksAt(p)'
  <2>1. /\ \A i \in 1..Len(proc[p].got) : proc[p].got[i] \in conn[p].held
        /\ \A i, j \in 1..Len(proc[p].got) : proc[p].got[i] = proc[p].got[j] => i = j
    BY <1>2, <1>3 DEF RabbitInv, PeekAt
  <2>2. QED
    BY <1>7, <1>8, <1>10, <2>1 DEF NacksAt
<1>15. QED
  BY <1>1, <1>11, <1>12, <1>13, <1>14 DEF Local, Moves

\* A frame comes from a connection that stands, after the work of its request.
LEMMA Underway ==
  ASSUME RabbitInv, NEW p \in Handlers, conn[p].frames # <<>>
  PROVE  Up(p) /\ proc[p].pc \notin {"idle", "find", "declare", "work", "stream"}
  BY DEF RabbitInv, PhaseAt

\* The broker puts a message into the queue, or has no queue for it.
LEMMA TakeLocal ==
  ASSUME RabbitInv, NEW p \in Handlers, conn[p].frames # <<>>, proc' = proc,
         Enqueue(p) \/ Drop(p)
  PROVE  Local(p)
<1>1. Same(p)
  BY DEF Same, RabbitInv, Types, Enqueue, Drop
<1>2. /\ conn'[p].frames = Tail(conn[p].frames) /\ conn'[p].link = conn[p].link
      /\ conn'[p].held = conn[p].held
      /\ conn'[p].consumer => conn[p].consumer
  <2>1. CASE Enqueue(p)
    BY <2>1 DEF RabbitInv, Types, ConnRec, Enqueue
  <2>2. CASE Drop(p)
    BY <2>2 DEF RabbitInv, Types, ConnRec, Drop
  <2>3. QED
    BY <2>1, <2>2
<1>3. \/ /\ queue'.last = queue.last + 1 /\ queue'.ready = queue.ready \cup {queue.last + 1}
         /\ queue'.gone = queue.gone
      \/ queue' = queue
  BY DEF RabbitInv, Types, QueueRec, Enqueue, Drop
<1>4. Accepts(p) \/ Rests(p)
  BY <1>2, <1>3 DEF Accepts, Rests, Keeps
<1>5. NumberedAt(p)'
  <2>1. queue.last \in Nat /\ (queue'.last = queue.last \/ queue'.last = queue.last + 1)
    BY <1>3, Parts DEF RabbitInv
  <2>2. 1..queue.last \subseteq 1..queue'.last
    BY <2>1
  <2>3. QED
    BY <1>2, <2>2 DEF NumberedAt, RabbitInv
<1>6. PhaseAt(p)'
  BY <1>2, Underway DEF PhaseAt, RabbitInv, Up
<1>7. PeekAt(p)'
  BY <1>2, PeekStays DEF RabbitInv, Up
<1>8. NacksAt(p)'
  BY <1>2, NacksTaken DEF RabbitInv
<1>9. QED
  BY <1>1, <1>4, <1>5, <1>6, <1>7, <1>8 DEF Local, Moves

\* A nack gives back one message that was held.
LEMMA TakeNackLocal ==
  ASSUME RabbitInv, NEW p \in Handlers, TakeNack(p)
  PROVE  Local(p)
<1> DEFINE m == Head(conn[p].frames).message
<1>1. Same(p)
  BY DEF Same, RabbitInv, Types, TakeNack
<1>2. conn[p].frames # <<>> /\ Head(conn[p].frames).kind = "nack" /\ proc' = proc
  BY DEF TakeNack, Incoming
<1>3. /\ conn'[p].frames = Tail(conn[p].frames) /\ conn'[p].link = conn[p].link
      /\ conn'[p].held = conn[p].held \ {m}
      /\ queue'.last = queue.last /\ queue'.gone = queue.gone
      /\ queue'.ready = queue.ready \cup {m}
  BY DEF RabbitInv, Types, ConnRec, QueueRec, TakeNack
<1>4. conn'[p].consumer => conn[p].consumer
  BY DEF RabbitInv, Types, ConnRec, TakeNack
<1>5. m \in conn[p].held
  <2>1. conn[p].frames \in Seq(Frame)
    BY Parts DEF RabbitInv
  <2>2. 1 \in 1..Len(conn[p].frames) /\ Head(conn[p].frames) = conn[p].frames[1]
    BY <1>2, <2>1
  <2>3. QED
    BY <1>2, <2>2 DEF RabbitInv, NacksAt
<1>6. Returns(p)
  <2>1. {m} \in SUBSET conn[p].held
    BY <1>5
  <2>2. QED
    BY <1>3, <2>1 DEF Returns, Keeps
<1>7. NumberedAt(p)'
  BY <1>2, <1>3 DEF NumberedAt, RabbitInv
<1>8. PhaseAt(p)'
  BY <1>2, <1>3, <1>4, Underway DEF PhaseAt, RabbitInv, Up
<1>9. PeekAt(p)'
  BY <1>2, <1>3, Underway DEF PeekAt, RabbitInv
<1>10. NacksAt(p)'
  BY <1>2, <1>3, NacksTaken DEF RabbitInv
<1>11. QED
  BY <1>1, <1>6, <1>7, <1>8, <1>9, <1>10 DEF Local, Moves

\* A connection that ends gives back all it holds.
LEMMA GiveBackLocal ==
  ASSUME RabbitInv, NEW p \in Handlers, NEW link \in {"down", "lost"}, GiveBack(p, link)
  PROVE  Local(p)
<1>1. Same(p)
  BY DEF Same, RabbitInv, Types, GiveBack
<1>2. /\ conn'[p].frames = <<>> /\ conn'[p].link = link /\ conn'[p].held = {}
      /\ ~ conn'[p].consumer
      /\ queue'.last = queue.last /\ queue'.gone = queue.gone
      /\ queue'.ready = queue.ready \cup conn[p].held
      /\ proc' = proc
  BY DEF RabbitInv, Types, ConnRec, QueueRec, GiveBack
<1>3. Returns(p)
  <2>1. conn[p].held \in SUBSET conn[p].held /\ conn[p].held \ conn[p].held = {}
    OBVIOUS
  <2>2. QED
    BY <1>2, <2>1 DEF Returns, Keeps
<1>4. NumberedAt(p)' /\ PhaseAt(p)'
  BY <1>2 DEF NumberedAt, PhaseAt, RabbitInv, Up
<1>5. PeekAt(p)' /\ NacksAt(p)'
  BY <1>2 DEF PeekAt, NacksAt, RabbitInv, Up
<1>6. QED
  BY <1>1, <1>3, <1>4, <1>5 DEF Local, Moves

\* A consumer is pushed the head of the queue; a handler sees it only while
\* the connection stands.
LEMMA DeliverLocal ==
  ASSUME RabbitInv, NEW p \in Handlers, Deliver(p)
  PROVE  Local(p)
<1>1. Same(p)
  BY DEF Same, RabbitInv, Types, Deliver
<1>2. /\ conn'[p].frames = conn[p].frames /\ conn'[p].link = conn[p].link
      /\ conn'[p].held = conn[p].held \cup {First}
      /\ queue'.last = queue.last /\ queue'.gone = queue.gone
      /\ queue'.ready = queue.ready \ {First}
      /\ proc'[p].op = proc[p].op /\ proc'[p].pc = proc[p].pc /\ proc'[p].reply = proc[p].reply
      /\ proc'[p].got = proc[p].got \/ proc'[p].got = Append(proc[p].got, First)
  BY DEF RabbitInv, Types, ConnRec, ProcRec, QueueRec, Deliver
<1>3. conn'[p].consumer => conn[p].consumer
  BY DEF RabbitInv, Types, ConnRec, Deliver
<1>4. First \in queue.ready /\ First \in 1..queue.last /\ proc[p].op = "tail"
  BY Parts DEF Deliver, RabbitInv, PhaseAt
<1>5. Hands(p)
  BY <1>2, <1>4 DEF Hands, Keeps
<1>6. NumberedAt(p)'
  <2>1. /\ conn[p].held \subseteq 1..queue.last
        /\ \A i \in 1..Len(proc[p].got) : proc[p].got[i] \in 1..queue.last
    BY DEF RabbitInv, NumberedAt
  <2>2. proc[p].got \in Seq(Nat) /\ First \in Nat
    BY <1>4, Parts DEF RabbitInv
  <2>3. \A i \in 1..Len(proc'[p].got) : proc'[p].got[i] \in 1..queue.last
    <3>1. CASE proc'[p].got = proc[p].got
      BY <2>1, <3>1
    <3>2. CASE proc'[p].got = Append(proc[p].got, First)
      BY <1>4, <2>1, <2>2, <3>2
    <3>3. QED
      BY <1>2, <3>1, <3>2
  <2>4. QED
    BY <1>2, <1>4, <2>1, <2>3 DEF NumberedAt
<1>7. PhaseAt(p)'
  BY <1>2, <1>3, <1>4 DEF PhaseAt, RabbitInv, Up
<1>8. PeekAt(p)' /\ NacksAt(p)'
  BY <1>2, <1>4 DEF PeekAt, NacksAt, RabbitInv
<1>9. QED
  BY <1>1, <1>5, <1>6, <1>7, <1>8 DEF Local, Moves

\* Every step touches one connection and keeps what is true of it ...
LEMMA EachStep ==
  ASSUME RabbitInv, [Next]_vars
  PROVE  \/ \E p \in Handlers : Local(p)
         \/ OtherConsumes \/ UNCHANGED vars
<1>1. ASSUME NEW p \in Handlers, TakePublish(p) \/ TakeRoute(p)
      PROVE  Local(p)
  BY <1>1, TakeLocal DEF TakePublish, TakeRoute, Incoming
<1>2. ASSUME NEW p \in Handlers, TakeClose(p) \/ Notice(p)
      PROVE  Local(p)
  BY <1>2, GiveBackLocal DEF TakeClose, Notice
<1>3. ASSUME NEW p \in Handlers, Handler(p)
      PROVE  Local(p)
  BY <1>3, FoundLocal, MissingLocal, DeclareLocal, CountLocal, PublishLocal, PurgeLocal,
     GetLocal, NackAllLocal, AnswerLocal, ConsumeLocal, WriteEventLocal, WriteIdleLocal,
     KilledLocal, StreamEndsLocal, FailLocal, CloseLocal, ClosedLocal, Zenon DEF Handler
<1>4. ASSUME NEW p \in Handlers, Broker(p)
      PROVE  Local(p)
  BY <1>1, <1>2, <1>4, TakeNackLocal, DeliverLocal, Zenon DEF Broker
<1>5. QED
  BY <1>3, <1>4, StartLocal, LinkBreaksLocal, ClientLeavesLocal, Zenon DEF Next


\* ... and whatever it moves, no message is lost or doubled.
LEMMA ConservedStep ==
  ASSUME RabbitInv, NEW p \in Handlers, Same(p), Moves(p)
  PROVE  Conserved'
<1> DEFINE Held == UNION {conn[q].held : q \in Handlers}
           HeldNext == UNION {conn'[q].held : q \in Handlers}
<1>1. \A x : x \in Held <=> \E q \in Handlers : x \in conn[q].held
  OBVIOUS
<1>2. \A x : x \in HeldNext <=> \E q \in Handlers : x \in conn'[q].held
  OBVIOUS
<1>3. \A q \in Handlers : q # p => conn'[q].held = conn[q].held
  BY DEF Same
<1>4. /\ \A x : x \in 1..queue.last <=> x \in queue.ready \/ x \in queue.gone \/ x \in Held
      /\ \A x : ~ (x \in queue.ready /\ x \in queue.gone)
      /\ \A q \in Handlers : \A x \in conn[q].held : x \notin queue.ready /\ x \notin queue.gone
      /\ \A q, r \in Handlers : q # r => \A x : ~ (x \in conn[q].held /\ x \in conn[r].held)
  <2>1. Conserved
    BY DEF RabbitInv
  <2>2. QED
    BY <2>1, Zenon DEF Conserved
<1>5. queue.last \in Nat /\ (queue.last + 1) \notin 1..queue.last
  BY Parts DEF RabbitInv
<1> HIDE DEF Held, HeldNext
<1>6. /\ \A x : x \in 1..queue'.last <=> x \in queue'.ready \/ x \in queue'.gone \/ x \in HeldNext
      /\ \A x : ~ (x \in queue'.ready /\ x \in queue'.gone)
      /\ \A q \in Handlers : \A x \in conn'[q].held : x \notin queue'.ready /\ x \notin queue'.gone
      /\ \A q, r \in Handlers : q # r => \A x : ~ (x \in conn'[q].held /\ x \in conn'[r].held)
  <2>1. CASE Rests(p)
    BY <1>1, <1>2, <1>3, <1>4, <2>1 DEF Rests, Keeps
  <2>2. CASE Hands(p)
    BY <1>1, <1>2, <1>3, <1>4, <2>2 DEF Hands, Keeps
  <2>3. CASE Returns(p)
    BY <1>1, <1>2, <1>3, <1>4, <2>3 DEF Returns, Keeps
  <2>4. CASE Accepts(p)
    BY <1>1, <1>2, <1>3, <1>4, <1>5, <2>4 DEF Accepts
  <2>5. CASE Loses(p)
    BY <1>1, <1>2, <1>3, <1>4, <2>5 DEF Loses
  <2>6. QED
    BY <2>1, <2>2, <2>3, <2>4, <2>5 DEF Moves
<1>7. 1..queue'.last = queue'.ready \cup queue'.gone \cup HeldNext
  BY <1>6
<1>8. QED
  BY <1>6, <1>7 DEF Conserved, HeldNext

\* The numbers stay those of messages that were accepted.
LEMMA ReadyNumbered ==
  ASSUME RabbitInv, NEW p \in Handlers, Moves(p)
  PROVE  /\ queue'.last \in Nat /\ queue'.last >= queue.last
         /\ queue'.ready \subseteq 1..queue'.last /\ queue'.gone \subseteq 1..queue'.last
<1>1. /\ queue.last \in Nat /\ conn[p].held \subseteq 1..queue.last
      /\ queue.ready \subseteq 1..queue.last /\ queue.gone \subseteq 1..queue.last
  BY Parts DEF RabbitInv, NumberedAt
<1>2. CASE Accepts(p)
  <2>1. 1..queue.last \subseteq 1..(queue.last + 1) /\ (queue.last + 1) \in 1..(queue.last + 1)
    BY <1>1
  <2>2. QED
    BY <1>1, <1>2, <2>1 DEF Accepts
<1>3. CASE Rests(p) \/ Hands(p) \/ Returns(p) \/ Loses(p)
  <2>1. queue'.last = queue.last
    BY <1>3 DEF Rests, Hands, Returns, Loses, Keeps
  <2>2. queue'.ready \subseteq 1..queue.last /\ queue'.gone \subseteq 1..queue.last
    BY <1>1, <1>3 DEF Rests, Hands, Returns, Loses, Keeps
  <2>3. QED
    BY <1>1, <2>1, <2>2
<1>4. QED
  BY <1>2, <1>3 DEF Moves

\* The invariant is inductive.
LEMMA RabbitStep ==
  ASSUME RabbitInv, [Next]_vars
  PROVE  RabbitInv'
<1>1. Types'
  BY TypesStep DEF RabbitInv
<1>2. ASSUME NEW p \in Handlers, Local(p)
      PROVE  RabbitInv'
  <2>1. Conserved'
    BY <1>2, ConservedStep DEF Local
  <2>2. /\ queue.last \in Nat /\ queue'.last \in Nat /\ queue'.last >= queue.last
        /\ queue'.ready \subseteq 1..queue'.last /\ queue'.gone \subseteq 1..queue'.last
    BY <1>2, ReadyNumbered, Parts DEF Local, RabbitInv
  <2>3. ASSUME NEW q \in Handlers
        PROVE  NumberedAt(q)' /\ PhaseAt(q)' /\ PeekAt(q)' /\ NacksAt(q)'
    <3>1. CASE q = p
      BY <1>2, <3>1 DEF Local
    <3>2. CASE q # p
      <4>1. conn'[q] = conn[q] /\ proc'[q] = proc[q]
        BY <1>2, <3>2 DEF Local, Same
      <4>2. 1..queue.last \subseteq 1..queue'.last
        BY <2>2
      <4>3. NumberedAt(q)'
        BY <4>1, <4>2 DEF NumberedAt, RabbitInv
      <4>4. PhaseAt(q)' /\ PeekAt(q)' /\ NacksAt(q)'
        BY <4>1 DEF PhaseAt, PeekAt, NacksAt, RabbitInv, Up
      <4>5. QED
        BY <4>3, <4>4
    <3>3. QED
      BY <3>1, <3>2
  <2>4. QED
    BY <1>1, <2>1, <2>2, <2>3 DEF RabbitInv
<1>3. ASSUME OtherConsumes
      PROVE  RabbitInv'
  <2>1. /\ First \in queue.ready /\ queue'.last = queue.last
        /\ queue'.gone = queue.gone \cup {First} /\ queue'.ready = queue.ready \ {First}
        /\ conn' = conn /\ proc' = proc
    <3>1. queue \in QueueRec /\ queue.ready # {} /\ queue.ready \in SUBSET Nat
      BY <1>3 DEF OtherConsumes, RabbitInv, Types, QueueRec
    <3>2. First \in queue.ready
      BY <3>1, HeadIsReady DEF First
    <3>3. QED
      BY <1>3, <3>1, <3>2 DEF OtherConsumes, QueueRec
  <2>2. /\ queue'.ready \subseteq 1..queue'.last /\ queue'.gone \subseteq 1..queue'.last
    BY <2>1 DEF RabbitInv
  <2>3. Conserved'
    BY <2>1 DEF RabbitInv, Conserved
  <2>4. \A q \in Handlers : NumberedAt(q)' /\ PhaseAt(q)' /\ PeekAt(q)' /\ NacksAt(q)'
    BY <2>1 DEF NumberedAt, PhaseAt, PeekAt, NacksAt, RabbitInv, Up
  <2>5. QED
    BY <1>1, <2>2, <2>3, <2>4 DEF RabbitInv
<1>4. ASSUME UNCHANGED vars
      PROVE  RabbitInv'
  BY <1>1, <1>4 DEF vars, RabbitInv, NumberedAt, PhaseAt, PeekAt, NacksAt, Up, Conserved
<1>5. QED
  BY <1>2, <1>3, <1>4, EachStep

\* It holds before any request.
LEMMA RabbitInit ==
  ASSUME Init
  PROVE  RabbitInv
<1>1. PICK n \in Nat, b \in BOOLEAN :
        queue = [exists |-> b, last |-> n, ready |-> 1..n, gone |-> {}]
  <2>1. CASE queue = Queue(FALSE, 0)
    BY <2>1 DEF Queue
  <2>2. CASE queue \in {Queue(TRUE, n) : n \in Backlogs}
    BY <2>2, NatAssumption DEF Queue
  <2>3. QED
    BY <2>1, <2>2 DEF Init
<1>2. queue \in QueueRec
  BY <1>1 DEF QueueRec
<1>3. conn \in [Handlers -> ConnRec]
  BY DEF Init, ConnRec, Links
<1>4. proc \in [Handlers -> ProcRec]
  BY DEF Init, ProcRec, Steps, Replies
<1>5. client \in [Handlers -> {"there", "gone", "reset"}]
  BY DEF Init
<1>6. \A p \in Handlers : NumberedAt(p) /\ PhaseAt(p) /\ PeekAt(p) /\ NacksAt(p)
  BY DEF Init, NumberedAt, PhaseAt, PeekAt, NacksAt, Up
<1>7. queue.ready = 1..n /\ queue.gone = {} /\ queue.last = n
  BY <1>1
<1>8. \A p \in Handlers : conn[p].held = {}
  BY DEF Init
<1>9. Conserved
  BY <1>7, <1>8 DEF Conserved
<1>10. QED
  BY <1>2, <1>3, <1>4, <1>5, <1>6, <1>7, <1>9 DEF RabbitInv, Types

\* Every behaviour has it throughout.
LEMMA RabbitInvariant == Spec => []RabbitInv
<1>1. Init => RabbitInv
  BY RabbitInit
<1>2. RabbitInv /\ [Next]_vars => RabbitInv'
  BY RabbitStep
<1>3. QED
  BY <1>1, <1>2, PTL DEF Spec

-----------------------------------------------------------------------------
(* Theorems                                                                *)

\* Every record keeps its type, and every number of a message - ready, gone,
\* held at the broker or received by a handler - is that of one accepted.
THEOREM RabbitTyped == Spec => []TypeOK
<1>1. ASSUME RabbitInv
      PROVE  TypeOK
  <2>1. ASSUME NEW p \in Handlers
        PROVE  conn[p] \in [link : Links, frames : Seq(Frame), held : SUBSET (1..queue.last),
                            consumer : BOOLEAN, arrived : BOOLEAN]
    <3>1. conn[p] \in ConnRec /\ conn[p].held \in SUBSET (1..queue.last)
      BY <1>1, Parts DEF RabbitInv, NumberedAt
    <3>2. QED
      BY <3>1 DEF ConnRec
  <2>2. ASSUME NEW p \in Handlers
        PROVE  proc[p] \in [op : Ops \cup {"none"}, limit : Nat \ {0}, pc : Steps,
                            got : Seq(1..queue.last), reply : Replies]
    <3>1. /\ proc[p].got \in Seq(Nat)
          /\ \A i \in 1..Len(proc[p].got) : proc[p].got[i] \in 1..queue.last
      BY <1>1, Parts DEF RabbitInv, NumberedAt
    <3>2. proc[p].got \in Seq(1..queue.last)
      <4>1. Len(proc[p].got) \in Nat /\ proc[p].got \in [1..Len(proc[p].got) -> 1..queue.last]
        BY <3>1
      <4>2. QED
        BY <4>1, SeqDef, Zenon
    <3>3. proc[p] \in ProcRec
      BY <1>1, Parts DEF RabbitInv
    <3>4. QED
      BY <3>2, <3>3 DEF ProcRec
  <2>3. conn \in [Handlers -> [link : {"none", "up", "broken", "lost", "down"},
                               frames : Seq(Frame), held : SUBSET (1..queue.last),
                               consumer : BOOLEAN, arrived : BOOLEAN]]
    BY <1>1, <2>1, Zenon DEF RabbitInv, Types, Links
  <2>4. proc \in [Handlers -> [op : Ops \cup {"none"}, limit : Nat \ {0}, pc : Steps,
                               got : Seq(1..queue.last),
                               reply : {"none", "200", "404", "error", "sse"}]]
    BY <1>1, <2>2, Zenon DEF RabbitInv, Types, Replies
  <2>5. queue.exists \in BOOLEAN /\ queue.last \in Nat
    BY <1>1 DEF RabbitInv, Types, QueueRec
  <2>6. QED
    BY <1>1, <2>3, <2>4, <2>5, Zenon DEF TypeOK, RabbitInv, Types
<1>2. QED
  BY <1>1, RabbitInvariant, PTL

\* However many handlers peek, tail, publish and purge, and whenever connections
\* break: each message the broker accepted is ready, held by one connection, or
\* was purged or consumed, and never two of these.
THEOREM MessagesAreConserved == Spec => []Conserved
<1>1. RabbitInv => Conserved
  BY DEF RabbitInv
<1>2. QED
  BY <1>1, RabbitInvariant, PTL

\* GET shows different messages, at most ?limit= of them, because all that was
\* fetched stays held until the last one has been.
THEOREM PeeksAreDistinct == Spec => []PeekDistinct
<1>1. ASSUME RabbitInv
      PROVE  PeekDistinct
  <2>1. ASSUME NEW p \in Handlers, proc[p].op = "peek"
        PROVE  Len(proc[p].got) <= proc[p].limit /\ IsInjective(proc[p].got)
    <3>1. /\ Len(proc[p].got) <= proc[p].limit
          /\ \A i, j \in 1..Len(proc[p].got) : proc[p].got[i] = proc[p].got[j] => i = j
      BY <1>1, <2>1 DEF RabbitInv, PeekAt
    <3>2. DOMAIN proc[p].got = 1..Len(proc[p].got)
      BY <1>1, Parts DEF RabbitInv
    <3>3. QED
      BY <3>1, <3>2, Zenon DEF IsInjective
  <2>2. QED
    BY <2>1 DEF PeekDistinct
<1>2. QED
  BY <1>1, RabbitInvariant, PTL

\* The queue comes into being only in the declare of a POST not yet answered.
LEMMA OthersCreateNothing ==
  ASSUME Types, NEW p \in Handlers,
         \/ \E o \in Ops, n \in Limits : Start(p, o, n)
         \/ Found(p) \/ Missing(p) \/ Count(p) \/ Publish(p) \/ Purge(p) \/ Get(p) \/ NackAll(p)
         \/ Answer(p) \/ Consume(p) \/ WriteEvent(p) \/ WriteIdle(p) \/ Killed(p)
         \/ StreamEnds(p) \/ Fail(p) \/ Close(p) \/ Closed(p)
         \/ Broker(p) \/ LinkBreaks(p) \/ ClientLeaves(p)
  PROVE  queue'.exists = queue.exists
<1>1. queue = [exists |-> queue.exists, last |-> queue.last,
               ready |-> queue.ready, gone |-> queue.gone]
  BY DEF Types, QueueRec
<1>2. CASE UNCHANGED queue
  BY <1>2
<1>3. CASE Purge(p)
  BY <1>1, <1>3 DEF Purge
<1>4. CASE Get(p)
  BY <1>1, <1>4 DEF Get
<1>5. CASE Broker(p)
  BY <1>1, <1>5 DEF Broker, TakePublish, TakeRoute, TakeNack, TakeClose, Notice, Deliver,
                    Enqueue, Drop, GiveBack
<1>6. QED
  BY <1>2, <1>3, <1>4, <1>5, Zenon DEF Start, Found, Missing, Count, Publish, NackAll, Answer,
     Consume,
     WriteEvent, WriteIdle, Killed, StreamEnds, Fail, Close, Closed, LinkBreaks, ClientLeaves

\* No GET and no DELETE ever creates the queue it names, whatever else goes on.
THEOREM OnlyPostsCreate == Spec => OnlyPostCreates
<1> DEFINE Created == queue'.exists # queue.exists =>
             \E p \in Handlers : /\ proc[p].op = "post" /\ proc[p].reply = "none"
                                 /\ proc'[p].pc # proc[p].pc
<1>1. ASSUME RabbitInv, [Next]_vars
      PROVE  [Created]_vars
  <2>1. ASSUME NEW p \in Handlers, Declare(p)
        PROVE  Created
    <3>1. proc[p].pc = "declare" /\ proc'[p].pc = "work"
      BY <1>1, <2>1 DEF Declare, At, Goto, RabbitInv, Types, ProcRec
    <3>2. proc[p].op = "post" /\ proc[p].reply = "none"
      BY <1>1, <3>1 DEF RabbitInv, PhaseAt
    <3>3. QED
      BY <3>1, <3>2
  <2>2. ASSUME OtherConsumes
        PROVE  Created
    BY <1>1, <2>2 DEF OtherConsumes, RabbitInv, Types, QueueRec
  <2>3. CASE UNCHANGED vars
    BY <2>3
  <2>4. QED
    BY <1>1, <2>1, <2>2, <2>3, OthersCreateNothing, Zenon DEF Next, Handler, RabbitInv
<1>2. QED
  BY <1>1, RabbitInvariant, PTL DEF Spec, OnlyPostCreates
=============================================================================
