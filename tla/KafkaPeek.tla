----------------------------- MODULE KafkaPeek -----------------------------
(***************************************************************************)
(* GET /stream/{topic}/peek and POST /stream/{topic} of the kafka handler, *)
(* on a topic of several partitions that others write to and retention     *)
(* deletes from.  The broker and librdkafka are external.  A record is a   *)
(* partition and an offset.                                                *)
(***************************************************************************)
EXTENDS Integers, FiniteSets, FiniteSetsExt

CONSTANTS
  Partitions, \* of the topic
  Limits,     \* ?limit=
  Offsets     \* the largest high watermark

ASSUME PeekAssumption ==
  /\ IsFiniteSet(Partitions) /\ Partitions # {}
  /\ Limits \subseteq Int /\ Limits # {} /\ IsFiniteSet(Limits) /\ Offsets \in Nat

VARIABLES
  parts,  \* parts[p] - low, high: offsets low..high-1 are kept; no topic: <<>>
  look,   \* the handler - op; limit; pc; pos: next offset of each assigned
          \* partition; read: records taken; reply; at: a produced record
  begun,  \* parts when the request began
  hurried,\* it stopped while there was more to read: deadline, error, silence
  mine    \* records that this process has written

peekVars == <<parts, look, begun, hurried, mine>>

PeekInit ==
  /\ parts \in [Partitions -> [low : {0}, high : 0..Offsets]] \cup {<<>>}
  /\ begun = parts /\ hurried = FALSE /\ mine = {}
  /\ look \in [op : {"peek", "post"}, limit : Limits, pc : {"meta"}, pos : {<<>>}, read : {{}},
               reply : {0}, at : {<<>>}]
  /\ look.op = "post" => look.limit = Min(Limits)

Known == DOMAIN parts = Partitions
At(step) == look.pc = step
Size(p) == parts[p].high - parts[p].low

\* Mutated form: the limit for each partition.
PerPartLimit == Max({1, look.limit})

PerPart == Max({1, look.limit \div Cardinality(Partitions)})
-----------------------------------------------------------------------------
(* The broker (external)                                                   *)

\* Somebody else produces a record, or retention deletes the oldest one.
Appends(p) ==
  /\ Known /\ ~At("done") /\ parts[p].high < Offsets
  /\ parts' = [parts EXCEPT ![p].high = @ + 1]
  /\ UNCHANGED <<look, begun, hurried, mine>>

Retention(p) ==
  /\ Known /\ ~At("done") /\ Size(p) > 0
  /\ parts' = [parts EXCEPT ![p].low = @ + 1]
  /\ UNCHANGED <<look, begun, hurried, mine>>

\* The record of the handler is written; when the acknowledgement is lost the
\* library sends it again, and the broker writes it again.
WritesMine(p) ==
  /\ At("flush") /\ Known /\ look.at = <<>> /\ parts[p].high < Offsets
  /\ parts' = [parts EXCEPT ![p].high = @ + 1]
  /\ mine' = mine \cup {<<p, parts[p].high>>}
  /\ \/ look' = [look EXCEPT !.at = <<p, parts[p].high>>]
     \/ UNCHANGED look
  /\ UNCHANGED <<begun, hurried>>
-----------------------------------------------------------------------------
(* The handler                                                             *)

Replies(status) == look' = [look EXCEPT !.pc = "done", !.reply = status]

\* _topic_meta(): a 404 for a peek; produce() asks the broker nothing, and its
\* body may be empty, or refused by the channel's schema.
AskMeta ==
  /\ At("meta")
  /\ \/ look.op = "peek" /\ ~Known /\ Replies(404)
     \/ look.op = "peek" /\ Known /\ look' = [look EXCEPT !.pc = "marks"]
     \/ look.op = "post" /\ look' = [look EXCEPT !.pc = "flush"]
     \/ look.op = "post" /\ Replies(400)
  /\ UNCHANGED <<parts, begun, hurried, mine>>

\* get_watermark_offsets() of one partition after the other.
Marks(p) ==
  /\ At("marks") /\ p \notin DOMAIN look.pos
  /\ LET from == Max({parts[p].low, parts[p].high - PerPart})
         known == DOMAIN look.pos \cup {p}
     IN look' = [look EXCEPT !.pos = [q \in known |-> IF q = p THEN from ELSE look.pos[q]],
                             !.pc = IF known = Partitions THEN "poll" ELSE "marks"]
  /\ UNCHANGED <<parts, begun, hurried, mine>>

\* A KafkaException: main() answers 500.
LibraryRaises ==
  /\ At("marks") /\ Replies(500)
  /\ UNCHANGED <<parts, begun, hurried, mine>>

More == {p \in Partitions : look.pos[p] < parts[p].high}

GoesOn == At("poll") /\ Cardinality(look.read) < look.limit

\* poll() gives the next record of whichever partition comes first; a position
\* that retention has passed goes to the earliest record (auto.offset.reset).
PollTakes(p) ==
  /\ GoesOn /\ p \in More
  /\ LET o == Max({look.pos[p], parts[p].low})
     IN look' = IF o < parts[p].high
                  THEN [look EXCEPT !.pos[p] = o + 1, !.read = @ \cup {<<p, o>>}]
                  ELSE [look EXCEPT !.pos[p] = o]
  /\ UNCHANGED <<parts, begun, hurried, mine>>

\* The loop ends: the limit, an error, eleven silent polls, ten seconds.  Then
\* close() and the answer.
PeekAnswers ==
  /\ At("poll")
  /\ hurried' = (GoesOn /\ More # {})
  /\ Replies(200)
  /\ UNCHANGED <<parts, begun, mine>>

\* flush(30) returns when the delivery was reported, as done or as failed, or
\* the time is up.
FlushEnds ==
  /\ At("flush")
  /\ \E status \in {200, 502} : (status = 200 => look.at # <<>>) /\ Replies(status)
  /\ UNCHANGED <<parts, begun, hurried, mine>>

PeekNext ==
  \/ \E p \in Partitions : Appends(p) \/ Retention(p) \/ WritesMine(p) \/ Marks(p) \/ PollTakes(p)
  \/ AskMeta \/ LibraryRaises \/ PeekAnswers \/ FlushEnds

PeekSpec == PeekInit /\ [][PeekNext]_peekVars
-----------------------------------------------------------------------------
(* Properties                                                              *)

\* A partition's part of the limit, which is at least one record.
Share == IF look.limit < Cardinality(Partitions) THEN 1 ELSE look.limit \div Cardinality(Partitions)

Peeked == look.op = "peek" /\ look.reply = 200

OfPart(p) == {r[2] : r \in {x \in look.read : x[1] = p}}

\* The newest n offsets of a partition, fewer when it has fewer.
Newest(b, n) == {o \in b.low..(b.high - 1) : o >= b.high - n}

\* A peek never answers with more than its limit, and with nothing older than
\* each partition's share of the limit.
WithinLimit ==
  Peeked => /\ Cardinality(look.read) <= Max({0, look.limit})
            /\ \A p \in Partitions : \A o \in OfPart(p) : o >= begun[p].high - Share

\* On a topic that stands still, and unless it was hurried, it answers with
\* the newest records: every partition's share, or, when there are more
\* partitions than the limit allows, the newest record of as many as it can.
PeekNewest ==
  Peeked /\ parts = begun /\ ~hurried /\ look.limit > 0 =>
    LET share(p) == Newest(parts[p], Share)
    IN IF Cardinality(Partitions) <= look.limit
         THEN \A p \in Partitions : OfPart(p) = share(p)
         ELSE /\ \A p \in Partitions : OfPart(p) \in {{}, share(p)}
              /\ Cardinality(look.read) =
                   Min({look.limit, Cardinality({p \in Partitions : Size(p) > 0})})

\* A 200 to a POST names a record that this request wrote.
ProducedIsWritten == look.op = "post" /\ look.reply = 200 => look.at \in mine

\* What the kafka handler says of a topic is true, whoever else writes to it
\* and whatever retention deletes between watermarks and records.
KafkaAnswersTrue == WithinLimit /\ PeekNewest /\ ProducedIsWritten
=============================================================================
