--------------------------- MODULE UpstreamProofs --------------------------
(***************************************************************************)
(* Proofs about Upstream: temporary PEM files are gone in time, and every  *)
(* header that goes upstream has one value, the configured one if there    *)
(* is one - for any sections of backends.conf.  And about its user         *)
(* LlmStream: the answer of a chat is the provider's answer, for any       *)
(* number of pieces and any limit of tokens.  And about MemcachedWire,     *)
(* the other client that reads a protocol of its own: what it answers is   *)
(* what the cache holds, for any values and any cuts of the reply.         *)
(***************************************************************************)
EXTENDS Upstream, LlmStream, MemcachedWire, SequenceTheorems, TLAPS

Names == {"authorization", "x-key", "host", "connection"}

\* Which temporary files each step can find, and what was injected by then.
UpInv ==
  /\ conf \in ConfigShape /\ came \subseteq Names
  /\ at \in {"target", "inject", "ca", "cert"} => temp = {}
  /\ at = "key" => temp \subseteq {"cert"}
  /\ at \in {"ca", "cert", "key", "load", "request"} => out = Injected
  /\ said = "theirs" => out = Injected /\ at = "done"
  /\ PemsGone

\* One value for a name; the configured ones win, and what belongs to the
\* client's own connection is never passed on.
LEMMA InjectedIsRight ==
  ASSUME conf \in ConfigShape, came \subseteq Names
  PROVE  /\ \A g, h \in Injected : g[1] = h[1] => g = h
         /\ Resolve(conf.header) = "ok" => <<conf.name, "header">> \in Injected
         /\ Resolve(conf.auth) = "ok" => <<"authorization", "client">> \notin Injected
         /\ \A n \in HopByHop : <<n, "client">> \notin Injected
<1>1. Passed \subseteq Names \X {"client", "upstream"}
  BY DEF Passed, Names
<1>2. /\ \A g, h \in Passed : g[1] = h[1] => g = h
      /\ \A n \in HopByHop : <<n, "client">> \notin Passed
  BY DEF Passed, HopByHop
<1>3. \A hs, n, from :
        (\A g, h \in hs : g[1] = h[1] => g = h) =>
          \A g, h \in Put(hs, n, from) : g[1] = h[1] => g = h
  BY DEF Put
<1>4. \A hs, n, from, m : <<m, "client">> \in Put(hs, n, from) /\ from # "client" =>
        <<m, "client">> \in hs /\ m # n
  BY DEF Put
<1>5. /\ \A g, h \in WithAuth : g[1] = h[1] => g = h
      /\ \A n \in HopByHop : <<n, "client">> \notin WithAuth
      /\ Resolve(conf.auth) = "ok" => <<"authorization", "client">> \notin WithAuth
  BY <1>2, <1>3, <1>4 DEF WithAuth
<1>6. Resolve(conf.header) = "ok" => <<conf.name, "header">> \in Injected
  BY DEF Injected, Put
<1> QED
  BY <1>3, <1>4, <1>5, <1>6 DEF Injected

\* No temporary file exists at first.
LEMMA UpInvInit == UpInit => UpInv
BY UpstreamAssumption DEF UpInit, UpInv, PemsGone, Names

\* Every step keeps the invariant.
LEMMA UpInvStep == UpInv /\ [UpNext]_upVars => UpInv'
<1> SUFFICES ASSUME UpInv, [UpNext]_upVars
             PROVE  UpInv'
  OBVIOUS
<1> USE DEF UpInv, PemsGone, GoesTo, Fails
<1>1. conf' = conf /\ came' = came
  BY DEF UpNext, Target, Inject, LoadCa, ResolvePem, LoadChain, Exchange, upVars
<1>2. Injected' = Injected
  BY <1>1 DEF Injected, WithAuth, Passed, Put, Resolve
<1>3. CASE Target
  BY <1>1, <1>2, <1>3 DEF Target
<1>4. CASE Inject
  BY <1>1, <1>2, <1>4 DEF Inject
<1>5. CASE LoadCa
  BY <1>1, <1>2, <1>5 DEF LoadCa
<1>6. CASE ResolvePem("cert", "key")
  BY <1>1, <1>2, <1>6 DEF ResolvePem
<1>7. CASE ResolvePem("key", "load")
  BY <1>1, <1>2, <1>7 DEF ResolvePem
<1>8. CASE LoadChain
  BY <1>1, <1>2, <1>8 DEF LoadChain
<1>9. CASE Exchange
  BY <1>1, <1>2, <1>9 DEF Exchange
<1>10. CASE UNCHANGED upVars
  BY <1>1, <1>2, <1>10 DEF upVars
<1> QED
  BY <1>3, <1>4, <1>5, <1>6, <1>7, <1>8, <1>9, <1>10 DEF UpNext

\* Configured secrets reach the upstream, once and under their own names, and
\* no temporary certificate or key outlives the step that loads them, but for
\* the certificate whose key cannot be had.
THEOREM SecretsAreKept == UpSpec => []SecretsKept
<1>1. UpInv => SecretsKept
  BY InjectedIsRight DEF UpInv, SecretsKept, ConfiguredWins
<1> QED
  BY <1>1, UpInvInit, UpInvStep, PTL DEF UpSpec
-----------------------------------------------------------------------------
(* The llm handler                                                         *)

Kinds    == {"text", "other", "junk", "error", "stop", "[DONE]"}
EventRec == [is : Kinds, n : Nat]
GivesRec == [said : Nat, part : {"text", "stop", "closed"},
             link : {"up", "eof", "broken", "timeout"}, next : Seq(EventRec)]
HeardRec == [status : Seq(Nat), texts : Seq(Nat), done : {"none", "null", "end"}, there : BOOLEAN]

LlmTypes ==
  /\ chat \in [provider : {"anthropic", "openai", "bedrock"},
               how : {"stream", "whole", "verb", "models"}, tokens : Wanted, fit : BOOLEAN]
  /\ phase \in {"route", "ask", "relay", "done"}
  /\ gives \in GivesRec /\ heard \in HeardRec /\ stop \in {Nothing, "end"}

\* How many pieces were said before event i + 1: those that the client has, or
\* those said by event i.
SaidBy(i) == IF i = 0 THEN Len(heard.texts) ELSE gives.next[i].n

\* As long as there is somebody to tell, the unread events count on from what
\* was told, each text one further, and the last has counted all that was said.
Counted ==
  phase # "done" /\ heard.there =>
    /\ \A i \in 1..Len(gives.next) :
         gives.next[i].n = SaidBy(i - 1) + (IF gives.next[i].is = "text" THEN 1 ELSE 0)
    /\ gives.said = SaidBy(Len(gives.next))

\* A stop, read or unread, is said after the last text, and [DONE] is the last
\* of all events.
StopsLast ==
  /\ stop = "end" => gives.part # "text"
  /\ \A i \in 1..Len(gives.next) :
       /\ gives.next[i].is = "stop" => gives.part # "text"
       /\ gives.next[i].is = "[DONE]" => i = Len(gives.next) /\ gives.link # "up"

\* Before a stream nothing is said; after a done event nothing is done.
ChatStages ==
  /\ phase \in {"route", "ask"} => gives.next = <<>> /\ gives.said = 0 /\ heard.texts = <<>>
  /\ heard.done # "none" => phase = "done"

LlmInv == LlmTypes /\ Counted /\ StopsLast /\ ChatStages /\ DoneIsHonest /\ TokensCapped

\* The larger and the smaller of two numbers.
LEMMA OfTwo ==
  ASSUME NEW a \in Int, NEW b \in Int
  PROVE  /\ Max({a, b}) = IF a >= b THEN a ELSE b
         /\ Min({a, b}) = IF a <= b THEN a ELSE b
  BY DEF Max, Min

\* Whatever is asked for, something between one and the cap is sent.
LEMMA EffectiveCapped ==
  ASSUME NEW asked \in Wanted
  PROVE  Effective(asked) \in 1..Cap
<1>1. CASE asked = NoNumber
  BY <1>1, LlmAssumption DEF Effective
<1>2. CASE asked # NoNumber
  <2>1. asked \in Int /\ Cap \in Nat \ {0}
    BY <1>2, LlmAssumption
  <2>2. Min({asked, Cap}) = IF asked <= Cap THEN asked ELSE Cap
    BY <2>1, OfTwo
  <2>3. Min({asked, Cap}) \in Int
    BY <2>1, <2>2
  <2>4. Max({1, Min({asked, Cap})}) = IF 1 >= Min({asked, Cap}) THEN 1 ELSE Min({asked, Cap})
    BY <2>3, OfTwo
  <2>5. QED
    BY <1>2, <2>1, <2>2, <2>4 DEF Effective
<1>3. QED
  BY <1>1, <1>2

\* What is known at any time.
LEMMA ChatKnown ==
  ASSUME LlmInv
  PROVE  /\ chat.tokens \in Wanted /\ gives \in GivesRec /\ heard \in HeardRec
         /\ gives.next \in Seq(EventRec) /\ gives.said \in Nat /\ heard.texts \in Seq(Nat)
         /\ heard.done \in {"none", "null", "end"} /\ heard.there \in BOOLEAN
         /\ \A i \in 1..Len(gives.next) : gives.next[i] \in EventRec /\ gives.next[i].n \in Nat
<1>1. chat.tokens \in Wanted /\ gives \in GivesRec /\ heard \in HeardRec
  BY DEF LlmInv, LlmTypes
<1>2. /\ gives.next \in Seq(EventRec) /\ gives.said \in Nat
      /\ heard.texts \in Seq(Nat) /\ heard.done \in {"none", "null", "end"}
      /\ heard.there \in BOOLEAN
  BY <1>1 DEF GivesRec, HeardRec
<1>3. \A i \in 1..Len(gives.next) : gives.next[i] \in EventRec
  BY <1>2
<1>4. QED
  BY <1>1, <1>2, <1>3 DEF EventRec

\* The provider says one event more, which counts on from the last.
LEMMA EventSaid ==
  ASSUME LlmInv, phase = "relay", gives.link = "up", gives' \in GivesRec, NEW e \in EventRec,
         gives'.next = Append(gives.next, e), gives'.said = e.n,
         e.n = gives.said + (IF e.is = "text" THEN 1 ELSE 0),
         e.is = "text" => gives.part = "text",
         e.is = "stop" \/ gives.part # "text" => gives'.part # "text",
         e.is = "[DONE]" => gives'.link # "up",
         UNCHANGED <<chat, phase, body, heard, stop>>
  PROVE  LlmInv'
<1> DEFINE s == gives.next
           t == gives'.next
<1>1. s \in Seq(EventRec) /\ Len(t) = Len(s) + 1
      /\ \A i \in 1..Len(t) : t[i] = IF i <= Len(s) THEN s[i] ELSE e
  BY ChatKnown
<1>2. LlmTypes'
  BY DEF LlmInv, LlmTypes
<1>3. Counted'
  <2>1. SUFFICES ASSUME heard.there
                 PROVE  /\ \A i \in 1..Len(t) :
                             t[i].n = (IF i - 1 = 0 THEN Len(heard.texts) ELSE t[i - 1].n)
                                        + (IF t[i].is = "text" THEN 1 ELSE 0)
                        /\ gives'.said = IF Len(t) = 0 THEN Len(heard.texts) ELSE t[Len(t)].n
    BY DEF Counted, SaidBy
  <2>2. /\ \A i \in 1..Len(s) :
             s[i].n = (IF i - 1 = 0 THEN Len(heard.texts) ELSE s[i - 1].n)
                        + (IF s[i].is = "text" THEN 1 ELSE 0)
        /\ gives.said = IF Len(s) = 0 THEN Len(heard.texts) ELSE s[Len(s)].n
    BY <2>1 DEF LlmInv, Counted, SaidBy
  <2>3. QED
    BY <1>1, <2>2
<1>4. StopsLast'
  <2>1. \A i \in 1..Len(s) : s[i].is # "[DONE]"
    BY DEF LlmInv, StopsLast
  <2>2. QED
    BY <1>1, <2>1 DEF LlmInv, StopsLast
<1>5. QED
  BY <1>2, <1>3, <1>4 DEF LlmInv, ChatStages, DoneIsHonest, TokensCapped

\* Nothing more is said; the connection, or the client, ends.
LEMMA LinkEnds ==
  ASSUME LlmInv, phase # "done", gives' \in GivesRec, gives'.next = gives.next,
         gives'.said = gives.said, gives.part # "text" => gives'.part # "text",
         gives.link # "up" => gives'.link # "up",
         heard' \in HeardRec, heard'.there => heard.there, heard'.texts = heard.texts,
         heard'.done = heard.done, UNCHANGED <<chat, phase, body, stop>>
  PROVE  LlmInv'
<1>1. LlmTypes'
  BY DEF LlmInv, LlmTypes
<1>2. Counted' /\ StopsLast' /\ ChatStages'
  BY DEF LlmInv, Counted, SaidBy, StopsLast, ChatStages
<1>3. DoneIsHonest' /\ TokensCapped'
  BY DEF LlmInv, ChatStages, DoneIsHonest, TokensCapped
<1>4. QED
  BY <1>1, <1>2, <1>3 DEF LlmInv

\* The handler ends without a text or a done event, or goes on to ask.
LEMMA StatusTold ==
  ASSUME LlmInv, phase # "done", phase' \in {"ask", "done"}, phase' = "ask" => phase = "route",
         heard' \in HeardRec, heard'.there = heard.there, heard'.texts = heard.texts,
         heard'.done = heard.done,
         body' # NoNumber => body' \in 1..Cap, UNCHANGED <<chat, gives, stop>>
  PROVE  LlmInv'
<1>1. LlmTypes'
  BY DEF LlmInv, LlmTypes
<1>2. Counted' /\ StopsLast' /\ ChatStages'
  BY DEF LlmInv, Counted, SaidBy, StopsLast, ChatStages
<1>3. DoneIsHonest' /\ TokensCapped'
  BY DEF LlmInv, ChatStages, DoneIsHonest, TokensCapped
<1>4. QED
  BY <1>1, <1>2, <1>3 DEF LlmInv

\* A status line more changes nothing else.
LEMMA SayingStays ==
  ASSUME heard \in HeardRec, NEW s \in Nat
  PROVE  /\ Saying(s) \in HeardRec /\ Saying(s).there = heard.there
         /\ Saying(s).texts = heard.texts /\ Saying(s).done = heard.done
<1> DEFINE u == Append(heard.status, s)
<1>1. heard.status \in Seq(Nat)
  BY DEF HeardRec
<1>2. u \in Seq(Nat)
  BY <1>1
<1>3. Saying(s) = [heard EXCEPT !.status = u]
  BY DEF Saying
<1> HIDE DEF u
<1>4. QED
  BY <1>2, <1>3 DEF HeardRec

\* What Tell makes of the client and of the handler.
LEMMA Told ==
  ASSUME LlmInv, NEW s \in Nat, NEW next \in {"relay", "done"}, Tell(Saying(s), next)
  PROVE  /\ heard' \in HeardRec /\ heard'.there = heard.there /\ heard'.texts = heard.texts
         /\ heard'.done = heard.done /\ phase' \in {next, "done"}
<1>1. heard \in HeardRec
  BY ChatKnown
<1>2. /\ Saying(s) \in HeardRec /\ Saying(s).there = heard.there
      /\ Saying(s).texts = heard.texts /\ Saying(s).done = heard.done
  BY <1>1, SayingStays
<1>3. QED
  BY <1>1, <1>2 DEF Tell

\* A whole answer has every piece, and its stop.
LEMMA CompletesKept ==
  ASSUME LlmInv, Completes
  PROVE  LlmInv'
<1> DEFINE ts == IF chat.how = "models" THEN <<>> ELSE [i \in 1..Pieces |-> i]
           d  == IF chat.how = "stream" THEN "end" ELSE "none"
           h  == [Saying(200) EXCEPT !.texts = ts, !.done = d]
           g  == [gives EXCEPT !.said = Pieces, !.part = "closed", !.link = "eof"]
<1>1. /\ phase = "ask" /\ gives' = g /\ Tell(h, "done") /\ UNCHANGED <<chat, body, stop>>
      /\ gives.next = <<>> /\ heard.texts = <<>> /\ heard.done = "none" /\ Pieces \in Nat
  BY LlmAssumption, ChatKnown DEF Completes, LlmInv, ChatStages
<1>2. /\ ts \in Seq(Nat) /\ \A i \in 1..Len(ts) : ts[i] = i
      /\ chat.how = "stream" => Len(ts) = Pieces
  <2>1. CASE chat.how = "models"
    <3>1. <<>> \in Seq(Nat) /\ Len(<<>>) = 0
      OBVIOUS
    <3>2. QED
      BY <2>1, <3>1
  <2>2. CASE chat.how # "models"
    BY <1>1, <2>2
  <2>3. QED
    BY <2>1, <2>2
<1>3. d \in {"none", "end"} /\ (d = "end" => chat.how = "stream")
  OBVIOUS
<1> HIDE DEF ts, d
<1>4. g \in GivesRec /\ g.next = <<>> /\ g.said = Pieces /\ g.part = "closed"
  BY <1>1, ChatKnown DEF GivesRec
<1>5. h \in HeardRec /\ h.texts = ts /\ h.done = d
  <2>1. heard \in HeardRec
    BY ChatKnown
  <2>2. Saying(200) \in HeardRec
    BY <2>1, SayingStays
  <2>3. QED
    BY <1>2, <1>3, <2>2 DEF HeardRec
<1> HIDE DEF h, g
<1>6. /\ phase' = "done" /\ heard' \in {h, heard} /\ gives'.next = <<>>
      /\ gives'.said = Pieces /\ gives'.part = "closed"
  BY <1>1, <1>4 DEF Tell
<1>7. LlmTypes'
  BY <1>1, <1>4, <1>5, <1>6, ChatKnown DEF LlmInv, LlmTypes
<1>8. Counted' /\ StopsLast' /\ ChatStages'
  BY <1>6 DEF Counted, StopsLast, ChatStages
<1>9. DoneIsHonest'
  <2>1. CASE heard' = h
    BY <1>2, <1>3, <1>5, <1>6, <2>1 DEF DoneIsHonest
  <2>2. CASE heard' = heard
    BY <1>1, <1>6, <2>2 DEF DoneIsHonest
  <2>3. QED
    BY <1>6, <2>1, <2>2
<1>10. TokensCapped'
  BY <1>1 DEF LlmInv, TokensCapped
<1>11. QED
  BY <1>7, <1>8, <1>9, <1>10 DEF LlmInv

\* A stream begins with nothing said.
LEMMA StreamOpensKept ==
  ASSUME LlmInv, StreamOpens
  PROVE  LlmInv'
<1>1. /\ heard' \in HeardRec /\ heard'.there = heard.there /\ heard'.texts = heard.texts
      /\ heard'.done = heard.done /\ phase' \in {"relay", "done"}
      /\ phase = "ask" /\ UNCHANGED <<chat, body, gives, stop>>
  BY Told DEF StreamOpens
<1>2. LlmTypes'
  BY <1>1 DEF LlmInv, LlmTypes
<1>3. Counted' /\ StopsLast' /\ ChatStages'
  BY <1>1 DEF LlmInv, Counted, SaidBy, StopsLast, ChatStages
<1>4. DoneIsHonest' /\ TokensCapped'
  BY <1>1 DEF LlmInv, DoneIsHonest, TokensCapped
<1>5. QED
  BY <1>2, <1>3, <1>4 DEF LlmInv

\* An event is read: a text is passed on, with its number.
LEMMA RelayKept ==
  ASSUME LlmInv, Relay
  PROVE  LlmInv'
<1> DEFINE s == gives.next
           t == Tail(s)
           e == Head(s)
           h == [heard EXCEPT !.texts = Append(heard.texts, e.n)]
<1>1. /\ phase = "relay" /\ s # <<>> /\ e.is # "[DONE]" /\ gives' = [gives EXCEPT !.next = t]
      /\ stop' = IF e.is = "stop" THEN "end" ELSE stop
      /\ IF e.is = "text" THEN Tell(h, "relay") ELSE UNCHANGED <<phase, heard>>
      /\ UNCHANGED <<chat, body>> /\ heard.done = "none"
  BY ChatKnown DEF Relay, LlmInv, ChatStages
<1>2. /\ s \in Seq(EventRec) /\ Len(s) \in Nat \ {0} /\ e = s[1] /\ e \in EventRec /\ e.n \in Nat
      /\ t \in Seq(EventRec) /\ Len(t) = Len(s) - 1 /\ \A i \in 1..Len(t) : t[i] = s[i + 1]
      /\ heard.texts \in Seq(Nat) /\ heard \in HeardRec
  <2>1. s \in Seq(EventRec) /\ s # <<>> /\ heard.texts \in Seq(Nat) /\ heard \in HeardRec
    BY <1>1, ChatKnown
  <2> HIDE DEF s
  <2>2. Len(s) \in Nat \ {0} /\ e = s[1] /\ e \in EventRec
    BY <2>1
  <2>3. t \in Seq(EventRec) /\ Len(t) = Len(s) - 1 /\ \A i \in 1..Len(t) : t[i] = s[i + 1]
    BY <2>1, <2>2
  <2>4. e.n \in Nat
    BY <2>2 DEF EventRec
  <2>5. QED
    BY <2>1, <2>2, <2>3, <2>4
<1> HIDE DEF s, t, e
<1>3. /\ h \in HeardRec /\ h.texts \in Seq(Nat) /\ Len(h.texts) = Len(heard.texts) + 1
      /\ \A i \in 1..Len(h.texts) :
           h.texts[i] = IF i <= Len(heard.texts) THEN heard.texts[i] ELSE e.n
      /\ h.there = heard.there /\ h.done = heard.done
  <2> DEFINE u == Append(heard.texts, e.n)
  <2>1. /\ u \in Seq(Nat) /\ Len(u) = Len(heard.texts) + 1
        /\ \A i \in 1..Len(u) : u[i] = IF i <= Len(heard.texts) THEN heard.texts[i] ELSE e.n
    BY <1>2
  <2>2. h = [heard EXCEPT !.texts = u]
    OBVIOUS
  <2> HIDE DEF u
  <2>3. h \in HeardRec /\ h.texts = u /\ h.there = heard.there /\ h.done = heard.done
    BY <1>2, <2>1, <2>2 DEF HeardRec
  <2> HIDE DEF h
  <2>4. QED
    BY <2>1, <2>3
<1> HIDE DEF h
<1>4. /\ gives' \in GivesRec /\ gives'.next = t /\ gives'.said = gives.said
      /\ gives'.part = gives.part /\ gives'.link = gives.link
  BY <1>1, <1>2, ChatKnown DEF GivesRec
<1>5. /\ phase' \in {"relay", "done"} /\ heard' \in HeardRec /\ heard'.there = heard.there
      /\ heard'.done = "none"
      /\ phase' # "done" /\ heard.there => heard' = IF e.is = "text" THEN h ELSE heard
      /\ heard' = heard \/ (heard' = h /\ heard.there /\ e.is = "text")
  <2>1. CASE e.is = "text"
    BY <1>1, <1>2, <1>3, <2>1 DEF Tell
  <2>2. CASE e.is # "text"
    BY <1>1, <1>2, <2>2
  <2>3. QED
    BY <2>1, <2>2
<1>6. LlmTypes'
  BY <1>1, <1>4, <1>5 DEF LlmInv, LlmTypes
<1>7. heard.there =>
        /\ \A i \in 1..Len(s) :
             s[i].n = (IF i - 1 = 0 THEN Len(heard.texts) ELSE s[i - 1].n)
                        + (IF s[i].is = "text" THEN 1 ELSE 0)
        /\ gives.said = s[Len(s)].n
        /\ e.n = Len(heard.texts) + (IF e.is = "text" THEN 1 ELSE 0)
  <2>1. heard.there =>
        /\ \A i \in 1..Len(s) :
             s[i].n = (IF i - 1 = 0 THEN Len(heard.texts) ELSE s[i - 1].n)
                        + (IF s[i].is = "text" THEN 1 ELSE 0)
        /\ gives.said = IF Len(s) = 0 THEN Len(heard.texts) ELSE s[Len(s)].n
    BY <1>1 DEF LlmInv, Counted, SaidBy, s
  <2>2. 1 \in 1..Len(s) /\ Len(s) # 0 /\ e = s[1]
    BY <1>2
  <2>3. heard.there => s[1].n = Len(heard.texts) + (IF s[1].is = "text" THEN 1 ELSE 0)
    <3>1. heard.there => s[1].n = (IF 1 - 1 = 0 THEN Len(heard.texts) ELSE s[1 - 1].n)
                                    + (IF s[1].is = "text" THEN 1 ELSE 0)
      BY <2>1, <2>2, Zenon
    <3>2. (IF 1 - 1 = 0 THEN Len(heard.texts) ELSE s[1 - 1].n) = Len(heard.texts)
      OBVIOUS
    <3>3. QED
      BY <3>1, <3>2, Zenon
  <2>4. QED
    BY <2>1, <2>2, <2>3
<1>8. Counted'
  <2>1. SUFFICES ASSUME phase' # "done", heard.there
                 PROVE  /\ \A i \in 1..Len(t) :
                             t[i].n = (IF i - 1 = 0 THEN Len(heard'.texts) ELSE t[i - 1].n)
                                        + (IF t[i].is = "text" THEN 1 ELSE 0)
                        /\ gives'.said = IF Len(t) = 0 THEN Len(heard'.texts) ELSE t[Len(t)].n
    BY <1>4, <1>5 DEF Counted, SaidBy
  <2>2. Len(heard'.texts) = e.n
    BY <1>2, <1>3, <1>5, <1>7, <2>1
  <2>3. \A i \in 1..Len(t) :
          t[i].n = (IF i - 1 = 0 THEN e.n ELSE t[i - 1].n) + (IF t[i].is = "text" THEN 1 ELSE 0)
    <3>1. SUFFICES ASSUME NEW i \in 1..Len(t)
                   PROVE  t[i].n = (IF i - 1 = 0 THEN e.n ELSE t[i - 1].n)
                                     + (IF t[i].is = "text" THEN 1 ELSE 0)
      OBVIOUS
    <3>2. /\ i + 1 \in 1..Len(s) /\ t[i] = s[i + 1]
          /\ s[i + 1].n = s[i].n + (IF s[i + 1].is = "text" THEN 1 ELSE 0)
      BY <1>2, <1>7, <2>1
    <3>3. s[i].n = IF i - 1 = 0 THEN e.n ELSE t[i - 1].n
      BY <1>2
    <3>4. QED
      BY <3>2, <3>3
  <2>4. gives'.said = IF Len(t) = 0 THEN e.n ELSE t[Len(t)].n
    BY <1>2, <1>4, <1>7, <2>1
  <2>5. QED
    BY <2>2, <2>3, <2>4
<1>9. StopsLast'
  <2>1. \A i \in 1..Len(s) : /\ s[i].is = "stop" => gives.part # "text"
                             /\ s[i].is = "[DONE]" => i = Len(s) /\ gives.link # "up"
    BY DEF LlmInv, StopsLast, s
  <2>2. stop = "end" => gives.part # "text"
    BY DEF LlmInv, StopsLast
  <2>3. stop' = "end" => gives.part # "text"
    BY <1>1, <1>2, <2>1, <2>2
  <2>4. \A i \in 1..Len(t) : /\ t[i].is = "stop" => gives.part # "text"
                             /\ t[i].is = "[DONE]" => i = Len(t) /\ gives.link # "up"
    BY <1>2, <2>1
  <2>5. QED
    BY <1>4, <2>3, <2>4 DEF StopsLast
<1>10. ChatStages'
  BY <1>5 DEF ChatStages
<1>11. DoneIsHonest'
  <2>1. \A i \in 1..Len(heard.texts) : heard.texts[i] = i
    BY <1>2 DEF LlmInv, DoneIsHonest
  <2>2. CASE heard' = heard
    BY <1>5, <2>1, <2>2 DEF DoneIsHonest, LlmInv
  <2>3. CASE heard' = h /\ heard.there /\ e.is = "text"
    <3>1. e.n = Len(heard.texts) + 1
      BY <1>7, <2>3
    <3>2. \A i \in 1..Len(h.texts) : h.texts[i] = i
      <4>1. Len(heard.texts) \in Nat
        BY <1>2
      <4>2. QED
        BY <1>3, <2>1, <3>1, <4>1
    <3>3. DOMAIN h.texts = 1..Len(h.texts)
      BY <1>3
    <3>4. QED
      BY <1>5, <2>3, <3>2, <3>3 DEF DoneIsHonest
  <2>4. QED
    BY <1>5, <2>2, <2>3
<1>12. TokensCapped'
  BY <1>1 DEF LlmInv, TokensCapped
<1>13. QED
  BY <1>6, <1>8, <1>9, <1>10, <1>11, <1>12 DEF LlmInv

\* The done event: with a stop only when everything said has been told.
LEMMA TellDoneKept ==
  ASSUME LlmInv, TellDone
  PROVE  LlmInv'
<1> DEFINE d == IF stop = Nothing THEN "null" ELSE stop
           h == [heard EXCEPT !.done = d]
<1>1. /\ phase = "relay" /\ Tell(h, "done") /\ UNCHANGED <<chat, body, gives, stop>>
      /\ heard.done = "none" /\ stop \in {Nothing, "end"}
  BY ChatKnown DEF TellDone, LlmInv, LlmTypes, ChatStages
<1>2. d \in {"null", "end"} /\ (d = "end" => stop = "end")
  BY <1>1 DEF Nothing
<1> HIDE DEF d
<1>3. h \in HeardRec /\ h.texts = heard.texts /\ h.done = d
  BY <1>2, ChatKnown DEF HeardRec
<1> HIDE DEF h
<1>4. phase' = "done" /\ heard' = IF heard.there THEN h ELSE heard
  BY <1>1 DEF Tell
<1>5. LlmTypes'
  BY <1>1, <1>3, <1>4, ChatKnown DEF LlmInv, LlmTypes
<1>6. Counted' /\ StopsLast' /\ ChatStages'
  BY <1>1, <1>4 DEF LlmInv, Counted, StopsLast, ChatStages
<1>7. DoneIsHonest'
  <2>1. SUFFICES ASSUME heard' = h, heard.there, d = "end"
                 PROVE  gives.part # "text" /\ Len(heard.texts) = gives.said
    BY <1>1, <1>3, <1>4 DEF LlmInv, DoneIsHonest
  <2>2. gives.part # "text"
    BY <1>2, <2>1 DEF LlmInv, StopsLast
  <2>3. CASE gives.next = <<>>
    <3>1. Len(gives.next) = 0
      BY <2>3
    <3>2. QED
      BY <1>1, <2>1, <2>2, <3>1 DEF LlmInv, Counted, SaidBy
  <2>4. CASE gives.next # <<>> /\ Head(gives.next).is = "[DONE]"
    <3>1. 1 \in 1..Len(gives.next) /\ Head(gives.next) = gives.next[1]
      BY <2>4, ChatKnown
    <3>2. Len(gives.next) = 1
      BY <2>4, <3>1 DEF LlmInv, StopsLast
    <3>3. gives.said = gives.next[1].n /\ gives.next[1].n = Len(heard.texts)
      <4>1. gives.next[1].is # "text"
        BY <2>4, <3>1
      <4>2. /\ gives.next[1].n = SaidBy(1 - 1) + (IF gives.next[1].is = "text" THEN 1 ELSE 0)
            /\ gives.said = SaidBy(1)
        BY <1>1, <2>1, <3>1, <3>2 DEF LlmInv, Counted
      <4>3. SaidBy(1 - 1) = Len(heard.texts) /\ SaidBy(1) = gives.next[1].n
        BY DEF SaidBy
      <4>4. Len(heard.texts) \in Nat
        BY ChatKnown
      <4>5. QED
        BY <4>1, <4>2, <4>3, <4>4
    <3>4. QED
      BY <2>2, <3>3
  <2>5. QED
    BY <2>3, <2>4 DEF TellDone
<1>8. TokensCapped'
  BY <1>1 DEF LlmInv, TokensCapped
<1>9. QED
  BY <1>5, <1>6, <1>7, <1>8 DEF LlmInv

\* The provider's and the client's part.
LEMMA WorldKept ==
  ASSUME LlmInv,
         ProviderWrites \/ ProviderStops \/ ProviderCloses \/ ProviderBreaks \/ ClientLeaves
  PROVE  LlmInv'
<1>1. CASE ProviderWrites
  <2>1. PICK event \in {"text", "other", "junk", "error"} : Gives(event)
    BY <1>1 DEF ProviderWrites
  <2> DEFINE n == gives.said + (IF event = "text" THEN 1 ELSE 0)
             e == Event(event, n)
  <2>2. /\ phase = "relay" /\ gives.link = "up" /\ gives.part = "text"
        /\ UNCHANGED <<chat, phase, body, heard, stop>>
        /\ gives' = [gives EXCEPT !.next = Append(gives.next, e), !.said = n]
    BY <1>1, <2>1 DEF ProviderWrites, Room, Gives
  <2>3. n \in Nat /\ n = gives.said + (IF event = "text" THEN 1 ELSE 0)
    BY ChatKnown
  <2> HIDE DEF n
  <2>4. e \in EventRec /\ e.is = event /\ e.n = n
    BY <2>3 DEF Event, EventRec, Kinds
  <2> HIDE DEF e
  <2>5. Append(gives.next, e) \in Seq(EventRec)
    BY <2>4, ChatKnown
  <2>6. gives' \in GivesRec /\ gives'.next = Append(gives.next, e) /\ gives'.said = n
    BY <2>2, <2>3, <2>5, ChatKnown DEF GivesRec
  <2>7. QED
    BY <2>2, <2>3, <2>4, <2>6, EventSaid
<1>2. CASE ProviderStops
  <2> DEFINE e == Event("stop", gives.said)
  <2>1. /\ phase = "relay" /\ gives.link = "up"
        /\ UNCHANGED <<chat, phase, body, heard, stop>>
        /\ gives' = [gives EXCEPT !.next = Append(gives.next, e), !.part = "stop"]
    BY <1>2 DEF ProviderStops, Room
  <2>2. e \in EventRec /\ e.is = "stop" /\ e.n = gives.said
    BY ChatKnown DEF Event, EventRec, Kinds
  <2> HIDE DEF e
  <2>3. Append(gives.next, e) \in Seq(EventRec)
    BY <2>2, ChatKnown
  <2>4. /\ gives' \in GivesRec /\ gives'.next = Append(gives.next, e)
        /\ gives'.said = gives.said /\ gives'.part = "stop"
    BY <2>1, <2>3, ChatKnown DEF GivesRec
  <2>5. QED
    BY <2>1, <2>2, <2>4, ChatKnown, EventSaid
<1>3. CASE ProviderCloses
  <2> DEFINE e == Event("[DONE]", gives.said)
             t == IF chat.provider = "openai" THEN Append(gives.next, e) ELSE gives.next
  <2>1. /\ phase = "relay" /\ gives.link = "up"
        /\ UNCHANGED <<chat, phase, body, heard, stop>>
        /\ gives' = [gives EXCEPT !.part = "closed", !.next = t, !.link = "eof"]
    BY <1>3 DEF ProviderCloses, Room
  <2>2. e \in EventRec /\ e.is = "[DONE]" /\ e.n = gives.said
    BY ChatKnown DEF Event, EventRec, Kinds
  <2> HIDE DEF e
  <2>3. t \in Seq(EventRec) /\ t \in {gives.next, Append(gives.next, e)}
    BY <2>2, ChatKnown
  <2> HIDE DEF t
  <2>4. /\ gives' \in GivesRec /\ gives'.next = t
        /\ gives'.said = gives.said /\ gives'.part = "closed" /\ gives'.link = "eof"
    BY <2>1, <2>3, ChatKnown DEF GivesRec
  <2>5. CASE t = gives.next
    <3>1. heard' \in HeardRec /\ heard'.there = heard.there
      BY <2>1, ChatKnown
    <3>2. QED
      BY <2>1, <2>4, <2>5, <3>1, LinkEnds
  <2>6. CASE t = Append(gives.next, e)
    BY <2>1, <2>2, <2>4, <2>6, ChatKnown, EventSaid
  <2>7. QED
    BY <2>3, <2>5, <2>6
<1>4. CASE ProviderBreaks
  <2>1. PICK how \in {"eof", "broken", "timeout"} : gives' = [gives EXCEPT !.link = how]
    BY <1>4 DEF ProviderBreaks
  <2>2. /\ gives' \in GivesRec /\ gives'.next = gives.next
        /\ gives'.said = gives.said /\ gives'.part = gives.part /\ gives'.link # "up"
    BY <2>1, ChatKnown DEF GivesRec
  <2>3. QED
    BY <1>4, <2>2, ChatKnown, LinkEnds DEF ProviderBreaks
<1>5. CASE ClientLeaves
  <2>1. /\ heard' \in HeardRec /\ ~ heard'.there /\ heard'.texts = heard.texts
        /\ heard'.done = heard.done
    BY <1>5, ChatKnown DEF ClientLeaves, HeardRec
  <2>2. QED
    BY <1>5, <2>1, ChatKnown, LinkEnds DEF ClientLeaves
<1>6. QED
  BY <1>1, <1>2, <1>3, <1>4, <1>5

\* The steps that only tell a status, or nothing.
LEMMA StatusKept ==
  ASSUME LlmInv, RefuseChat \/ Ask \/ OpenFails \/ ProviderRefuses \/ RefusalUnread \/ RelayFails
  PROVE  LlmInv'
<1>0. (body # NoNumber => body \in 1..Cap) /\ heard \in HeardRec
  BY ChatKnown DEF LlmInv, TokensCapped
<1>1. ASSUME NEW s \in Nat, Tell(Saying(s), "done"), phase # "done",
             UNCHANGED <<chat, body, gives, stop>>
      PROVE  LlmInv'
  BY <1>0, <1>1, Told, StatusTold
<1>2. CASE RefuseChat
  <2>1. PICK s \in {400, 404, 500} : Tell(Saying(s), "done")
    BY <1>2 DEF RefuseChat
  <2>2. QED
    BY <1>1, <1>2, <2>1 DEF RefuseChat
<1>3. CASE Ask
  <2>1. body' # NoNumber => body' \in 1..Cap
    BY <1>3, ChatKnown, EffectiveCapped DEF Ask
  <2>2. QED
    BY <1>0, <1>3, <2>1, StatusTold DEF Ask
<1>4. CASE OpenFails
  <2>1. PICK s \in {500, 502} : Tell(Saying(s), "done")
    BY <1>4 DEF OpenFails
  <2>2. QED
    BY <1>1, <1>4, <2>1 DEF OpenFails
<1>5. CASE ProviderRefuses
  <2>1. PICK status \in {400, 401, 403, 404, 422, 429, 500} : Tell(Saying(Reported(status)), "done")
    BY <1>5 DEF ProviderRefuses
  <2>2. Reported(status) \in Nat
    BY DEF Reported
  <2>3. QED
    BY <1>1, <1>5, <2>1, <2>2 DEF ProviderRefuses
<1>6. CASE RefusalUnread
  BY <1>0, <1>6, StatusTold DEF RefusalUnread
<1>7. CASE RelayFails
  <2>1. CASE phase' = "done" /\ UNCHANGED heard
    BY <1>0, <1>7, <2>1, StatusTold DEF RelayFails
  <2>2. CASE Tell(Saying(500), "done")
    BY <1>1, <1>7, <2>2 DEF RelayFails
  <2>3. QED
    BY <1>7, <2>1, <2>2 DEF RelayFails
<1>8. QED
  BY <1>2, <1>3, <1>4, <1>5, <1>6, <1>7

\* A chat begins with nothing said, sent or told.
LEMMA ChatBegins == LlmInit => LlmInv
<1>1. SUFFICES ASSUME LlmInit PROVE LlmInv
  OBVIOUS
<1>2. \A S : <<>> \in Seq(S)
  OBVIOUS
<1>3. gives \in GivesRec /\ gives.next = <<>> /\ gives.said = 0
  BY <1>1, <1>2 DEF LlmInit, GivesRec
<1>4. heard \in HeardRec /\ heard.texts = <<>> /\ heard.done = "none"
  BY <1>1, <1>2 DEF LlmInit, HeardRec
<1>5. Len(<<>>) = 0 /\ DOMAIN <<>> = {}
  OBVIOUS
<1>6. QED
  BY <1>1, <1>3, <1>4, <1>5
  DEF LlmInit, LlmInv, LlmTypes, Counted, SaidBy, StopsLast, ChatStages, DoneIsHonest,
      TokensCapped, Nothing

\* What a chat costs and what its client is told are as they should be: for
\* any cap, any wish and any number of pieces, and however the connections to
\* the provider and to the client end, texts come in order and without gaps,
\* and a stop means that there are all of them.
THEOREM ChatsAreKept == LlmSpec => []ChatKept
<1>1. LlmInv /\ [LlmNext]_llmVars => LlmInv'
  <2>1. SUFFICES ASSUME LlmInv, [LlmNext]_llmVars PROVE LlmInv'
    OBVIOUS
  <2>2. CASE LlmNext
    BY <2>1, <2>2, WorldKept, StatusKept, CompletesKept, StreamOpensKept, RelayKept, TellDoneKept
    DEF LlmNext
  <2>3. CASE UNCHANGED llmVars
    BY <2>1, <2>3 DEF llmVars, LlmInv, LlmTypes, Counted, SaidBy, StopsLast, ChatStages,
       DoneIsHonest, TokensCapped
  <2>4. QED
    BY <2>1, <2>2, <2>3
<1>2. LlmInv => ChatKept
  BY DEF LlmInv, ChatKept
<1>3. QED
  BY <1>1, <1>2, ChatBegins, PTL DEF LlmSpec
-----------------------------------------------------------------------------
(* MemcachedWire                                                           *)

\* The characters of the wire.
Protocol == {"r", "n", "END", "STORED", "NOT_FOUND", "DELETED", "ERROR", "STAT", "key="}
Alphabet == (UNION {Range(v) : v \in Values}) \cup Protocol
Character == {<<c, 0>> : c \in Alphabet} \cup {<<"VALUE", n>> : n \in Nat}

\* The reply that is not read yet.
Left == buf \o wire

\* What may be left when the handler waits for a line: always whole lines, of
\* a reply to its own command, and to what a broken key made of it.
AtLine ==
  \/ cmd.op # "stats" /\ \E q \in Seq(Character) : Left = Line("ERROR") \o q
  \/ /\ cmd.op = "get" /\ cache = cmd.was
     /\ Left = IF cache = Absent THEN Line("END") \o Extra
               ELSE ValueLine(Len(cache)) \o ((Chars(cache) \o Crlf) \o (Line("END") \o Extra))
  \/ cmd.op = "set" /\ ~cmd.broken /\ cache = Kept /\ Left = Line("STORED")
  \/ /\ cmd.op = "delete"
     /\ Left = Line(IF cmd.was = Absent THEN "NOT_FOUND" ELSE "DELETED") \o Extra
  \/ /\ cmd.op = "stats"
     /\ Left \in {Line("ERROR"), Line("STAT") \o Line("END"), Line("END"), <<>>}
  \/ /\ cmd.op = "keys" /\ result \in Seq({"key="})
     /\ \E k \in 0 .. Listing : /\ Left = KeyLines(k) \o Line("END")
                                /\ Len(result) = Min({MaxKeys, Listing - k})

\* However the bytes come: what is received and what is still to come are
\* together the rest of the reply, from the handler's place in it on.
WireInv ==
  /\ cmd \in Commands
  /\ cache \in Values \cup {Absent}
  /\ cmd.broken => cmd.op \in {"get", "set", "delete"}
  /\ does \in {"connect", "line", "value", "end", "done"}
  /\ buf \in Seq(Character) /\ wire \in Seq(Character)
  /\ does # "done" => code = 0
  /\ does = "connect" => buf = <<>> /\ wire = <<>> /\ result = <<>> /\ cache = cmd.was
  /\ does = "line" => AtLine
  /\ does = "value" => /\ cmd.op = "get" /\ cache = cmd.was /\ size = Len(cache)
                       /\ cache \in Values
                       /\ Left = (Chars(cache) \o Crlf) \o (Line("END") \o Extra)
  /\ does = "end" => /\ cmd.op = "get" /\ cache = cmd.was /\ result = cache
                     /\ Left = Line("END") \o Extra
  /\ does = "done" => WireExact

\* The smaller of two numbers.
LEMMA Lesser ==
  ASSUME NEW a \in Nat, NEW b \in Nat
  PROVE  Min({a, b}) = IF a <= b THEN a ELSE b
BY DEF Min

\* What is left of two equal pairs of sequences when the first of the one goes.
LEMMA FrontGone ==
  ASSUME NEW S, NEW p \in Seq(S), NEW q \in Seq(S), NEW b \in Seq(S), NEW w \in Seq(S),
         b \o w = p \o q, Len(p) <= Len(b)
  PROVE  /\ \A i \in 1 .. Len(p) : b[i] = p[i]
         /\ SubSeq(b, Len(p) + 1, Len(b)) \in Seq(S)
         /\ SubSeq(b, Len(p) + 1, Len(b)) \o w \in Seq(S)
         /\ Len(SubSeq(b, Len(p) + 1, Len(b)) \o w) = Len(q)
         /\ \A i \in 1 .. Len(q) : (SubSeq(b, Len(p) + 1, Len(b)) \o w)[i] = q[i]
<1> DEFINE r == SubSeq(b, Len(p) + 1, Len(b))
           lb == Len(b)
           lp == Len(p)
           lw == Len(w)
           lq == Len(q)
           a == b \o w
           c == p \o q
<1>1. lb \in Nat /\ lp \in Nat /\ lw \in Nat /\ lq \in Nat /\ lp <= lb
  BY LenProperties
<1>2. /\ Len(a) = lb + lw
      /\ \A i \in 1 .. lb + lw : a[i] = IF i <= lb THEN b[i] ELSE w[i - lb]
  BY ConcatProperties
<1>3. /\ Len(c) = lp + lq
      /\ \A i \in 1 .. lp + lq : c[i] = IF i <= lp THEN p[i] ELSE q[i - lp]
  BY ConcatProperties
<1>4. /\ r \in Seq(S) /\ Len(r) = lb - lp
      /\ \A i \in 1 .. lb - lp : r[i] = b[lp + i]
  <2>1. \A i \in lp + 1 .. lb : b[i] \in S
    BY <1>1
  <2>2. r \in Seq(S) /\ Len(r) = IF lp + 1 <= lb THEN lb - (lp + 1) + 1 ELSE 0
    BY <1>1, <2>1, SubSeqProperties
  <2>3. \A i \in 1 .. lb - lp : r[i] = b[lp + i]
    BY <1>1
  <2>4. QED
    BY <1>1, <2>2, <2>3
<1>5. a = c
  OBVIOUS
<1> DEFINE d == r \o w
<1>6. /\ d \in Seq(S) /\ Len(d) = (lb - lp) + lw
      /\ \A i \in 1 .. (lb - lp) + lw : d[i] = IF i <= lb - lp THEN r[i] ELSE w[i - (lb - lp)]
  <2> HIDE DEF r, lb, lp, lw
  <2>1. /\ d \in Seq(S) /\ Len(d) = Len(r) + Len(w)
        /\ \A i \in 1 .. Len(r) + Len(w) : d[i] = IF i <= Len(r) THEN r[i] ELSE w[i - Len(r)]
    BY <1>4, ConcatProperties, Zenon
  <2>2. QED
    BY <1>4, <2>1, Zenon DEF lw
<1> HIDE DEF a, c, r, lb, lp, lw, lq, d
<1>7. \A i \in 1 .. lp : b[i] = p[i]
  BY <1>1, <1>2, <1>3, <1>5
<1>8. Len(d) = lq /\ \A i \in 1 .. lq : d[i] = q[i]
  <2>1. Len(d) = lq
    BY <1>1, <1>2, <1>3, <1>5, <1>6
  <2>2. ASSUME NEW i \in 1 .. lq PROVE d[i] = q[i]
    <3>1. lp + i \in 1 .. lp + lq /\ ~ (lp + i <= lp) /\ (lp + i) - lp = i /\ i \in Int
      BY <1>1
    <3>2. q[i] = a[lp + i]
      BY <1>3, <1>5, <3>1
    <3>3. lb + lw = lp + lq
      BY <1>2, <1>3, <1>5
    <3>4. lp + i \in 1 .. lb + lw /\ i \in 1 .. (lb - lp) + lw
      BY <1>1, <3>1, <3>3
    <3>5. CASE i <= lb - lp
      <4>1. lp + i <= lb /\ i \in 1 .. lb - lp
        BY <1>1, <3>1, <3>5
      <4>2. d[i] = b[lp + i] /\ a[lp + i] = b[lp + i]
        BY <1>2, <1>4, <1>6, <3>4, <3>5, <4>1
      <4>3. QED
        BY <3>2, <4>2
    <3>6. CASE ~ (i <= lb - lp)
      <4>1. ~ (lp + i <= lb) /\ (lp + i) - lb = i - (lb - lp)
        BY <1>1, <3>1, <3>6
      <4>2. d[i] = w[i - (lb - lp)] /\ a[lp + i] = w[(lp + i) - lb]
        BY <1>2, <1>6, <3>4, <3>6, <4>1
      <4>3. QED
        BY <3>2, <4>1, <4>2
    <3>7. QED
      BY <3>5, <3>6
  <2>3. QED
    BY <2>1, <2>2, Zenon
<1>9. QED
  BY <1>4, <1>6, <1>7, <1>8, Zenon DEF r, d, lp, lb, lq

\* A line of the protocol.
LEMMA LineIs ==
  ASSUME NEW x \in Character
  PROVE  LET p == <<x>> \o Crlf
         IN  /\ p \in Seq(Character) /\ Len(p) = 3
             /\ p[1] = x /\ p[2] = Char("r") /\ p[3] = Char("n")
<1> DEFINE r == Char("r")
           n == Char("n")
<1>1. r \in Character /\ n \in Character
  <2>1. "r" \in Alphabet /\ "n" \in Alphabet
    <3>1. "r" \in Protocol /\ "n" \in Protocol
      BY DEF Protocol
    <3>2. QED
      BY <3>1, Zenon DEF Alphabet
  <2>2. QED
    BY <2>1, Zenon DEF Character, Char
<1> HIDE DEF r, n
<1>2. Crlf = <<r, n>>
  BY Zenon DEF Crlf, r, n
<1> HIDE DEF Character
<1> DEFINE a == <<x>>
           b == <<r, n>>
           p == a \o b
<1>3. /\ a \in Seq(Character) /\ Len(a) = 1 /\ a[1] = x
      /\ b \in Seq(Character) /\ Len(b) = 2 /\ b[1] = r /\ b[2] = n
  BY <1>1
<1> HIDE DEF a, b
<1>4. /\ p \in Seq(Character) /\ Len(p) = 1 + 2
      /\ \A i \in 1 .. 1 + 2 : p[i] = IF i <= 1 THEN a[i] ELSE b[i - 1]
  BY <1>3, ConcatProperties
<1> HIDE DEF p
<1>5. p \in Seq(Character) /\ Len(p) = 3 /\ p[1] = x /\ p[2] = r /\ p[3] = n
  BY <1>3, <1>4
<1>6. QED
  BY <1>2, <1>5, Zenon DEF p, a, b, r, n

\* What is behind the first n characters of the buffer.
Rest(n) == SubSeq(buf, n + 1, Len(buf))

\* When the front of what is left is in the buffer, it can be read off.
LEMMA FrontRead ==
  ASSUME buf \in Seq(Character), wire \in Seq(Character),
         NEW p \in Seq(Character), NEW q \in Seq(Character), Left = p \o q, Len(p) <= Len(buf)
  PROVE  /\ \A i \in 1 .. Len(p) : buf[i] = p[i]
         /\ Rest(Len(p)) \in Seq(Character) /\ Rest(Len(p)) \o wire = q
<1> HIDE DEF Character
<1>1. buf \o wire = p \o q
  BY DEF Left
<1> DEFINE d == SubSeq(buf, Len(p) + 1, Len(buf)) \o wire
<1>2. /\ \A i \in 1 .. Len(p) : buf[i] = p[i]
      /\ SubSeq(buf, Len(p) + 1, Len(buf)) \in Seq(Character)
  BY <1>1, FrontGone
<1>3. d \in Seq(Character) /\ Len(d) = Len(q) /\ \A i \in 1 .. Len(q) : d[i] = q[i]
  <2>1. d \in Seq(Character) /\ Len(d) = Len(q)
    BY <1>1, FrontGone
  <2>2. \A i \in 1 .. Len(q) : d[i] = q[i]
    BY <1>1, FrontGone
  <2>3. QED
    BY <2>1, <2>2
<1> HIDE DEF d
<1>4. d = q
  BY <1>3, SeqEqual
<1>5. QED
  BY <1>2, <1>4, Zenon DEF d, Rest

\* The line that is read first is the first line that is left, and all that
\* is behind it stays.
LEMMA FirstLine ==
  ASSUME buf \in Seq(Character), wire \in Seq(Character), HasLine,
         NEW p \in Seq(Character), NEW q \in Seq(Character), Left = p \o q,
         p # <<>>, p[Len(p)] = Char("n"), \A i \in 1 .. Len(p) - 1 : p[i] # Char("n")
  PROVE  /\ Behind \in Seq(Character) /\ Behind \o wire = q
         /\ buf[1] = p[1]
<1> DEFINE n == Char("n")
           lp == Len(p)
           lb == Len(buf)
           B == {i \in DOMAIN buf : buf[i] = n}
<1> HIDE DEF Character, n
<1>1. lp \in Nat /\ lb \in Nat /\ lp >= 1 /\ DOMAIN buf = 1 .. lb
  BY LenProperties
<1>2. PICK j \in 1 .. lb : buf[j] = n
  BY <1>1 DEF HasLine, Range, n
<1>3. lp <= lb
  <2>1. SUFFICES ASSUME ~ (lp <= lb) PROVE FALSE
    OBVIOUS
  <2>2. p[j] = buf[j]
    <3>1. \A i \in 1 .. lb : (buf \o wire)[i] = buf[i]
      BY <1>1, ConcatProperties
    <3>2. \A i \in 1 .. lp : (p \o q)[i] = p[i]
      BY <1>1, ConcatProperties
    <3>3. j \in 1 .. lp
      BY <1>1, <2>1
    <3>4. QED
      BY <3>1, <3>2, <3>3 DEF Left
  <2>3. j \in 1 .. lp - 1
    BY <1>1, <2>1
  <2>4. p[j] # n
    BY <2>3 DEF n
  <2>5. QED
    BY <1>2, <2>2, <2>4
<1>4. /\ \A i \in 1 .. lp : buf[i] = p[i]
      /\ Rest(lp) \in Seq(Character) /\ Rest(lp) \o wire = q
  BY <1>3, FrontRead, Zenon
<1>5. FirstBreak = lp
  <2>1. lp \in B
    <3>1. p[lp] = n
      BY Zenon DEF n
    <3>2. lp \in 1 .. lp /\ lp \in 1 .. lb
      BY <1>1, <1>3
    <3>3. buf[lp] = n
      BY <1>4, <3>1, <3>2
    <3>4. QED
      BY <1>1, <3>2, <3>3
  <2>2. ASSUME NEW i \in B PROVE lp <= i
    <3>1. i \in 1 .. lb /\ buf[i] = n
      BY <1>1
    <3>2. SUFFICES ASSUME ~ (lp <= i) PROVE FALSE
      OBVIOUS
    <3>3. i \in 1 .. lp - 1 /\ i \in 1 .. lp
      BY <1>1, <3>1, <3>2
    <3>4. QED
      BY <1>4, <3>1, <3>3 DEF n
  <2>3. B \subseteq Nat
    BY <1>1
  <2>4. FirstBreak = CHOOSE x \in B : \A y \in B : x <= y
    BY Zenon DEF FirstBreak, Min, n
  <2> HIDE DEF B, lp
  <2>5. QED
    <3> DEFINE m == CHOOSE x \in B : \A y \in B : x <= y
    <3>1. m \in B /\ \A y \in B : m <= y
      BY <2>1, <2>2, Zenon
    <3>2. m <= lp /\ lp <= m /\ m \in Nat /\ lp \in Nat
      BY <1>1, <2>1, <2>2, <2>3, <3>1
    <3> HIDE DEF m
    <3>3. m = lp
      BY <3>2
    <3>4. QED
      BY <2>4, <3>3, Zenon DEF m
<1>6. buf[1] = p[1]
  BY <1>1, <1>4
<1>7. QED
  BY <1>4, <1>5, <1>6, Zenon DEF Behind, Rest

\* What is read of <<x>> and a line break.
LEMMA LineRead ==
  ASSUME buf \in Seq(Character), wire \in Seq(Character), HasLine,
         NEW x \in Character, x # Char("n"), NEW q \in Seq(Character),
         Left = (<<x>> \o Crlf) \o q
  PROVE  Behind \in Seq(Character) /\ Behind \o wire = q /\ buf[1] = x
<1> DEFINE p == <<x>> \o Crlf
<1>1. /\ p \in Seq(Character) /\ Len(p) = 3
      /\ p[1] = x /\ p[2] = Char("r") /\ p[3] = Char("n")
  BY LineIs, Zenon
<1>2. Char("r") # Char("n")
  BY DEF Char
<1>3. Left = p \o q
  OBVIOUS
<1> DEFINE n == Char("n")
<1> HIDE DEF p, n, Character
<1>4. p # <<>> /\ p[Len(p)] = n /\ \A i \in 1 .. Len(p) - 1 : p[i] # n
  <2>1. p # <<>> /\ p[Len(p)] = n
    <3>1. p = <<>> => Len(p) = 0
      BY EmptySeq
    <3>2. p # <<>>
      BY <1>1, <3>1
    <3>3. QED
      BY <1>1, <3>2, Zenon DEF n
  <2>2. p[1] # n /\ p[2] # n
    BY <1>1, <1>2, Zenon DEF n
  <2>3. \A i \in 1 .. Len(p) - 1 : i = 1 \/ i = 2
    BY <1>1
  <2>4. QED
    BY <2>1, <2>2, <2>3, Zenon
<1>5. Behind \in Seq(Character) /\ Behind \o wire = q /\ buf[1] = p[1]
  BY <1>1, <1>3, <1>4, FirstLine, Zenon DEF n
<1>6. QED
  BY <1>1, <1>5, Zenon

\* The pieces replies are made of.
LEMMA PiecesAre ==
  /\ \A c \in Protocol : Char(c) \in Character
  /\ \A n \in Nat : <<"VALUE", n>> \in Character
  /\ Crlf \in Seq(Character) /\ Len(Crlf) = 2
  /\ \A v \in Values : /\ Chars(v) \in Seq(Character) /\ Len(Chars(v)) = Len(v)
                       /\ Len(v) \in Nat /\ \A i \in 1 .. Len(v) : Chars(v)[i] = <<v[i], 0>>
<1>1. \A c \in Protocol : Char(c) \in Character
  BY Zenon DEF Character, Alphabet, Char
<1>2. \A n \in Nat : <<"VALUE", n>> \in Character
  BY Zenon DEF Character
<1>3. Crlf \in Seq(Character) /\ Len(Crlf) = 2
  <2>1. "r" \in Protocol /\ "n" \in Protocol
    BY DEF Protocol
  <2> DEFINE r == Char("r")
             n == Char("n")
  <2>2. r \in Character /\ n \in Character
    BY <1>1, <2>1, Zenon
  <2> HIDE DEF r, n
  <2>3. <<r, n>> \in Seq(Character) /\ Len(<<r, n>>) = 2
    BY <2>2
  <2>4. QED
    BY <2>3, Zenon DEF Crlf, r, n
<1>4. ASSUME NEW v \in Values
      PROVE  /\ Chars(v) \in Seq(Character) /\ Len(Chars(v)) = Len(v)
             /\ Len(v) \in Nat /\ \A i \in 1 .. Len(v) : Chars(v)[i] = <<v[i], 0>>
  <2>1. v \in Seq(Range(v))
    BY WireAssumption
  <2>2. Len(v) \in Nat /\ DOMAIN v = 1 .. Len(v)
    BY <2>1, LenProperties, Zenon
  <2>3. \A i \in 1 .. Len(v) : <<v[i], 0>> \in Character
    <3>1. \A i \in 1 .. Len(v) : v[i] \in Range(v)
      BY <2>2, Zenon DEF Range
    <3>2. \A i \in 1 .. Len(v) : v[i] \in Alphabet
      BY <3>1, Zenon DEF Alphabet
    <3>3. QED
      BY <3>2, Zenon DEF Character
  <2>4. Chars(v) = [i \in 1 .. Len(v) |-> <<v[i], 0>>]
    BY <2>2, Zenon DEF Chars, Char
  <2> DEFINE e(i) == <<v[i], 0>>
             c == [i \in 1 .. Len(v) |-> e(i)]
             l == Len(v)
  <2>5. \A i \in 1 .. l : c[i] = e(i) /\ c[i] \in Character
    BY <2>3
  <2> HIDE DEF e, l
  <2>6. c = [i \in 1 .. l |-> c[i]] /\ DOMAIN c = 1 .. l
    BY DEF l
  <2> HIDE DEF c
  <2>7. c \in [1 .. l -> Character]
    BY <2>5, <2>6
  <2>8. c \in Seq(Character)
    BY <2>2, <2>7, IsASeq DEF l
  <2>9. Len(c) = l
    BY <2>2, <2>6, <2>8 DEF l
  <2>10. QED
    BY <2>2, <2>4, <2>5, <2>8, <2>9, Zenon DEF c, e, l
<1>5. QED
  BY <1>1, <1>2, <1>3, <1>4, Zenon

\* The lines of the keys.
LEMMA KeyLinesAre ==
  /\ KeyLines(0) = <<>>
  /\ \A k \in Nat : KeyLines(k) \in Seq(Character)
  /\ \A k \in Nat : KeyLines(k + 1) = <<Char("key="), Char("n")>> \o KeyLines(k)
<1> DEFINE a == Char("key=")
           b == Char("n")
<1>1. a \in Character /\ b \in Character
  <2>1. "key=" \in Protocol /\ "n" \in Protocol
    BY DEF Protocol
  <2>2. QED
    BY <2>1, PiecesAre, Zenon
<1> HIDE DEF Character
<1>2. \A k : KeyLines(k) = [i \in 1 .. 2 * k |-> IF i % 2 = 1 THEN a ELSE b]
  <2>1. \A i : Char(IF i % 2 = 1 THEN "key=" ELSE "n") = IF i % 2 = 1 THEN a ELSE b
    BY Zenon
  <2>2. QED
    BY <2>1 DEF KeyLines
<1> HIDE DEF a, b
<1>3. ASSUME NEW k \in Nat
      PROVE  /\ KeyLines(k) \in Seq(Character) /\ Len(KeyLines(k)) = 2 * k
             /\ \A i \in 1 .. 2 * k : KeyLines(k)[i] = IF i % 2 = 1 THEN a ELSE b
  <2> DEFINE s == KeyLines(k)
  <2>1. 2 * k \in Nat
    OBVIOUS
  <2>2. s = [i \in 1 .. 2 * k |-> IF i % 2 = 1 THEN a ELSE b]
    BY <1>2, Zenon
  <2> HIDE DEF s
  <2>3. s \in [1 .. 2 * k -> Character]
    BY <1>1, <2>2
  <2>4. s \in Seq(Character)
    BY <2>1, <2>3, IsASeq
  <2>5. Len(s) = 2 * k
    BY <2>1, <2>3, <2>4
  <2>6. \A i \in 1 .. 2 * k : s[i] = IF i % 2 = 1 THEN a ELSE b
    BY <2>2
  <2>7. QED
    BY <2>4, <2>5, <2>6, Zenon DEF s
<1>4. KeyLines(0) = <<>>
  <2>1. KeyLines(0) = [i \in 1 .. 2 * 0 |-> IF i % 2 = 1 THEN a ELSE b]
    BY <1>2, Zenon
  <2>2. 1 .. 2 * 0 = {}
    OBVIOUS
  <2>3. QED
    BY <2>1, <2>2
<1>5. ASSUME NEW k \in Nat
      PROVE  KeyLines(k + 1) = <<a, b>> \o KeyLines(k)
  <2> DEFINE s == KeyLines(k)
             t == KeyLines(k + 1)
             p == <<a, b>>
             u == p \o s
  <2>1. /\ s \in Seq(Character) /\ Len(s) = 2 * k
        /\ \A i \in 1 .. 2 * k : s[i] = IF i % 2 = 1 THEN a ELSE b
    BY <1>3
  <2>2. k + 1 \in Nat /\ 2 * (k + 1) = 2 * k + 2
    OBVIOUS
  <2>3. /\ t \in Seq(Character) /\ Len(t) = 2 * k + 2
        /\ \A i \in 1 .. 2 * k + 2 : t[i] = IF i % 2 = 1 THEN a ELSE b
    <3>1. /\ t \in Seq(Character) /\ Len(t) = 2 * (k + 1)
          /\ \A i \in 1 .. 2 * (k + 1) : t[i] = IF i % 2 = 1 THEN a ELSE b
      BY <1>3, <2>2, Zenon
    <3> HIDE DEF t
    <3>2. QED
      BY <2>2, <3>1
  <2>4. p \in Seq(Character) /\ Len(p) = 2 /\ p[1] = a /\ p[2] = b
    BY <1>1
  <2> HIDE DEF s, t, p
  <2>5. /\ u \in Seq(Character) /\ Len(u) = 2 + 2 * k
        /\ \A i \in 1 .. 2 + 2 * k : u[i] = IF i <= 2 THEN p[i] ELSE s[i - 2]
    <3>1. /\ u \in Seq(Character) /\ Len(u) = Len(p) + Len(s)
          /\ \A i \in 1 .. Len(p) + Len(s) : u[i] = IF i <= Len(p) THEN p[i] ELSE s[i - Len(p)]
      BY <2>1, <2>4, ConcatProperties, Zenon
    <3>2. QED
      BY <2>1, <2>4, <3>1, Zenon
  <2> HIDE DEF u
  <2>6. ASSUME NEW i \in 1 .. 2 * k + 2 PROVE t[i] = u[i]
    <3>1. CASE i <= 2
      <4>1. i = 1 \/ i = 2
        BY <3>1
      <4>2. 1 % 2 = 1 /\ 2 % 2 = 0
        OBVIOUS
      <4>3. t[i] = IF i = 1 THEN a ELSE b
        BY <2>3, <4>1, <4>2
      <4>4. u[i] = IF i = 1 THEN a ELSE b
        BY <2>4, <2>5, <3>1, <4>1
      <4>5. QED
        BY <4>3, <4>4
    <3>2. CASE ~ (i <= 2)
      <4>1. i - 2 \in 1 .. 2 * k /\ (i - 2) % 2 = i % 2 /\ i \in 1 .. 2 + 2 * k
        BY <3>2
      <4>2. u[i] = s[i - 2]
        BY <2>5, <3>2, <4>1
      <4>3. s[i - 2] = IF (i - 2) % 2 = 1 THEN a ELSE b
        BY <2>1, <4>1
      <4>4. t[i] = IF i % 2 = 1 THEN a ELSE b
        BY <2>3
      <4>5. QED
        BY <4>1, <4>2, <4>3, <4>4, Zenon
    <3>3. QED
      BY <3>1, <3>2
  <2>7. Len(t) = Len(u) /\ \A i \in 1 .. Len(t) : t[i] = u[i]
    BY <2>3, <2>5, <2>6
  <2>8. t = u
    BY <2>3, <2>5, <2>7, SeqEqual
  <2>9. QED
    BY <2>8, Zenon DEF t, u, p, s
<1>6. QED
  BY <1>3, <1>4, <1>5, Zenon DEF a, b

\* The words that the handler knows.
LEMMA WordsKnown ==
  /\ {"END", "STORED", "NOT_FOUND", "DELETED", "ERROR", "STAT", "key="} \subseteq Protocol
  /\ "n" \notin {"END", "STORED", "NOT_FOUND", "DELETED", "ERROR", "STAT", "key="}
BY DEF Protocol

\* A line of one of them.
LEMMA LinesAre ==
  ASSUME NEW c \in Protocol
  PROVE  Line(c) \in Seq(Character)
<1>1. Char(c) \in Character
  BY PiecesAre, Zenon
<1>2. <<Char(c)>> \o Crlf \in Seq(Character)
  BY <1>1, LineIs, Zenon
<1>3. QED
  BY <1>2, Zenon DEF Line

\* What is behind the reply, if the key is broken.
LEMMA ExtraIs == Extra \in Seq(Character) /\ (~cmd.broken => Extra = <<>>)
<1>1. "ERROR" \in Protocol /\ <<>> \in Seq(Character)
  BY WordsKnown, EmptySeq, Zenon
<1>2. Line("ERROR") \in Seq(Character)
  BY <1>1, LinesAre, Zenon
<1>3. QED
  BY <1>1, <1>2, Zenon DEF Extra

\* The handler and the server before the reply comes.
LEMMA WireBegins == WireInit => WireInv
<1>1. SUFFICES ASSUME WireInit PROVE WireInv
  OBVIOUS
<1>2. /\ cache \in Values \cup {Absent}
      /\ cmd \in Commands /\ cmd.was = cache
      /\ cmd.broken => cmd.op \in {"get", "set", "delete"}
      /\ does = "connect" /\ wire = <<>> /\ buf = <<>> /\ result = <<>> /\ code = 0
  BY <1>1, Zenon DEF WireInit
<1>3. <<>> \in Seq(Character)
  OBVIOUS
<1> HIDE DEF Character
<1>4. QED
  BY <1>2, <1>3 DEF WireInv, Commands

\* An error is an answer that promises nothing.
LEMMA ErrorsSayNothing ==
  ASSUME WireInv, Done(400) \/ Done(500) \/ Done(502), UNCHANGED <<cache, cmd, wire>>,
         buf' \in Seq(Character)
  PROVE  WireInv'
<1>1. code' \in {400, 500, 502} /\ does' = "done"
  BY Zenon DEF Done
<1>2. WireExact'
  BY <1>1 DEF WireExact
<1>3. /\ cmd' \in Commands /\ (cmd'.broken => cmd'.op \in {"get", "set", "delete"})
      /\ cache' \in Values \cup {Absent}
      /\ wire' \in Seq(Character)
  BY DEF WireInv
<1> HIDE DEF Character
<1>4. QED
  BY <1>1, <1>2, <1>3 DEF WireInv

\* A reply starts whole, and the cache is what the command makes of it.
LEMMA SendKept == WireInv /\ SendCommand => WireInv'
<1> SUFFICES ASSUME WireInv, SendCommand PROVE WireInv'
  OBVIOUS
<1>1. /\ does = "connect" /\ cmd.op # "bad" /\ does' = "line"
      /\ \/ /\ ~Garbled /\ wire' = Replied
            /\ cache' = CASE cmd.op = "set" -> Kept [] cmd.op = "delete" -> Absent
                          [] OTHER -> cache
         \/ /\ ~Garbled /\ wire' = Line("ERROR") \o Extra
            /\ cache' \in {cache} \cup (IF cmd.op = "set" THEN {Absent} ELSE {})
         \/ /\ Garbled /\ wire' = Line("ERROR") \o Line("ERROR")
            /\ cache' \in Values \cup {Absent}
      /\ UNCHANGED <<cmd, buf, size, result, code>>
  BY Zenon DEF SendCommand
<1>2. /\ cmd \in Commands /\ (cmd.broken => cmd.op \in {"get", "set", "delete"})
      /\ cache \in Values \cup {Absent}
      /\ buf = <<>> /\ wire = <<>> /\ result = <<>> /\ cache = cmd.was /\ code = 0
  BY <1>1 DEF WireInv
<1>3. \A c \in Protocol : Line(c) \in Seq(Character)
  BY LinesAre
<1>4. {"END", "STORED", "NOT_FOUND", "DELETED", "ERROR", "STAT"} \subseteq Protocol
  BY DEF Protocol
<1>5. ASSUME NEW s \in Seq(Character), wire' = s PROVE Left' = s
  <2>1. buf' = <<>>
    BY <1>1, <1>2
  <2>2. <<>> \o s = s
    BY ConcatEmptySeq, Zenon
  <2>3. QED
    BY <1>5, <2>1, <2>2, Zenon DEF Left
<1>6. wire' \in Seq(Character) /\ cache' \in Values \cup {Absent} /\ AtLine'
  <2>0. /\ Line("ERROR") \in Seq(Character) /\ Line("END") \in Seq(Character)
        /\ Extra \in Seq(Character) /\ Extra' = Extra /\ Kept' = Kept /\ cmd' = cmd
    BY <1>1, <1>3, <1>4, ExtraIs DEF Extra, Kept
  <2>1. ASSUME NEW q \in Seq(Character), wire' = Line("ERROR") \o q, cmd.op # "stats",
               cache' \in Values \cup {Absent}
        PROVE  wire' \in Seq(Character) /\ cache' \in Values \cup {Absent} /\ AtLine'
    <3>1. Line("ERROR") \o q \in Seq(Character)
      BY <2>0, ConcatProperties, Zenon
    <3>2. Left' = Line("ERROR") \o q /\ cmd'.op # "stats"
      BY <1>5, <2>0, <2>1, <3>1, Zenon
    <3>3. QED
      BY <2>1, <3>1, <3>2, Zenon DEF AtLine
  <2>1a. CASE /\ ~Garbled /\ wire' = Line("ERROR") \o Extra
              /\ cache' \in {cache} \cup (IF cmd.op = "set" THEN {Absent} ELSE {})
    <3>1. cache' \in Values \cup {Absent}
      BY <1>2, <2>1a
    <3>2. CASE cmd.op # "stats"
      BY <2>0, <2>1, <2>1a, <3>1, <3>2, Zenon
    <3>3. CASE cmd.op = "stats"
      <4>1. Extra = <<>>
        BY <1>2, <3>3, ExtraIs
      <4>2. wire' = Line("ERROR")
        BY <2>0, <2>1a, <4>1, ConcatEmptySeq, Zenon
      <4>3. Left' = Line("ERROR") /\ cmd'.op = "stats"
        BY <1>5, <2>0, <3>3, <4>2, Zenon
      <4>4. QED
        BY <2>0, <3>1, <4>2, <4>3, Zenon DEF AtLine
    <3>4. QED
      BY <3>2, <3>3, Zenon
  <2>1b. CASE /\ Garbled /\ wire' = Line("ERROR") \o Line("ERROR")
              /\ cache' \in Values \cup {Absent}
    <3>1. cmd.op # "stats"
      BY <2>1b DEF Garbled
    <3>2. QED
      BY <2>0, <2>1, <2>1b, <3>1, Zenon
  <2>2. CASE /\ ~Garbled /\ wire' = Replied
             /\ cache' = CASE cmd.op = "set" -> Kept [] cmd.op = "delete" -> Absent
                           [] OTHER -> cache
    <3>1. CASE cmd.op = "get" /\ cache # Absent
      <4> DEFINE a == ValueLine(Len(cache))
                 b == Chars(cache) \o Crlf
                 e == Line("END") \o Extra
                 s == a \o (b \o e)
      <4>1. cache \in Values
        BY <1>2, <3>1
      <4>2. a \in Seq(Character)
        <5>1. Len(cache) \in Nat
          BY <4>1, PiecesAre, Zenon
        <5>2. <<"VALUE", Len(cache)>> \in Character
          BY <5>1, PiecesAre, Zenon
        <5>3. <<<<"VALUE", Len(cache)>>>> \o Crlf \in Seq(Character)
          BY <5>2, LineIs, Zenon
        <5>4. QED
          BY <5>3, Zenon DEF ValueLine
      <4>3. b \in Seq(Character)
        BY <4>1, PiecesAre, ConcatProperties, Zenon
      <4>4. e \in Seq(Character)
        BY <2>0, ConcatProperties, Zenon
      <4> HIDE DEF a, b, e
      <4>5. s \in Seq(Character)
        BY <4>2, <4>3, <4>4, ConcatProperties, Zenon
      <4>6. wire' = s
        <5>1. Replied = ValueLine(Len(cache)) \o ((Chars(cache) \o Crlf) \o (Line("END") \o Extra))
          BY <3>1 DEF Replied
        <5>2. QED
          BY <2>2, <5>1, Zenon DEF a, b, e
      <4>7. Left' = s
        BY <1>5, <4>5, <4>6, Zenon
      <4>8. cache' = cache /\ cmd' = cmd
        BY <1>1, <2>2, <3>1
      <4> HIDE DEF s
      <4>9. cmd'.op = "get" /\ cache' = cmd'.was /\ cache' # Absent
        BY <1>2, <3>1, <4>8, Zenon
      <4>10. Left' = a \o (b \o e)
        BY <4>7, Zenon DEF s
      <4>11. Left' = ValueLine(Len(cache'))
                       \o ((Chars(cache') \o Crlf) \o (Line("END") \o Extra'))
        BY <2>0, <4>8, <4>10, Zenon DEF a, b, e
      <4>12. AtLine'
        BY <4>9, <4>11, Zenon DEF AtLine
      <4>13. QED
        BY <1>2, <4>5, <4>6, <4>8, <4>12, Zenon
    <3>2. CASE cmd.op = "get" /\ cache = Absent
      <4>1. wire' = Line("END") \o Extra /\ cache' = cache /\ cmd' = cmd
        BY <1>1, <2>2, <3>2 DEF Replied
      <4>2. Line("END") \o Extra \in Seq(Character)
        BY <2>0, ConcatProperties, Zenon
      <4>3. Left' = Line("END") \o Extra'
        BY <1>5, <2>0, <4>1, <4>2, Zenon
      <4>4. cmd'.op = "get" /\ cache' = cmd'.was /\ cache' = Absent
        BY <1>2, <3>2, <4>1, Zenon
      <4>5. AtLine'
        BY <4>3, <4>4, Zenon DEF AtLine
      <4>6. QED
        BY <1>2, <4>1, <4>2, <4>5, Zenon
    <3>3. CASE cmd.op = "set"
      <4>1. wire' = Line("STORED") /\ cache' = Kept /\ cmd' = cmd /\ ~cmd.broken
        BY <1>1, <2>2, <3>3 DEF Replied, Garbled
      <4>2. Line("STORED") \in Seq(Character) /\ Kept \in Values \cup {Absent}
        BY <1>2, <1>3, <1>4 DEF Kept, Commands
      <4>3. Left' = Line("STORED")
        BY <1>5, <4>1, <4>2, Zenon
      <4>4. cmd'.op = "set" /\ ~cmd'.broken /\ cache' = Kept'
        BY <2>0, <3>3, <4>1, Zenon
      <4>5. AtLine'
        BY <4>3, <4>4, Zenon DEF AtLine
      <4>6. QED
        BY <4>1, <4>2, <4>5, Zenon
    <3>4. CASE cmd.op = "delete"
      <4> DEFINE word == IF cmd.was = Absent THEN "NOT_FOUND" ELSE "DELETED"
      <4>1. wire' = Line(word) \o Extra /\ cache' = Absent /\ cmd' = cmd
        BY <1>1, <1>2, <2>2, <3>4 DEF Replied
      <4>2. Line(word) \o Extra \in Seq(Character)
        <5>1. Line(word) \in Seq(Character)
          BY <1>3, <1>4
        <5>2. QED
          BY <2>0, <5>1, ConcatProperties, Zenon
      <4>3. Left' = Line(word) \o Extra'
        BY <1>5, <2>0, <4>1, <4>2, Zenon
      <4>4. cmd'.op = "delete"
        BY <3>4, <4>1, Zenon
      <4>5. AtLine'
        BY <4>1, <4>3, <4>4, Zenon DEF AtLine
      <4>6. QED
        BY <4>1, <4>2, <4>5, Zenon
    <3>5. CASE cmd.op = "keys"
      <4> DEFINE s == KeyLines(Listing) \o Line("END")
      <4>1. wire' = s /\ cache' = cache /\ cmd' = cmd /\ result' = result
        BY <1>1, <2>2, <3>5 DEF Replied
      <4>2. s \in Seq(Character)
        <5>1. Line("END") \in Seq(Character) /\ Listing \in Nat
          BY <1>3, <1>4, WireAssumption
        <5>2. QED
          BY <5>1, KeyLinesAre, ConcatProperties, Zenon
      <4>3. Left' = s
        BY <1>5, <4>1, <4>2, Zenon
      <4>4. cmd'.op = "keys" /\ result' = <<>>
        BY <1>2, <3>5, <4>1, Zenon
      <4>5. Listing \in 0 .. Listing /\ Listing - Listing = 0 /\ MaxKeys \in Nat
        BY WireAssumption
      <4>6. Len(<<>>) = Min({MaxKeys, Listing - Listing}) /\ <<>> \in Seq({"key="})
        <5>1. Min({MaxKeys, 0}) = 0
          BY <4>5, Lesser
        <5>2. QED
          BY <4>5, <5>1
      <4>7. AtLine'
        BY <4>3, <4>4, <4>5, <4>6, Zenon DEF AtLine
      <4>8. QED
        BY <1>2, <4>1, <4>2, <4>7, Zenon
    <3>6. CASE cmd.op = "stats"
      <4> DEFINE s == Line("STAT") \o Line("END")
      <4>1. wire' = s /\ cache' = cache /\ cmd' = cmd
        BY <1>1, <2>2, <3>6 DEF Replied
      <4>2. s \in Seq(Character)
        <5>1. Line("END") \in Seq(Character) /\ Line("STAT") \in Seq(Character)
          BY <1>3, <1>4
        <5>2. QED
          BY <5>1, ConcatProperties, Zenon
      <4>3. Left' = s
        BY <1>5, <4>1, <4>2, Zenon
      <4>4. cmd'.op = "stats"
        BY <3>6, <4>1, Zenon
      <4>5. AtLine'
        BY <4>3, <4>4, Zenon DEF AtLine
      <4>6. QED
        BY <1>2, <4>1, <4>2, <4>5, Zenon
    <3>7. cmd.op \in {"get", "set", "delete", "stats", "keys"}
      BY <1>1, <1>2 DEF Commands
    <3>8. QED
      BY <3>1, <3>2, <3>3, <3>4, <3>5, <3>6, <3>7, Zenon
  <2>3. QED
    BY <1>1, <2>1a, <2>1b, <2>2, Zenon
<1>7. buf' \in Seq(Character) /\ code' = 0 /\ does' = "line"
  <2>1. <<>> \in Seq(Character)
    OBVIOUS
  <2>2. QED
    BY <1>1, <1>2, <2>1
<1>8. QED
  <2> HIDE DEF Character
  <2>1. cmd' = cmd
    BY <1>1
  <2>2. QED
    BY <1>2, <1>6, <1>7, <2>1 DEF WireInv

\* recv() moves a piece of the reply from the wire to the buffer.
LEMMA ReceiveKept == WireInv /\ Receive => WireInv'
<1> SUFFICES ASSUME WireInv, Receive PROVE WireInv'
  OBVIOUS
<1>1. /\ does \in {"line", "value", "end"}
      /\ \E n \in 1 .. Len(wire) : /\ buf' = buf \o SubSeq(wire, 1, n)
                                   /\ wire' = SubSeq(wire, n + 1, Len(wire))
      /\ UNCHANGED <<cache, cmd, does, size, result, code>>
  BY Zenon DEF Receive
<1>2. buf \in Seq(Character) /\ wire \in Seq(Character)
  BY DEF WireInv
<1> HIDE DEF Character
<1>3. PICK n \in 1 .. Len(wire) : /\ buf' = buf \o SubSeq(wire, 1, n)
                                  /\ wire' = SubSeq(wire, n + 1, Len(wire))
  BY <1>1
<1> DEFINE a == SubSeq(wire, 1, n)
           b == SubSeq(wire, n + 1, Len(wire))
<1>4. /\ a \in Seq(Character) /\ b \in Seq(Character) /\ a \o b = wire
  <2> DEFINE l == Len(wire)
             d == a \o b
  <2>1. l \in Nat /\ n \in 1 .. l /\ n \in Nat
    BY <1>2, LenProperties
  <2>2. a \in Seq(Character) /\ Len(a) = n /\ \A i \in 1 .. n : a[i] = wire[i]
    <3>1. \A i \in 1 .. n : wire[i] \in Character
      BY <1>2, <2>1
    <3>2. a \in Seq(Character) /\ Len(a) = IF 1 <= n THEN n - 1 + 1 ELSE 0
      BY <2>1, <3>1, SubSeqProperties
    <3>3. \A i \in 1 .. n : a[i] = wire[i]
      BY <2>1
    <3>4. QED
      BY <2>1, <3>2, <3>3
  <2>3. b \in Seq(Character) /\ Len(b) = l - n /\ \A i \in 1 .. l - n : b[i] = wire[n + i]
    <3>1. \A i \in n + 1 .. l : wire[i] \in Character
      BY <1>2, <2>1
    <3>2. b \in Seq(Character) /\ Len(b) = IF n + 1 <= l THEN l - (n + 1) + 1 ELSE 0
      BY <2>1, <3>1, SubSeqProperties
    <3>3. \A i \in 1 .. l - n : b[i] = wire[n + i]
      BY <2>1
    <3>4. QED
      BY <2>1, <3>2, <3>3
  <2> HIDE DEF a, b, l
  <2>4. /\ d \in Seq(Character) /\ Len(d) = Len(a) + Len(b)
        /\ \A i \in 1 .. Len(a) + Len(b) : d[i] = IF i <= Len(a) THEN a[i] ELSE b[i - Len(a)]
    BY <2>2, <2>3, ConcatProperties, Zenon
  <2> HIDE DEF d
  <2>5. Len(d) = l
    BY <2>1, <2>2, <2>3, <2>4
  <2>6. ASSUME NEW i \in 1 .. l PROVE d[i] = wire[i]
    <3>0. Len(a) + Len(b) = l
      BY <2>1, <2>2, <2>3
    <3>1. d[i] = IF i <= n THEN a[i] ELSE b[i - n]
      BY <2>2, <2>4, <3>0, Zenon
    <3>2. CASE i <= n
      <4>1. i \in 1 .. n
        BY <2>1, <3>2
      <4>2. QED
        BY <2>2, <3>1, <3>2, <4>1
    <3>3. CASE ~ (i <= n)
      <4>1. i - n \in 1 .. l - n /\ n + (i - n) = i
        BY <2>1, <3>3
      <4>2. QED
        BY <2>3, <3>1, <3>3, <4>1
    <3>4. QED
      BY <3>2, <3>3
  <2>7. d = wire
    <3>1. Len(d) = Len(wire) /\ \A i \in 1 .. Len(d) : d[i] = wire[i]
      BY <2>5, <2>6 DEF l
    <3>2. QED
      BY <1>2, <2>4, <3>1, SeqEqual
  <2>8. QED
    BY <2>2, <2>3, <2>7, Zenon DEF d
<1>5. buf' = buf \o a /\ wire' = b
  BY <1>3, Zenon
<1> HIDE DEF a, b
<1>6. Left' = Left
  <2>1. (buf \o a) \o b = buf \o (a \o b)
    <3>1. \A x, y, z \in Seq(Character) : (x \o y) \o z = x \o (y \o z)
      BY ConcatAssociative
    <3>2. a \in Seq(Character) /\ b \in Seq(Character)
      BY <1>4
    <3>3. QED
      BY <1>2, <3>1, <3>2, Zenon
  <2>2. QED
    BY <1>4, <1>5, <2>1, Zenon DEF Left
<1>7. buf' \in Seq(Character) /\ wire' \in Seq(Character)
  <2>1. buf \o a \in Seq(Character)
    BY <1>2, <1>4, ConcatProperties, Zenon
  <2>2. QED
    BY <1>4, <1>5, <2>1, Zenon
<1>8. /\ cache' = cache /\ cmd' = cmd /\ does' = does
      /\ size' = size /\ result' = result /\ code' = code
  BY <1>1
<1>9. AtLine' = AtLine /\ Extra' = Extra
  BY <1>6, <1>8, Zenon DEF AtLine, Extra, Kept
<1>10. QED
  <2> HIDE DEF Left, AtLine
  <2>1. /\ cmd' \in Commands /\ (cmd'.broken => cmd'.op \in {"get", "set", "delete"})
        /\ cache' \in Values \cup {Absent}
        /\ does' \in {"connect", "line", "value", "end", "done"}
        /\ does' # "done" => code' = 0
    BY <1>8 DEF WireInv
  <2>2. does' = "line" => AtLine'
    BY <1>8, <1>9, Zenon DEF WireInv
  <2>3. does' = "value" => /\ cmd'.op = "get" /\ cache' = cmd'.was /\ size' = Len(cache')
                           /\ cache' \in Values
                           /\ Left' = (Chars(cache') \o Crlf) \o (Line("END") \o Extra')
    BY <1>6, <1>8, <1>9, Zenon DEF WireInv
  <2>4. does' = "end" => /\ cmd'.op = "get" /\ cache' = cmd'.was /\ result' = cache'
                         /\ Left' = Line("END") \o Extra'
    BY <1>6, <1>8, <1>9, Zenon DEF WireInv
  <2>5. does' # "connect" /\ does' # "done"
    BY <1>1, <1>8
  <2>6. QED
    BY <1>7, <2>1, <2>2, <2>3, <2>4, <2>5, Zenon DEF WireInv

\* The value is exactly what its length says, whatever it looks like.
LEMMA ValueKept == WireInv /\ ReadValue => WireInv'
<1> SUFFICES ASSUME WireInv, ReadValue PROVE WireInv'
  OBVIOUS
<1>1. /\ does = "value" /\ Len(buf) >= size + 2
      /\ result' = [i \in 1 .. size |-> buf[i][1]]
      /\ buf' = SubSeq(buf, size + 3, Len(buf))
      /\ does' = "end"
      /\ UNCHANGED <<cache, cmd, wire, size, code>>
  BY Zenon DEF ReadValue
<1>2. /\ cmd \in Commands
      /\ cmd.op = "get" /\ cache = cmd.was /\ size = Len(cache) /\ cache \in Values
      /\ Left = (Chars(cache) \o Crlf) \o (Line("END") \o Extra)
      /\ buf \in Seq(Character) /\ wire \in Seq(Character) /\ code = 0
  BY <1>1 DEF WireInv
<1> DEFINE v == Chars(cache)
           p == v \o Crlf
           q == Line("END") \o Extra
<1>3. /\ v \in Seq(Character) /\ Len(v) = size /\ size \in Nat
      /\ \A i \in 1 .. size : v[i] = <<cache[i], 0>>
  BY <1>2, PiecesAre, Zenon
<1>4. Crlf \in Seq(Character) /\ Len(Crlf) = 2
  BY PiecesAre, Zenon
<1>5. q \in Seq(Character)
  BY WordsKnown, LinesAre, ExtraIs, ConcatProperties, Zenon
<1> HIDE DEF v, q, Character
<1>6. /\ p \in Seq(Character) /\ Len(p) = size + 2
      /\ \A i \in 1 .. size : p[i] = v[i]
  <2>1. /\ p \in Seq(Character) /\ Len(p) = Len(v) + Len(Crlf)
        /\ \A i \in 1 .. Len(v) + Len(Crlf) : p[i] = IF i <= Len(v) THEN v[i] ELSE Crlf[i - Len(v)]
    BY <1>3, <1>4, ConcatProperties, Zenon
  <2> HIDE DEF p
  <2>2. /\ Len(p) = size + 2
        /\ \A i \in 1 .. size + 2 : p[i] = IF i <= size THEN v[i] ELSE Crlf[i - size]
    BY <1>3, <1>4, <2>1, Zenon
  <2>3. \A i \in 1 .. size : i \in 1 .. size + 2 /\ i <= size
    BY <1>3
  <2>4. QED
    BY <2>1, <2>2, <2>3, Zenon
<1>7. buf \o wire = p \o q
  BY <1>2, Zenon DEF Left, p, v, q
<1> HIDE DEF p
<1>8. Len(p) <= Len(buf)
  <2>1. Len(buf) \in Nat
    BY <1>2
  <2>2. QED
    BY <1>1, <1>3, <1>6, <2>1
<1> DEFINE r == Rest(size + 2)
<1>9. /\ \A i \in 1 .. Len(p) : buf[i] = p[i]
      /\ r \in Seq(Character) /\ r \o wire = q
  <2>1. Left = p \o q
    BY <1>7, Zenon DEF Left
  <2>2. /\ \A i \in 1 .. Len(p) : buf[i] = p[i]
        /\ Rest(Len(p)) \in Seq(Character) /\ Rest(Len(p)) \o wire = q
    BY <1>2, <1>5, <1>6, <1>8, <2>1, FrontRead, Zenon
  <2>3. QED
    BY <1>6, <2>2, Zenon
<1>11. buf' = r
  <2>1. (size + 2) + 1 = size + 3
    BY <1>3
  <2>2. QED
    BY <1>1, <2>1, Zenon DEF Rest
<1> HIDE DEF r
<1>12. Left' = q
  BY <1>1, <1>9, <1>11, Zenon DEF Left
<1>13. result' = cache
  <2>1. cache \in Seq(Range(cache))
    BY <1>2, WireAssumption
  <2>2. cache = [i \in 1 .. size |-> cache[i]]
    BY <1>2, <2>1, LenProperties
  <2>3. ASSUME NEW i \in 1 .. size PROVE buf[i][1] = cache[i]
    <3>1. i \in 1 .. Len(p)
      BY <1>3, <1>6
    <3>2. buf[i] = <<cache[i], 0>>
      BY <1>3, <1>6, <1>9, <3>1, Zenon
    <3>3. QED
      BY <3>2
  <2>4. QED
    BY <1>1, <2>2, <2>3
<1>14. /\ cmd' = cmd /\ cache' = cache /\ wire' = wire /\ code' = 0 /\ does' = "end"
       /\ Extra' = Extra /\ (cmd.broken => cmd.op \in {"get", "set", "delete"})
  BY <1>1, <1>2 DEF Extra
<1>15. cmd'.op = "get" /\ cache' = cmd'.was /\ result' = cache' /\ Left' = Line("END") \o Extra'
  BY <1>2, <1>12, <1>13, <1>14, Zenon DEF q
<1>16. buf' \in Seq(Character) /\ wire' \in Seq(Character)
  BY <1>2, <1>9, <1>11, <1>14, Zenon
<1>17. QED
  BY <1>2, <1>14, <1>15, <1>16 DEF WireInv

\* Of nothing, both parts are nothing.
LEMMA EmptyParts ==
  ASSUME NEW S, NEW x \in Seq(S), NEW y \in Seq(S), Len(x \o y) = 0
  PROVE  x = <<>> /\ y = <<>>
<1>1. Len(x \o y) = Len(x) + Len(y) /\ Len(x) \in Nat /\ Len(y) \in Nat
  BY ConcatProperties, LenProperties
<1>2. Len(x) = 0 /\ Len(y) = 0
  BY <1>1
<1>3. QED
  BY <1>2, EmptySeq

\* No line comes when nothing is left.
LEMMA NothingLeft ==
  ASSUME buf \in Seq(Character), wire \in Seq(Character), Left = <<>>
  PROVE  ~ HasLine
<1> HIDE DEF Character
<1>1. Len(buf \o wire) = 0
  <2>1. Len(<<>>) = 0
    OBVIOUS
  <2>2. QED
    BY <2>1, Zenon DEF Left
<1>2. buf = <<>>
  BY <1>1, EmptyParts, Zenon
<1>3. DOMAIN buf = {}
  BY <1>2
<1>4. QED
  BY <1>3, Zenon DEF HasLine, Range

\* What is read of a line that begins with a word.
LEMMA WordRead ==
  ASSUME buf \in Seq(Character), wire \in Seq(Character), HasLine,
         NEW c \in Protocol, c # "n", NEW q \in Seq(Character), Left = Line(c) \o q
  PROVE  Behind \in Seq(Character) /\ Behind \o wire = q /\ buf[1][1] = c
<1> DEFINE x == Char(c)
<1>1. x \in Character
  BY PiecesAre, Zenon
<1>2. x # Char("n") /\ x[1] = c
  BY DEF Char
<1>3. Left = (<<x>> \o Crlf) \o q
  BY Zenon DEF Line
<1> HIDE DEF x, Character
<1>4. Behind \in Seq(Character) /\ Behind \o wire = q /\ buf[1] = x
  BY <1>1, <1>2, <1>3, LineRead, Zenon
<1>5. QED
  BY <1>2, <1>4, Zenon

\* What is read of the last line.
LEMMA LastRead ==
  ASSUME buf \in Seq(Character), wire \in Seq(Character), HasLine,
         NEW c \in Protocol, c # "n", Left = Line(c)
  PROVE  Behind = <<>> /\ wire = <<>> /\ buf[1][1] = c
<1>1. Line(c) \in Seq(Character)
  <2>1. Char(c) \in Character
    BY PiecesAre, Zenon
  <2>2. <<Char(c)>> \o Crlf \in Seq(Character)
    BY <2>1, LineIs, Zenon
  <2>3. QED
    BY <2>2, Zenon DEF Line
<1> HIDE DEF Character
<1>2. Left = Line(c) \o <<>> /\ <<>> \in Seq(Character)
  BY <1>1, ConcatEmptySeq, EmptySeq, Zenon
<1>3. Behind \in Seq(Character) /\ Behind \o wire = <<>> /\ buf[1][1] = c
  BY <1>2, WordRead, Zenon
<1> DEFINE b == Behind
<1> HIDE DEF b
<1>4. b \in Seq(Character) /\ b \o wire = <<>>
  BY <1>3, Zenon DEF b
<1>5. b = <<>> /\ wire = <<>>
  <2>1. Len(<<>>) = 0
    OBVIOUS
  <2>2. Len(b \o wire) = 0
    BY <1>4, <2>1, Zenon
  <2>3. QED
    BY <1>4, <2>2, EmptyParts, Zenon
<1>6. QED
  BY <1>3, <1>5, Zenon DEF b

\* An answer ends the command.
LEMMA DoneKept ==
  ASSUME WireInv, UNCHANGED <<cache, cmd, wire>>, buf' \in Seq(Character), does' = "done",
         WireExact'
  PROVE  WireInv'
<1>1. /\ cmd' \in Commands /\ (cmd'.broken => cmd'.op \in {"get", "set", "delete"})
      /\ cache' \in Values \cup {Absent}
      /\ wire' \in Seq(Character)
  BY DEF WireInv
<1> HIDE DEF Character
<1>2. QED
  BY <1>1 DEF WireInv

\* After the value there is only the line that ends it.
LEMMA EndKept == WireInv /\ ReadEnd => WireInv'
<1> SUFFICES ASSUME WireInv, ReadEnd PROVE WireInv'
  OBVIOUS
<1>1. /\ does = "end" /\ HasLine
      /\ Done(IF buf[1][1] = "END" THEN 200 ELSE 400) /\ buf' = Behind
      /\ UNCHANGED <<cache, cmd, wire, size, result>>
  BY Zenon DEF ReadEnd
<1>2. /\ cmd.op = "get" /\ cache = cmd.was /\ result = cache /\ Left = Line("END") \o Extra
      /\ buf \in Seq(Character) /\ wire \in Seq(Character)
  BY <1>1 DEF WireInv
<1>3. "END" \in Protocol /\ "END" # "n"
  BY WordsKnown
<1>4. Behind \in Seq(Character) /\ Behind \o wire = Extra /\ buf[1][1] = "END"
  BY <1>1, <1>2, <1>3, ExtraIs, WordRead, Zenon
<1>5. /\ does' = "done" /\ code' = 200 /\ buf' \o wire' = Extra'
      /\ cmd' = cmd /\ result' = result /\ cache' = cache
  BY <1>1, <1>4 DEF Done, Extra
<1>6. WireExact'
  <2>1. cmd'.op = "get" /\ result' = cmd'.was
    BY <1>2, <1>5, Zenon
  <2>2. QED
    BY <1>5, <2>1 DEF WireExact
<1>7. buf' \in Seq(Character)
  BY <1>1, <1>4, Zenon
<1>8. UNCHANGED <<cache, cmd, wire>>
  BY <1>1
<1>9. QED
  BY <1>5, <1>6, <1>7, <1>8, DoneKept, Zenon

\* What the handler does with a line, by its first word.
LEMMA ByWord ==
  ASSUME ReadReply, NEW word, buf[1][1] = word
  PROVE  /\ buf' = Behind /\ size' = buf[1][2] /\ does = "line" /\ HasLine
         /\ UNCHANGED <<cache, cmd, wire>>
         /\ word = "VALUE" => does' = "value" /\ UNCHANGED <<result, code>>
         /\ word = "key=" =>
              /\ result' = (IF Len(result) < MaxKeys THEN Append(result, word) ELSE result)
              /\ UNCHANGED <<does, code>>
         /\ word = "STAT" \/ (word = "ERROR" /\ cmd.op = "stats") =>
              UNCHANGED <<does, result, code>>
         /\ word = "ERROR" /\ cmd.op # "stats" => does' = "done" /\ code' = 400 /\ UNCHANGED result
         /\ word = "END" /\ cmd.op = "get" => does' = "done" /\ code' = 404 /\ UNCHANGED result
         /\ word \in {"STORED", "NOT_FOUND", "DELETED"} \/ (word = "END" /\ cmd.op # "get") =>
              /\ does' = "done" /\ code' = 200
              /\ result' = (IF cmd.op = "delete" THEN <<word>> ELSE result)
<1>1. buf' = Behind /\ size' = buf[1][2] /\ does = "line" /\ HasLine
  BY Zenon DEF ReadReply
<1>2. UNCHANGED <<cache, cmd, wire>>
  BY Zenon DEF ReadReply
<1>3. (CASE word = "VALUE" -> does' = "value" /\ UNCHANGED <<result, code>>
         [] word = "key=" ->
              /\ result' = (IF Len(result) < MaxKeys THEN Append(result, word) ELSE result)
              /\ UNCHANGED <<does, code>>
         [] word = "STAT" \/ (word = "ERROR" /\ cmd.op = "stats") ->
              UNCHANGED <<does, result, code>>
         [] word = "ERROR" /\ cmd.op # "stats" -> Done(400) /\ UNCHANGED result
         [] word = "END" /\ cmd.op = "get" -> Done(404) /\ UNCHANGED result
         [] OTHER -> Done(200) /\ result' = (IF cmd.op = "delete" THEN <<word>> ELSE result))
  BY Zenon DEF ReadReply
<1>4. word = "VALUE" => does' = "value" /\ UNCHANGED <<result, code>>
  BY <1>3
<1>5. word = "key=" => /\ result' = (IF Len(result) < MaxKeys THEN Append(result, word) ELSE result)
                       /\ UNCHANGED <<does, code>>
  BY <1>3
<1>6. word = "STAT" \/ (word = "ERROR" /\ cmd.op = "stats") => UNCHANGED <<does, result, code>>
  BY <1>3
<1>7. word = "ERROR" /\ cmd.op # "stats" => does' = "done" /\ code' = 400 /\ UNCHANGED result
  BY <1>3 DEF Done
<1>8. word = "END" /\ cmd.op = "get" => does' = "done" /\ code' = 404 /\ UNCHANGED result
  BY <1>3 DEF Done
<1>9. word \in {"STORED", "NOT_FOUND", "DELETED"} \/ (word = "END" /\ cmd.op # "get") =>
        does' = "done" /\ code' = 200 /\ result' = (IF cmd.op = "delete" THEN <<word>> ELSE result)
  BY <1>3 DEF Done
<1>10. QED
  BY <1>1, <1>2, <1>4, <1>5, <1>6, <1>7, <1>8, <1>9, Zenon

\* What it answers, by the word of the last line.
LEMMA AnswerByWord ==
  ASSUME ReadReply
  PROVE  /\ buf[1][1] = "ERROR" /\ cmd.op # "stats" => does' = "done" /\ code' = 400
         /\ buf[1][1] = "END" /\ cmd.op = "get" => does' = "done" /\ code' = 404
         /\ buf[1][1] = "STORED" => does' = "done" /\ code' = 200
         /\ buf[1][1] = "END" /\ cmd.op # "get" => does' = "done" /\ code' = 200
         /\ buf[1][1] \in {"STORED", "NOT_FOUND", "DELETED"} /\ cmd.op = "delete" =>
              does' = "done" /\ code' = 200 /\ result' = <<buf[1][1]>>
         /\ buf[1][1] = "END" /\ cmd.op = "keys" =>
              does' = "done" /\ code' = 200 /\ result' = result
<1>1. /\ buf[1][1] = "ERROR" /\ cmd.op # "stats" => does' = "done" /\ code' = 400
      /\ buf[1][1] = "END" /\ cmd.op = "get" => does' = "done" /\ code' = 404
  BY ByWord, SMT
<1>2. /\ buf[1][1] = "STORED" => does' = "done" /\ code' = 200
      /\ buf[1][1] = "END" /\ cmd.op # "get" => does' = "done" /\ code' = 200
  BY ByWord, SMT
<1>3. buf[1][1] \in {"STORED", "NOT_FOUND", "DELETED"} /\ cmd.op = "delete" =>
        does' = "done" /\ code' = 200 /\ result' = <<buf[1][1]>>
  BY ByWord, SMT
<1>4. buf[1][1] = "END" /\ cmd.op = "keys" => does' = "done" /\ code' = 200 /\ result' = result
  BY ByWord, SMT
<1>5. QED
  BY <1>1, <1>2, <1>3, <1>4

\* The first line decides: an answer is given when, and only when, nothing of
\* the reply is left, and it is the answer of that reply.
LEMMA ReplyKept == WireInv /\ ReadReply => WireInv'
<1> SUFFICES ASSUME WireInv, ReadReply PROVE WireInv'
  OBVIOUS
<1>1. /\ buf' = Behind /\ does = "line" /\ HasLine
      /\ UNCHANGED <<cache, cmd, wire>>
  BY Zenon DEF ReadReply
<1>2. /\ buf \in Seq(Character) /\ wire \in Seq(Character) /\ AtLine /\ code = 0
      /\ cache \in Values \cup {Absent}
      /\ cmd \in Commands /\ (cmd.broken => cmd.op \in {"get", "set", "delete"})
  BY <1>1, Zenon DEF WireInv
<1>3. cache' = cache /\ cmd' = cmd /\ wire' = wire /\ Extra' = Extra /\ Kept' = Kept
  BY <1>1 DEF Extra, Kept
<1>4. ASSUME NEW c \in Protocol, c # "n", Left = Line(c)
      PROVE  /\ buf[1][1] = c /\ buf' = <<>> /\ wire' = <<>> /\ buf' \in Seq(Character)
             /\ buf' \o wire' = <<>>
  <2>1. Behind = <<>> /\ wire = <<>> /\ buf[1][1] = c
    BY <1>1, <1>2, <1>4, LastRead, Zenon
  <2>2. <<>> \in Seq(Character) /\ <<>> \o <<>> = <<>>
    BY EmptySeq, ConcatEmptySeq, Zenon
  <2>3. QED
    BY <1>1, <1>3, <2>1, <2>2, Zenon
<1>4a. ASSUME NEW c \in Protocol, c # "n", NEW q \in Seq(Character), Left = Line(c) \o q
       PROVE  buf[1][1] = c /\ buf' \o wire' = q /\ buf' \in Seq(Character)
  BY <1>1, <1>2, <1>3, <1>4a, WordRead, Zenon
<1>4b. cmd.op \notin {"get", "set", "delete"} \/ ~cmd.broken => Extra = <<>>
  BY <1>2, ExtraIs
<1> DEFINE Same == /\ cmd' \in Commands
                   /\ (cmd'.broken => cmd'.op \in {"get", "set", "delete"})
                   /\ cache' \in Values \cup {Absent}
<1>5. Same
  BY <1>2, <1>3
<1> HIDE DEF Character
<1>6. ASSUME buf' \in Seq(Character), does' = "line", code' = 0, AtLine' PROVE WireInv'
  <2>1. wire' \in Seq(Character)
    BY <1>2, <1>3
  <2>2. QED
    BY <1>5, <1>6, <2>1 DEF WireInv
<1>7. CASE cmd.op # "stats" /\ \E q \in Seq(Character) : Left = Line("ERROR") \o q
  <2>1. PICK q \in Seq(Character) : Left = Line("ERROR") \o q
    BY <1>7
  <2>2. "ERROR" \in Protocol /\ "ERROR" # "n"
    BY WordsKnown
  <2>3. buf[1][1] = "ERROR" /\ buf' \in Seq(Character)
    BY <1>4a, <2>1, <2>2, Zenon
  <2>4. does' = "done" /\ code' = 400
    BY <1>7, <2>3, AnswerByWord
  <2>5. QED
    BY <1>1, <2>3, <2>4, ErrorsSayNothing, Zenon DEF Done
<1>8. CASE /\ cmd.op = "get" /\ cache = cmd.was
           /\ Left = IF cache = Absent THEN Line("END") \o Extra
                     ELSE ValueLine(Len(cache))
                            \o ((Chars(cache) \o Crlf) \o (Line("END") \o Extra))
  <2>1. CASE cache = Absent
    <3>0. "END" \in Protocol /\ "END" # "n" /\ Left = Line("END") \o Extra
      BY <1>8, <2>1, WordsKnown
    <3>1. buf[1][1] = "END" /\ buf' \o wire' = Extra' /\ buf' \in Seq(Character)
      BY <1>3, <1>4a, <3>0, ExtraIs, Zenon
    <3>2. does' = "done" /\ code' = 404
      BY <1>8, <3>1, AnswerByWord
    <3>3. does' = "done" /\ code' = 404 /\ cmd'.op = "get" /\ cmd'.was = Absent
      BY <1>3, <1>8, <2>1, <3>2, Zenon
    <3>4. WireExact'
      BY <3>1, <3>3 DEF WireExact
    <3>5. QED
      BY <1>1, <3>1, <3>3, <3>4, DoneKept, Zenon
  <2>2. CASE cache # Absent
    <3> DEFINE x == <<"VALUE", Len(cache)>>
               q == (Chars(cache) \o Crlf) \o (Line("END") \o Extra)
    <3>1. cache \in Values
      BY <1>2, <2>2
    <3>2. Len(cache) \in Nat /\ x \in Character
      BY <3>1, PiecesAre, Zenon
    <3>3. x # Char("n") /\ x[1] = "VALUE" /\ x[2] = Len(cache)
      BY DEF Char
    <3>4. q \in Seq(Character)
      <4>1. Line("END") \o Extra \in Seq(Character)
        BY WordsKnown, LinesAre, ExtraIs, ConcatProperties, Zenon
      <4>2. Chars(cache) \in Seq(Character) /\ Crlf \in Seq(Character)
        BY <3>1, PiecesAre, Zenon
      <4>3. Chars(cache) \o Crlf \in Seq(Character)
        BY <4>2, ConcatProperties, Zenon
      <4>4. QED
        BY <4>1, <4>3, ConcatProperties, Zenon
    <3>5. Left = (<<x>> \o Crlf) \o q
      BY <1>8, <2>2, Zenon DEF ValueLine
    <3> HIDE DEF x, q
    <3>6. Behind \in Seq(Character) /\ Behind \o wire = q /\ buf[1] = x
      BY <1>1, <1>2, <3>2, <3>3, <3>4, <3>5, LineRead, Zenon
    <3>7. buf[1][1] = "VALUE" /\ buf[1][2] = Len(cache)
      BY <3>3, <3>6, Zenon
    <3>8. /\ buf' = Behind /\ size' = buf[1][2] /\ does' = "value"
          /\ UNCHANGED <<result, code>>
      BY <3>7, ByWord, Zenon
    <3>9. Left' = q /\ buf' \in Seq(Character)
      BY <1>3, <3>6, <3>8, Zenon DEF Left
    <3>10. Left' = (Chars(cache') \o Crlf) \o (Line("END") \o Extra')
      BY <1>3, <3>9, Zenon DEF q
    <3>11. /\ does' = "value" /\ code' = 0 /\ cmd'.op = "get" /\ cache' = cmd'.was
           /\ size' = Len(cache') /\ cache' \in Values
      <4>1. code' = 0
        BY <1>2, <3>8
      <4>2. QED
        BY <1>3, <1>8, <3>1, <3>7, <3>8, <4>1, Zenon
    <3>12. wire' \in Seq(Character)
      BY <1>2, <1>3
    <3>13. QED
      BY <1>5, <3>9, <3>10, <3>11, <3>12 DEF WireInv
  <2>3. QED
    BY <2>1, <2>2, Zenon
<1>9. CASE cmd.op = "set" /\ ~cmd.broken /\ cache = Kept /\ Left = Line("STORED")
  <2>0. "STORED" \in Protocol /\ "STORED" # "n"
    BY WordsKnown
  <2>1. buf[1][1] = "STORED" /\ buf' \o wire' = Extra' /\ buf' \in Seq(Character)
    BY <1>3, <1>4, <1>4b, <1>9, <2>0
  <2>2. does' = "done" /\ code' = 200
    BY <2>1, AnswerByWord
  <2>3. does' = "done" /\ code' = 200 /\ cmd'.op = "set" /\ cache' = Kept'
    BY <1>3, <1>9, <2>2, Zenon
  <2>4. WireExact'
    BY <2>1, <2>3 DEF WireExact
  <2>5. QED
    BY <1>1, <2>1, <2>3, <2>4, DoneKept, Zenon
<1>10. CASE /\ cmd.op = "delete"
            /\ Left = Line(IF cmd.was = Absent THEN "NOT_FOUND" ELSE "DELETED") \o Extra
  <2> DEFINE w == IF cmd.was = Absent THEN "NOT_FOUND" ELSE "DELETED"
  <2>1. w \in Protocol /\ w # "n" /\ w \in {"STORED", "NOT_FOUND", "DELETED"}
    BY WordsKnown
  <2>2. (w = "DELETED") = (cmd.was # Absent)
    BY Zenon
  <2>3. Left = Line(w) \o Extra
    BY <1>10, Zenon
  <2> HIDE DEF w
  <2>4. buf[1][1] = w /\ buf' \o wire' = Extra' /\ buf' \in Seq(Character)
    BY <1>3, <1>4a, <2>1, <2>3, ExtraIs, Zenon
  <2>5. does' = "done" /\ code' = 200 /\ result' = <<w>>
    BY <1>10, <2>1, <2>4, AnswerByWord
  <2>6. does' = "done" /\ code' = 200 /\ cmd'.op = "delete" /\ cmd'.was = cmd.was
    BY <1>3, <1>10, <2>5, Zenon
  <2>7. (result' = <<"DELETED">>) = (cmd'.was # Absent)
    <3>1. (<<w>> = <<"DELETED">>) = (w = "DELETED")
      OBVIOUS
    <3>2. QED
      BY <2>2, <2>5, <2>6, <3>1, Zenon
  <2>8. WireExact'
    <3>1. "delete" \notin {"get", "set", "keys"} /\ 200 # 404
      OBVIOUS
    <3>2. QED
      BY <2>4, <2>6, <2>7, <3>1, Zenon DEF WireExact
  <2>9. QED
    BY <1>1, <2>4, <2>6, <2>8, DoneKept, Zenon
<1>11. CASE /\ cmd.op = "stats"
            /\ Left \in {Line("ERROR"), Line("STAT") \o Line("END"), Line("END"), <<>>}
  <2>1. Left # <<>>
    BY <1>1, <1>2, NothingLeft, Zenon
  <2>2. CASE Left = Line("END")
    <3>1. buf[1][1] = "END" /\ buf' \o wire' = Extra' /\ buf' \in Seq(Character)
      BY <1>3, <1>4, <1>4b, <1>11, <2>2, WordsKnown
    <3>2. cmd.op # "get"
      BY <1>11
    <3>3. does' = "done" /\ code' = 200
      BY <3>1, <3>2, AnswerByWord
    <3>4. does' = "done" /\ code' = 200 /\ cmd'.op = "stats"
      BY <1>3, <1>11, <3>3, Zenon
    <3>5. WireExact'
      BY <3>1, <3>4 DEF WireExact
    <3>6. QED
      BY <1>1, <3>1, <3>4, <3>5, DoneKept, Zenon
  <2>3. CASE Left = Line("STAT") \o Line("END")
    <3>1. Line("END") \in Seq(Character)
      BY WordsKnown, LinesAre, Zenon
    <3>2. "STAT" \in Protocol /\ "STAT" # "n"
      BY WordsKnown
    <3>3. Behind \in Seq(Character) /\ Behind \o wire = Line("END") /\ buf[1][1] = "STAT"
      BY <1>1, <1>2, <2>3, <3>1, <3>2, WordRead, Zenon
    <3>4. UNCHANGED <<does, result, code>>
      BY <3>3, ByWord, Zenon
    <3>5. Left' = Line("END") /\ buf' \in Seq(Character) /\ cmd'.op = "stats"
      BY <1>1, <1>3, <1>11, <3>3, Zenon DEF Left
    <3>6. AtLine'
      BY <3>5, Zenon DEF AtLine
    <3>7. does' = "line" /\ code' = 0
      BY <1>1, <1>2, <3>4
    <3>8. QED
      BY <1>6, <3>5, <3>6, <3>7, Zenon
  <2>4. CASE Left = Line("ERROR")
    <3>1. buf[1][1] = "ERROR" /\ buf' = <<>> /\ wire' = <<>> /\ buf' \in Seq(Character)
      BY <1>4, <2>4, WordsKnown
    <3>2. UNCHANGED <<does, result, code>>
      BY <1>11, <3>1, ByWord, Zenon
    <3>3. Left' = <<>> /\ cmd'.op = "stats"
      <4>1. <<>> \o <<>> = <<>>
        OBVIOUS
      <4>2. QED
        BY <1>3, <1>11, <3>1, <4>1, Zenon DEF Left
    <3>4. AtLine'
      BY <3>3, Zenon DEF AtLine
    <3>5. does' = "line" /\ code' = 0
      BY <1>1, <1>2, <3>2
    <3>6. QED
      BY <1>6, <3>1, <3>4, <3>5, Zenon
  <2>5. QED
    BY <1>11, <2>1, <2>2, <2>3, <2>4
<1>12. CASE /\ cmd.op = "keys" /\ result \in Seq({"key="})
            /\ \E k \in 0 .. Listing : /\ Left = KeyLines(k) \o Line("END")
                                       /\ Len(result) = Min({MaxKeys, Listing - k})
  <2>1. PICK k \in 0 .. Listing : /\ Left = KeyLines(k) \o Line("END")
                                  /\ Len(result) = Min({MaxKeys, Listing - k})
    BY <1>12
  <2>2. Listing \in Nat /\ MaxKeys \in Nat /\ k \in Nat /\ Listing - k \in Nat
    BY WireAssumption
  <2>3. Line("END") \in Seq(Character)
    BY WordsKnown, LinesAre, Zenon
  <2>4. CASE k = 0
    <3>1. Left = Line("END")
      BY <2>1, <2>3, <2>4, KeyLinesAre, ConcatEmptySeq, Zenon
    <3>2. buf[1][1] = "END" /\ buf' \o wire' = Extra' /\ buf' \in Seq(Character)
      BY <1>3, <1>4, <1>4b, <1>12, <3>1, WordsKnown
    <3>3. cmd.op # "get" /\ cmd.op # "delete"
      BY <1>12
    <3>4. does' = "done" /\ code' = 200 /\ result' = result
      BY <1>12, <3>2, AnswerByWord
    <3>5. does' = "done" /\ code' = 200 /\ cmd'.op = "keys"
      BY <1>3, <1>12, <3>4, Zenon
    <3>6. Len(result') = Min({MaxKeys, Listing})
      <4>1. Listing - 0 = Listing
        BY <2>2
      <4>2. QED
        BY <2>1, <2>4, <3>4, <4>1, Zenon
    <3>7. WireExact'
      <4>1. "keys" \notin {"get", "set", "delete"} /\ 200 # 404
        OBVIOUS
      <4>2. QED
        BY <3>2, <3>5, <3>6, <4>1, Zenon DEF WireExact
    <3>8. QED
      BY <1>1, <3>2, <3>5, <3>7, DoneKept, Zenon
  <2>5. CASE k # 0
    <3> DEFINE j == k - 1
               a == Char("key=")
               b == Char("n")
               p == <<a, b>>
               q == KeyLines(j) \o Line("END")
    <3>1. j \in Nat /\ j \in 0 .. Listing /\ j + 1 = k /\ Listing - j = (Listing - k) + 1
      BY <2>2, <2>5
    <3>2. a \in Character /\ b \in Character /\ a # b /\ a[1] = "key="
      <4>1. "key=" \in Protocol /\ "n" \in Protocol
        BY DEF Protocol
      <4>2. a \in Character /\ b \in Character
        BY <4>1, PiecesAre, Zenon
      <4>3. a # b /\ a[1] = "key="
        BY DEF Char
      <4>4. QED
        BY <4>2, <4>3
    <3> HIDE DEF j, a, b
    <3>3. p \in Seq(Character) /\ Len(p) = 2 /\ p[1] = a /\ p[2] = b
      BY <3>2
    <3>4. KeyLines(k) = p \o KeyLines(j) /\ KeyLines(j) \in Seq(Character)
      BY <3>1, KeyLinesAre, Zenon DEF a, b
    <3> HIDE DEF p
    <3>5. q \in Seq(Character) /\ Left = p \o q
      <4>1. q \in Seq(Character)
        BY <2>3, <3>4, ConcatProperties, Zenon
      <4>2. (p \o KeyLines(j)) \o Line("END") = p \o (KeyLines(j) \o Line("END"))
        <5>1. \A x, y, z \in Seq(Character) : (x \o y) \o z = x \o (y \o z)
          BY ConcatAssociative
        <5>2. QED
          BY <2>3, <3>3, <3>4, <5>1, Zenon
      <4>3. QED
        BY <2>1, <3>4, <4>1, <4>2, Zenon
    <3> HIDE DEF q
    <3>6. p # <<>> /\ p[Len(p)] = Char("n") /\ \A i \in 1 .. Len(p) - 1 : p[i] # Char("n")
      <4>1. p # <<>>
        <5>1. p = <<>> => Len(p) = 0
          BY EmptySeq
        <5>2. QED
          BY <3>3, <5>1
      <4>2. p[Len(p)] = b /\ \A i \in 1 .. Len(p) - 1 : i = 1
        BY <3>3
      <4>3. QED
        BY <3>2, <3>3, <4>1, <4>2, Zenon DEF b
    <3>7. Behind \in Seq(Character) /\ Behind \o wire = q /\ buf[1] = p[1]
      BY <1>1, <1>2, <3>3, <3>5, <3>6, FirstLine, Zenon
    <3>8. buf[1][1] = "key="
      BY <3>2, <3>3, <3>7, Zenon
    <3>9. /\ result' = (IF Len(result) < MaxKeys THEN Append(result, "key=") ELSE result)
          /\ UNCHANGED <<does, code>>
      BY <3>8, ByWord, Zenon
    <3>10. Left' = KeyLines(j) \o Line("END") /\ buf' \in Seq(Character)
      BY <1>1, <1>3, <3>7, Zenon DEF Left, q
    <3>11. result' \in Seq({"key="}) /\ Len(result') = Min({MaxKeys, Listing - j})
      <4>1. Min({MaxKeys, Listing - k}) = IF MaxKeys <= Listing - k THEN MaxKeys ELSE Listing - k
        BY <2>2, Lesser
      <4>2. Min({MaxKeys, Listing - j}) = IF MaxKeys <= Listing - j THEN MaxKeys ELSE Listing - j
        <5>1. Listing - j \in Nat
          BY <2>2, <3>1
        <5>2. QED
          BY <2>2, <5>1, Lesser
      <4>3. result \in Seq({"key="}) /\ Len(result) \in Nat
        BY <1>12
      <4>4. /\ Append(result, "key=") \in Seq({"key="})
            /\ Len(Append(result, "key=")) = Len(result) + 1
        BY <4>3
      <4> DEFINE l == Len(result)
      <4>5. Len(result') = IF l < MaxKeys THEN l + 1 ELSE l
        BY <3>9, <4>4
      <4>6. l \in Nat /\ l = IF MaxKeys <= Listing - k THEN MaxKeys ELSE Listing - k
        BY <2>1, <4>1, <4>3, Zenon
      <4> HIDE DEF l
      <4>7. Len(result') = IF MaxKeys <= Listing - j THEN MaxKeys ELSE Listing - j
        BY <2>2, <3>1, <4>5, <4>6
      <4>8. QED
        BY <3>9, <4>2, <4>3, <4>4, <4>7
    <3>12. cmd'.op = "keys"
      BY <1>3, <1>12
    <3>13. AtLine'
      BY <3>1, <3>10, <3>11, <3>12, Zenon DEF AtLine
    <3>14. does' = "line" /\ code' = 0
      BY <1>1, <1>2, <3>9
    <3>15. QED
      BY <1>6, <3>10, <3>13, <3>14, Zenon
  <2>6. QED
    BY <2>4, <2>5
<1>13. QED
  BY <1>2, <1>7, <1>8, <1>9, <1>10, <1>11, <1>12, Zenon DEF AtLine

\* The answers to memcached's clients are exact: for any values, however their
\* bytes come in pieces and even if they look like the protocol, and wherever
\* the connection breaks.
THEOREM WireIsExact == WireSpec => []WireExact
<1>1. WireInv /\ [WireNext]_wireVars => WireInv'
  <2>1. SUFFICES ASSUME WireInv, [WireNext]_wireVars PROVE WireInv'
    OBVIOUS
  <2>2. CASE RefuseCommand \/ WireBreaks
    <3>1. /\ Done(502) \/ Done(500) \/ Done(400)
          /\ UNCHANGED <<cache, cmd, wire>> /\ buf' = buf
      BY <2>2 DEF RefuseCommand, WireBreaks
    <3>2. buf' \in Seq(Character)
      BY <2>1, <3>1, Zenon DEF WireInv
    <3>3. QED
      BY <2>1, <3>1, <3>2, ErrorsSayNothing, Zenon
  <2>3. CASE SendCommand \/ Receive \/ ReadReply \/ ReadValue \/ ReadEnd
    BY <2>1, <2>3, SendKept, ReceiveKept, ReplyKept, ValueKept, EndKept, Zenon
  <2>4. CASE UNCHANGED wireVars
    <3>1. /\ cache' = cache /\ cmd' = cmd /\ does' = does /\ wire' = wire /\ buf' = buf
          /\ size' = size /\ result' = result /\ code' = code
      BY <2>4 DEF wireVars
    <3>2. Left' = Left /\ AtLine' = AtLine /\ WireExact' = WireExact /\ Extra' = Extra
      BY <3>1, Zenon DEF Left, AtLine, WireExact, Extra, Kept
    <3> HIDE DEF Left, AtLine
    <3>3. WireInv' = WireInv
      BY <3>1, <3>2, Zenon DEF WireInv
    <3>4. QED
      BY <2>1, <3>3, Zenon
  <2>5. QED
    BY <2>1, <2>2, <2>3, <2>4, Zenon DEF WireNext
<1>2. WireInv => WireExact
  <2>1. SUFFICES ASSUME WireInv PROVE WireExact
    OBVIOUS
  <2>2. CASE does = "done"
    BY <2>1, <2>2, Zenon DEF WireInv
  <2>3. CASE does # "done"
    <3>1. code = 0
      BY <2>1, <2>3, Zenon DEF WireInv
    <3>2. QED
      BY <3>1 DEF WireExact
  <2>4. QED
    BY <2>2, <2>3
<1>3. QED
  BY <1>1, <1>2, WireBegins, PTL DEF WireSpec
=============================================================================
