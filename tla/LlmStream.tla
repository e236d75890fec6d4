----------------------------- MODULE LlmStream -----------------------------
(***************************************************************************)
(* The llm handler: one API for three providers.  A chat is answered whole *)
(* or as a stream of Server-Sent Events, in which the provider's events    *)
(* become text and, at the end, a done event with the reason why the model *)
(* stopped.  The provider and its connection, which may end early in three *)
(* ways, are external.  Pieces of text are numbered.                       *)
(***************************************************************************)
EXTENDS Integers, Sequences, FiniteSetsExt

CONSTANTS
  Pieces,   \* the most pieces of text of an answer
  Cap,      \* max_tokens of the section
  Wanted     \* max_tokens of requests; NoNumber is none
CONSTANT NoNumber

ASSUME LlmAssumption == Pieces \in Nat /\ Cap \in Nat \ {0} /\ Wanted \subseteq Int \cup {NoNumber}

VARIABLES
  chat,   \* provider; how: stream, whole, verb, models; tokens asked; fit: the
          \* request is well-formed
  phase,  \* the handler's next step
  body,   \* max_tokens sent to the provider
  gives,  \* the provider - said: pieces so far; part: text, stop, closed; link: up,
          \* eof, broken (a chunk cut off), timeout; next: events not yet read,
          \* each with the number of pieces said by then
  heard,  \* the client - status lines; texts; done: "none", or its stop; there
  stop    \* done["stop"] of the handler

llmVars == <<chat, phase, body, gives, heard, stop>>

Nothing == "nothing"

LlmInit ==
  /\ chat \in [provider : {"anthropic", "openai", "bedrock"}, how : {"stream", "whole", "verb", "models"},
               tokens : Wanted, fit : BOOLEAN]
  /\ phase = "route" /\ body = NoNumber /\ stop = Nothing
  /\ gives = [said |-> 0, part |-> "text", link |-> "up", next |-> <<>>]
  /\ heard = [status |-> <<>>, texts |-> <<>>, done |-> "none", there |-> TRUE]

\* effective_max_tokens()
Effective(asked) == IF asked = NoNumber THEN Cap ELSE Max({1, Min({asked, Cap})})

\* Events are relayed one by one; bedrock's stream is one whole answer.
Relays == chat.how = "stream" /\ chat.provider # "bedrock"
-----------------------------------------------------------------------------
(* The provider (external)                                                 *)

Event(what, n) == [is |-> what, n |-> n]

Gives(event) ==
  LET n == gives.said + (IF event = "text" THEN 1 ELSE 0)
  IN gives' = [gives EXCEPT !.next = Append(@, Event(event, n)), !.said = n]

Room == gives.link = "up" /\ Len(gives.next) < 2

\* Text; or events that carry none: pings, tool calls, thinking, no JSON, an
\* error.
ProviderWrites ==
  /\ phase = "relay" /\ Room /\ gives.part = "text"
  /\ \E event \in {"text", "other", "junk", "error"} :
       (event = "text" => gives.said < Pieces) /\ Gives(event)
  /\ UNCHANGED <<chat, phase, body, heard, stop>>

\* The stop reason, in an event of its own.
ProviderStops ==
  /\ phase = "relay" /\ Room /\ gives.part = "text"
  /\ gives' = [gives EXCEPT !.next = Append(@, Event("stop", gives.said)), !.part = "stop"]
  /\ UNCHANGED <<chat, phase, body, heard, stop>>

\* openai ends with usage and [DONE].
ProviderCloses ==
  /\ phase = "relay" /\ Room /\ gives.part = "stop"
  /\ gives' = [gives EXCEPT !.part = "closed",
                            !.next = IF chat.provider = "openai"
                                       THEN Append(@, Event("[DONE]", gives.said)) ELSE @,
                            !.link = "eof"]
  /\ UNCHANGED <<chat, phase, body, heard, stop>>

\* The connection ends before that; an event that is not terminated by its
\* empty line is not yielded.
ProviderBreaks ==
  /\ phase = "relay" /\ gives.link = "up"
  /\ \E how \in {"eof", "broken", "timeout"} : gives' = [gives EXCEPT !.link = how]
  /\ UNCHANGED <<chat, phase, body, heard, stop>>

ClientLeaves ==
  /\ phase # "done" /\ heard.there
  /\ heard' = [heard EXCEPT !.there = FALSE]
  /\ UNCHANGED <<chat, phase, body, gives, stop>>
-----------------------------------------------------------------------------
(* The handler                                                             *)

\* A write; after its client has gone the process is killed by one (SIGPIPE).
Tell(h, next) ==
  /\ phase' \in IF heard.there THEN {next} ELSE {next, "done"}
  /\ heard' = IF heard.there THEN h ELSE heard

Saying(s) == [heard EXCEPT !.status = Append(@, s)]

\* route(): bad JSON, no messages, no text, an unknown verb; no provider or
\* model in the section.
RefuseChat ==
  /\ phase = "route" /\ ~chat.fit
  /\ \E s \in {400, 404, 500} : (chat.how = "models" => s = 500) /\ Tell(Saying(s), "done")
  /\ UNCHANGED <<chat, body, gives, stop>>

Ask ==
  /\ phase = "route" /\ chat.fit
  /\ body' = IF chat.how = "models" THEN NoNumber ELSE Effective(chat.tokens)
  /\ phase' = "ask"
  /\ UNCHANGED <<chat, gives, heard, stop>>

\* No key, no usable section, an answer that is cut off or no JSON: 500 of
\* main(); an OSError: 502.
OpenFails ==
  /\ phase = "ask"
  /\ \E s \in {500, 502} : Tell(Saying(s), "done")
  /\ UNCHANGED <<chat, body, gives, stop>>

\* _raise_for_status() and _report()
Reported(status) ==
  CASE status \in {401, 403}      -> 502
    [] status = 429               -> 503
    [] status \in {400, 404, 422} -> 400
    [] OTHER                      -> 502

ProviderRefuses ==
  /\ phase = "ask"
  /\ \E status \in {400, 401, 403, 404, 422, 429, 500} : Tell(Saying(Reported(status)), "done")
  /\ UNCHANGED <<chat, body, gives, stop>>

\* The error's text is read inside the try block of stream() that takes an
\* OSError for a client that has gone: a timeout there, and no answer at all.
RefusalUnread ==
  /\ phase = "ask" /\ Relays /\ phase' = "done"
  /\ UNCHANGED <<chat, body, gives, heard, stop>>

\* complete(): the whole answer.  bedrock's stream is that in one event.
Completes ==
  /\ phase = "ask" /\ ~Relays
  /\ gives' = [gives EXCEPT !.said = Pieces, !.part = "closed", !.link = "eof"]
  /\ Tell([Saying(200) EXCEPT !.texts = IF chat.how = "models" THEN <<>> ELSE [i \in 1..Pieces |-> i],
                              !.done = IF chat.how = "stream" THEN "end" ELSE "none"], "done")
  /\ UNCHANGED <<chat, body, stop>>

\* Mutated form: an answer ends well until the provider says otherwise.
StreamOpensWell ==
  /\ phase = "ask" /\ Relays
  /\ Tell(Saying(200), "relay") /\ stop' = "end"
  /\ UNCHANGED <<chat, body, gives>>

\* send_sse_headers(), done = {"stop": None}
StreamOpens ==
  /\ phase = "ask" /\ Relays
  /\ Tell(Saying(200), "relay")
  /\ UNCHANGED <<chat, body, gives, stop>>

\* _iter_sse(), the adapters, and what each event becomes: only text is passed
\* on, a stop is kept for the done event.
Relay ==
  /\ phase = "relay" /\ gives.next # <<>> /\ Head(gives.next).is # "[DONE]"
  /\ gives' = [gives EXCEPT !.next = Tail(@)]
  /\ stop' = IF Head(gives.next).is = "stop" THEN "end" ELSE stop
  /\ IF Head(gives.next).is = "text"
       THEN Tell([heard EXCEPT !.texts = Append(@, Head(gives.next).n)], "relay")
       ELSE UNCHANGED <<phase, heard>>
  /\ UNCHANGED <<chat, body>>

\* [DONE], or the end of the response whatever came before it.
TellDone ==
  /\ phase = "relay"
  /\ \/ gives.next # <<>> /\ Head(gives.next).is = "[DONE]"
     \/ gives.next = <<>> /\ gives.link = "eof"
  /\ Tell([heard EXCEPT !.done = IF stop = Nothing THEN "null" ELSE stop], "done")
  /\ UNCHANGED <<chat, body, gives, stop>>

\* A timeout is an OSError, and the stream just ends; a chunk cut off is not
\* (IncompleteRead), and main() writes its 500 after the events.
RelayFails ==
  /\ phase = "relay" /\ gives.next = <<>>
  /\ \/ gives.link = "timeout" /\ phase' = "done" /\ UNCHANGED heard
     \/ gives.link = "broken" /\ Tell(Saying(500), "done")
  /\ UNCHANGED <<chat, body, gives, stop>>

LlmNext ==
  \/ ProviderWrites \/ ProviderStops \/ ProviderCloses \/ ProviderBreaks \/ ClientLeaves
  \/ RefuseChat \/ Ask \/ OpenFails \/ ProviderRefuses \/ RefusalUnread \/ Completes
  \/ StreamOpens \/ Relay \/ TellDone \/ RelayFails

LlmSpec == LlmInit /\ [][LlmNext]_llmVars
-----------------------------------------------------------------------------
(* Properties                                                              *)

\* A client has the pieces in order and without gaps; when its done event has
\* a stop reason the model had finished and every piece has arrived, however
\* the connection to the provider ended.
DoneIsHonest ==
  /\ \A i \in DOMAIN heard.texts : heard.texts[i] = i
  /\ heard.done = "end" => gives.part # "text" /\ Len(heard.texts) = gives.said

\* Whatever a request asks for, the provider is allowed at least one token and
\* at most what the section says.
TokensCapped == body # NoNumber => body \in 1..Cap

\* What a chat costs and what its client is told are as they should be.
ChatKept == DoneIsHonest /\ TokensCapped
=============================================================================
