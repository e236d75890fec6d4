----------------------------- MODULE MCBackends ----------------------------
(***************************************************************************)
(* An instance of the backend handlers' modules for TLC.  The handlers do  *)
(* not interact: each behaviour uses one of them, and the others are at    *)
(* rest.                                                                   *)
(***************************************************************************)
EXTENDS SqlQuery, QueryJob, StreamTail, MqttTopic, KafkaPeek, Upstream, GraphqlOps, LlmStream,
        MemcachedWire

\* Sections of backends.conf: all forms of a certificate and its key without
\* secrets, and all forms of two secrets without certificates.
NoSecret   == [plain |-> "absent", keychain |-> "absent", cmd |-> "absent"]
Plain(o)   == [NoSecret EXCEPT !.plain = o]
TlsConfigs ==
  [scheme : {"https"}, ca : {"none", "path", "gone", "cmd"}, cert : Pems, key : Pems,
   auth : {NoSecret}, header : {NoSecret}, name : {"x-key"}]
SecretForms ==
  {NoSecret} \cup {[NoSecret EXCEPT ![f] = o] : f \in {"plain", "keychain", "cmd"}, o \in Outcomes}
    \cup [plain : {"absent"}, keychain : {"ok", "bad"}, cmd : {"ok", "bad"}]
SecretConfigs ==
  [scheme : {"none", "other", "http"}, ca : {"none"}, cert : {"none"}, key : {"none"},
   auth : SecretForms, header : {NoSecret, Plain("ok"), Plain("empty"), Plain("bad")},
   name : {"x-key", "authorization", "host"}]
MCConfigs == TlsConfigs \cup SecretConfigs

\* Definitions of GraphQL documents
Def(kind, name, extra, inside) ==
  [before |-> <<>>, kind |-> kind, short |-> FALSE, name |-> name, extra |-> extra,
   body |-> inside]
MCDefinitions ==
  {[Def("query", "", <<>>, <<"A", "{", "mutation", "}">>) EXCEPT !.short = TRUE],
   Def("query", "A", <<"@", "mutation">>, <<"string", "query", "{", "B", "{", "on", "}", "}">>),
   Def("query", "", <<"other", "A", "other", "on", "other">>, <<"B">>),
   Def("query", "B", <<"other", "mutation", "other", "{", "A", "}", "other">>, <<"A">>),
   Def("query", "on", <<>>, <<"mutation">>),
   Def("mutation", "query", <<"string">>, <<"query", "{", "A", "}">>),
   Def("mutation", "B", <<"@", "query", "other", "query", "other">>, <<"A">>),
   Def("mutation", "", <<"other", "A", "other", "{", "query", "}", "other">>, <<"on">>),
   Def("mutation", "A", <<>>, <<"fragment", "{", "query", "}">>),
   Def("fragment", "mutation", <<"on", "query", "@", "on">>, <<"B">>),
   Def("fragment", "query", <<"on", "A">>, <<"mutation", "{", "A", "}">>),
   Def("query", "B", <<"other", "{", "}", "query", "other", "A">>, <<"A">>),
   Def("query", "on", <<"other", "B", "other", "A">>, <<"A">>),
   \* comments and block strings that both read alike
   [Def("mutation", "A", <<"#", "{", "escaped", "lf">>, <<"A", "#", "}", "block", "lf">>)
      EXCEPT !.before = <<"lf", "#", "query", "A", "{", "}", "lf", "cr">>],
   Def("query", "A", <<"@", "B", "block", "}", "#", "cr", "lf", "mutation", "block">>,
       <<"A", "block", "{", "block">>),
   \* and some that they do not
   Def("fragment", "A", <<"on", "A", "@", "A", "block", "escaped", "{", "}", "query", "B", "{", "A",
                          "}", "block">>, <<"A">>),
   [Def("mutation", "", <<"lf">>, <<"A">>) EXCEPT !.before = <<"#", "cr">>]}
DocumentsOf(defs) == {<<a>> : a \in defs} \cup {<<a, b>> : a, b \in defs}
MCDocuments == DocumentsOf(MCDefinitions)
\* Without those whose comments and block strings are misread
MCKeywordDocuments ==
  DocumentsOf({d \in MCDefinitions : ~Misread(d.before) /\ ~Misread(d.extra)})

\* max_tokens of requests
MCWanted == {NoNumber, 0 - 1, 2, 7}

\* Values that look like the protocol
MCValues == {<<>>, <<"x">>, <<"r", "n", "END">>, <<"n", "x", "n">>}

Components == {"sql", "job", "tail", "topic", "peek", "upstream", "graphql", "llm", "memcached"}

SqlRests ==
  /\ ask = [backend |-> "sqlite", method |-> "GET", statement |-> "none", locked |-> FALSE,
            granted |-> FALSE]
  /\ step = "done" /\ reply = 0 /\ answers = <<>>
  /\ db = [link |-> "none", ro |-> FALSE, pending |-> {}, durable |-> {}]

JobRests ==
  /\ req = [backend |-> "bigquery", op |-> "get", kind |-> "bad", limit |-> 0, total |-> 0,
            guarded |-> FALSE]
  /\ job = [state |-> "none", bound |-> FALSE, changed |-> FALSE]
  /\ pc = "done" /\ polls = 0 /\ page = NoPage /\ answer = Blank

TailRests ==
  /\ bus = [log |-> LastMessage, low |-> 1, link |-> "none", joined |-> FALSE, wire |-> <<>>,
            broke |-> FALSE]
  /\ tail = [feed |-> "redis", earliest |-> FALSE, pc |-> "done", next |-> 0, batch |-> <<>>,
             idle |-> 0]
  /\ sse = [events |-> <<>>, last |-> "502", peer |-> "there"]
  /\ missed = {} /\ start = 0

TopicRests ==
  /\ held = Nobody /\ took = {}
  /\ line = [p \in Procs |-> [link |-> "none", out |-> <<>>, in |-> <<>>, joined |-> FALSE]]
  /\ hand = [p \in Procs |-> [op |-> "none", qos |-> 0, pc |-> "done", acked |-> FALSE,
                              found |-> <<>>, kept |-> {}, reply |-> 0]]

PeekRests ==
  /\ parts = <<>> /\ begun = <<>> /\ hurried = FALSE /\ mine = {}
  /\ look = [op |-> "peek", limit |-> 0, pc |-> "done", pos |-> <<>>, read |-> {}, reply |-> 404,
             at |-> <<>>]

UpRests ==
  /\ conf = [scheme |-> "none", ca |-> "none", cert |-> "none", key |-> "none", auth |-> NoSecret,
             header |-> NoSecret, name |-> "host"]
  /\ came = {} /\ glue = "proxy" /\ at = "done" /\ temp = {} /\ trust = "nobody" /\ out = {}
  /\ said = "500"

GqlRests ==
  doc = <<>> /\ call = [what |-> "post", op |-> ""] /\ stage = "done" /\ verdict = "400" /\ sent = FALSE

LlmRests ==
  /\ chat = [provider |-> "openai", how |-> "models", tokens |-> NoNumber, fit |-> FALSE]
  /\ phase = "done" /\ body = NoNumber /\ stop = Nothing
  /\ gives = [said |-> 0, part |-> "text", link |-> "up", next |-> <<>>]
  /\ heard = [status |-> <<500>>, texts |-> <<>>, done |-> "none", there |-> TRUE]

WireRests ==
  /\ cache = Absent
  /\ cmd = [op |-> "bad", value |-> <<>>, was |-> Absent, broken |-> FALSE, number |-> "fine"]
  /\ does = "done" /\ wire = <<>> /\ buf = <<>> /\ size = 0 /\ result = <<>> /\ code = 400

Init ==
  \E c \in Components :
    /\ IF c = "sql"       THEN SqlInit   ELSE SqlRests
    /\ IF c = "job"       THEN JobInit   ELSE JobRests
    /\ IF c = "tail"      THEN TailInit  ELSE TailRests
    /\ IF c = "topic"     THEN TopicInit ELSE TopicRests
    /\ IF c = "peek"      THEN PeekInit  ELSE PeekRests
    /\ IF c = "upstream"  THEN UpInit    ELSE UpRests
    /\ IF c = "graphql"   THEN GqlInit   ELSE GqlRests
    /\ IF c = "llm"       THEN LlmInit   ELSE LlmRests
    /\ IF c = "memcached" THEN WireInit  ELSE WireRests

Next ==
  \/ SqlNext   /\ UNCHANGED <<jobVars, tailVars, topicVars, peekVars, upVars, gqlVars, llmVars, wireVars>>
  \/ JobNext   /\ UNCHANGED <<sqlVars, tailVars, topicVars, peekVars, upVars, gqlVars, llmVars, wireVars>>
  \/ TailNext  /\ UNCHANGED <<sqlVars, jobVars, topicVars, peekVars, upVars, gqlVars, llmVars, wireVars>>
  \/ TopicNext /\ UNCHANGED <<sqlVars, jobVars, tailVars, peekVars, upVars, gqlVars, llmVars, wireVars>>
  \/ PeekNext  /\ UNCHANGED <<sqlVars, jobVars, tailVars, topicVars, upVars, gqlVars, llmVars, wireVars>>
  \/ UpNext    /\ UNCHANGED <<sqlVars, jobVars, tailVars, topicVars, peekVars, gqlVars, llmVars, wireVars>>
  \/ GqlNext   /\ UNCHANGED <<sqlVars, jobVars, tailVars, topicVars, peekVars, upVars, llmVars, wireVars>>
  \/ LlmNext   /\ UNCHANGED <<sqlVars, jobVars, tailVars, topicVars, peekVars, upVars, gqlVars, wireVars>>
  \/ WireNext  /\ UNCHANGED <<sqlVars, jobVars, tailVars, topicVars, peekVars, upVars, gqlVars, llmVars>>

vars == <<sqlVars, jobVars, tailVars, topicVars, peekVars, upVars, gqlVars, llmVars, wireVars>>

Spec == Init /\ [][Next]_vars /\ WF_jobVars(Work) /\ WF_tailVars(Handler)
=============================================================================
