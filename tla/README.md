# A TLA+ development of just-curl-it

`just-curl-it` lets plain `curl` talk to backends that do not speak HTTP. A
preloaded library (`lib/intercept.c`, "the shim") takes over `getaddrinfo()`
and `connect()` in the programs of an activated shell. A name that
`routes.conf` knows resolves to a *sentinel* address; a `connect()` to that
address forks a *handler*, a fresh process with the client's socket as stdin
and stdout, which reads one HTTP request, talks to its backend and writes one
response. There is no daemon: all state lives for one connection, or in files.

This directory holds models of that program in TLA+, the TLC configurations
that check them on small instances, and proofs that TLAPS checks for all
instances. `PROJECT.json` is the index: which lines each definition
translates, which run checks which property, which altered form of the code
each property detects, where model and documentation disagree, and which
hazards of the code are covered by what.

    tlc -workers 2 -config shim_one.cfg MCShim       # one model-checking run
    tlapm ShimProofs.tla                             # the proofs of one *Proofs module

## 1. The system and its hard parts

| part | source | state | operations | talks to |
|---|---|---|---|---|
| shim, connection | `lib/intercept.c` 233-481 | descriptors of three processes, alarm, connection | `connect()`: listen, double fork, real connect; grandchild: accept, gate, reject or exec | caller (fork, waitpid), client (TCP), handler (exec) |
| shim, routes | `lib/intercept.c` 110-231 | `g_routes`, read once per process | `load_config`, `getaddrinfo`, `connect` lookups | `routes.conf`, shim-meta (same file, other parser) |
| dispatcher | `handlers/run` | none | choose a program, or answer 404 / 503 | handler library, venvs |
| handler runtime | `handlers/lib/jci.py` | one request, one response | `read_request`, `send*`, `sse_*`, `forward_response`, `main` | client (stdin/stdout), `route()` |
| upstream client | `handlers/lib/jci.py` 546-696 | temporary PEM files | secrets, `tls_context`, header injection | commands, keychain, upstream |
| handler venvs | `bin/jci` 226-369 | `handlers/venv/<name>` | install, uninstall, status | dispatcher (same files, no lock) |
| stream handlers | `handlers/lib/{rabbit,redis,mqtt,kafka}` | held deliveries, subscriptions | publish, peek, tail, clear | brokers |
| SQL handlers | `handlers/lib/{postgres,mysql,sqlite,clickhouse}` | one transaction | `GET` read-only, `POST` writing | databases |
| cloud query handlers | `handlers/lib/{bigquery,athena,snowflake}` | a job at the provider | submit, poll, page | REST APIs |
| GraphQL, LLM, memcached | `handlers/lib/{graphql,llm,memcached}` | a scanner, a relayed stream, a receive buffer | gate of GET; chat whole or streamed; a text protocol | a server, a provider, memcached |
| AWS signing | `handlers/lib/jci_aws.py`, `aws-sigv4` | none | canonical form, HMAC | - |
| other handlers | `mongo`, `grpc`, `ldap`, `smtp`, `proxy`, `unix-http`, `hello` | none | one backend call per request | backends |
| CLI, helpers, build | `bin/jci`, `lib/helpers.sh`, `Makefile` | environment | activation, wrappers, copying | - |

What is hard here, and what would be right:

* **Shim.** Five processes share one connection: the caller, the child that
  exits at once, the grandchild, the handler it becomes, and the children of
  other threads that copy every descriptor. Any call may fail, any process may
  be killed, one alarm has two meanings and survives `exec`. Right means: a
  denied request runs no handler code, whatever packets it came in; the
  handler runs untimed; nobody is left waiting; a refused client reads its
  refusal; a stream ends with its client.
* **Routes.** A line buffer, a table limit, an optional column, two lookups
  and a second parser must tell one story while the file is edited.
* **Dispatcher and runtime.** The process answers while the client is still
  sending. Interim responses, limits, truncation, errors after the head and
  resets caused by unread input must leave the client with one fitting answer.
* **Venvs.** Install takes minutes, may be interrupted, is not locked, and is
  read by every request meanwhile.
* **Stream, SQL and query handlers.** Messages held by a process that SIGPIPE
  kills; a response that goes out before the commit; a job that outlives the
  deadline of its request. `GET` must not change anything (ADR 0005); an
  answer must be right about what became of a statement, a message, a page of
  rows; a stream says how it ended and ends after its client.
* **Upstream client.** Secrets pass through temporary files and headers, and
  every step may fail. Right means: no file is left behind, and what the
  section configures wins over what the client sends.
* **GraphQL, LLM, memcached.** A gate that does not parse; a stream of
  somebody else that breaks off after text was relayed; values that look like
  the protocol that carries them.

## 2. Modules

| module | models | its state and the code |
|---|---|---|
| `Interception` | what an intercepted connection promises, without processes | one verdict per connection, made for its request, and heard |
| `Shim` | `connect()` to a sentinel address, `peek_method`, `method_allowed`, `gate_reject`, exec | `call` is the program counter of `spawn_handler_and_connect` in the caller, `child` and `grand` those of the two forked processes; `alarm` is the pending SIGALRM, `tries` the loop counter of `peek_method`; `lfd` and `cfd` say *which processes hold* the listening socket and the client's socket; `conn`, `wire`, `unread`, `answer`, `heard` are the connection |
| `RouteTable` | `load_config`, the lookups, `read_routes` of shim-meta | `table[p]` is `g_routes` in process `p`, `source[p]` the file it was made from, `dns` and `reached` the last lookup and connect |
| `HandlerVenv` | `handler_install`, `handler_uninstall`, the venv branch of `handlers/run` | `venv` is the set of parts that exist, `step` and `ask` the program counters |
| `HandlerRequest` | `handlers/run` from its first line, `read_request`, `main` and the response helpers | `pc` is the program counter, `request`/`sent`/`got` the input and how far it was sent and read, `out`/`heard` the output, `fds` the descriptors of the socket |
| `RabbitQueue` | `handlers/lib/rabbit/handler.py`: every route on one queue, and the broker it talks to | `proc[p]` is a handler process (route, program counter, messages fetched, answer), `conn[p]` its broker connection (frames under way, messages held), `queue` the queue, `client[p]` the HTTP client |
| `SqlQuery` | `/query` of postgres, mysql, sqlite and clickhouse: read-only mechanism, execute, commit, answer, close | `step` is the place in `run_query`, `db` the session (read-only or not, what is pending, what is durable), `answers` the status lines |
| `QueryJob` | `/query` of bigquery, athena and snowflake, and the later look at a job | `job` is the job at the provider, `pc` and `polls` the handler, `page` the rows so far |
| `StreamTail` | the tails of mqtt, redis, kafka and postgres | `bus` is the broker and its connection, `tail` the handler, `sse` what the client got, `missed` what the broker or library never delivered |
| `MqttTopic` | publish, retained read and clear of one topic by several processes | `held` is the retained message, `line[p]` a connection, `hand[p]` a handler |
| `KafkaPeek` | peek and produce of kafka beside producers and retention | `parts` are the partitions, `look` the handler, `begun` the partitions at its start |
| `Upstream` | secrets, header injection, PEM files, TLS context and exchange of `jci.py` | `conf` is the section, `at` the step, `temp` the files, `out` the headers |
| `GraphqlOps` | `operation_types`, `refuse_on_get` and the routes around them | `doc` is a document as a list of definitions, flattened to tokens for the scanner |
| `LlmStream` | chat, stream, verbs and models for three providers | `gives` is the provider's stream and connection, `phase` the handler, `heard` the client |
| `MemcachedWire` | the memcached client: lines, values, commands | `wire` are the bytes still to come, `buf` is `self.buf`, `does` the step |
| `ShimProofs`, `RouteProofs`, `VenvProofs`, `RequestProofs`, `RabbitProofs` | theorems about `Shim` (and `Interception`), `RouteTable`, `HandlerVenv`, `HandlerRequest`, `RabbitQueue` | - |
| `QueryProofs` | theorems about `SqlQuery`, `QueryJob`, `GraphqlOps` | - |
| `StreamProofs` | theorems about `StreamTail`, `MqttTopic`, `KafkaPeek` | - |
| `UpstreamProofs` | theorems about `Upstream`, `LlmStream`, `MemcachedWire` | - |
| `MC*` | instances of the above; `MCFiles` holds `RouteTable` and `HandlerVenv`, `MCBackends` those from `SqlQuery` on | constants only; in these two also which component moves |

How they fit. `RouteTable` ends where `connect()` has selected a route, which
is where `Shim` begins (`route[c]`). `Shim` ends with `exec`: its handler is
any program that reads and answers, and `HandlerRequest` is the real one, from
`handlers/run` on. `HandlerVenv` is the same dispatcher beside the commands
that change what it looks at. `RabbitQueue` is one `route()` in full, where
`HandlerRequest` only says that it answers, fails or streams; that its
abandoned client becomes visible as a closed socket is what `StreamEnds` of
`Shim` is about. The backends' modules are `route()` functions in the same
way: what they call a status line is written, or torn off, as
`HandlerRequest` says, and an exception that they leave to `main()` is its
500. They do not interact with each other, so `MCBackends` lets one of them
move in each behaviour while the others rest. `Shim` implements `Interception` under the
mapping at its end (`Promise`), checked as the property `KeepsPromise` and proved.

Conventions. A step of the model is a system call, or the code between two
points where another process can notice a difference. Definitions keep the
names of the source where there is one. A definition marked *Mutated form* is
the same step with a plausible mistake; no specification uses it, and
`PROJECT.json` says which property notices it. In `Shim`, time is "a pending
alarm may fire at any moment"; the only timing assumption is that of the drain
alarm (5 s): local bytes that have arrived are read before it fires.

Behaviour of the world outside the source: `fork` copies every descriptor;
`exec` and exit close them (close-on-exec as the caller chose, `CloExec`); a
connection in the backlog of a socket is reset when the last descriptor of
that socket goes; a close with unread bytes is a reset, otherwise a FIN; the
client's end closes when no process holds it. `python -m venv` creates the
interpreter before pip. The broker of `RabbitQueue` is a classic queue:
publish order, requeue to the old place, everything held by a connection given
back when it ends; a passive declare, get, purge or consume is answered after
all that was sent before it. A read-only session of PostgreSQL, MySQL, SQLite
or ClickHouse refuses what its documentation says, and no more: DDL commits
MySQL's transaction and runs outside it, a statement that writes a file
(`SELECT ... INTO OUTFILE`, `COPY ... TO`) is a read to MySQL and PostgreSQL and
needs only a privilege, a prepared PostgreSQL statement is one statement,
ClickHouse has no transactions and an `INSERT` that fails midway has inserted. A job at a cloud provider ends
when it likes, or never, and its pages are of any size up to what was asked
for. An MQTT broker acknowledges what it has taken, in order. librdkafka
reconnects by itself and may send a record twice; paho and psycopg do not
reconnect. memcached's bytes arrive in pieces of any size; to it a line ends at
a line feed, with or without a carriage return, and a negative expiry, or one
above 30 days (which is a date of 1970), is over at once. A GraphQL server ends
comments and block strings as the GraphQL grammar says. These are marked `external` in the map.

## 3. Runs

| run | instance | shows |
|---|---|---|
| `shim_one` | 1 connection, an ungated streaming route and one that allows GET of {GET, POST}, 2 looks at a partial line, alarm on, close-on-exec | the gate, the alarms, all progress properties, and that `Shim` implements `Interception` |
| `shim_threads` | 2 threads of one process, inherited descriptors | who may hold a connection that nobody accepts |
| `shim_gate_timeout` | 1 connection, only the gated route, no streams | *violated:* the accept alarm kills a grandchild at the gate, whose caller is connected and has not sent its request line |
| `shim_stream_leak` | `CloExec = FALSE` | *violated:* a stream outlives its client |
| `files` | `routes.conf`: all files of up to 3 lines from 5 kinds of line, table of 2, buffer of 4 words, edits; or a venv: 2 installs, 1 uninstall, 2 requests | names reach the handler of their first line, the two parsers agree; all-or-nothing installs, answers beside no command |
| `request` | 81 requests around a limit of 2 bytes | whole bodies, fitting answers, no deadlock over 100 Continue, no lost answers |
| `rabbit` | 2 requests of any route, a queue that is missing or holds 2 messages, limits 0 and 2, 1 broken connection, another consumer | no message lost or doubled, what a GET held comes back, only POST creates |
| `request_two_heads` | same as `request` | *violated:* a second status line |
| `request_half_close` | same | *violated:* closing stdout is not a half-close |
| `backends` | one backend handler at a time, see Bounds | reads leave the data alone, answers are right, tails are complete and end, secrets are kept, the gate of GET is exact but for documents that the property names |
| `upstream_ca` | same | *violated:* a CA that is configured as a command is not used |
| `graphql_keyword` | same, without documents whose comments or block strings are misread | *violated:* a GET that would run a mutation is forwarded, when its variables hide it from the scanner |

A *violated* run checks one sentence of the repository's documentation or
comments that the code does not keep; `findings` quotes it. Two of these are
on the project's own list of deferred items (`docs/roadmap.md`): the missing
`shutdown` in `respond()`, and error paths that do not drain the body. The
second is in `HandlerRequest` as the action `Reset`; no text promises that a
413 arrives, so `AnswerHeard` is stated for readable requests.

Disagreements that no run records, because they follow from one line:
shim-meta reports the edited file and not the table that running programs have
loaded (`shim-meta/handler.py:33`, against `shim-meta/README.md:3`); a venv
whose install was interrupted passes the dispatcher's look and answers an
import error as a 500 instead of the 503 with its install hint
(`handlers/run:62`); DDL under a snowflake GET without `readonly_role` is not
warned about, as its statistics count rows (`snowflake/handler.py:107`,
excepted in `GetWriteWarned`); a GET of `COPY ... TO` writes a file or runs a
program when the configured PostgreSQL user may do so, which ADR 0005 rules
out and nothing warns of (for `INTO OUTFILE`, `mysql/README.md:48-49` does); a
comment with a bare carriage return (`# CR mutation M {x}`), or a block string
with `\"""` in it, is misread by the GraphQL scanner, and a GET then forwards
a mutation (`graphql/handler.py:54` and `57`, against the same sentence of its
README as `graphql_keyword`); a GraphQL server that refuses introspection gives
a 500 (`graphql/handler.py:151`, not the 502 of `graphql/README.md:49`);
`stats()` of memcached reads past an error line
until its timeout (`memcached/handler.py:97`), a key that ends in a line break
is not refused (`memcached/handler.py:29`, against `memcached/README.md:39`), and
a value is "stored" whose `?ex=` is over (`memcached/handler.py:154`); errors of redis-py and psycopg
in a tail are no `OSError`, so `main()` writes its 500 into the open stream
(`"500"` in `StreamTail`; the same step as in `request_two_heads`).

**Properties.** In `Shim`: `GateSound` (no handler without an allowed, complete
first token), `HandlerUntimed`, `QueuedHasAcceptor`, `ConnectReturns`,
`ShimLetsGo` (no process is left behind by a caller that dies between listen
and connect), `RejectionHeard` (405/400 is not lost to a reset), `ClientHears`
(no client hangs), `StreamEnds`, `KeepsPromise`. In `RouteTable`:
`RightHandler`, `MetaAgrees`. In `HandlerVenv`: `InstallHeals`, `CalmAnswers`.
In `HandlerRequest`: `BodyWhole`, `AnswerFits`, `AnswerHeard`, `NoReset`. In
`RabbitQueue`: `Conserved`, `PeekDistinct`, `OnlyPostCreates`,
`HeldComesBack` (also after SIGPIPE and broken connections),
`PublishedArrives` (the 200 is sent before the broker has the message).

In the backends:

* `GetLeavesData`, `AnswerIsFate` (`SqlQuery`): a GET leaves the data alone under
  each mechanism, and a file of the server, too, unless the database is MySQL or
  PostgreSQL and the configured user has been granted the writing of files; the
  last status line is right about what is committed. After a 400 something may
  have been done all the same by a statement that no transaction protects: one
  of ClickHouse, a script, a file, DDL of MySQL. It may have failed midway,
  or, in mysql, its answer may have been lost, which is a 400 there.
* `RowsExact`, `GetWriteWarned`, `NoSilentOrphan`, `Answered` (`QueryJob`): the
  first rows, each once, or `truncated`; what a GET may write and must say;
  no job is left running without its id in the answer; every request ends,
  whether or not its job does.
* `TailComplete`, `TailTellsEnd`, `TailEnds` (`StreamTail`): handlers lose and
  reorder nothing that the broker delivered; an end is announced, by an error
  event, or by the status of a feed that is refused or fails (400, 404, 500 or
  502, as each handler has it); a tail ends after its client. redis blocks in `listen()` and is excepted from the last.
* `TopicAnswersTrue` (`MqttTopic`): a 200 to a publish at QoS 1 means the broker
  has it, and a retained message was retained. Nothing is claimed of a DELETE,
  which says "cleared" at its deadline, too, or of a 404 at the deadline of a GET.
* `KafkaAnswersTrue` (`KafkaPeek`): never more than the limit, the newest records
  of each partition when the topic stands still, a produced record that
  exists. The library may write it twice.
* `SecretsKept` (`Upstream`): no temporary PEM file when the upstream is asked
  and none at the end - but for the certificate whose key cannot be had, a
  failure between the making of the file and the `try` that unlinks it.
* `GateExact` (`GraphqlOps`): a GET that is forwarded never runs a mutation, and
  a query is forwarded, for documents with comments, strings and block strings
  anywhere. The scanner does not parse, and three kinds of document are
  excepted. `Misread`: a comment that has a bare carriage return in it, or a block
  string with `\"""` in it, which end elsewhere for the server; what is between
  the two ends can be an operation that only one of them sees. `Objects`: a
  variable's default that is an object has braces that the scanner takes for a
  selection set, which costs a query a 405. `Misleads`: with a keyword behind
  such an object outside the braces (`($o: T = {}, $query: A)`), or with words
  behind an operation that is named `on`, the scanner can take a mutation for a
  query. `MutationRefused`, the sentence of the handler's README without
  exception, is therefore violated in `graphql_keyword`.
* `ChatKept` (`LlmStream`): text in order and without gaps; a done event with a
  stop reason only after a finished answer; tokens within the cap.
* `WireExact` (`MemcachedWire`): the stored value, whole, or an error; a 404 only
  if there was none; nothing of the reply left over, but for the `ERROR` that
  answers the second half of a key with a line break at its end; a value that
  was stored is there unless its expiry was over when it came.

**Bounds and why they are enough.** Connections only meet through descriptors
that fork copies, so two threads of one process show every kind of stray copy,
and one connection every history of a single one. Two looks at a partial line
stand for 500: the loop only compares its counter with the bound (which the
type invariant and the proofs keep general). Tables of two routes and files of
three lines contain a duplicate host on either side of the limit, a line that
is split by the buffer, and every form of line the parser distinguishes. Two
bytes of limit and chunks from -1 to 3 put every comparison of
`read_request` on both sides of equality. Two installs, one uninstall and two
requests are the least in which a request sees two commands fight. Two
handlers and two messages give every pair of routes on one queue, with a
message for each and one to quarrel about; a limit of 0 meets the clamp, a
limit of 2 a loop. `MaxOut`
cuts a streamed response after four pieces; nothing counts them.

In `backends`: the kinds of SQL statement are the ones that the four
mechanisms tell apart. Results of 0, 1, 3 and 4 rows against `max_rows` 0, 1
and 3 and pages of at most 2 put every page boundary, the header row and
`max_rows + 1` on both sides of equality; two looks at a running job stand for
ten minutes of them. Three messages are enough for one that was read, one
taken and not written, and one lost with the connection, which breaks once;
`IdleTicks` of 2 stands for ten silent rounds. Three processes on an MQTT
topic are a publisher, a reader and one that clears. Two partitions and limits
of 1, 3 and 4 make the share of a partition less than one, rounded down, and
exact. `MCConfigs` holds all forms of certificate and key with all forms of
CA, and all forms of two secrets with each header name. `MCDefinitions` has
each construct that could mislead the scanner: names, directives, variables,
fragments and fields that are keywords, nested braces, object defaults,
comments and block strings with braces, keywords and each other's delimiters in
them, and one of each that the scanner misreads; all documents of one or two
of them. Two pieces of text show a gap and a wrong
order. `MCValues` has a line break, an END line and a value that is shorter
after its first line.

Runs do not check deadlock where the modelled processes really end (`Shim`,
`HandlerVenv`, `HandlerRequest`, `RabbitQueue`, the backends); in `RouteTable` an
edit is always possible, so the question would say nothing.

**Fairness.** `Shim`: weak fairness of each process's own steps (the kernel
schedules runnable processes), of alarms (SIGALRM is delivered), and of a
client reading what can be read. Nothing is assumed of sending, closing,
dying, or of `connect()` being called. The fairness of `HandlerStep` assumes
that a handler comes to an end; a stream has no end of its own and can only
end by `StreamBreaks`, when an event meets a closed socket, so `StreamEnds`
also assumes that the stream has another event (`sse_comment` keepalives).
A SIGALRM is delivered to a grandchild only if the caller, from which it is
inherited, has not blocked or ignored it: the shim does not see to that, and
`ShimLetsGo` and `ClientHears` hold of callers that have left it alone.
`HandlerRequest`: the process runs, `route()` comes to an answer, and a client
that is still there sends what it began and reads what arrives; it never has
to hang up, and a client with `expect = "waits"` waits for ever.
`RabbitQueue`: a handler that can step does, and the broker takes what arrives
and notices broken connections; no client has to leave a tail, and messages
need not come (`consume` has `inactivity_timeout=1.0`, so a tail writes).
`QueryJob`: weak fairness of the handler's own steps (`Work`), as every call
has a timeout (`connect_upstream`); jobs need not end, so `Answered` rests on
the deadline alone. `StreamTail`: weak fairness of the handler, whose library
calls return within a second (redis excepted); nobody need publish, leave or
reconnect.

## 4. Proofs

Eight modules hold proofs. Every safety invariant and every action property
that a passing run checks is a theorem here, for every value of the constants
that the assumptions below allow; so is the refinement `KeepsPromise`.

| module | theorem | property | for any |
|---|---|---|---|
| `ShimProofs` | `TypeCorrect` | `TypeOK` | connections, threads, processes, routes, allow-lists, timeouts |
| | `GateIsSound` | `GateSound` | same |
| | `HandlerIsUntimed` | `HandlerUntimed` | same |
| | `QueueHasAcceptor` | `QueuedHasAcceptor` | same |
| | `ShimKeepsPromise` | `KeepsPromise` | same |
| `RouteProofs` | `HandlersAreRight` | `RightHandler` | files, sizes of table and buffer, processes, edits |
| | `MetaIsRight` | `MetaAgrees` | same |
| `VenvProofs` | `CalmlyAnswered` | `CalmAnswers` | installs, uninstalls, requests |
| | `InstallIsWhole` | `InstallHeals` | same |
| `RequestProofs` | `RequestTyped` | `TypeOK` | requests, limit |
| | `BodiesAreWhole` | `BodyWhole` | same |
| | `AnswersFit` | `AnswerFits` | same |
| | `DrainPreventsReset` | `NoReset` | same |
| `RabbitProofs` | `RabbitTyped` | `TypeOK` | handlers, messages, limits |
| | `MessagesAreConserved` | `Conserved` | same |
| | `PeeksAreDistinct` | `PeekDistinct` | same |
| | `OnlyPostsCreate` | `OnlyPostCreates` | same |
| `QueryProofs` | `ReadsLeaveData` | `GetLeavesData` | `SqlQuery` has no constants |
| | `AnswerTellsFate` | `AnswerIsFate` | same |
| | `RowsAreExact` | `RowsExact` | rows, limits, page sizes, looks at the job |
| | `GetWritesAreWarned` | `GetWriteWarned` | same |
| | `OrphansAreNamed` | `NoSilentOrphan` | same |
| | `GateIsExact` | `GateExact` | documents |
| `StreamProofs` | `TailsAreComplete` | `TailComplete` | messages, silent rounds |
| | `TailsTellTheEnd` | `TailTellsEnd` | same |
| | `TopicsAreTold` | `TopicAnswersTrue` | processes and requests of a topic |
| | `TopicsArePeeked` | `KafkaAnswersTrue` | partitions, records, limits |
| `UpstreamProofs` | `SecretsAreKept` | `SecretsKept` | sections of `backends.conf` |
| | `ChatsAreKept` | `ChatKept` | pieces of text, caps, wishes |
| | `WireIsExact` | `WireExact` | values, keys, cuts of the reply |

**Assumptions.** Each is an `ASSUME` of the module that declares the constant,
and TLC evaluates all of them. Most only say that a constant is a set or a
function of the stated kind, or that a bound is a number. These say more:

* `Shim`: the markers `Junk`, `Star` and `"unsaid"` are not methods; there is at
  least one look at a partial line (`peek_method` takes 500).
* `HandlerVenv`: a command is an install or an uninstall, not both.
* `RouteTable`: the table has a place and the buffer a word; no word of a line
  is empty, as `sscanf` and `split` make none.
* `HandlerRequest`: a chunk contains the bytes that its size announces, for it
  is the size that decides what belongs to it; it may contain more, and the
  client may stop anywhere. The last chunk is not among `chunks`.
* `GraphqlOps`: as the server reads them, comments and block strings end in the
  part of a definition in which they begin, and the braces between a definition's
  name and its selection set, and those in it, are balanced (the server parses
  the document); `{ ... }` alone has no name and no variables. Nothing is assumed
  of the scanner's reading.
* `LlmStream`: the cap is not 0. `QueryJob`: `Polls` and `PageCap` are not 0.
  `StreamTail`: nor is `IdleTicks`.
* `MemcachedWire`: a value is a sequence. Nothing is assumed of what is in it.

**Why the invariants need strengthening.** Each proof has an inductive
invariant, one step per action, and under it one per conjunct that the action
disturbs.

* `ShimProofs`. `tries <= PeekTries` is not inductive: a look at the last try
  must end the loop. `TypeInv` adds that a process that still peeks has tries
  left, and that a call that has not forked has no child. `GateKept`: already
  the decision `admit` had the method, and a first line that was sent is never
  resent. `ListenHolders` says which processes may hold a listening socket: its
  own caller before `CloseListen`, its own child, its own grandchild before
  `accept()`, and processes of the same caller; `QueueHeld`, that a queued
  connection has a holder and its call has returned. What then remains for
  `QueuedHasAcceptor` is the grandchild, a stray copy, or the child that has not
  forked yet when a signal has ended the caller's `waitpid()` (`ConnectEarly`).
* `ShimKeepsPromise`. Initial states of `Shim` are initial states of
  `Interception` under the mapping, and every step is `Settle`, `Say`, `Judge`,
  `Hear`, `End` or a stutter (`PromiseStep`). It needs `PromiseInv`: `LinkPhase`
  relates the grandchild to its connection, `AnswerPhase` says who can have
  answered in which phase. `End` takes a set of connections, because the exit
  of one process may close several.
* `RouteProofs`. `TableInv` says that a table is `load_config` of the file it was
  made from and that a remembered address is one of that table.
  `TableEntries` says by induction on the lines what the loop has put where,
  `Found` which entry a name or an address finds. `SameTable` relates the
  loops of the two parsers.
* `VenvProofs`. `Undisturbed`: an install that was alone so far is the only
  busy command and has kept the interpreter it found or made. `Calmly`: a
  request beside no command that has seen a python looks at a whole venv.
* `RequestProofs`. The reader sees items, the properties speak of the request.
  `HeadItems`, `ChunkItems` and `ChunkedItems` say which item of `Wire(r)` stands
  where. `Reading` says for every place of the reader how much of the request
  it has taken, and `Answers` what is in `out` by then.
* `RabbitProofs`. `Conserved` is inductive only together with what is under way:
  `NumberedAt` (numbers of messages are those published), `PhaseAt` (which
  frames a handler at each place can have sent), `PeekAt` (what a peek has got,
  it holds) and `NacksAt` (a nack under way is for a message still held, once).
* `QueryProofs`. `SqlInv` says why a GET is safe at each step, `Fate` follows the
  status that is about to be sent. `JobInv` relates step and job (`JobPhase`),
  what a job may have written to how it was started (`JobWrites`), and the page
  to the rows so far (`PageFits`). For `GraphqlOps` the invariant is small and
  the work is in the scanner: `BodyScanned` (braces bring it back to depth 0
  without a change), `ExtraScanned` (what stands between name and selection set
  is passed over), `DefScanned` (a definition yields its operation),
  `DocumentTold` (the list is that of the document's operations). Before that,
  `ReadAlike` shows that a part without a misread delimiter is read alike by both,
  `ReadJoin` that texts are read one after the other, and `DocumentRead` that the
  scanner thus works on what the server sees.
* `StreamProofs`. `TailInv`: while its client is there, each message since the
  subscription is written, taken, pushed or `missed` (`Covered`), and in this
  order (`InOrder`); nothing is in a buffer where the loop would forget it
  (`Stages`). `TopicInv`: an acknowledgement on its way to a handler, or with it,
  is true, and a GET holds only what was retained since it began (`Honest`).
  `PeekInv`: the records read are at most the limit (`Counted`), none is older
  than its partition's share (`NotOlder`), and while the topic stands still
  they are the share up to the position (`Still`).
* `UpstreamProofs`. `UpInv` says which temporary file each step can find.
  `LlmInv` counts the pieces relayed. `WireInv` says for every step what of the
  reply is left in buffer and connection together; `LineRead` that a line is
  found whole however it is cut.

Recursion over data (the scanner, the table loop, the items of a request) is
written as recursive functions. Such a function exists, and satisfies its
equation, by the lemmas `...Exist` and `...Next`; facts about all of its values
follow by the lemma `Induction`, which speaks of a *set* of numbers and rests
on the well-foundedness of `<`.

**What proving has changed.** `GateExact` was false as first stated: a keyword
behind an object default outside the braces, or a word behind an operation
named `on`, makes the scanner report an operation that is not there. The
exceptions are in the property (`Misleads`, `Objects`, and `Misread` since
comments and block strings are modelled), and the run
`graphql_keyword` shows the mutation that a GET then forwards. `Interception`
allowed one connection to end at a time.
Overlapping arms of CASE in `UpstreamAnswers` and `Closed`, whose result TLA+
leaves open, are now disjoint.

**Model-checked only.** Liveness, which needs fairness: `ConnectReturns`,
`ShimLetsGo`, `RejectionHeard`, `ClientHears`, `StreamEnds`, `AnswerHeard`,
`HeldComesBack`, `PublishedArrives`, `Answered`, `TailEnds`. These are out of the
prover's reach.

## 5. Not modelled

Byte-level formats (response wording, JSON, header spelling, field widths of
the C structs), the macOS interposing mechanism, `INTERCEPT_DEBUG` logging,
the CLI's activation and doctor commands, helpers, build scripts. `setenv()`
between fork and exec in a multithreaded caller is below the level of `Shim`.
A resolver that itself answers 127.0.0.2 or above for a name without a route
is excluded in `RouteTable` (`do_getaddrinfo`). In `RabbitQueue`: deletion or
expiry of the queue while a request runs, delivery limits of quorum queues (on
the list of `docs/roadmap.md`), and the broker blocking a publisher. An answer
to a peek or POST may overtake its nacks or its publish; a second request that
looks at once may find the queue shorter. The model contains this, and no
property denies it.

Of the backends: what one library call does (`/kv` and PUBLISH of redis,
NOTIFY, listings of topics, datasets, tables and keys of other stores), which
keeps no state between requests; mongo, grpc, ldap, smtp and unix-http, which
are one such call each and whose outcome `HandlerRequest` covers; the
conversion of cells, columns and usage counts; AWS signing, a pure function
whose correctness is agreement with AWS byte by byte and which the unit tests
compare with AWS's vectors. In `GraphqlOps` a string in plain quotes is one
token: the server allows no line break in it, and both pass over its escapes. In `MqttTopic` wildcard reads, which collect until their deadline, are
left out. Commands of a section that hang are not modelled: `run_cmd` has no
timeout.

## 6. Plan

Every part of section 1 that keeps state is modelled, and every safety property
is proved. What may still be worth adding: abstract specifications in the
manner of `Interception` for the runtime (one request, one answer) and for a
queue behind its handlers, with the refinement proved; shorter proofs, by
moving the lemmas that several modules repeat (`Induction`, `Appended`) to one
place; wildcard reads of MQTT.
