--------------------------- MODULE HandlerRequest ---------------------------
(***************************************************************************)
(* One request through handlers/run and handlers/lib/jci.py, one process   *)
(* on one connection.  run answers by itself or becomes the handler;       *)
(* read_request() takes the request apart while the client is still        *)
(* sending it, main() maps the outcome to a response, and the helpers      *)
(* send, send_sse_headers, sse_event and forward_response write it.        *)
(*                                                                         *)
(* A request is a sequence of items: its line, the headers that matter, a  *)
(* blank line, and the bytes and chunk lines of its body.  A response is   *)
(* the sequence of heads and pieces of body that were flushed.  route() is *)
(* whatever a handler may do through the helpers.                          *)
(***************************************************************************)
EXTENDS Integers, Sequences

CONSTANTS
  Requests,   \* the requests that clients send
  NoNumber,   \* a Content-Length or chunk size that int() refuses
  Limit,      \* JCI_MAX_BODY
  MaxOut      \* the pieces of a streamed response that TLC looks at

ASSUME LimitAssumption == Limit \in Nat /\ MaxOut \in Nat

\* A chunk is not the last, whose size is 0, and has at least the bytes that it
\* announces: its size decides what belongs to it.
ChunkShape ==
  {k \in [size : Int \cup {NoNumber}, bytes : Nat] :
     k.size # 0 /\ (k.size # NoNumber => k.size <= k.bytes)}

RequestShape ==
  [line : {"line", "badline"}, expect : {"no", "waits", "goes on"},
   framing : {"none", "length", "chunked"}, length : Int \cup {NoNumber}, bytes : Nat,
   chunks : Seq(ChunkShape)]

ASSUME RequestAssumption == NoNumber \notin Int /\ \A r \in Requests : r \in RequestShape

VARIABLES
  request,  \* the request the client means to send
  sent,     \* how many of its items have been sent
  client,   \* open, shut (no more to send) or gone
  heard,    \* how much of the output the client has read
  lost,     \* unread input at the close has reset the connection
  pc,       \* where the process is
  fds,      \* its descriptors of the client's socket, stdin 0 and stdout 1
  got,      \* how many items it has read
  chunked,  \* what the headers have said about the body ...
  length,
  expect,   \* ... and about 100-continue
  need,     \* bytes the current _read_exact still wants
  body,     \* bytes of the body so far
  out       \* what the handler has written and flushed

vars == <<request, sent, client, heard, lost, pc, fds, got, chunked, length,
          expect, need, body, out>>

peer  == <<request, sent, client, heard, lost>>
heads == <<chunked, length, expect>>

Item(what)    == [is |-> what, n |-> 0]
Number(what, n) == [is |-> what, n |-> n]

ChunkWire(k) ==
  <<Number("size", k.size)>> \o [i \in 1 .. k.bytes |-> Item("byte")] \o <<Item("crlf")>>

ChunksWire(ks) ==
  LET upto[n \in 0 .. Len(ks)] ==
        IF n = 0 THEN <<>> ELSE upto[n - 1] \o ChunkWire(ks[n])
  IN  upto[Len(ks)] \o <<Number("size", 0), Item("crlf")>>

HeadWire(r) ==
  <<Item(r.line)>> \o (IF r.expect = "no" THEN <<>> ELSE <<Item("expect")>>)
    \o (CASE r.framing = "none"    -> <<>>
          [] r.framing = "length"  -> <<Number("length", r.length)>>
          [] r.framing = "chunked" -> <<Item("chunked")>>)
    \o <<Item("crlf")>>

Wire(r) ==
  HeadWire(r) \o
    (CASE r.framing = "none"    -> <<>>
       [] r.framing = "length"  -> [i \in 1 .. r.bytes |-> Item("byte")]
       [] r.framing = "chunked" -> ChunksWire(r.chunks))

Init ==
  /\ request \in Requests
  /\ sent = 0 /\ client = "open" /\ heard = 0 /\ lost = FALSE
  /\ pc = "dispatch" /\ fds = {0, 1} /\ got = 0 /\ need = 0 /\ body = 0 /\ out = <<>>
  /\ chunked = FALSE /\ length = 0 /\ expect = FALSE
-----------------------------------------------------------------------------
(* handlers/run                                                            *)

Arrived == got < sent
AtEof   == got = sent /\ client # "open"
Now     == Wire(request)[got + 1]

Write(what) == out' = Append(out, what)

Goto(where) ==
  /\ pc' = where
  /\ fds' = IF where = "ended" THEN {} ELSE fds

ReadOn(where) == Goto(where) /\ UNCHANGED <<need, body, out>>

\* readline() and read(1): take the next item.
Take == Arrived /\ got' = got + 1 /\ UNCHANGED peer

Quiet == UNCHANGED <<peer, got, heads, need, body>>

\* What the name and the files of the library select: the name is checked
\* first, then the directory, handler.sh before handler.py, and a venv before
\* the question whether one is needed.
Choice(valid, files) ==
  CASE ~valid \/ "dir" \notin files       -> "404"
    [] valid /\ {"dir", "sh"} \subseteq files -> "bash handler.sh"
    [] OTHER -> IF "py" \notin files THEN "404"
                ELSE IF "python" \in files THEN "venv python"
                ELSE IF "requirements" \in files THEN "503" ELSE "python3"

\* exec of a Python handler goes on in jci.main(); a handler.sh is a program
\* of its own.  Otherwise respond() writes head and body.
Dispatch ==
  /\ pc = "dispatch"
  /\ \E valid \in BOOLEAN, files \in SUBSET {"dir", "sh", "py", "requirements", "python"} :
       LET choice == Choice(valid, files)
       IN  \/ choice \in {"venv python", "python3"} /\ Goto("line") /\ UNCHANGED out
           \/ choice \in {"404", "503"} /\ Goto("responded") /\ Write(choice)
  /\ Quiet

\* Mutated form: respond() exits without the drain.
RespondExits ==
  /\ pc = "responded" /\ Goto("ended") /\ UNCHANGED out /\ Quiet

\* exec 1>&- ...
RespondCloses ==
  /\ pc = "responded"
  /\ pc' = "drain" /\ fds' = fds \ {1}
  /\ UNCHANGED out /\ Quiet

\* ... cat >/dev/null ...
DrainReads ==
  /\ pc = "drain" /\ Take
  /\ ReadOn("drain") /\ UNCHANGED heads

\* ... to the client's end of file, and exit.
DrainEnds == pc = "drain" /\ AtEof /\ Goto("ended") /\ UNCHANGED out /\ Quiet
-----------------------------------------------------------------------------
(* read_request                                                            *)

\* A ValueError answers 400, TooLarge 413, and main() returns.
Refuse(status) == Goto("ended") /\ Write(status) /\ UNCHANGED <<need, body>>

ReadLine ==
  /\ pc = "line" /\ Take
  /\ IF Now.is = "line" THEN ReadOn("headers") ELSE Refuse("400")
  /\ UNCHANGED heads

ReadHeader ==
  /\ pc = "headers" /\ Take
  /\ ReadOn(IF Now.is = "crlf" THEN "framing" ELSE "headers")
  /\ expect'  = (expect \/ Now.is = "expect")
  /\ chunked' = (chunked \/ Now.is = "chunked")
  /\ length'  = IF Now.is = "length" THEN Now.n ELSE length

\* Mutated form: Expect is not answered, as in a handler that ignores it.
AnswerExpectNot ==
  /\ pc = "framing" /\ expect
  /\ expect' = FALSE
  /\ UNCHANGED <<peer, got, chunked, length, pc, fds, need, body, out>>

\* "100 Continue" goes out before anything is known about the body.
AnswerExpect ==
  /\ pc = "framing" /\ expect
  /\ expect' = FALSE
  /\ Write("100")
  /\ UNCHANGED <<peer, got, chunked, length, pc, fds, need, body>>

\* chunked wins over Content-Length; a negative length reads nothing.
Framing ==
  /\ pc = "framing" /\ ~expect
  /\ \/ /\ chunked /\ ReadOn("size")
     \/ /\ ~chunked /\ length = NoNumber /\ Refuse("400")
     \/ /\ ~chunked /\ length # NoNumber /\ length > Limit /\ Refuse("413")
     \/ /\ ~chunked /\ length # NoNumber /\ length <= Limit
        /\ Goto(IF length > 0 THEN "exact" ELSE "route")
        /\ need' = length
        /\ UNCHANGED <<body, out>>
  /\ UNCHANGED <<peer, got, heads>>

\* _read_exact, one byte at a time.
ReadExact ==
  /\ pc = "exact" /\ Take
  /\ need' = need - 1 /\ body' = body + 1
  /\ Goto(IF need > 1 THEN "exact" ELSE IF chunked THEN "crlf" ELSE "route")
  /\ UNCHANGED <<heads, out>>

\* Mutated form: each chunk by itself is held against the limit.
ReadSizeOnly ==
  /\ pc = "size" /\ Take
  /\ \/ /\ (Now.is # "size" \/ Now.n = NoNumber) /\ Refuse("400")
     \/ /\ Now.is = "size" /\ Now.n = 0 /\ ReadOn("trailers")
     \/ /\ Now.is = "size" /\ Now.n \notin {0, NoNumber}
        /\ IF Now.n > Limit THEN Refuse("413")
           ELSE /\ need' = Now.n
                /\ Goto(IF Now.n > 0 THEN "exact" ELSE "crlf")
                /\ UNCHANGED <<body, out>>
  /\ UNCHANGED heads

\* A chunk size: 0 ends the body, a negative one passes for an empty chunk.
ReadSize ==
  /\ pc = "size" /\ Take
  /\ \/ /\ (Now.is # "size" \/ Now.n = NoNumber) /\ Refuse("400")
     \/ /\ Now.is = "size" /\ Now.n = 0 /\ ReadOn("trailers")
     \/ /\ Now.is = "size" /\ Now.n \notin {0, NoNumber}
        /\ IF body + Now.n > Limit THEN Refuse("413")
           ELSE /\ need' = Now.n
                /\ Goto(IF Now.n > 0 THEN "exact" ELSE "crlf")
                /\ UNCHANGED <<body, out>>
  /\ UNCHANGED heads

ReadCrlf ==
  /\ pc = "crlf" /\ Take
  /\ IF Now.is = "crlf" THEN ReadOn("size") ELSE Refuse("400")
  /\ UNCHANGED heads

ReadTrailer ==
  /\ pc = "trailers" /\ Take
  /\ ReadOn(IF Now.is = "crlf" THEN "route" ELSE "trailers")
  /\ UNCHANGED heads

\* Mutated form: the end of the input ends a body of known length.
ReadEofAccepts ==
  /\ pc \in {"line", "headers", "exact", "size", "crlf", "trailers"} /\ AtEof
  /\ IF pc \in {"trailers", "exact"} THEN ReadOn("route") ELSE Refuse("400")
  /\ UNCHANGED <<peer, got, heads>>

\* The input ends: only trailers may be cut short.
ReadEof ==
  /\ pc \in {"line", "headers", "exact", "size", "crlf", "trailers"} /\ AtEof
  /\ IF pc = "trailers" THEN ReadOn("route") ELSE Refuse("400")
  /\ UNCHANGED <<peer, got, heads>>
-----------------------------------------------------------------------------
(* route() and the exception clauses around it                             *)

\* send, send_json, send_error: head and body in one flush; the handler may
\* still have work to do, such as to close its backend.
RouteSends == pc = "route" /\ Goto("sent") /\ Write("200") /\ Quiet

RouteReturns == pc = "sent" /\ Goto("ended") /\ UNCHANGED out /\ Quiet

\* send_sse_headers, or the head of forward_response.
StreamOpens == pc = "route" /\ Goto("stream") /\ Write("200") /\ Quiet

StreamGoesOn ==
  /\ pc = "stream" /\ Len(out) < MaxOut
  /\ Write("data") /\ UNCHANGED <<pc, fds>> /\ Quiet

StreamEnds == pc = "stream" /\ Goto("ended") /\ UNCHANGED out /\ Quiet

\* A write to a client that is gone: SIGPIPE in an event stream, elsewhere
\* BrokenPipeError, which the send_error of main() meets once more.
BrokenPipe ==
  /\ client = "gone" /\ pc \in {"route", "sent", "stream"}
  /\ Goto("ended") /\ UNCHANGED out /\ Quiet

\* Mutated form: only a BackendConfigError is turned into a response.
RouteRaisesUncaught ==
  /\ pc \in {"route", "sent", "stream"}
  /\ Goto("ended") /\ (UNCHANGED out \/ Write("500")) /\ Quiet

\* BackendConfigError and every other exception of route() answer 500,
\* whatever route() has written before.
RouteRaises ==
  /\ pc \in {"route", "sent", "stream"}
  /\ Goto("ended") /\ Write("500") /\ Quiet
-----------------------------------------------------------------------------
(* The client                                                              *)

process == <<request, pc, fds, got, chunked, length, expect, need, body, out>>

\* A client that waits sends no body before it has heard something.
Waits == request.expect = "waits" /\ sent = Len(HeadWire(request)) /\ heard = 0

Send ==
  /\ client = "open" /\ sent < Len(Wire(request)) /\ ~Waits
  /\ sent' = sent + 1
  /\ UNCHANGED <<client, heard, lost, process>>

Shut ==
  /\ client = "open" /\ client' = "shut"
  /\ UNCHANGED <<sent, heard, lost, process>>

Leave ==
  /\ client # "gone" /\ client' = "gone"
  /\ UNCHANGED <<sent, heard, lost, process>>

Hear ==
  /\ client # "gone" /\ ~lost /\ heard < Len(out)
  /\ heard' = heard + 1
  /\ UNCHANGED <<sent, client, lost, process>>

\* The handler has closed with input unread: the reset overtakes what the
\* client has not read yet.
Reset ==
  /\ pc = "ended" /\ Arrived /\ ~lost
  /\ lost' = TRUE
  /\ UNCHANGED <<sent, client, heard, process>>
-----------------------------------------------------------------------------
RunStep == Dispatch \/ RespondCloses \/ DrainReads \/ DrainEnds

ReadStep ==
  \/ ReadLine \/ ReadHeader \/ AnswerExpect \/ Framing \/ ReadExact
  \/ ReadSize \/ ReadCrlf \/ ReadTrailer \/ ReadEof

RouteStep ==
  \/ RouteSends \/ RouteReturns \/ StreamOpens \/ StreamGoesOn \/ StreamEnds
  \/ BrokenPipe \/ RouteRaises

Next == RunStep \/ ReadStep \/ RouteStep \/ Send \/ Shut \/ Leave \/ Hear \/ Reset

\* The handler runs, route() comes to an answer, and a client that is still
\* there sends what it began and reads what arrives; nobody has to hang up.
Fairness ==
  WF_vars(RunStep) /\ WF_vars(ReadStep) /\ WF_vars(RouteStep) /\ WF_vars(Send) /\ WF_vars(Hear)

Spec == Init /\ [][Next]_vars /\ Fairness
-----------------------------------------------------------------------------
(* Properties                                                              *)

\* Every variable keeps its type.
TypeOK ==
  /\ request \in Requests /\ client \in {"open", "shut", "gone"}
  /\ sent \in 0 .. Len(Wire(request)) /\ got \in 0 .. sent
  /\ heard \in 0 .. Len(out) /\ lost \in BOOLEAN
  /\ pc \in {"dispatch", "responded", "drain", "line", "headers", "framing", "exact",
             "size", "crlf", "trailers", "route", "sent", "stream", "ended"}
  /\ fds \subseteq {0, 1} /\ chunked \in BOOLEAN /\ expect \in BOOLEAN
  /\ length = NoNumber \/ length \in Int
  /\ need \in Int /\ body \in 0 .. Limit
  /\ out \in Seq({"100", "200", "400", "404", "413", "500", "503", "data"})

\* What the request asks for, from its parts and not from its items: the sum
\* of the chunks before chunk i, whether chunk i can be read, and the verdict.
Positive(n) == IF n > 0 THEN n ELSE 0

Before(r, i) ==
  LET sum[n \in 0 .. Len(r.chunks)] ==
        IF n = 0 THEN 0 ELSE sum[n - 1] + Positive(r.chunks[n].size)
  IN  sum[i - 1]

Fault(r, i) ==
  LET k == r.chunks[i]
  IN  IF k.size = NoNumber THEN "400"
      ELSE IF Before(r, i) + k.size > Limit THEN "413"
      ELSE IF k.bytes = Positive(k.size) THEN "none" ELSE "400"

Verdict(r) ==
  CASE r.line # "line" -> "400"
    [] r.line = "line" /\ r.framing = "length" ->
         IF r.length = NoNumber THEN "400"
         ELSE IF r.length > Limit THEN "413" ELSE "200"
    [] r.line = "line" /\ r.framing = "chunked" ->
         IF \A i \in DOMAIN r.chunks : Fault(r, i) = "none" THEN "200"
         ELSE LET first == CHOOSE i \in DOMAIN r.chunks :
                             /\ Fault(r, i) # "none"
                             /\ \A j \in 1 .. i - 1 : Fault(r, j) = "none"
              IN  Fault(r, first)
    [] OTHER -> "200"

Payload(r) ==
  CASE r.framing = "length"  -> Positive(r.length)
    [] r.framing = "chunked" -> Before(r, Len(r.chunks) + 1)
    [] OTHER -> 0

\* A handler sees whole bodies only: route() runs for well-formed requests
\* within the limit, with every byte the client framed, however the request
\* was cut up and wherever the client stopped (_read_chunked, _read_exact).
BodyWhole ==
  pc \in {"route", "sent", "stream"} =>
    Verdict(request) = "200" /\ body = Payload(request)

\* The heads that are not interim, and the first of them.
Finals   == {i \in DOMAIN out : out[i] \notin {"100", "data"}}
First(i) == i \in Finals /\ \A j \in Finals : i <= j

\* A process that ends has answered, and its first answer names the cause:
\* 404 or 503 from run; 413 for a body over the limit (TooLarge is a
\* ValueError too), 400 for a malformed or truncated request, and anything
\* else only for a request that could be read.
AnswerFits ==
  pc = "ended" /\ client # "gone" =>
    \E i \in DOMAIN out :
      /\ First(i)
      /\ \/ out[i] \in {"404", "503", Verdict(request)}
         \/ out[i] = "500" /\ Verdict(request) = "200"
         \/ out[i] = "400" /\ client = "shut"

\* A client that sends a request the handler can read, waits for 100 Continue
\* if it asked for it, and stays, reads an answer: nothing of such a request
\* is unread when the process closes, so no reset overtakes the response.
AnswerHeard ==
  Verdict(request) = "200" =>
    <>(client # "open" \/ \E i \in 1 .. heard : out[i] \in {"200", "404", "500", "503"})

\* "So our close is a FIN and not a RST that beats the response to the
\* client": whatever the request is, and although run never looks at it, its
\* 404 or 503 is not lost to a reset (the drain of respond).
NoReset == \A i \in DOMAIN out : First(i) /\ out[i] \in {"404", "503"} => ~lost

\* "Half-close, then drain": while run drains the request, a client that reads
\* to the end of the connection is told that the response is over.
HalfClosed == (pc = "drain") ~> (fds = {} \/ client # "open")

\* "It reads one raw HTTP/1.x request and writes one raw HTTP/1.x response":
\* no second status line ever follows the first.
OneResponse == \A i, j \in Finals : i = j
=============================================================================
