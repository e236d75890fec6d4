----------------------------- MODULE GraphqlOps ----------------------------
(***************************************************************************)
(* The graphql handler: a GET is forwarded only when the operation that    *)
(* the server would run is a query, and a scanner decides that without     *)
(* parsing the document.  Here a document is built from definitions, which *)
(* say what it means, and flattened to tokens.  The server, which is       *)
(* external, and the scanner read the same tokens, but do not always end a *)
(* comment or a block string at the same one.  A string in plain quotes,   *)
(* whose end both find, is one token; "other" is any punctuation that the  *)
(* scanner passes over.                                                    *)
(***************************************************************************)
EXTENDS Integers, Sequences

CONSTANT Documents \* sequences of definitions, see DefShape

OpTypes   == {"query", "mutation"}
Words == OpTypes \cup {"fragment", "on", "A", "B"}

Braces == {"{", "}"}

\* Beginnings and ends of comments and block strings: "lf" is any line end with
\* a line feed in it and "cr" a bare carriage return, "escaped" the three quotes
\* behind a backslash.
Delimiters == {"#", "lf", "cr", "block", "escaped"}
Symbols    == Words \cup Braces \cup Delimiters \cup {"@", "other", "string"}

Turn(t) == IF t = "{" THEN 1 ELSE IF t = "}" THEN 0 - 1 ELSE 0

\* How deep in braces each place of a text is.
Depth(ts) ==
  LET deep[k \in 0 .. Len(ts)] == IF k = 0 THEN 0 ELSE deep[k - 1] + Turn(ts[k])
  IN  deep

Balanced(ts) == Depth(ts)[Len(ts)] = 0 /\ \A k \in 0 .. Len(ts) : Depth(ts)[k] >= 0
-----------------------------------------------------------------------------
(* Comments and block strings                                              *)

\* What ends a comment or a block string, to the server and to the scanner.
Closers(who, mode) ==
  IF mode = "comment" THEN IF who = "server" THEN {"lf", "cr"} ELSE {"lf"}
  ELSE IF who = "server" THEN {"block"} ELSE {"block", "escaped"}

\* How far a text is read: in what it is there, and the tokens that were seen.
Reading(mode, seen) == [mode |-> mode, seen |-> seen]

Lex(who, r, t) ==
  IF r.mode # "text" THEN Reading(IF t \in Closers(who, r.mode) THEN "text" ELSE r.mode, r.seen)
  ELSE IF t = "#" THEN Reading("comment", r.seen)
  ELSE IF t \in {"block", "escaped"} THEN Reading("block", r.seen)
  ELSE Reading("text", IF t \in {"lf", "cr"} THEN r.seen ELSE Append(r.seen, t))

Lexes(who, ts) ==
  LET at[k \in 0 .. Len(ts)] ==
        IF k = 0 THEN Reading("text", <<>>) ELSE Lex(who, at[k - 1], ts[k])
  IN  at

Lexed(who, ts) == Lexes(who, ts)[Len(ts)]

\* A bare carriage return ends a comment for the server alone, three quotes behind
\* a backslash end a block string for the scanner alone.
Misread(ts) ==
  \E k \in DOMAIN ts :
    \/ Lexes("server", ts)[k - 1].mode = "comment" /\ ts[k] = "cr"
    \/ Lexes("server", ts)[k - 1].mode = "block" /\ ts[k] = "escaped"
-----------------------------------------------------------------------------
(* Documents                                                               *)

\* A definition: comments in front of it; its kind; short: { ... } alone; name
\* or ""; tokens between the name and the selection set; the selection set's.
DefShape ==
  [before : Seq(Symbols), kind : OpTypes \cup {"fragment"}, short : BOOLEAN,
   name : Words \cup {""}, extra : Seq(Symbols), body : Seq(Symbols)]

\* What the server reads of it.
Visible(d) ==
  [before |-> <<>>, kind |-> d.kind, short |-> d.short, name |-> d.name,
   extra |-> Lexed("server", d.extra).seen, body |-> Lexed("server", d.body).seen]

ASSUME GraphqlAssumption ==
  \A d \in Documents :
    /\ d \in Seq(DefShape)
    /\ \A i \in DOMAIN d :
         /\ \A part \in {d[i].before, d[i].extra, d[i].body} : Lexed("server", part).mode = "text"
         /\ Lexed("server", d[i].before).seen = <<>>
         /\ Balanced(Visible(d[i]).extra) /\ Balanced(Visible(d[i]).body)
         /\ d[i].short => d[i].kind = "query" /\ d[i].name = "" /\ d[i].extra = <<>>

VARIABLES
  doc,  \* the definitions, in order
  call, \* what is asked: get, post, schema, type; op: ?op= or ""
  stage, verdict, \* the next step, and the status answered
  sent  \* forwarded

gqlVars == <<doc, call, stage, verdict, sent>>

Operations(d) == {i \in DOMAIN d : d[i].kind # "fragment"}

\* What a server accepts: operations with names of their own, or a single one.
Valid(d) ==
  \A i, j \in Operations(d) : i # j => d[i].name \notin {"", d[j].name}

GqlInit ==
  /\ doc \in Documents /\ Valid(doc)
  /\ call \in [what : {"get", "post", "schema", "type"}, op : {"", "A", "B"}]
  /\ call.what # "get" => call.op = ""
  /\ stage = "route" /\ verdict = "none" /\ sent = FALSE

Opening(d) ==
  IF d.short THEN <<>> ELSE IF d.name = "" THEN <<d.kind>> ELSE <<d.kind, d.name>>
Tokens1(d) == Opening(d) \o (d.extra \o (<<"{">> \o (d.body \o <<"}">>)))

Flat(parts) ==
  LET flat[n \in 0 .. Len(parts)] == IF n = 0 THEN <<>> ELSE flat[n - 1] \o parts[n]
  IN  flat[Len(parts)]

Text(d) == Flat([i \in 1 .. Len(d) |-> d[i].before \o Tokens1(d[i])])
-----------------------------------------------------------------------------
(* operation_types()                                                       *)

\* What it knows: the operations so far, how deep in braces it is, the keyword
\* and the name of the definition it is in, and words to pass over.
State(ops, depth, kw, name, skip) ==
  [ops |-> ops, depth |-> depth, kw |-> kw, name |-> name, skip |-> skip]

Scanner == State(<<>>, 0, "", "", 0)

Noted(s) ==
  IF s.kw \in OpTypes THEN Append(s.ops, <<s.kw, s.name>>)
  ELSE IF s.kw = "" THEN Append(s.ops, <<"query", "">>) ELSE s.ops

Brace(s) ==
  IF s.depth > 0 THEN State(s.ops, s.depth + 1, s.kw, s.name, s.skip)
  ELSE State(Noted(s), 1, "", "", 0)

Keyword(t) == IF t \in OpTypes \cup {"fragment"} THEN t ELSE ""

\* Mutated form: a later keyword counts.
WordLast(s, t) ==
  IF s.skip = 1 THEN State(s.ops, s.depth, s.kw, s.name, 0)
  ELSE IF s.kw = "" \/ t \in OpTypes THEN State(s.ops, s.depth, Keyword(t), s.name, 0)
  ELSE IF s.name = "" /\ t # "on" THEN State(s.ops, s.depth, s.kw, t, 0)
  ELSE State(s.ops, s.depth, s.kw, s.name, IF t = "on" THEN 1 ELSE 0)

\* An identifier outside braces: the word after @ or on, a keyword, a name.
Word(s, t) ==
  IF s.skip = 1 THEN State(s.ops, s.depth, s.kw, s.name, 0)
  ELSE IF s.kw = "" THEN State(s.ops, s.depth, Keyword(t), s.name, 0)
  ELSE IF s.name = "" /\ t # "on" THEN State(s.ops, s.depth, s.kw, t, 0)
  ELSE State(s.ops, s.depth, s.kw, s.name, IF t = "on" THEN 1 ELSE 0)

\* A token that is in no comment and no string.
Scan(s, t) ==
  IF t = "{" THEN Brace(s)
  ELSE IF t = "}" THEN
    State(s.ops, IF s.depth > 0 THEN s.depth - 1 ELSE 0, s.kw, s.name, s.skip)
  ELSE IF s.depth > 0 THEN s
  ELSE IF t = "@" THEN State(s.ops, s.depth, s.kw, s.name, 1)
  ELSE IF t \in Words THEN Word(s, t) ELSE s

\* The scanner, begun in state s, after a text.
Scanned(s, tokens) ==
  LET at[k \in 0 .. Len(tokens)] == IF k = 0 THEN s ELSE Scan(at[k - 1], tokens[k])
  IN  at[Len(tokens)]

operation_types(tokens) == Scanned(Scanner, Lexed("scanner", tokens).seen).ops

\* refuse_on_get(): the first operation of that name, or the only one.
Refused(tokens, op) ==
  LET ops == operation_types(tokens)
      matching == {i \in DOMAIN ops : op \in {"", ops[i][2]}}
  IN \/ ops = <<>>
     \/ op = "" /\ Len(ops) > 1
     \/ ~\E i \in matching : ops[i][1] = "query" /\ \A j \in matching : i <= j
-----------------------------------------------------------------------------
(* The handler                                                             *)

Says(status) == stage' = "done" /\ verdict' = status

\* No ?query=, variables or a body that do not parse.
Malformed ==
  /\ stage = "route" /\ call.what \in {"get", "post"} /\ Says("400")
  /\ UNCHANGED <<doc, call, sent>>

Gate ==
  /\ stage = "route"
  /\ IF call.what = "get" /\ Refused(Text(doc), call.op) THEN Says("405") /\ UNCHANGED sent
     ELSE sent' = (call.what \in {"get", "post"}) /\ stage' = "upstream" /\ UNCHANGED verdict
  /\ UNCHANGED <<doc, call>>

\* The response to /gql is the client's, whatever it is.  fetch() reads those of
\* the handler's own introspection: errors count only without data, and a type
\* that is not there is a 404.
UpstreamAnswers ==
  /\ stage = "upstream"
  /\ \E reply \in {"data", "both", "errors", "http", "null"} :
       Says(IF call.what \in {"get", "post"} THEN "theirs"
            ELSE CASE reply \in {"errors", "http"}         -> "500"
                   [] reply = "null" /\ call.what = "type" -> "404"
                   [] OTHER                               -> "200")
  /\ UNCHANGED <<doc, call, sent>>

\* The connection fails: main() answers.
UpstreamFails ==
  /\ stage = "upstream" /\ Says("500")
  /\ UNCHANGED <<doc, call, sent>>

GqlNext == Malformed \/ Gate \/ UpstreamAnswers \/ UpstreamFails

GqlSpec == GqlInit /\ [][GqlNext]_gqlVars
-----------------------------------------------------------------------------
(* Properties                                                              *)

\* What the server runs: the only operation, or the one of that name.
Runs(kind) ==
  \E i \in Operations(doc) :
    /\ doc[i].kind = kind
    /\ IF call.op = "" THEN Operations(doc) = {i} ELSE doc[i].name = call.op

\* A default value that is an object has braces outside any selection set; the
\* scanner takes it for one, and counts an operation too many.
Objects(d) == \E k \in DOMAIN d.extra : d.extra[k] = "{"

\* The scanner takes the rest for a definition if it has a keyword, and words
\* behind the name "on" for the name.
Misleads(d) ==
  \/ \E j, k \in DOMAIN d.extra :
       /\ j < k /\ d.extra[j] = "{"
       /\ d.extra[k] \in OpTypes \cup {"fragment"} /\ Depth(d.extra)[k] = 0
  \/ d.name = "on" /\ d.extra # <<>>

\* A definition that the gate tells right: comments and block strings that end where the
\* scanner ends them, around definitions which do not mislead it.
Readable(d) ==
  ~Misread(d.before) /\ ~Misread(d.extra) /\ ~Misread(d.body) /\ ~Misleads(Visible(d))

\* A GET that is forwarded never runs a mutation, whatever names, fragments,
\* directives, variables, strings, comments and nested selections the document
\* has (but for what the scanner misreads, or what misleads it); and a query is
\* forwarded (but for object defaults, too, which cost a 405).
GateExact ==
  /\ call.what = "get" /\ stage # "route" /\ verdict # "400"
  /\ \A i \in DOMAIN doc : Readable(doc[i])
  =>
    /\ sent => ~Runs("mutation")
    /\ Runs("query") /\ (\A i \in DOMAIN doc : ~Objects(Visible(doc[i]))) => sent

\* "answers 405 for mutation or subscription, whatever the route allows"
MutationRefused == call.what = "get" /\ sent => ~Runs("mutation")
=============================================================================
