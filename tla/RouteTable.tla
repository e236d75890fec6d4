----------------------------- MODULE RouteTable -----------------------------
(***************************************************************************)
(* The route table of lib/intercept.c: how routes.conf becomes a table     *)
(* when a process starts, how getaddrinfo() and connect() find a route in  *)
(* it through a sentinel address, and what the shim-meta handler reports   *)
(* about it.                                                               *)
(*                                                                         *)
(* A line of the file is the sequence of its words; fgets() takes a line   *)
(* LineWords words at a time, in place of 1023 bytes.  A word is a host, a *)
(* command word, or one of the tokens of capitals, ',' and '*' that        *)
(* is_method_token accepts.                                                *)
(***************************************************************************)
EXTENDS Naturals, Sequences, FiniteSets

CONSTANTS
  Procs,       \* processes with the shim preloaded
  Words,       \* the words of routes.conf
  Files,       \* the contents it may have when a process starts
  Edits,       \* the contents an edit may leave in it
  Hosts,       \* the names programs look up
  fold,        \* fold[h]: the name without its case, for strcasecmp
  Tokens,      \* the words that look like an allow-list
  Comment,     \* the first word of a comment line
  MaxRoutes,   \* MAX_ROUTES (64)
  LineWords    \* the words that fit the line buffer

ASSUME SizeAssumption == MaxRoutes \in Nat \ {0} /\ LineWords \in Nat \ {0}
ASSUME FileAssumption == Files \subseteq Seq(Seq(Words)) /\ Edits \subseteq Files
ASSUME TokenAssumption == "" \notin Tokens

VARIABLES
  file,      \* routes.conf as it is now
  source,    \* source[p]: routes.conf when p loaded it
  table,     \* table[p]: g_routes of process p, <<>> before it starts
  started,   \* the processes whose constructor has run
  dns,       \* dns[p]: the last name p looked up and the address it got
  reached,   \* reached[p]: where the connect() to that address went
  listing    \* listing[p]: what shim-meta last told p

vars == <<file, source, table, started, dns, reached, listing>>

Elsewhere == [host |-> "", methods |-> "", handler |-> <<>>]
Unasked   == [host |-> "", addr |-> 0]
-----------------------------------------------------------------------------
(* load_config                                                             *)

is_method_token(w) == w \in Tokens

\* What successive fgets() calls make of one line of the file.
Chunks(line) ==
  [k \in 1 .. ((Len(line) + LineWords - 1) \div LineWords) |->
     SubSeq(line, (k - 1) * LineWords + 1,
            IF k * LineWords < Len(line) THEN k * LineWords ELSE Len(line))]

\* <host> [<METHODS>] <handler>: the second word is the allow-list only if
\* more follows it, else it is (part of) the handler.
Parsed(w) ==
  IF Len(w) > 2 /\ is_method_token(w[2])
  THEN [host |-> w[1], methods |-> w[2], handler |-> SubSeq(w, 3, Len(w))]
  ELSE [host |-> w[1], methods |-> "", handler |-> SubSeq(w, 2, Len(w))]

\* Blank lines, comments and hosts without a handler are skipped.
IsRoute(w) == Len(w) >= 2 /\ w[1] # Comment

\* Every line read by fgets(), in order.
ReadLines(f) ==
  LET after[n \in 0 .. Len(f)] ==
        IF n = 0 THEN <<>> ELSE after[n - 1] \o Chunks(f[n])
  IN  after[Len(f)]

\* The loop of load_config: it stops with the file or a full table.
load_config(f) ==
  LET lines == ReadLines(f)
      after[n \in 0 .. Len(lines)] ==
        IF n = 0 THEN <<>>
        ELSE IF IsRoute(lines[n]) /\ Len(after[n - 1]) < MaxRoutes
             THEN Append(after[n - 1], Parsed(lines[n]))
             ELSE after[n - 1]
  IN  after[Len(lines)]

\* Sentinel of the route at index i (from 1): the last byte of 127.0.0.x.
\* 127.0.0.1 is skipped.
sentinel(i) == i + 1

\* The first route whose host, or whose sentinel, matches; 0 for NULL.
FirstIndex(t, Matches(_)) ==
  IF \E i \in DOMAIN t : Matches(i)
  THEN CHOOSE i \in DOMAIN t : Matches(i) /\ \A j \in DOMAIN t : Matches(j) => i <= j
  ELSE 0

find_route_by_host(t, h) ==
  LET same(i) == fold[t[i].host] = fold[h] IN FirstIndex(t, same)

find_route_by_ip(t, a) ==
  LET same(i) == sentinel(i) = a IN FirstIndex(t, same)
-----------------------------------------------------------------------------
Init ==
  /\ file \in Files
  /\ source  = [p \in Procs |-> <<>>]
  /\ table   = [p \in Procs |-> <<>>]
  /\ started = {}
  /\ dns     = [p \in Procs |-> Unasked]
  /\ reached = [p \in Procs |-> Elsewhere]
  /\ listing = [p \in Procs |-> <<>>]

\* Somebody edits routes.conf while programs run.
Edit ==
  /\ file' \in Edits \ {file}
  /\ UNCHANGED <<source, table, started, dns, reached, listing>>

\* The constructor of the library runs init_once before main().
Start(p) ==
  /\ p \notin started
  /\ started' = started \cup {p}
  /\ source' = [source EXCEPT ![p] = file]
  /\ table' = [table EXCEPT ![p] = load_config(file)]
  /\ UNCHANGED <<file, dns, reached, listing>>

\* Mutated form: init_once does not remember that it has run.
do_getaddrinfo_reloads(p, h) ==
  LET t == load_config(file)
      i == find_route_by_host(t, h)
  IN  /\ p \in started
      /\ table' = [table EXCEPT ![p] = t]
      /\ dns' = [dns EXCEPT ![p] = [host |-> h, addr |-> IF i = 0 THEN 0 ELSE sentinel(i)]]
      /\ reached' = [reached EXCEPT ![p] = Elsewhere]
      /\ UNCHANGED <<file, source, started, listing>>

\* A name with a route gets its sentinel; any other goes to the resolver,
\* whose answers are outside the sentinel range (0 here).
do_getaddrinfo(p, h) ==
  LET i == find_route_by_host(table[p], h)
  IN  /\ p \in started
      /\ dns' = [dns EXCEPT ![p] = [host |-> h, addr |-> IF i = 0 THEN 0 ELSE sentinel(i)]]
      /\ reached' = [reached EXCEPT ![p] = Elsewhere]
      /\ UNCHANGED <<file, source, table, started, listing>>

\* connect() to the address the name got: the route of a sentinel address is
\* served by its handler, anything else is the kernel's.
do_connect(p) ==
  LET i == find_route_by_ip(table[p], dns[p].addr)
  IN  /\ p \in started /\ dns[p] # Unasked
      /\ reached' = [reached EXCEPT ![p] = IF i = 0 THEN Elsewhere ELSE table[p][i]]
      /\ UNCHANGED <<file, source, table, started, dns, listing>>

\* Mutated form: a lone token after the host is an allow-list too.
ListedAs_greedy(w) ==
  IF w[2] \in Tokens
  THEN [host |-> w[1], methods |-> w[2], handler |-> Tail(Tail(w))]
  ELSE [host |-> w[1], methods |-> "*", handler |-> Tail(w)]

\* How shim-meta splits a line: host, second word, rest.
ListedAs(w) ==
  IF Len(w) >= 3 /\ w[2] \in Tokens
  THEN [host |-> w[1], methods |-> w[2], handler |-> SubSeq(w, 3, Len(w))]
  ELSE [host |-> w[1], methods |-> "*", handler |-> Tail(w)]

\* shim-meta reads the whole file again when it is asked, without a line
\* buffer and without a limit on the routes.
read_routes(f) ==
  LET out[n \in 0 .. Len(f)] ==
        IF n = 0 THEN <<>>
        ELSE IF Len(f[n]) >= 2 /\ f[n][1] # Comment
             THEN Append(out[n - 1], ListedAs(f[n]))
             ELSE out[n - 1]
  IN  out[Len(f)]

AskMeta(p) ==
  /\ p \in started /\ table[p] # <<>>
  /\ listing' = [listing EXCEPT ![p] = read_routes(file)]
  /\ UNCHANGED <<file, source, table, started, dns, reached>>

Next ==
  \/ Edit
  \/ \E p \in Procs : \/ Start(p) \/ do_connect(p) \/ AskMeta(p)
                      \/ \E h \in Hosts : do_getaddrinfo(p, h)

Spec == Init /\ [][Next]_vars
-----------------------------------------------------------------------------
(* Properties.                                                             *)

\* The line that decides about host h, by the words of the file alone: the
\* first line with that host and a handler, if fewer than MAX_ROUTES such
\* lines of any host come before it.
Deciding(f, h) ==
  LET lines == ReadLines(f)
  IN  {n \in DOMAIN lines :
         /\ IsRoute(lines[n]) /\ fold[lines[n][1]] = fold[h]
         /\ \A m \in 1 .. n - 1 : IsRoute(lines[m]) => fold[lines[m][1]] # fold[h]
         /\ Cardinality({m \in 1 .. n - 1 : IsRoute(lines[m])}) < MaxRoutes}

\* Through the sentinel and back: a program that looks a name up and then
\* connects reaches the handler of the deciding line of the file it started
\* with, whatever has been edited in between, or no handler at all when
\* there is no such line.
RightHandler ==
  [][\A p \in Procs :
       do_connect(p) =>
         LET line == {ReadLines(source[p])[n] : n \in Deciding(source[p], dns[p].host)}
         IN  reached'[p] \in IF line = {} THEN {Elsewhere} ELSE {Parsed(w) : w \in line}]_vars

\* Lines and routes that fit the shim's buffers.
Fits(f) ==
  /\ \A i \in DOMAIN f : Len(f[i]) <= LineWords
  /\ Len(read_routes(f)) <= MaxRoutes

\* A route of the table the way shim-meta prints it.
Shown(t) ==
  [i \in DOMAIN t |-> [host    |-> t[i].host,
                      methods |-> IF t[i].methods = "" THEN "*" ELSE t[i].methods,
                      handler |-> t[i].handler]]

\* "Same rule as the shim's is_method_token()": asked before any edit, about a
\* file whose lines and routes fit the shim's buffers, shim-meta reports the
\* shim's own table.
MetaAgrees ==
  [][\A p \in Procs :
       AskMeta(p) /\ file = source[p] /\ Fits(file) => listing'[p] = Shown(table[p])]_vars

=============================================================================
