-------------------------- MODULE MCHandlerRequest --------------------------
(***************************************************************************)
(* Requests of every framing around a limit of two bytes: lengths from -1  *)
(* to 3, up to two chunks of sizes from -1 to 3, numbers that are none, a  *)
(* chunk with a byte too many, and a line that cannot be read.             *)
(***************************************************************************)
EXTENDS HandlerRequest

Plain(framing, line, e) ==
  [line |-> line, expect |-> e, framing |-> framing, length |-> 0,
   bytes |-> 0, chunks |-> <<>>]

Expects == {"no", "waits", "goes on"}

Sized(n, e) ==
  [Plain("length", "line", e) EXCEPT
     !.length = n, !.bytes = IF n = NoNumber THEN 0 ELSE Positive(n)]

Chunks == {[size |-> n, bytes |-> Positive(n)] : n \in {-1, 1, 2, 3}}
            \cup {[size |-> 1, bytes |-> 2], [size |-> NoNumber, bytes |-> 0]}

Chunked(ks, e) == [Plain("chunked", "line", e) EXCEPT !.chunks = ks]

MCRequests ==
  {Plain("none", line, e) : line \in {"line", "badline"}, e \in Expects}
    \cup {Sized(n, e) : n \in (-1 .. 3) \cup {NoNumber}, e \in Expects}
    \cup {Chunked(<<>>, e) : e \in Expects}
    \cup {Chunked(<<k>>, e) : k \in Chunks, e \in Expects}
    \cup {Chunked(<<k, l>>, "no") : k \in Chunks, l \in Chunks}
=============================================================================
