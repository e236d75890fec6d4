---------------------------- MODULE MemcachedWire --------------------------
(***************************************************************************)
(* The memcached handler's own client: requests and replies of the text    *)
(* protocol over one connection, whose bytes come in pieces of any size    *)
(* and may stop anywhere.  A value may look like protocol.  A word of the  *)
(* protocol is one character here, which may carry a number; "n" and "r"   *)
(* are \n and \r.  The server is external.                                 *)
(***************************************************************************)
EXTENDS Naturals, Sequences, SequencesExt, FiniteSetsExt

CONSTANTS
  Values,  \* stored values: sequences of characters
  Listing, \* keys that the server's crawler lists
  MaxKeys  \* ?limit= of GET /keys

ASSUME WireAssumption ==
  Listing \in Nat /\ MaxKeys \in Nat /\ \A v \in Values : v \in Seq(Range(v))

VARIABLES
  cache,  \* the value, or Absent
  cmd,    \* see Commands
  does,   \* the handler's next step
  wire,   \* the reply that is still to come
  buf,    \* received, not yet used
  size,   \* of the value that the reply announced
  result, \* what has been read
  code    \* the status answered

wireVars == <<cache, cmd, does, wire, buf, size, result, code>>

Absent == <<"absent">>

\* value: of a set; was: cache before.  broken: the key ends in a line break,
\* which _KEY_OK lets through: its $ matches before it.  number: ?ex= of a set,
\* ?limit= of keys: as an expiry already over (negative, or above 30 days, which
\* counts from 1970); too big for memcached; or no number.
Commands ==
  [op : {"get", "set", "delete", "stats", "keys", "bad"}, value : Values,
   was : Values \cup {Absent}, broken : BOOLEAN, number : {"fine", "past", "huge", "junk"}]

WireInit ==
  /\ cache \in Values \cup {Absent}
  /\ cmd \in Commands /\ cmd.was = cache
  /\ cmd.broken => cmd.op \in {"get", "set", "delete"}
  /\ cmd.number # "fine" => cmd.op = "set" \/ (cmd.op = "keys" /\ cmd.number = "junk")
  /\ does = "connect" /\ wire = <<>> /\ buf = <<>> /\ size = 0 /\ result = <<>> /\ code = 0

Char(c)       == <<c, 0>>
Chars(cs)     == [i \in DOMAIN cs |-> Char(cs[i])]
Crlf          == <<Char("r"), Char("n")>>
ValueLine(n)  == <<<<"VALUE", n>>>> \o Crlf
Line(word)    == <<Char(word)>> \o Crlf
KeyLines(k)   == [i \in 1 .. 2 * k |-> Char(IF i % 2 = 1 THEN "key=" ELSE "n")]

\* The server's answer to what a broken key leaves of its command line.
Extra == IF cmd.broken THEN Line("ERROR") ELSE <<>>

\* What the server answers (external).  It may refuse, for want of memory or
\* as busy; the crawler ends its lines in a bare \n.
Replied ==
  CASE cmd.op = "get" /\ cache # Absent ->
         ValueLine(Len(cache)) \o ((Chars(cache) \o Crlf) \o (Line("END") \o Extra))
    [] cmd.op = "get" /\ cache = Absent -> Line("END") \o Extra
    [] cmd.op = "set"    -> Line("STORED")
    [] cmd.op = "delete" -> Line(IF cache = Absent THEN "NOT_FOUND" ELSE "DELETED") \o Extra
    [] cmd.op = "keys"   -> KeyLines(Listing) \o Line("END")
    [] OTHER             -> Line("STAT") \o Line("END")

\* A set that memcached cannot read: the lines of its value are then commands.
Garbled == cmd.op = "set" /\ (cmd.broken \/ cmd.number = "huge")

\* What a set leaves.
Kept == IF cmd.number = "past" THEN Absent ELSE cmd.value

Done(status) == does' = "done" /\ code' = status
-----------------------------------------------------------------------------
\* route() and Client(): no connection, 502; a key that would not be one word,
\* 400; int() of something else is left to main(), 500.
RefuseCommand ==
  /\ does = "connect"
  /\ \/ Done(502)
     \/ cmd.op = "bad" /\ Done(400)
     \/ cmd.number = "junk" /\ Done(500)
  /\ UNCHANGED <<cache, cmd, wire, buf, size, result>>

\* sendall(), and the server takes the command, or refuses it; a set that finds
\* no place may cost the old value.
SendCommand ==
  /\ does = "connect" /\ cmd.op # "bad" /\ cmd.number # "junk"
  /\ does' = "line"
  /\ \/ /\ ~Garbled /\ wire' = Replied
        /\ cache' = CASE cmd.op = "set" -> Kept [] cmd.op = "delete" -> Absent [] OTHER -> cache
     \/ /\ ~Garbled /\ wire' = Line("ERROR") \o Extra
        /\ cache' \in {cache} \cup (IF cmd.op = "set" THEN {Absent} ELSE {})
     \/ /\ Garbled /\ wire' = Line("ERROR") \o Line("ERROR")
        /\ cache' \in Values \cup {Absent}
  /\ UNCHANGED <<cmd, buf, size, result, code>>

\* What _line() and _exact(n) wait for.
HasLine  == Char("n") \in Range(buf)
Wanting  == IF does = "value" THEN Len(buf) < size + 2 ELSE ~HasLine

\* recv() gives some of what is on the way.
Receive ==
  /\ does \in {"line", "value", "end"} /\ Wanting /\ wire # <<>>
  /\ \E n \in 1..Len(wire) : buf' = buf \o SubSeq(wire, 1, n) /\ wire' = SubSeq(wire, n + 1, Len(wire))
  /\ UNCHANGED <<cache, cmd, does, size, result, code>>

\* The server closes the connection, or there is nothing more in time.
WireBreaks ==
  /\ does \in {"line", "value", "end"} /\ Wanting
  /\ Done(502)
  /\ UNCHANGED <<cache, cmd, wire, buf, size, result>>

\* The first line in buf, and what is behind it.
FirstBreak == Min({i \in DOMAIN buf : buf[i] = Char("n")})
Behind     == SubSeq(buf, FirstBreak + 1, Len(buf))

\* The first line decides, but stats() goes on until END, past an error, too,
\* and keys() lists what it may and reads the rest.
ReadReply ==
  /\ does = "line" /\ HasLine
  /\ buf' = Behind /\ size' = buf[1][2]
  /\ LET word == buf[1][1]
     IN CASE word = "VALUE" -> does' = "value" /\ UNCHANGED <<result, code>>
          [] word = "key="  -> result' = (IF Len(result) < MaxKeys THEN Append(result, word) ELSE result)
                               /\ UNCHANGED <<does, code>>
          [] word = "STAT" \/ (word = "ERROR" /\ cmd.op = "stats") -> UNCHANGED <<does, result, code>>
          [] word = "ERROR" /\ cmd.op # "stats" -> Done(400) /\ UNCHANGED result
          [] word = "END" /\ cmd.op = "get" -> Done(404) /\ UNCHANGED result
          [] OTHER -> Done(200) /\ result' = (IF cmd.op = "delete" THEN <<word>> ELSE result)
  /\ UNCHANGED <<cache, cmd, wire>>

\* Mutated form: the value is a line.
ReadValueLine ==
  /\ does = "value" /\ Len(buf) >= size + 2
  /\ result' = [i \in 1..(FirstBreak - 2) |-> buf[i][1]] /\ buf' = Behind
  /\ does' = "end"
  /\ UNCHANGED <<cache, cmd, wire, size, code>>

\* _exact(n) and _exact(2)
ReadValue ==
  /\ does = "value" /\ Len(buf) >= size + 2
  /\ result' = [i \in 1..size |-> buf[i][1]] /\ buf' = SubSeq(buf, size + 3, Len(buf))
  /\ does' = "end"
  /\ UNCHANGED <<cache, cmd, wire, size, code>>

ReadEnd ==
  /\ does = "end" /\ HasLine
  /\ Done(IF buf[1][1] = "END" THEN 200 ELSE 400) /\ buf' = Behind
  /\ UNCHANGED <<cache, cmd, wire, size, result>>

WireNext ==
  \/ RefuseCommand \/ SendCommand \/ Receive \/ WireBreaks \/ ReadReply \/ ReadValue \/ ReadEnd

WireSpec == WireInit /\ [][WireNext]_wireVars
-----------------------------------------------------------------------------
(* Properties                                                              *)

\* A 200 to GET carries the stored value, whole, however the bytes came and
\* even if the value itself looks like a line of the protocol; a 404 means that
\* there was none.  After an answer that is no error the reply has been read,
\* all of it, but for what the server said to the rest of a broken key.  A 200
\* to PUT means that the value was stored, if its expiry is not over, and that
\* to DELETE says what happened.
WireExact ==
  /\ cmd.op = "get" /\ code = 200 => result = cmd.was
  /\ cmd.op = "get" /\ code = 404 => cmd.was = Absent
  /\ code \in {200, 404} => buf \o wire = Extra
  /\ cmd.op = "set" /\ code = 200 => cache = Kept
  /\ cmd.op = "delete" /\ code = 200 => (result = <<"DELETED">>) = (cmd.was # Absent)
  /\ cmd.op = "keys" /\ code = 200 => Len(result) = Min({MaxKeys, Listing})
=============================================================================
