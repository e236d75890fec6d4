--------------------------- MODULE RequestProofs ---------------------------
(***************************************************************************)
(* Proofs about HandlerRequest, for any requests of RequestShape and any   *)
(* limit: route() sees whole bodies, the first answer names the cause, and *)
(* no reset overtakes the 404 or 503 of run.                               *)
(*                                                                         *)
(* The reader sees items and the properties speak of the request's parts,  *)
(* so the first half says which item of Wire(r) stands where: ChunkItems,  *)
(* HeadItems and ChunkedItems.  Sums and sequences that are defined by     *)
(* recursive functions are reasoned about with Induction.  The second half *)
(* is the invariant RequestInv: Reading says for every place of the reader *)
(* how much of the request it has taken, and Answers what is in out.       *)
(***************************************************************************)
EXTENDS HandlerRequest, SequenceTheorems, WellFoundedInduction, TLAPS

\* Induction over the natural numbers, for the set of those of which something
\* holds.
LEMMA Induction ==
  ASSUME NEW T \in SUBSET Nat, 0 \in T, \A n \in T : n + 1 \in T
  PROVE  T = Nat
<1>1. SUFFICES ASSUME Nat \ T # {} PROVE FALSE
  OBVIOUS
<1>2. \E x \in Nat \ T : \A y \in Nat \ T : ~ (<<y, x>> \in OpToRel(<, Nat))
  BY <1>1, NatLessThanWellFounded, WFMin, Zenon
<1>3. PICK x \in Nat \ T : \A y \in Nat \ T : ~ (<<y, x>> \in OpToRel(<, Nat))
  BY <1>2
<1>a. x \in Nat /\ x \notin T
  BY <1>3, Zenon
<1>4. x # 0 /\ x - 1 \in Nat /\ (x - 1) + 1 = x
  BY <1>a
<1>5. x - 1 \notin T
  BY <1>4, <1>a
<1>6. <<x - 1, x>> \in OpToRel(<, Nat)
  BY <1>4, <1>a DEF OpToRel
<1>7. QED
  BY <1>3, <1>4, <1>5, <1>6, Zenon

\* The sums of the first chunks, the function inside Before.
Sums(r) == CHOOSE sum : sum = [n \in 0 .. Len(r.chunks) |->
  IF n = 0 THEN 0 ELSE sum[n - 1] + Positive(r.chunks[n].size)]

\* The sum that Before looks up.
LEMMA BeforeIsSums ==
  ASSUME NEW r, NEW i
  PROVE  Before(r, i) = Sums(r)[i - 1]
BY DEF Before, Sums

\* There is a function that adds up the chunks, for any number of them.
LEMMA SumsExist ==
  ASSUME NEW c, NEW m \in Nat
  PROVE  \E g : g = [n \in 0 .. m |-> IF n = 0 THEN 0 ELSE g[n - 1] + Positive(c[n].size)]
<1> DEFINE E(g, k) == g = [n \in 0 .. k |-> IF n = 0 THEN 0 ELSE g[n - 1] + Positive(c[n].size)]
           T == {k \in Nat : \E g : E(g, k)}
<1>1. 0 \in T
  <2>1. E([n \in 0 .. 0 |-> 0], 0)
    OBVIOUS
  <2>2. QED
    BY <2>1
<1>2. ASSUME NEW k \in T PROVE k + 1 \in T
  <2>1. PICK g : E(g, k)
    OBVIOUS
  <2> DEFINE h == [n \in 0 .. (k + 1) |-> IF n = k + 1 THEN g[k] + Positive(c[n].size) ELSE g[n]]
  <2>2. \A n \in 0 .. k : g[n] = IF n = 0 THEN 0 ELSE g[n - 1] + Positive(c[n].size)
    BY <2>1
  <2>3. \A n \in 0 .. (k + 1) : h[n] = IF n = 0 THEN 0 ELSE h[n - 1] + Positive(c[n].size)
    BY <2>2
  <2>4. E(h, k + 1)
    BY <2>3
  <2> HIDE DEF E, h
  <2>5. QED
    BY <2>4
<1> HIDE DEF E
<1>3. T = Nat
  BY <1>1, <1>2, Induction
<1>4. QED
  BY <1>3 DEF E

\* Before is the running sum of the sizes that count.
LEMMA BeforeNext ==
  ASSUME NEW r, Len(r.chunks) \in Nat
  PROVE  /\ Before(r, 1) = 0
         /\ \A i \in 1 .. Len(r.chunks) :
              Before(r, i + 1) = Before(r, i) + Positive(r.chunks[i].size)
<1>1. Sums(r) = [n \in 0 .. Len(r.chunks) |->
                   IF n = 0 THEN 0 ELSE Sums(r)[n - 1] + Positive(r.chunks[n].size)]
  BY SumsExist DEF Sums
<1>2. \A n \in 0 .. Len(r.chunks) :
        Sums(r)[n] = IF n = 0 THEN 0 ELSE Sums(r)[n - 1] + Positive(r.chunks[n].size)
  BY <1>1
<1>3. Sums(r)[0] = 0 /\ \A n \in 1 .. Len(r.chunks) :
        Sums(r)[n] = Sums(r)[n - 1] + Positive(r.chunks[n].size)
  BY <1>2
<1>4. \A i : Before(r, i) = Sums(r)[i - 1]
  BY BeforeIsSums, Zenon
<1>5. Before(r, 1) = 0
  <2>1. Before(r, 1) = Sums(r)[1 - 1] /\ 1 - 1 = 0
    BY <1>4
  <2>2. QED
    BY <1>3, <2>1
<1>6. ASSUME NEW i \in 1 .. Len(r.chunks)
      PROVE  Before(r, i + 1) = Before(r, i) + Positive(r.chunks[i].size)
  <2>1. (i + 1) - 1 = i
    OBVIOUS
  <2>2. Before(r, i + 1) = Sums(r)[i] /\ Before(r, i) = Sums(r)[i - 1]
    BY <1>4, <2>1, Zenon
  <2>3. QED
    BY <1>3, <2>2
<1>7. QED
  BY <1>5, <1>6
-----------------------------------------------------------------------------
(* Chunks on the wire                                                      *)

Items == [is : {"line", "badline", "expect", "length", "chunked", "crlf", "size", "byte"},
          n : Int \cup {NoNumber}]

\* The chunks of a request, one after the other.
Uptos(ks) == CHOOSE upto : upto = [n \in 0 .. Len(ks) |->
  IF n = 0 THEN <<>> ELSE upto[n - 1] \o ChunkWire(ks[n])]

\* There is a function that strings the chunks together.
LEMMA UptosExist ==
  ASSUME NEW ks, NEW m \in Nat
  PROVE  \E g : g = [n \in 0 .. m |-> IF n = 0 THEN <<>> ELSE g[n - 1] \o ChunkWire(ks[n])]
<1> DEFINE E(g, k) == g = [n \in 0 .. k |-> IF n = 0 THEN <<>> ELSE g[n - 1] \o ChunkWire(ks[n])]
           T == {k \in Nat : \E g : E(g, k)}
<1>1. 0 \in T
  <2>1. E([n \in 0 .. 0 |-> <<>>], 0)
    OBVIOUS
  <2> HIDE DEF E
  <2>2. QED
    BY <2>1
<1>2. ASSUME NEW k \in T PROVE k + 1 \in T
  <2>1. PICK g : E(g, k)
    OBVIOUS
  <2> DEFINE h == [n \in 0 .. (k + 1) |-> IF n = k + 1 THEN g[k] \o ChunkWire(ks[n]) ELSE g[n]]
  <2>2. \A n \in 0 .. k : g[n] = IF n = 0 THEN <<>> ELSE g[n - 1] \o ChunkWire(ks[n])
    BY <2>1
  <2>3. \A n \in 0 .. (k + 1) : h[n] = IF n = 0 THEN <<>> ELSE h[n - 1] \o ChunkWire(ks[n])
    BY <2>2
  <2>4. E(h, k + 1)
    BY <2>3
  <2> HIDE DEF E, h
  <2>5. QED
    BY <2>4
<1> HIDE DEF E
<1>3. T = Nat
  BY <1>1, <1>2, Induction
<1>4. QED
  BY <1>3 DEF E

\* A chunk is its size, its bytes and a line end.
LEMMA ChunkItems ==
  ASSUME NEW k \in ChunkShape
  PROVE  /\ ChunkWire(k) \in Seq(Items) /\ Len(ChunkWire(k)) = k.bytes + 2
         /\ ChunkWire(k)[1] = Number("size", k.size)
         /\ \A p \in 2 .. k.bytes + 1 : ChunkWire(k)[p] = Item("byte")
         /\ ChunkWire(k)[k.bytes + 2] = Item("crlf")
<1> DEFINE a == <<Number("size", k.size)>>
           b == [i \in 1 .. k.bytes |-> Item("byte")]
           c == <<Item("crlf")>>
<1>1. /\ k.bytes \in Nat /\ Number("size", k.size) \in Items
      /\ Item("byte") \in Items /\ Item("crlf") \in Items
  <2>1. k \in [size : Int \cup {NoNumber}, bytes : Nat]
    BY DEF ChunkShape
  <2>2. k.size \in Int \cup {NoNumber} /\ k.bytes \in Nat
    BY <2>1
  <2>3. QED
    BY <2>2 DEF Items, Number, Item
<1>2. /\ a \in Seq(Items) /\ Len(a) = 1 /\ a[1] = Number("size", k.size)
      /\ b \in Seq(Items) /\ Len(b) = k.bytes /\ \A i \in 1 .. k.bytes : b[i] = Item("byte")
      /\ c \in Seq(Items) /\ Len(c) = 1 /\ c[1] = Item("crlf")
  BY <1>1
<1>3. ChunkWire(k) = (a \o b) \o c
  BY DEF ChunkWire
<1> HIDE DEF a, b, c
<1> DEFINE d == a \o b
<1>4. /\ d \in Seq(Items) /\ Len(d) = Len(a) + Len(b)
      /\ \A i \in 1 .. (Len(a) + Len(b)) : d[i] = IF i <= Len(a) THEN a[i] ELSE b[i - Len(a)]
  BY <1>2, ConcatProperties, Zenon
<1> HIDE DEF d
<1> DEFINE e == d \o c
<1>c. c \in Seq(Items) /\ d \in Seq(Items)
  BY <1>2, <1>4, Zenon
<1>5. /\ e \in Seq(Items) /\ Len(e) = Len(d) + Len(c)
      /\ \A i \in 1 .. (Len(d) + Len(c)) : e[i] = IF i <= Len(d) THEN d[i] ELSE c[i - Len(d)]
  BY <1>c, ConcatProperties, Zenon
<1> HIDE DEF e
<1>6. ChunkWire(k) = e
  BY <1>3 DEF d, e
<1>7. /\ k.bytes \in Nat /\ Len(a) = 1 /\ Len(b) = k.bytes /\ Len(c) = 1
      /\ Len(d) = k.bytes + 1 /\ Len(e) = k.bytes + 2
  BY <1>1, <1>2, <1>4, <1>5
<1>8. \A i \in 1 .. k.bytes + 1 : d[i] = IF i <= 1 THEN a[i] ELSE b[i - 1]
  <2>1. Len(a) + Len(b) = k.bytes + 1 /\ Len(a) = 1
    BY <1>7
  <2>2. QED
    BY <1>4, <2>1, Zenon
<1>9. \A i \in 1 .. k.bytes + 2 : e[i] = IF i <= k.bytes + 1 THEN d[i] ELSE c[i - (k.bytes + 1)]
  <2>1. Len(d) + Len(c) = k.bytes + 2 /\ Len(d) = k.bytes + 1
    BY <1>7
  <2>2. QED
    BY <1>5, <2>1, Zenon
<1>10. e[1] = Number("size", k.size)
  <2>0. 1 \in 1 .. k.bytes + 1 /\ 1 \in 1 .. k.bytes + 2 /\ 1 <= k.bytes + 1 /\ 1 <= 1
    BY <1>7
  <2>1. e[1] = d[1] /\ d[1] = a[1]
    BY <1>8, <1>9, <2>0, Zenon
  <2>2. QED
    BY <1>2, <2>1, Zenon
<1>11. ASSUME NEW p \in 2 .. k.bytes + 1
       PROVE  e[p] = Item("byte")
  <2>1. e[p] = d[p] /\ d[p] = b[p - 1] /\ p - 1 \in 1 .. k.bytes
    BY <1>7, <1>8, <1>9
  <2>2. QED
    BY <1>2, <2>1, Zenon
<1>12. e[k.bytes + 2] = Item("crlf")
  <2>0. /\ k.bytes + 2 \in 1 .. k.bytes + 2 /\ ~ (k.bytes + 2 <= k.bytes + 1)
        /\ (k.bytes + 2) - (k.bytes + 1) = 1
    BY <1>7
  <2>1. e[k.bytes + 2] = c[1]
    BY <1>9, <2>0, Zenon
  <2>2. QED
    BY <1>2, <2>1, Zenon
<1>13. QED
  BY <1>5, <1>6, <1>7, <1>10, <1>11, <1>12, Zenon

\* Where each chunk begins, and that its items follow from there.
LEMMA UptosItems ==
  ASSUME NEW ks \in Seq(ChunkShape)
  PROVE  /\ Uptos(ks)[0] = <<>>
         /\ \A n \in 0 .. Len(ks) : Uptos(ks)[n] \in Seq(Items)
         /\ \A n \in 1 .. Len(ks) :
              Len(Uptos(ks)[n]) = Len(Uptos(ks)[n - 1]) + ks[n].bytes + 2
         /\ \A n \in 0 .. Len(ks) : \A i \in 1 .. n :
              /\ Len(Uptos(ks)[i]) <= Len(Uptos(ks)[n])
              /\ \A p \in 1 .. ks[i].bytes + 2 :
                   Uptos(ks)[n][Len(Uptos(ks)[i - 1]) + p] = ChunkWire(ks[i])[p]
<1> DEFINE U == Uptos(ks)
<1>0. Len(ks) \in Nat
  OBVIOUS
<1>1. U = [n \in 0 .. Len(ks) |-> IF n = 0 THEN <<>> ELSE U[n - 1] \o ChunkWire(ks[n])]
  <2>1. \E g : g = [n \in 0 .. Len(ks) |-> IF n = 0 THEN <<>> ELSE g[n - 1] \o ChunkWire(ks[n])]
    BY <1>0, UptosExist, Zenon
  <2>2. QED
    BY <2>1, Zenon DEF Uptos
<1>2. U[0] = <<>> /\ \A n \in 1 .. Len(ks) : U[n] = U[n - 1] \o ChunkWire(ks[n])
  <2> HIDE DEF U
  <2>1. \A n \in 0 .. Len(ks) : U[n] = IF n = 0 THEN <<>> ELSE U[n - 1] \o ChunkWire(ks[n])
    BY <1>0, <1>1
  <2>2. U[0] = <<>>
    BY <1>0, <2>1
  <2>3. ASSUME NEW n \in 1 .. Len(ks)
        PROVE  U[n] = U[n - 1] \o ChunkWire(ks[n])
    <3>1. n \in 0 .. Len(ks) /\ n # 0
      BY <1>0
    <3>2. QED
      BY <2>1, <3>1, Zenon
  <2>4. QED
    BY <2>2, <2>3
<1> HIDE DEF U
<1>3. \A n \in 1 .. Len(ks) : ks[n] \in ChunkShape /\ ks[n].bytes \in Nat
  BY DEF ChunkShape
<1>4. ASSUME NEW n \in 1 .. Len(ks), U[n - 1] \in Seq(Items)
      PROVE  /\ U[n] \in Seq(Items) /\ Len(U[n]) = Len(U[n - 1]) + ks[n].bytes + 2
             /\ \A p \in 1 .. Len(U[n - 1]) : U[n][p] = U[n - 1][p]
             /\ \A p \in 1 .. ks[n].bytes + 2 : U[n][Len(U[n - 1]) + p] = ChunkWire(ks[n])[p]
  <2> DEFINE a == U[n - 1]
             b == ChunkWire(ks[n])
  <2>1. b \in Seq(Items) /\ Len(b) = ks[n].bytes + 2 /\ ks[n].bytes \in Nat
    BY <1>3, ChunkItems
  <2>2. U[n] = a \o b /\ a \in Seq(Items)
    BY <1>2, <1>4
  <2> HIDE DEF a, b
  <2>3. /\ a \o b \in Seq(Items) /\ Len(a \o b) = Len(a) + Len(b)
        /\ \A i \in 1 .. (Len(a) + Len(b)) :
             (a \o b)[i] = IF i <= Len(a) THEN a[i] ELSE b[i - Len(a)]
    BY <2>1, <2>2, ConcatProperties, Zenon
  <2>4. Len(a) \in Nat
    BY <2>2
  <2>5. /\ U[n] \in Seq(Items) /\ Len(U[n]) = Len(a) + ks[n].bytes + 2
        /\ \A p \in 1 .. Len(a) : U[n][p] = a[p]
        /\ \A p \in 1 .. ks[n].bytes + 2 : U[n][Len(a) + p] = b[p]
    BY <2>1, <2>2, <2>3, <2>4
  <2>6. QED
    BY <2>5 DEF a, b
<1> DEFINE P(n) ==
      /\ U[n] \in Seq(Items)
      /\ \A i \in 1 .. n : /\ Len(U[i]) <= Len(U[n])
                           /\ Len(U[i]) = Len(U[i - 1]) + ks[i].bytes + 2
                           /\ Len(U[i - 1]) \in Nat
                           /\ \A p \in 1 .. ks[i].bytes + 2 :
                                U[n][Len(U[i - 1]) + p] = ChunkWire(ks[i])[p]
    T == {n \in Nat : n <= Len(ks) => P(n)}
<1>5. 0 \in T
  <2>1. <<>> \in Seq(Items)
    OBVIOUS
  <2>2. P(0)
    BY <1>2, <2>1
  <2> HIDE DEF P
  <2>3. QED
    BY <2>2
<1>6. ASSUME NEW m \in T PROVE m + 1 \in T
  <2>0. m \in Nat /\ (m <= Len(ks) => P(m))
    <3> HIDE DEF P
    <3>1. QED
      OBVIOUS
  <2>1. SUFFICES ASSUME m + 1 <= Len(ks) PROVE P(m + 1)
    <3> HIDE DEF P
    <3>1. QED
      BY <2>0
  <2>2. P(m) /\ m + 1 \in 1 .. Len(ks) /\ (m + 1) - 1 = m
    <3> HIDE DEF P
    <3>1. QED
      BY <1>0, <2>0, <2>1
  <2>3. /\ U[m + 1] \in Seq(Items) /\ Len(U[m + 1]) = Len(U[m]) + ks[m + 1].bytes + 2
        /\ \A p \in 1 .. Len(U[m]) : U[m + 1][p] = U[m][p]
        /\ \A p \in 1 .. ks[m + 1].bytes + 2 :
             U[m + 1][Len(U[m]) + p] = ChunkWire(ks[m + 1])[p]
    BY <1>4, <2>2
  <2>4. Len(U[m]) \in Nat /\ Len(U[m + 1]) \in Nat /\ ks[m + 1].bytes \in Nat
    BY <1>3, <2>2, <2>3
  <2>5. ASSUME NEW i \in 1 .. m + 1
        PROVE  /\ Len(U[i]) <= Len(U[m + 1])
               /\ Len(U[i]) = Len(U[i - 1]) + ks[i].bytes + 2
               /\ Len(U[i - 1]) \in Nat
               /\ \A p \in 1 .. ks[i].bytes + 2 :
                    U[m + 1][Len(U[i - 1]) + p] = ChunkWire(ks[i])[p]
    <3>1. CASE i = m + 1
      BY <2>2, <2>3, <2>4, <3>1
    <3>2. CASE i \in 1 .. m
      <4> DEFINE x == Len(U[i - 1])
                 y == Len(U[i])
                 u == Len(U[m])
                 v == Len(U[m + 1])
                 z == ks[i].bytes
      <4>0. i \in 1 .. Len(ks)
        BY <1>0, <2>0, <2>1, <3>2
      <4>1. /\ y <= u /\ y = x + z + 2 /\ x \in Nat
            /\ \A p \in 1 .. z + 2 : U[m][x + p] = ChunkWire(ks[i])[p]
        BY <2>2, <3>2, Zenon
      <4>2. z \in Nat /\ u \in Nat /\ v = u + ks[m + 1].bytes + 2 /\ ks[m + 1].bytes \in Nat
        BY <1>3, <2>3, <2>4, <4>0, Zenon
      <4>3. \A p \in 1 .. u : U[m + 1][p] = U[m][p]
        BY <2>3, Zenon
      <4> HIDE DEF x, y, u, v, z
      <4>4. y <= v
        BY <4>1, <4>2
      <4>5. \A p \in 1 .. z + 2 : x + p \in 1 .. u
        BY <4>1, <4>2
      <4>6. \A p \in 1 .. z + 2 : U[m + 1][x + p] = ChunkWire(ks[i])[p]
        BY <4>1, <4>3, <4>5, Zenon
      <4>7. QED
        BY <4>1, <4>4, <4>6, Zenon DEF x, y, u, v, z
    <3>3. QED
      BY <3>1, <3>2
  <2>6. QED
    BY <2>3, <2>5
<1>7. T = Nat
  <2> HIDE DEF P
  <2>1. QED
    BY <1>5, <1>6, Induction
<1>8. \A n \in 0 .. Len(ks) : P(n)
  <2> HIDE DEF P
  <2>1. QED
    BY <1>7
<1>9. \A n \in 1 .. Len(ks) : Len(U[n]) = Len(U[n - 1]) + ks[n].bytes + 2
  BY <1>8
<1>10. QED
  BY <1>2, <1>8, <1>9 DEF U
-----------------------------------------------------------------------------
(* A request on the wire                                                   *)

\* One more item at the end of a sequence.
LEMMA OneMore ==
  ASSUME NEW S, NEW s \in Seq(S), NEW x \in S
  PROVE  /\ s \o <<x>> \in Seq(S) /\ Len(s \o <<x>>) = Len(s) + 1 /\ Len(s) \in Nat
         /\ (s \o <<x>>)[Len(s) + 1] = x
         /\ \A i \in 1 .. Len(s) : (s \o <<x>>)[i] = s[i]
<1> DEFINE t == Append(s, x)
<1>1. s \o <<x>> = t
  BY AppendIsConcat, Zenon
<1>2. /\ t \in Seq(S) /\ Len(t) = Len(s) + 1 /\ Len(s) \in Nat
      /\ t[Len(s) + 1] = x /\ \A i \in 1 .. Len(s) : t[i] = s[i]
  OBVIOUS
<1> HIDE DEF t
<1>3. QED
  BY <1>1, <1>2, Zenon

\* A head is the line, perhaps the expectation, perhaps one framing header
\* just before the blank line, and the blank line.
LEMMA HeadItems ==
  ASSUME NEW r \in RequestShape
  PROVE  /\ HeadWire(r) \in Seq(Items) /\ Len(HeadWire(r)) \in 2 .. 4
         /\ HeadWire(r)[1] = Item(r.line)
         /\ HeadWire(r)[Len(HeadWire(r))] = Item("crlf")
         /\ \A p \in 2 .. Len(HeadWire(r)) - 2 : HeadWire(r)[p] = Item("expect")
         /\ Len(HeadWire(r)) = 2 => r.framing = "none"
         /\ Len(HeadWire(r)) # 2 =>
              HeadWire(r)[Len(HeadWire(r)) - 1] =
                CASE r.framing = "none"    -> Item("expect")
                  [] r.framing = "length"  -> Number("length", r.length)
                  [] r.framing = "chunked" -> Item("chunked")
<1>1. /\ r.line \in {"line", "badline"} /\ r.expect \in {"no", "waits", "goes on"}
      /\ r.framing \in {"none", "length", "chunked"} /\ r.length \in Int \cup {NoNumber}
  BY DEF RequestShape
<1> DEFINE l == Item(r.line)
           x == Item("expect")
           z == Item("crlf")
           f == CASE r.framing = "none"    -> Item("expect")
                  [] r.framing = "length"  -> Number("length", r.length)
                  [] r.framing = "chunked" -> Item("chunked")
           h == <<l>>
           i == IF r.expect = "no" THEN h ELSE h \o <<x>>
           j == IF r.framing = "none" THEN i ELSE i \o <<f>>
<1>2. l \in Items /\ x \in Items /\ z \in Items /\ f \in Items
  <2>1. l \in Items
    <3>1. Item("line") \in Items /\ Item("badline") \in Items
      BY DEF Items, Item
    <3>2. r.line = "line" \/ r.line = "badline"
      BY <1>1
    <3>3. QED
      BY <3>1, <3>2, Zenon
  <2>2. x \in Items /\ z \in Items /\ Item("chunked") \in Items
    BY DEF Items, Item
  <2>3. Number("length", r.length) \in Items
    BY <1>1 DEF Items, Number
  <2>4. QED
    BY <1>1, <2>1, <2>2, <2>3
<1>3. h \in Seq(Items) /\ Len(h) = 1 /\ h[1] = l
  BY <1>2
<1> HIDE DEF h, l, x, z
<1>4. i \in Seq(Items) /\ Len(i) \in 1 .. 2 /\ i[1] = l /\ (Len(i) = 2 => i[2] = x)
  <2>1. CASE r.expect = "no"
    <3>1. i = h
      BY <2>1
    <3> HIDE DEF i
    <3>2. QED
      BY <1>3, <3>1
  <2>2. CASE r.expect # "no"
    <3>1. i = h \o <<x>>
      BY <2>2
    <3>a. h \in Seq(Items) /\ x \in Items
      BY <1>2, <1>3, Zenon
    <3> HIDE DEF i
    <3>b. /\ i \in Seq(Items) /\ Len(i) = Len(h) + 1 /\ i[Len(h) + 1] = x
          /\ \A p \in 1 .. Len(h) : i[p] = h[p]
      BY <3>a, <3>1, OneMore, SMT
    <3>2. i \in Seq(Items) /\ Len(i) = 1 + 1 /\ i[1 + 1] = x /\ \A p \in 1 .. 1 : i[p] = h[p]
      BY <1>3, <3>b, Zenon
    <3>3. QED
      BY <1>3, <3>2
  <2>3. QED
    BY <2>1, <2>2
<1>5. /\ r.framing = "none" => j = i
      /\ r.framing # "none" =>
           /\ j \in Seq(Items) /\ Len(j) = Len(i) + 1 /\ j[Len(i) + 1] = f
           /\ \A p \in 1 .. Len(i) : j[p] = i[p]
  <2>1. r.framing # "none" => j = i \o <<f>>
    BY Zenon
  <2> HIDE DEF i, j, f
  <2>2. i \in Seq(Items) /\ f \in Items
    BY <1>2, <1>4, Zenon
  <2>3. r.framing = "none" => j = i
    BY Zenon DEF j
  <2>4. r.framing # "none" =>
          /\ j \in Seq(Items) /\ Len(j) = Len(i) + 1 /\ j[Len(i) + 1] = f
          /\ \A p \in 1 .. Len(i) : j[p] = i[p]
    <3>1. SUFFICES ASSUME j = i \o <<f>>
                   PROVE  /\ j \in Seq(Items) /\ Len(j) = Len(i) + 1 /\ j[Len(i) + 1] = f
                          /\ \A p \in 1 .. Len(i) : j[p] = i[p]
      BY <2>1
    <3>2. QED
      BY <2>2, <3>1, OneMore
  <2>5. QED
    BY <2>3, <2>4, Zenon
<1>6. /\ j \in Seq(Items) /\ Len(j) \in 1 .. 3 /\ j[1] = l
      /\ Len(j) = 1 => r.framing = "none"
      /\ Len(j) # 1 => j[Len(j)] = f
      /\ Len(j) = 3 => j[2] = x
  <2>1. r.framing = "none" => f = x
    BY DEF x
  <2> HIDE DEF i, j, f
  <2>2. CASE r.framing = "none"
    BY <1>4, <1>5, <2>1, <2>2
  <2>3. CASE r.framing # "none"
    <3>1. j \in Seq(Items) /\ Len(j) = Len(i) + 1 /\ j[Len(i) + 1] = f
      BY <1>5, <2>3, Zenon
    <3>2. \A p \in 1 .. Len(i) : j[p] = i[p]
      BY <1>5, <2>3, Zenon
    <3>3. j[1] = l
      BY <1>4, <3>2
    <3>4. Len(i) = 2 => j[2] = x
      BY <1>4, <3>2
    <3> DEFINE p == Len(i)
               q == Len(j)
    <3>5. q = p + 1 /\ p \in 1 .. 2
      BY <1>4, <3>1, Zenon
    <3> HIDE DEF p, q
    <3>6. q \in 1 .. 3 /\ q # 1 /\ q = p + 1 /\ (q = 3 => p = 2)
      BY <3>5
    <3>7. QED
      BY <2>3, <3>1, <3>3, <3>4, <3>6, Zenon DEF p, q
  <2>4. QED
    BY <2>2, <2>3
<1>7. HeadWire(r) = j \o <<z>>
  <2>1. HeadWire(r) =
          (h \o (IF r.expect = "no" THEN <<>> ELSE <<x>>))
            \o (CASE r.framing = "none"    -> <<>>
                  [] r.framing = "length"  -> <<Number("length", r.length)>>
                  [] r.framing = "chunked" -> <<Item("chunked")>>)
            \o <<z>>
    BY Zenon DEF HeadWire, h, l, x, z
  <2>2. h \o (IF r.expect = "no" THEN <<>> ELSE <<x>>) = i
    <3>1. h \o <<>> = h
      BY <1>3, ConcatEmptySeq, Zenon
    <3>2. QED
      BY <3>1, Zenon
  <2>3. (CASE r.framing = "none"    -> <<>>
           [] r.framing = "length"  -> <<Number("length", r.length)>>
           [] r.framing = "chunked" -> <<Item("chunked")>>)
          = IF r.framing = "none" THEN <<>> ELSE <<f>>
    <3> HIDE DEF i, j
    <3>1. QED
      BY <1>1
  <2>4. i \o (IF r.framing = "none" THEN <<>> ELSE <<f>>) = j
    <3>1. i \o <<>> = i
      <4> HIDE DEF i
      <4>1. QED
        BY <1>4, ConcatEmptySeq, Zenon
    <3> HIDE DEF i, f
    <3>2. QED
      BY <3>1, Zenon
  <2> HIDE DEF i, j, f
  <2>5. QED
    BY <2>1, <2>2, <2>3, <2>4, Zenon
<1> HIDE DEF i, j
<1> DEFINE w == j \o <<z>>
<1>8. /\ w \in Seq(Items) /\ Len(w) = Len(j) + 1 /\ w[Len(j) + 1] = z
      /\ \A p \in 1 .. Len(j) : w[p] = j[p]
  <2>1. j \in Seq(Items) /\ z \in Items
    BY <1>2, <1>6, Zenon
  <2>2. w = j \o <<z>>
    OBVIOUS
  <2> HIDE DEF w
  <2>3. QED
    BY <2>1, <2>2, OneMore
<1> HIDE DEF w, f
<1>9. /\ w \in Seq(Items) /\ Len(w) \in 2 .. 4 /\ w[1] = l /\ w[Len(w)] = z
      /\ \A p \in 2 .. Len(w) - 2 : w[p] = x
      /\ Len(w) = 2 => r.framing = "none"
      /\ Len(w) # 2 => w[Len(w) - 1] = f
  <2>1. w \in Seq(Items) /\ Len(w) \in 2 .. 4 /\ w[Len(w)] = z
    BY <1>6, <1>8
  <2>2. w[1] = l
    <3>1. 1 \in 1 .. Len(j)
      BY <1>6
    <3>2. QED
      BY <1>6, <1>8, <3>1, Zenon
  <2>3. ASSUME NEW p \in 2 .. Len(w) - 2
        PROVE  w[p] = x
    <3>1. p = 2 /\ Len(j) = 3 /\ p \in 1 .. Len(j)
      BY <1>6, <1>8
    <3>2. QED
      BY <1>6, <1>8, <3>1, Zenon
  <2>4. Len(w) = 2 => r.framing = "none"
    <3>1. Len(w) = 2 => Len(j) = 1
      BY <1>6, <1>8
    <3>2. QED
      BY <1>6, <3>1, Zenon
  <2>5. ASSUME Len(w) # 2
        PROVE  w[Len(w) - 1] = f
    <3>1. Len(w) - 1 = Len(j) /\ Len(j) \in 1 .. Len(j) /\ Len(j) # 1
      BY <1>6, <1>8, <2>5
    <3>2. QED
      BY <1>6, <1>8, <3>1, Zenon
  <2>6. QED
    BY <2>1, <2>2, <2>3, <2>4, <2>5, Zenon
<1>10. HeadWire(r) = w
  BY <1>7, Zenon DEF w
<1>11. QED
  BY <1>9, <1>10, Zenon DEF l, z, x, f

\* One sequence after another.
LEMMA Joined ==
  ASSUME NEW S, NEW s \in Seq(S), NEW t \in Seq(S)
  PROVE  /\ s \o t \in Seq(S) /\ Len(s) \in Nat /\ Len(t) \in Nat
         /\ Len(s \o t) = Len(s) + Len(t)
         /\ \A p \in 1 .. Len(s) : (s \o t)[p] = s[p]
         /\ \A p \in 1 .. Len(t) : (s \o t)[Len(s) + p] = t[p]
<1> DEFINE w == s \o t
<1>1. /\ w \in Seq(S) /\ Len(w) = Len(s) + Len(t)
      /\ \A i \in 1 .. (Len(s) + Len(t)) : w[i] = IF i <= Len(s) THEN s[i] ELSE t[i - Len(s)]
  BY ConcatProperties, Zenon
<1>2. Len(s) \in Nat /\ Len(t) \in Nat
  OBVIOUS
<1> HIDE DEF w
<1>3. ASSUME NEW p \in 1 .. Len(s)
      PROVE  w[p] = s[p]
  BY <1>1, <1>2
<1>4. ASSUME NEW p \in 1 .. Len(t)
      PROVE  w[Len(s) + p] = t[p]
  <2>1. /\ Len(s) + p \in 1 .. (Len(s) + Len(t)) /\ ~ (Len(s) + p <= Len(s))
        /\ (Len(s) + p) - Len(s) = p
    BY <1>2
  <2>2. QED
    BY <1>1, <2>1, Zenon
<1>5. QED
  BY <1>1, <1>2, <1>3, <1>4, Zenon DEF w

\* What follows the head.
BodyWire(r) ==
  CASE r.framing = "none"    -> <<>>
    [] r.framing = "length"  -> [i \in 1 .. r.bytes |-> Item("byte")]
    [] r.framing = "chunked" -> ChunksWire(r.chunks)

\* Where chunk i begins, and after the last one the chunk of size 0.
Start(r, i) == Len(HeadWire(r)) + Len(Uptos(r.chunks)[i - 1])

\* The types of the parts of a request.
LEMMA ShapeFacts ==
  ASSUME NEW r \in RequestShape
  PROVE  /\ r.line \in {"line", "badline"} /\ r.framing \in {"none", "length", "chunked"}
         /\ r.length \in Int \cup {NoNumber} /\ r.bytes \in Nat
         /\ r.chunks \in Seq(ChunkShape) /\ Len(r.chunks) \in Nat
         /\ \A i \in 1 .. Len(r.chunks) :
              /\ r.chunks[i] \in ChunkShape
              /\ r.chunks[i].size \in Int \cup {NoNumber} /\ r.chunks[i].bytes \in Nat
              /\ r.chunks[i].size # 0
              /\ r.chunks[i].size # NoNumber => r.chunks[i].size <= r.chunks[i].bytes
<1>1. /\ r.line \in {"line", "badline"} /\ r.framing \in {"none", "length", "chunked"}
      /\ r.length \in Int \cup {NoNumber} /\ r.bytes \in Nat
      /\ r.chunks \in Seq(ChunkShape)
  BY DEF RequestShape
<1>2. Len(r.chunks) \in Nat /\ \A i \in 1 .. Len(r.chunks) : r.chunks[i] \in ChunkShape
  BY <1>1
<1>3. ASSUME NEW k \in ChunkShape
      PROVE  /\ k.size \in Int \cup {NoNumber} /\ k.bytes \in Nat
             /\ k.size # 0 /\ (k.size # NoNumber => k.size <= k.bytes)
  BY DEF ChunkShape
<1>4. QED
  BY <1>1, <1>2, <1>3, Zenon

\* The chunks with the one of size 0 behind them.
LEMMA ChunksItems ==
  ASSUME NEW ks \in Seq(ChunkShape)
  PROVE  /\ Len(ks) \in Nat /\ ChunksWire(ks) \in Seq(Items)
         /\ Len(ChunksWire(ks)) = Len(Uptos(ks)[Len(ks)]) + 2
         /\ \A p \in 1 .. Len(Uptos(ks)[Len(ks)]) :
              ChunksWire(ks)[p] = Uptos(ks)[Len(ks)][p]
         /\ ChunksWire(ks)[Len(Uptos(ks)[Len(ks)]) + 1] = Number("size", 0)
         /\ ChunksWire(ks)[Len(Uptos(ks)[Len(ks)]) + 2] = Item("crlf")
<1> DEFINE u == Uptos(ks)[Len(ks)]
           z == <<Number("size", 0), Item("crlf")>>
<1>1. Len(ks) \in Nat
  OBVIOUS
<1>2. u \in Seq(Items)
  BY <1>1, UptosItems
<1>3. ChunksWire(ks) = u \o z
  BY Zenon DEF ChunksWire, Uptos
<1>4. z \in Seq(Items) /\ Len(z) = 2 /\ z[1] = Number("size", 0) /\ z[2] = Item("crlf")
  <2>1. Number("size", 0) \in Items /\ Item("crlf") \in Items
    BY DEF Items, Number, Item
  <2>2. QED
    BY <2>1
<1> HIDE DEF u, z
<1> DEFINE w == u \o z
<1>5. /\ w \in Seq(Items) /\ Len(w) = Len(u) + Len(z)
      /\ \A p \in 1 .. Len(u) : w[p] = u[p]
      /\ \A p \in 1 .. Len(z) : w[Len(u) + p] = z[p]
  <2>1. u \in Seq(Items) /\ z \in Seq(Items)
    BY <1>2, <1>4, Zenon
  <2>2. w = u \o z
    OBVIOUS
  <2> HIDE DEF w
  <2>3. QED
    BY <2>1, <2>2, Joined
<1> HIDE DEF w
<1>6. 1 \in 1 .. Len(z) /\ 2 \in 1 .. Len(z)
  BY <1>4
<1>7. w[Len(u) + 1] = Number("size", 0) /\ w[Len(u) + 2] = Item("crlf")
  BY <1>4, <1>5, <1>6, Zenon
<1>8. Len(w) = Len(u) + 2
  BY <1>4, <1>5, Zenon
<1>9. ChunksWire(ks) = w
  BY <1>3, Zenon DEF w
<1>10. QED
  BY <1>1, <1>5, <1>7, <1>8, <1>9, Zenon DEF u

\* A request is its head and what follows.
LEMMA WireItems ==
  ASSUME NEW r \in RequestShape
  PROVE  /\ Len(HeadWire(r)) \in Nat /\ Len(BodyWire(r)) \in Nat
         /\ Len(Wire(r)) = Len(HeadWire(r)) + Len(BodyWire(r))
         /\ \A p \in 1 .. Len(HeadWire(r)) : Wire(r)[p] = HeadWire(r)[p]
         /\ \A p \in 1 .. Len(BodyWire(r)) :
              Wire(r)[Len(HeadWire(r)) + p] = BodyWire(r)[p]
<1>1. HeadWire(r) \in Seq(Items)
  BY HeadItems
<1>2. BodyWire(r) \in Seq(Items)
  <2>1. r.framing \in {"none", "length", "chunked"} /\ r.bytes \in Nat
        /\ r.chunks \in Seq(ChunkShape)
    BY ShapeFacts
  <2>2. <<>> \in Seq(Items)
    OBVIOUS
  <2>3. [i \in 1 .. r.bytes |-> Item("byte")] \in Seq(Items)
    <3>1. Item("byte") \in Items
      BY DEF Items, Item
    <3>2. QED
      BY <2>1, <3>1
  <2>4. ChunksWire(r.chunks) \in Seq(Items)
    BY <2>1, ChunksItems
  <2>5. QED
    BY <2>1, <2>2, <2>3, <2>4 DEF BodyWire
<1>3. Wire(r) = HeadWire(r) \o BodyWire(r)
  BY Zenon DEF Wire, BodyWire
<1>4. QED
  BY <1>1, <1>2, <1>3, Joined

\* The items of a chunked body, by the chunk that they belong to.
LEMMA ChunkedItems ==
  ASSUME NEW r \in RequestShape, r.framing = "chunked"
  PROVE  /\ Start(r, 1) = Len(HeadWire(r))
         /\ \A i \in 1 .. Len(r.chunks) + 1 : Start(r, i) \in Nat
         /\ \A i \in 1 .. Len(r.chunks) :
              /\ Start(r, i + 1) = Start(r, i) + r.chunks[i].bytes + 2
              /\ Wire(r)[Start(r, i) + 1] = Number("size", r.chunks[i].size)
              /\ \A p \in 2 .. r.chunks[i].bytes + 1 : Wire(r)[Start(r, i) + p] = Item("byte")
              /\ Wire(r)[Start(r, i) + r.chunks[i].bytes + 2] = Item("crlf")
         /\ Wire(r)[Start(r, Len(r.chunks) + 1) + 1] = Number("size", 0)
         /\ Wire(r)[Start(r, Len(r.chunks) + 1) + 2] = Item("crlf")
<1> DEFINE ks == r.chunks
           n == Len(r.chunks)
           U == Uptos(r.chunks)
           h == Len(HeadWire(r))
           b == BodyWire(r)
<1>1. ks \in Seq(ChunkShape) /\ n \in Nat
  BY ShapeFacts
<1>2. b = ChunksWire(ks)
  BY DEF BodyWire
<1>3. /\ U[0] = <<>>
      /\ \A i \in 0 .. n : U[i] \in Seq(Items)
      /\ \A i \in 1 .. n : Len(U[i]) = Len(U[i - 1]) + ks[i].bytes + 2
  BY <1>1, UptosItems
<1>4. \A i \in 1 .. n : /\ Len(U[i]) <= Len(U[n])
                       /\ \A p \in 1 .. ks[i].bytes + 2 :
                            U[n][Len(U[i - 1]) + p] = ChunkWire(ks[i])[p]
  <2>1. n \in 0 .. n
    BY <1>1
  <2>2. QED
    BY <1>1, <2>1, UptosItems
<1>5. /\ Len(b) = Len(U[n]) + 2
      /\ \A p \in 1 .. Len(U[n]) : b[p] = U[n][p]
      /\ b[Len(U[n]) + 1] = Number("size", 0) /\ b[Len(U[n]) + 2] = Item("crlf")
  BY <1>1, <1>2, ChunksItems
<1>6. /\ h \in Nat /\ \A p \in 1 .. Len(b) : Wire(r)[h + p] = b[p]
  BY WireItems
<1>7. \A i \in 1 .. n : ks[i] \in ChunkShape /\ ks[i].bytes \in Nat
  BY ShapeFacts
<1>s. \A i : Start(r, i) = h + Len(U[i - 1])
  BY Zenon DEF Start
<1> HIDE DEF ks, n, U, h, b
<1>8. \A i \in 0 .. n : Len(U[i]) \in Nat
  BY <1>3
<1>9. \A i \in 1 .. n + 1 : i - 1 \in 0 .. n
  BY <1>1
<1>10. Start(r, 1) = h
  <2>1. 1 - 1 = 0 /\ Len(<<>>) = 0
    OBVIOUS
  <2>2. Start(r, 1) = h + 0
    BY <1>3, <1>s, <2>1, Zenon
  <2>3. QED
    BY <1>6, <2>2
<1>11. \A i \in 1 .. n + 1 : Start(r, i) \in Nat
  <2>1. ASSUME NEW i \in 1 .. n + 1
        PROVE  h + Len(U[i - 1]) \in Nat
    <3>1. Len(U[i - 1]) \in Nat
      BY <1>8, <1>9
    <3>2. QED
      BY <1>6, <3>1
  <2>2. QED
    BY <1>s, <2>1, Zenon
<1>12. ASSUME NEW i \in 1 .. n
       PROVE  /\ Start(r, i + 1) = Start(r, i) + ks[i].bytes + 2
              /\ \A p \in 1 .. ks[i].bytes + 2 : Wire(r)[Start(r, i) + p] = ChunkWire(ks[i])[p]
  <2> DEFINE x == Len(U[i - 1])
             y == Len(U[i])
             u == Len(U[n])
             v == Len(b)
             z == ks[i].bytes
  <2>1. i \in 0 .. n /\ i - 1 \in 0 .. n /\ n \in 0 .. n /\ (i + 1) - 1 = i
    BY <1>1
  <2>2. x \in Nat /\ y \in Nat /\ u \in Nat /\ z \in Nat /\ y = x + z + 2 /\ y <= u /\ v = u + 2
    BY <1>3, <1>4, <1>5, <1>7, <1>8, <2>1, Zenon
  <2>3. Start(r, i + 1) = h + y /\ Start(r, i) = h + x
    BY <1>s, <2>1, Zenon
  <2>4. /\ \A p \in 1 .. z + 2 : U[n][x + p] = ChunkWire(ks[i])[p]
        /\ \A p \in 1 .. u : b[p] = U[n][p]
        /\ \A p \in 1 .. v : Wire(r)[h + p] = b[p]
    BY <1>4, <1>5, <1>6, Zenon
  <2> HIDE DEF x, y, u, v, z
  <2>5. Start(r, i + 1) = Start(r, i) + z + 2
    BY <1>6, <2>2, <2>3
  <2>6. ASSUME NEW p \in 1 .. z + 2
        PROVE  Wire(r)[Start(r, i) + p] = ChunkWire(ks[i])[p]
    <3>1. x + p \in 1 .. u /\ x + p \in 1 .. v /\ (h + x) + p = h + (x + p)
      BY <1>6, <2>2
    <3>2. QED
      BY <2>3, <2>4, <3>1, Zenon
  <2>7. QED
    BY <2>5, <2>6, Zenon DEF z
<1>13. ASSUME NEW i \in 1 .. n
       PROVE  /\ Wire(r)[Start(r, i) + 1] = Number("size", ks[i].size)
              /\ \A p \in 2 .. ks[i].bytes + 1 : Wire(r)[Start(r, i) + p] = Item("byte")
              /\ Wire(r)[Start(r, i) + ks[i].bytes + 2] = Item("crlf")
  <2>1. ks[i] \in ChunkShape /\ ks[i].bytes \in Nat
    BY <1>7
  <2>2. /\ ChunkWire(ks[i])[1] = Number("size", ks[i].size)
        /\ \A p \in 2 .. ks[i].bytes + 1 : ChunkWire(ks[i])[p] = Item("byte")
        /\ ChunkWire(ks[i])[ks[i].bytes + 2] = Item("crlf")
    BY <2>1, ChunkItems
  <2>3. \A p \in 1 .. ks[i].bytes + 2 : Wire(r)[Start(r, i) + p] = ChunkWire(ks[i])[p]
    BY <1>12
  <2>4. /\ 1 \in 1 .. ks[i].bytes + 2 /\ ks[i].bytes + 2 \in 1 .. ks[i].bytes + 2
        /\ \A p \in 2 .. ks[i].bytes + 1 : p \in 1 .. ks[i].bytes + 2
    BY <2>1
  <2> DEFINE m == ks[i].bytes + 2
  <2>5. Start(r, i) + ks[i].bytes + 2 = Start(r, i) + m
    <3>1. i \in 1 .. n + 1
      BY <1>1
    <3>2. Start(r, i) \in Nat
      BY <1>11, <3>1
    <3>3. QED
      BY <2>1, <3>2
  <2>6. Wire(r)[Start(r, i) + m] = Item("crlf")
    BY <2>2, <2>3, <2>4, Zenon
  <2>7. QED
    BY <2>2, <2>3, <2>4, <2>5, <2>6, Zenon
<1>14. /\ Wire(r)[Start(r, n + 1) + 1] = Number("size", 0)
       /\ Wire(r)[Start(r, n + 1) + 2] = Item("crlf")
  <2> DEFINE u == Len(U[n])
             v == Len(b)
  <2>1. n \in 0 .. n /\ (n + 1) - 1 = n
    BY <1>1
  <2>2. u \in Nat /\ v = u + 2 /\ Start(r, n + 1) = h + u
    BY <1>5, <1>8, <1>s, <2>1, Zenon
  <2>3. /\ \A p \in 1 .. v : Wire(r)[h + p] = b[p]
        /\ b[u + 1] = Number("size", 0) /\ b[u + 2] = Item("crlf")
    BY <1>5, <1>6, Zenon
  <2> HIDE DEF u, v
  <2>4. /\ u + 1 \in 1 .. v /\ u + 2 \in 1 .. v
        /\ (h + u) + 1 = h + (u + 1) /\ (h + u) + 2 = h + (u + 2)
    BY <1>6, <2>2
  <2>5. QED
    BY <2>2, <2>3, <2>4, Zenon
<1>15. QED
  BY <1>10, <1>11, <1>12, <1>13, <1>14, Zenon DEF ks, n, h

-----------------------------------------------------------------------------
(* Verdicts                                                                *)

Faultless(r, i) == \A j \in 1 .. i - 1 : Fault(r, j) = "none"

\* The verdict on a request, by the first thing that is wrong with it.
LEMMA Verdicts ==
  ASSUME NEW r \in RequestShape, NoNumber \notin Int
  PROVE  /\ r.line # "line" => Verdict(r) = "400"
         /\ r.line = "line" /\ r.framing = "none" => Verdict(r) = "200"
         /\ r.line = "line" /\ r.framing = "length" =>
              Verdict(r) = IF r.length = NoNumber THEN "400"
                           ELSE IF r.length > Limit THEN "413" ELSE "200"
         /\ r.line = "line" /\ r.framing = "chunked" =>
              /\ Faultless(r, Len(r.chunks) + 1) => Verdict(r) = "200"
              /\ \A i \in 1 .. Len(r.chunks) :
                   Faultless(r, i) /\ Fault(r, i) # "none" => Verdict(r) = Fault(r, i)
<1>1. r.framing \in {"none", "length", "chunked"} /\ Len(r.chunks) \in Nat
      /\ r.chunks \in Seq(ChunkShape)
  BY ShapeFacts
<1>2. DOMAIN r.chunks = 1 .. Len(r.chunks)
  BY <1>1
<1> DEFINE Ok == \A i \in DOMAIN r.chunks : Fault(r, i) = "none"
           F(i) == Fault(r, i) # "none" /\ \A j \in 1 .. i - 1 : Fault(r, j) = "none"
           f == CHOOSE i \in DOMAIN r.chunks : F(i)
<1>3. r.line # "line" => Verdict(r) = "400"
  BY DEF Verdict
<1>4. r.line = "line" /\ r.framing = "none" => Verdict(r) = "200"
  BY DEF Verdict
<1>5. r.line = "line" /\ r.framing = "length" =>
        Verdict(r) = IF r.length = NoNumber THEN "400"
                     ELSE IF r.length > Limit THEN "413" ELSE "200"
  BY DEF Verdict
<1>6. ASSUME r.line = "line", r.framing = "chunked"
      PROVE  Verdict(r) = IF Ok THEN "200" ELSE Fault(r, f)
  BY <1>6 DEF Verdict
<1>7. ASSUME r.line = "line", r.framing = "chunked", Faultless(r, Len(r.chunks) + 1)
      PROVE  Verdict(r) = "200"
  <2>1. Ok
    <3>1. (Len(r.chunks) + 1) - 1 = Len(r.chunks)
      BY <1>1
    <3>2. QED
      BY <1>2, <1>7, <3>1, Zenon DEF Faultless
  <2> HIDE DEF Ok, f
  <2>2. QED
    BY <1>6, <1>7, <2>1
<1>8. ASSUME r.line = "line", r.framing = "chunked", NEW i \in 1 .. Len(r.chunks),
             Faultless(r, i), Fault(r, i) # "none"
      PROVE  Verdict(r) = Fault(r, i)
  <2>1. ~ Ok
    BY <1>2, <1>8, Zenon
  <2>2. F(i) /\ i \in DOMAIN r.chunks
    BY <1>2, <1>8, Zenon DEF Faultless
  <2>3. F(f) /\ f \in DOMAIN r.chunks
    <3> HIDE DEF F
    <3>1. QED
      BY <2>2, Zenon
  <2> HIDE DEF f
  <2>4. f \in Int /\ i \in Int /\ f \in 1 .. Len(r.chunks)
    BY <1>1, <1>2, <2>3
  <2>5. ~ (f < i)
    <3>1. f < i => f \in 1 .. i - 1
      BY <2>4
    <3>2. QED
      BY <2>2, <2>3, <3>1, Zenon
  <2>6. ~ (i < f)
    <3>1. i < f => i \in 1 .. f - 1
      BY <2>4
    <3>2. QED
      BY <2>2, <2>3, <3>1, Zenon
  <2>7. i = f
    BY <2>4, <2>5, <2>6
  <2> HIDE DEF Ok
  <2>8. Verdict(r) = Fault(r, f)
    BY <1>6, <1>8, <2>1, Zenon
  <2>9. QED
    BY <2>7, <2>8, Zenon
<1>9. QED
  BY <1>3, <1>4, <1>5, <1>7, <1>8, Zenon
-----------------------------------------------------------------------------
(* Answers                                                                 *)

Statuses == {"100", "200", "400", "404", "413", "500", "503", "data"}
Interim  == {"100", "data"}

\* Nothing but interim heads so far; and the first that is not is one of S.
Bare(o) == \A i \in 1 .. Len(o) : o[i] \in Interim

Begins(o, S) ==
  \E i \in 1 .. Len(o) :
    o[i] \in S \ Interim /\ \A j \in 1 .. i - 1 : o[j] \in Interim

\* What one more piece of output changes.
LEMMA Appended ==
  ASSUME NEW o \in Seq(Statuses), NEW x \in Statuses
  PROVE  /\ Append(o, x) \in Seq(Statuses) /\ Len(Append(o, x)) = Len(o) + 1
         /\ Bare(o) /\ x \in Interim => Bare(Append(o, x))
         /\ \A S : Begins(o, S) => Begins(Append(o, x), S)
         /\ \A S : Bare(o) /\ x \in S \ Interim => Begins(Append(o, x), S)
<1> DEFINE w == Append(o, x)
<1>1. /\ w \in Seq(Statuses) /\ Len(w) = Len(o) + 1 /\ Len(o) \in Nat
      /\ w[Len(o) + 1] = x /\ \A i \in 1 .. Len(o) : w[i] = o[i]
  OBVIOUS
<1> HIDE DEF w
<1>2. ASSUME Bare(o), x \in Interim
      PROVE  Bare(w)
  BY <1>1, <1>2 DEF Bare
<1>3. ASSUME NEW S, Begins(o, S)
      PROVE  Begins(w, S)
  <2>1. PICK i \in 1 .. Len(o) : o[i] \in S \ Interim /\ \A j \in 1 .. i - 1 : o[j] \in Interim
    BY <1>3 DEF Begins
  <2>2. i \in 1 .. Len(w) /\ \A j \in 1 .. i - 1 : j \in 1 .. Len(o)
    BY <1>1, <2>1
  <2>3. w[i] \in S \ Interim /\ \A j \in 1 .. i - 1 : w[j] \in Interim
    BY <1>1, <2>1, <2>2, Zenon
  <2>4. QED
    BY <2>2, <2>3 DEF Begins
<1>4. ASSUME NEW S, Bare(o), x \in S \ Interim
      PROVE  Begins(w, S)
  <2> DEFINE i == Len(o) + 1
  <2>1. i \in 1 .. Len(w) /\ w[i] \in S \ Interim /\ i - 1 = Len(o)
    BY <1>1, <1>4
  <2>2. \A j \in 1 .. Len(o) : w[j] \in Interim
    BY <1>1, <1>4, Zenon DEF Bare
  <2> HIDE DEF i
  <2>3. QED
    BY <2>1, <2>2 DEF Begins
<1>5. QED
  BY <1>1, <1>2, <1>3, <1>4, Zenon DEF w

\* There is one first answer.
LEMMA BeginsOnce ==
  ASSUME NEW o \in Seq(Statuses), NEW S, Begins(o, S)
  PROVE  ~ Bare(o) /\ \A T : Begins(o, T) => \E x \in S : x \in T
<1>1. PICK i \in 1 .. Len(o) : o[i] \in S \ Interim /\ \A j \in 1 .. i - 1 : o[j] \in Interim
  BY DEF Begins
<1>2. ~ Bare(o)
  BY <1>1, Zenon DEF Bare
<1>3. ASSUME NEW T, Begins(o, T)
      PROVE  \E x \in S : x \in T
  <2>1. PICK k \in 1 .. Len(o) : o[k] \in T \ Interim /\ \A j \in 1 .. k - 1 : o[j] \in Interim
    BY <1>3 DEF Begins
  <2>2. i \in Int /\ k \in Int /\ 1 <= i /\ 1 <= k
    BY <1>1, <2>1
  <2>3. ~ (i < k) /\ ~ (k < i)
    <3>1. (i < k => i \in 1 .. k - 1) /\ (k < i => k \in 1 .. i - 1)
      BY <2>2
    <3>2. QED
      BY <1>1, <2>1, <3>1, Zenon
  <2>4. i = k
    BY <2>2, <2>3
  <2>5. QED
    BY <1>1, <2>1, <2>4, Zenon
<1>4. QED
  BY <1>2, <1>3, Zenon

\* The same in the words of the properties.
LEMMA FirstBegins ==
  ASSUME NEW o \in Seq(Statuses), out = o
  PROVE  /\ \A S : Begins(o, S) => \E i \in DOMAIN o : First(i) /\ o[i] \in S
         /\ \A i \in DOMAIN o : \A S : First(i) /\ o[i] \in S => Begins(o, S)
<1>1. DOMAIN o = 1 .. Len(o) /\ Len(o) \in Nat
  OBVIOUS
<1>2. \A i : First(i) <=> /\ i \in 1 .. Len(o) /\ o[i] \notin Interim
                         /\ \A j \in 1 .. Len(o) : o[j] \notin Interim => i <= j
  BY <1>1 DEF First, Finals, Interim
<1>3. ASSUME NEW S, Begins(o, S)
      PROVE  \E i \in DOMAIN o : First(i) /\ o[i] \in S
  <2>1. PICK i \in 1 .. Len(o) : o[i] \in S \ Interim /\ \A j \in 1 .. i - 1 : o[j] \in Interim
    BY <1>3 DEF Begins
  <2>2. ASSUME NEW j \in 1 .. Len(o), o[j] \notin Interim
        PROVE  i <= j
    <3>1. j \notin 1 .. i - 1
      BY <2>1, <2>2, Zenon
    <3>2. QED
      BY <1>1, <2>1, <2>2, <3>1
  <2>3. o[i] \in S /\ o[i] \notin Interim
    BY <2>1
  <2>4. QED
    BY <1>1, <1>2, <2>2, <2>3, Zenon
<1>4. ASSUME NEW i \in DOMAIN o, NEW S, First(i), o[i] \in S
      PROVE  Begins(o, S)
  <2>1. /\ i \in 1 .. Len(o) /\ o[i] \notin Interim
        /\ \A j \in 1 .. Len(o) : o[j] \notin Interim => i <= j
    BY <1>2, <1>4, Zenon
  <2>2. \A j \in 1 .. i - 1 : j \in 1 .. Len(o) /\ ~ (i <= j)
    BY <1>1, <2>1
  <2>3. \A j \in 1 .. i - 1 : o[j] \in Interim
    BY <2>1, <2>2, Zenon
  <2>4. QED
    BY <1>4, <2>1, <2>3 DEF Begins
<1>5. QED
  BY <1>3, <1>4, Zenon

-----------------------------------------------------------------------------
(* Where the reader is                                                     *)

InChunks == request.framing = "chunked"

\* What the headers say of the length.
Declared(r) == IF r.framing = "length" THEN r.length ELSE 0

\* Nothing is read yet.
AtStart == got = 0 /\ body = 0 /\ ~ chunked /\ length = 0

\* Of the headers, the last says how the body is framed.
AtHeaders ==
  LET last == Len(HeadWire(request)) - 1
  IN  /\ request.line = "line" /\ got \in 1 .. last /\ body = 0
      /\ got < last => ~ chunked /\ length = 0
      /\ got = last => (chunked <=> InChunks) /\ length = Declared(request)

AtFraming ==
  /\ request.line = "line" /\ got = Len(HeadWire(request)) /\ body = 0
  /\ chunked <=> InChunks
  /\ length = Declared(request)

\* What is read and what is still wanted is the length announced, in the limit.
AtLength ==
  /\ request.line = "line" /\ request.framing = "length" /\ ~ chunked
  /\ request.length \in Int /\ request.length <= Limit
  /\ need \in 1 .. request.length /\ body + need = request.length

\* The reader is in chunk i, all chunks before it were good, and the body has
\* their bytes and those of chunk i so far.
InChunk(i) ==
  LET k == request.chunks[i]
  IN  /\ Faultless(request, i) /\ Before(request, i) \in Nat
      /\ \/ pc = "size" /\ got = Start(request, i) /\ body = Before(request, i)
         \/ /\ i <= Len(request.chunks)
            /\ k.size \in Int /\ Before(request, i) + k.size <= Limit
            /\ \/ /\ pc = "exact" /\ need \in 1 .. k.size
                  /\ body + need = Before(request, i) + k.size
                  /\ got + need = Start(request, i) + 1 + k.size
               \/ /\ pc = "crlf"
                  /\ body = Before(request, i) + Positive(k.size)
                  /\ got = Start(request, i) + 1 + Positive(k.size)

AtChunk ==
  /\ request.line = "line" /\ InChunks /\ chunked
  /\ \E i \in 1 .. Len(request.chunks) + 1 : InChunk(i)

Whole == Verdict(request) = "200" /\ body = Payload(request)

Reading ==
  /\ pc \in {"dispatch", "line"} => AtStart
  /\ pc = "headers" => AtHeaders
  /\ pc = "framing" => AtFraming
  /\ pc = "exact" => AtLength \/ AtChunk
  /\ pc \in {"size", "crlf"} => AtChunk
  /\ pc \in {"trailers", "route", "sent", "stream"} => Whole

\* What the process has answered, by where it is.
Fits ==
  \/ Begins(out, {"404", "503", Verdict(request)})
  \/ Verdict(request) = "200" /\ Begins(out, {"500"})
  \/ client = "shut" /\ Begins(out, {"400"})

Answers ==
  /\ pc \in {"dispatch", "line", "headers", "framing", "exact", "size", "crlf", "trailers",
             "route"} => Bare(out)
  /\ pc \in {"responded", "drain"} => Begins(out, {"404", "503"})
  /\ pc \in {"sent", "stream"} => Begins(out, {"200"})
  /\ pc = "ended" /\ client # "gone" => Fits
  /\ pc = "ended" /\ Begins(out, {"404", "503"}) => got = sent /\ client # "open"
  /\ lost => pc = "ended" /\ ~ Begins(out, {"404", "503"})

RequestInv == TypeOK /\ Reading /\ Answers

-----------------------------------------------------------------------------
(* The reader's steps                                                      *)

\* An answer that ends the reading names what is wrong with the request, or
\* the client has stopped in the middle of it.
Refuses ==
  \E s \in {"400", "413"} :
    Refuse(s) /\ (s = Verdict(request) \/ (s = "400" /\ client # "open"))

\* A process that has ended, or answers from run, reads no more.
LEMMA NothingToRead ==
  ASSUME pc' \in {"responded", "drain", "ended"}
  PROVE  Reading'
BY DEF Reading

\* The types of what the reader keeps.
LEMMA RequestFacts ==
  ASSUME TypeOK
  PROVE  /\ request \in RequestShape /\ NoNumber \notin Int /\ Limit \in Nat
         /\ got \in Nat /\ sent \in Nat /\ body \in Nat /\ need \in Int
         /\ chunked \in BOOLEAN /\ expect \in BOOLEAN
         /\ length \in Int \cup {NoNumber}
<1>1. request \in RequestShape /\ NoNumber \notin Int
  BY RequestAssumption DEF TypeOK
<1>2. Len(Wire(request)) \in Nat
  BY <1>1, WireItems
<1>3. sent \in 0 .. Len(Wire(request)) /\ got \in 0 .. sent /\ body \in 0 .. Limit
  BY DEF TypeOK
<1>4. QED
  BY <1>1, <1>2, <1>3, LimitAssumption DEF TypeOK

\* The request line: "headers" or 400.
LEMMA LineRead ==
  ASSUME TypeOK, Reading, ReadLine
  PROVE  Reading' /\ (pc' = "ended" => Refuses)
<1> DEFINE h == Len(HeadWire(request))
<1>1. /\ pc = "line" /\ AtStart /\ got' = got + 1 /\ request' = request
      /\ UNCHANGED <<chunked, length>>
  BY DEF ReadLine, Take, Reading, peer, heads
<1>2. request \in RequestShape /\ NoNumber \notin Int
  BY RequestFacts
<1>3. h \in 2 .. 4 /\ HeadWire(request)[1] = Item(request.line)
      /\ (h = 2 => request.framing = "none")
  BY <1>2, HeadItems
<1>4. \A p \in 1 .. h : Wire(request)[p] = HeadWire(request)[p]
  BY <1>2, WireItems
<1> HIDE DEF h
<1>5. Now.is = request.line
  <2>1. got + 1 = 1 /\ 1 \in 1 .. h
    BY <1>1, <1>3 DEF AtStart
  <2>2. Now = Item(request.line)
    BY <1>3, <1>4, <2>1, Zenon DEF Now
  <2>3. QED
    BY <2>2 DEF Item
<1>6. CASE request.line = "line"
  <2>1. ReadOn("headers")
    BY <1>5, <1>6 DEF ReadLine
  <2>2. pc' = "headers" /\ body' = body
    BY <2>1 DEF ReadOn, Goto
  <2>3. AtHeaders'
    <3>1. /\ got' = 1 /\ body' = 0 /\ ~ chunked' /\ length' = 0 /\ request' = request
          /\ request.line = "line"
      BY <1>1, <1>6, <2>2 DEF AtStart
    <3>2. 1 \in 1 .. h - 1
      BY <1>3
    <3>3. 1 = h - 1 => request.framing = "none"
      BY <1>3
    <3>4. 1 = h - 1 => (~ InChunks /\ Declared(request) = 0)
      BY <3>3 DEF InChunks, Declared
    <3>5. InChunks' <=> InChunks
      BY <3>1 DEF InChunks
    <3>6. QED
      BY <3>1, <3>2, <3>4, <3>5 DEF AtHeaders, h
  <2>4. QED
    BY <2>2, <2>3 DEF Reading
<1>7. CASE request.line # "line"
  <2>1. Refuse("400")
    BY <1>5, <1>7 DEF ReadLine
  <2>2. Verdict(request) = "400"
    BY <1>2, <1>7, Verdicts
  <2>3. pc' = "ended"
    BY <2>1 DEF Refuse, Goto
  <2>4. Refuses
    BY <2>1, <2>2 DEF Refuses
  <2>5. QED
    BY <2>3, <2>4, NothingToRead
<1>8. QED
  BY <1>6, <1>7

\* The headers: the last one has said how the body is framed.
LEMMA HeaderRead ==
  ASSUME TypeOK, Reading, ReadHeader
  PROVE  Reading' /\ pc' # "ended"
<1> DEFINE h == Len(HeadWire(request))
           last == h - 1
<1>1. /\ pc = "headers" /\ AtHeaders /\ got' = got + 1 /\ request' = request
      /\ ReadOn(IF Now.is = "crlf" THEN "framing" ELSE "headers")
      /\ chunked' = (chunked \/ Now.is = "chunked")
      /\ length'  = IF Now.is = "length" THEN Now.n ELSE length
  BY DEF ReadHeader, Take, Reading, peer
<1>2. request \in RequestShape /\ NoNumber \notin Int /\ chunked \in BOOLEAN
  BY RequestFacts
<1>3. /\ h \in 2 .. 4 /\ HeadWire(request)[h] = Item("crlf")
      /\ \A p \in 2 .. h - 2 : HeadWire(request)[p] = Item("expect")
      /\ h # 2 => HeadWire(request)[last] =
           CASE request.framing = "none"    -> Item("expect")
             [] request.framing = "length"  -> Number("length", request.length)
             [] request.framing = "chunked" -> Item("chunked")
  BY <1>2, HeadItems
<1>4. \A p \in 1 .. h : Wire(request)[p] = HeadWire(request)[p]
  BY <1>2, WireItems
<1>5. /\ request.line = "line" /\ got \in 1 .. last /\ body = 0
      /\ got < last => ~ chunked /\ length = 0
      /\ got = last => (chunked <=> InChunks) /\ length = Declared(request)
  BY <1>1 DEF AtHeaders
<1>6. body' = body /\ pc' \in {"headers", "framing"}
  BY <1>1 DEF ReadOn, Goto
<1>7. (InChunks' <=> InChunks) /\ Declared(request') = Declared(request)
  BY <1>1 DEF InChunks
<1>8. request.framing \in {"none", "length", "chunked"}
  BY <1>2, ShapeFacts
<1>h. h' = h
  BY <1>1
<1> HIDE DEF h
<1>9. CASE got = last
  <2>1. got + 1 = h /\ h \in 1 .. h
    BY <1>3, <1>9
  <2>2. Now = Item("crlf")
    BY <1>3, <1>4, <2>1, Zenon DEF Now
  <2>3. Now.is = "crlf"
    BY <2>2 DEF Item
  <2>4. /\ pc' = "framing" /\ (chunked' <=> chunked) /\ length' = length
    BY <1>1, <2>3 DEF ReadOn, Goto
  <2>5. AtFraming'
    BY <1>1, <1>5, <1>6, <1>7, <1>9, <1>h, <2>1, <2>4 DEF AtFraming, h
  <2>6. QED
    BY <2>4, <2>5 DEF Reading
<1>10. CASE got < last
  <2>1. got + 1 \in 1 .. h /\ got + 1 \in 2 .. last /\ h # 2 /\ got' \in 1 .. last
    BY <1>1, <1>3, <1>5, <1>10
  <2>2. Now = HeadWire(request)[got + 1]
    BY <1>4, <2>1, Zenon DEF Now
  <2>3. CASE got + 1 < last
    <3>1. got + 1 \in 2 .. h - 2
      BY <1>3, <2>1, <2>3
    <3>2. Now.is = "expect"
      <4>1. Now = Item("expect")
        BY <1>3, <2>2, <3>1, Zenon
      <4>2. QED
        BY <4>1 DEF Item
    <3>3. pc' = "headers" /\ ~ chunked' /\ length' = 0 /\ got' < last
      BY <1>1, <1>5, <1>10, <2>3, <3>2 DEF ReadOn, Goto
    <3>4. AtHeaders'
      BY <1>1, <1>3, <1>5, <1>6, <1>h, <2>1, <3>3 DEF AtHeaders, h
    <3>5. QED
      BY <3>3, <3>4 DEF Reading
  <2>4. CASE got + 1 = last
    <3>1. /\ request.framing = "none" => Now = Item("expect")
          /\ request.framing = "length" => Now = Number("length", request.length)
          /\ request.framing = "chunked" => Now = Item("chunked")
      BY <1>3, <2>1, <2>2, <2>4
    <3>2. /\ Now.is # "crlf" /\ (Now.is = "chunked" <=> InChunks)
          /\ request.framing = "length" => Now.is = "length" /\ Now.n = request.length
          /\ request.framing # "length" => Now.is # "length"
      BY <1>8, <3>1 DEF Item, Number, InChunks
    <3>3. pc' = "headers" /\ (chunked' <=> InChunks) /\ length' = Declared(request)
      <4>1. pc' = "headers"
        BY <1>1, <3>2 DEF ReadOn, Goto
      <4>2. chunked' <=> InChunks
        BY <1>1, <1>5, <1>10, <3>2
      <4>3. length' = Declared(request)
        BY <1>1, <1>5, <1>10, <3>2 DEF Declared
      <4>4. QED
        BY <4>1, <4>2, <4>3
    <3>4. got' = last
      BY <1>1, <2>4
    <3>5. AtHeaders'
      BY <1>1, <1>3, <1>5, <1>6, <1>7, <1>h, <2>1, <3>3, <3>4 DEF AtHeaders, h
    <3>6. QED
      BY <3>3, <3>5 DEF Reading
  <2>5. QED
    BY <1>3, <2>1, <2>3, <2>4
<1>11. QED
  BY <1>3, <1>5, <1>9, <1>10

\* The framing: chunks, a length in the limit, nothing, 400 or 413.
LEMMA Framed ==
  ASSUME TypeOK, Reading, Framing
  PROVE  Reading' /\ (pc' = "ended" => Refuses)
<1>1. /\ pc = "framing" /\ AtFraming /\ request' = request /\ got' = got
      /\ chunked' = chunked /\ length' = length
  BY DEF Framing, Reading, peer, heads
<1>2. /\ request \in RequestShape /\ NoNumber \notin Int /\ Limit \in Nat
      /\ length \in Int \cup {NoNumber}
  BY RequestFacts
<1>3. /\ request.framing \in {"none", "length", "chunked"} /\ Len(request.chunks) \in Nat
  BY <1>2, ShapeFacts
<1>4. /\ request.line = "line" /\ got = Len(HeadWire(request)) /\ body = 0
      /\ (chunked <=> InChunks) /\ length = Declared(request)
  BY <1>1 DEF AtFraming
<1>5. CASE chunked /\ ReadOn("size")
  <2>1. pc' = "size" /\ body' = 0 /\ request.framing = "chunked"
    BY <1>4, <1>5 DEF ReadOn, Goto, InChunks
  <2>2. Start(request, 1) = Len(HeadWire(request)) /\ Before(request, 1) = 0
    <3>1. Start(request, 1) = Len(HeadWire(request))
      BY <1>2, <2>1, ChunkedItems
    <3>2. Before(request, 1) = 0
      BY <1>3, BeforeNext
    <3>3. QED
      BY <3>1, <3>2
  <2>3. Faultless(request, 1) /\ 1 \in 1 .. Len(request.chunks) + 1
    BY <1>3 DEF Faultless
  <2>4. InChunk(1)'
    BY <1>1, <1>4, <2>1, <2>2, <2>3 DEF InChunk
  <2>5. AtChunk'
    BY <1>1, <1>4, <1>5, <2>1, <2>3, <2>4 DEF AtChunk, InChunks
  <2>6. QED
    BY <2>1, <2>5 DEF Reading
<1>6. CASE ~ chunked /\ length = NoNumber /\ Refuse("400")
  <2>1. request.framing = "length" /\ request.length = NoNumber
    BY <1>2, <1>4, <1>6 DEF Declared
  <2>2. Verdict(request) = "400"
    BY <1>2, <1>4, <2>1, Verdicts
  <2>3. Refuses /\ pc' = "ended"
    BY <1>6, <2>2 DEF Refuses, Refuse, Goto
  <2>4. QED
    BY <2>3, NothingToRead
<1>7. CASE ~ chunked /\ length # NoNumber /\ length > Limit /\ Refuse("413")
  <2>1. /\ request.framing = "length" /\ request.length # NoNumber
        /\ request.length > Limit
    BY <1>2, <1>4, <1>7 DEF Declared
  <2>2. Verdict(request) = "413"
    BY <1>2, <1>4, <2>1, Verdicts
  <2>3. Refuses /\ pc' = "ended"
    BY <1>7, <2>2 DEF Refuses, Refuse, Goto
  <2>4. QED
    BY <2>3, NothingToRead
<1>8. CASE /\ ~ chunked /\ length # NoNumber /\ length <= Limit
           /\ Goto(IF length > 0 THEN "exact" ELSE "route")
           /\ need' = length /\ UNCHANGED <<body, out>>
  <2>1. length \in Int /\ body' = 0 /\ need' = length /\ ~ chunked' /\ length <= Limit
    BY <1>1, <1>2, <1>4, <1>8
  <2>2. CASE length > 0
    <3>1. pc' = "exact"
      BY <1>8, <2>2 DEF Goto
    <3>2. request.framing = "length" /\ request.length = length
      BY <1>4, <2>2 DEF Declared
    <3>3. AtLength'
      BY <1>1, <1>4, <2>1, <2>2, <3>2 DEF AtLength
    <3>4. QED
      BY <3>1, <3>3 DEF Reading
  <2>3. CASE ~ (length > 0)
    <3>1. pc' = "route"
      BY <1>8, <2>3 DEF Goto
    <3>2. request.framing \in {"none", "length"}
      BY <1>3, <1>4, <1>8 DEF InChunks
    <3>3. Verdict(request) = "200" /\ Payload(request) = 0
      <4>1. CASE request.framing = "none"
        BY <1>2, <1>4, <4>1, Verdicts DEF Payload
      <4>2. CASE request.framing = "length"
        <5>1. request.length = length
          BY <1>4, <4>2 DEF Declared
        <5>2. Verdict(request) = "200"
          BY <1>2, <1>4, <1>8, <2>1, <4>2, <5>1, Verdicts
        <5>3. Payload(request) = 0
          BY <2>1, <2>3, <4>2, <5>1 DEF Payload, Positive
        <5>4. QED
          BY <5>2, <5>3
      <4>3. QED
        BY <3>2, <4>1, <4>2
    <3>4. Whole'
      BY <1>1, <2>1, <3>3 DEF Whole
    <3>5. QED
      BY <3>1, <3>4 DEF Reading
  <2>4. QED
    BY <2>2, <2>3
<1>9. QED
  BY <1>5, <1>6, <1>7, <1>8 DEF Framing

\* Where a reader within the chunks is, for the chunk that it is in.
LEMMA ChunkFacts ==
  ASSUME TypeOK, request.framing = "chunked", NEW i \in 1 .. Len(request.chunks)
  PROVE  /\ Len(request.chunks) \in Nat /\ i + 1 \in 1 .. Len(request.chunks) + 1
         /\ request.chunks[i].size \in Int \cup {NoNumber} /\ request.chunks[i].bytes \in Nat
         /\ request.chunks[i].size # 0
         /\ request.chunks[i].size # NoNumber =>
              request.chunks[i].size <= request.chunks[i].bytes
         /\ Start(request, i) \in Nat
         /\ Start(request, i + 1) = Start(request, i) + request.chunks[i].bytes + 2
         /\ Before(request, i + 1) = Before(request, i) + Positive(request.chunks[i].size)
<1>1. request \in RequestShape
  BY RequestFacts
<1>2. Len(request.chunks) \in Nat
  BY <1>1, ShapeFacts
<1>3. i \in 1 .. Len(request.chunks) + 1 /\ i + 1 \in 1 .. Len(request.chunks) + 1
  BY <1>2
<1>4. /\ request.chunks[i].size \in Int \cup {NoNumber} /\ request.chunks[i].bytes \in Nat
      /\ request.chunks[i].size # 0
      /\ request.chunks[i].size # NoNumber =>
           request.chunks[i].size <= request.chunks[i].bytes
  BY <1>1, ShapeFacts
<1>5. /\ Start(request, i) \in Nat
      /\ Start(request, i + 1) = Start(request, i) + request.chunks[i].bytes + 2
  BY <1>1, <1>3, ChunkedItems
<1>6. Before(request, i + 1) = Before(request, i) + Positive(request.chunks[i].size)
  BY <1>2, BeforeNext
<1>7. QED
  BY <1>2, <1>3, <1>4, <1>5, <1>6, Zenon

\* _read_exact: what is read and what is wanted keep their sum.
LEMMA ExactRead ==
  ASSUME TypeOK, Reading, ReadExact
  PROVE  Reading' /\ pc' # "ended" /\ body' \in 0 .. Limit
<1>1. /\ pc = "exact" /\ (AtLength \/ AtChunk) /\ request' = request /\ got' = got + 1
      /\ need' = need - 1 /\ body' = body + 1
      /\ Goto(IF need > 1 THEN "exact" ELSE IF chunked THEN "crlf" ELSE "route")
      /\ chunked' = chunked
  BY DEF ReadExact, Take, Reading, peer, heads
<1>2. /\ request \in RequestShape /\ NoNumber \notin Int /\ Limit \in Nat /\ need \in Int
      /\ got \in Nat /\ body \in Nat
  BY RequestFacts
<1>3. CASE AtLength
  <2>1. /\ request.line = "line" /\ request.framing = "length" /\ ~ chunked
        /\ request.length \in Int /\ request.length <= Limit
        /\ need \in 1 .. request.length /\ body + need = request.length
    BY <1>3 DEF AtLength
  <2>2. CASE need > 1
    <3>1. pc' = "exact"
      BY <1>1, <2>2 DEF Goto
    <3>2. need' \in 1 .. request.length /\ body' + need' = request.length
      BY <1>1, <1>2, <2>1, <2>2
    <3>3. AtLength'
      BY <1>1, <2>1, <3>2 DEF AtLength
    <3>4. body' \in 0 .. Limit
      BY <1>1, <1>2, <2>1
    <3>5. QED
      BY <3>1, <3>3, <3>4 DEF Reading
  <2>3. CASE ~ (need > 1)
    <3>1. pc' = "route"
      BY <1>1, <2>1, <2>3 DEF Goto
    <3>2. body' = request.length /\ request.length > 0
      BY <1>1, <1>2, <2>1, <2>3
    <3>3. Verdict(request) = "200"
      BY <1>2, <2>1, Verdicts
    <3>4. Payload(request) = request.length
      BY <2>1, <3>2 DEF Payload, Positive
    <3>5. Whole'
      BY <1>1, <3>2, <3>3, <3>4 DEF Whole
    <3>6. body' \in 0 .. Limit
      BY <1>1, <1>2, <2>1
    <3>7. QED
      BY <3>1, <3>5, <3>6 DEF Reading
  <2>4. QED
    BY <2>2, <2>3
<1>4. CASE AtChunk
  <2>1. request.line = "line" /\ request.framing = "chunked" /\ chunked
    BY <1>4 DEF AtChunk, InChunks
  <2>2. PICK i \in 1 .. Len(request.chunks) + 1 : InChunk(i)
    BY <1>4 DEF AtChunk
  <2> DEFINE k == request.chunks[i]
             b == Before(request, i)
             s == Start(request, i)
  <2>3. /\ i <= Len(request.chunks) /\ Faultless(request, i) /\ b \in Nat
        /\ k.size \in Int /\ b + k.size <= Limit
        /\ need \in 1 .. k.size /\ body + need = b + k.size /\ got + need = s + 1 + k.size
    BY <1>1, <2>2 DEF InChunk
  <2>4. i \in 1 .. Len(request.chunks)
    <3>1. Len(request.chunks) \in Nat
      BY <1>2, ShapeFacts
    <3>2. QED
      BY <2>3, <3>1
  <2> HIDE DEF k, b, s
  <2>5. body' \in 0 .. Limit
    BY <1>1, <1>2, <2>3
  <2>6. CASE need > 1
    <3>1. pc' = "exact"
      BY <1>1, <2>6 DEF Goto
    <3>2. need' \in 1 .. k.size /\ body' + need' = b + k.size /\ got' + need' = s + 1 + k.size
      BY <1>1, <1>2, <2>3, <2>6
    <3>3. InChunk(i)'
      BY <1>1, <2>3, <3>1, <3>2 DEF InChunk, k, b, s
    <3>4. AtChunk'
      BY <1>1, <2>1, <2>2, <3>3 DEF AtChunk, InChunks
    <3>5. QED
      BY <2>5, <3>1, <3>4 DEF Reading
  <2>7. CASE ~ (need > 1)
    <3>1. pc' = "crlf"
      BY <1>1, <2>1, <2>7 DEF Goto
    <3>2. Positive(k.size) = k.size
      BY <2>3 DEF Positive
    <3>3. body' = b + k.size /\ got' = s + 1 + k.size
      BY <1>1, <1>2, <2>3, <2>7
    <3>4. InChunk(i)'
      BY <1>1, <2>3, <3>1, <3>2, <3>3 DEF InChunk, k, b, s
    <3>5. AtChunk'
      BY <1>1, <2>1, <2>2, <3>4 DEF AtChunk, InChunks
    <3>6. QED
      BY <2>5, <3>1, <3>5 DEF Reading
  <2>8. QED
    BY <2>6, <2>7
<1>5. QED
  BY <1>1, <1>3, <1>4

\* A chunk size: the last chunk, the next one in the limit, 400 or 413.
LEMMA SizeRead ==
  ASSUME TypeOK, Reading, ReadSize
  PROVE  Reading' /\ (pc' = "ended" => Refuses) /\ need' \in Int
<1>1. /\ pc = "size" /\ AtChunk /\ request' = request /\ got' = got + 1 /\ chunked' = chunked
      /\ \/ (Now.is # "size" \/ Now.n = NoNumber) /\ Refuse("400")
         \/ Now.is = "size" /\ Now.n = 0 /\ ReadOn("trailers")
         \/ /\ Now.is = "size" /\ Now.n \notin {0, NoNumber}
            /\ IF body + Now.n > Limit THEN Refuse("413")
               ELSE /\ need' = Now.n
                    /\ Goto(IF Now.n > 0 THEN "exact" ELSE "crlf")
                    /\ UNCHANGED <<body, out>>
  BY DEF ReadSize, Take, Reading, peer, heads
<1>2. /\ request \in RequestShape /\ NoNumber \notin Int /\ Limit \in Nat /\ need \in Int
      /\ got \in Nat /\ body \in Nat
  BY RequestFacts
<1>3. request.line = "line" /\ request.framing = "chunked" /\ chunked
  BY <1>1 DEF AtChunk, InChunks
<1>4. PICK i \in 1 .. Len(request.chunks) + 1 : InChunk(i)
  BY <1>1 DEF AtChunk
<1>5. /\ Faultless(request, i) /\ got = Start(request, i) /\ body = Before(request, i)
      /\ Before(request, i) \in Nat
  BY <1>1, <1>4 DEF InChunk
<1>6. Len(request.chunks) \in Nat
  BY <1>2, ShapeFacts
<1>7. CASE i = Len(request.chunks) + 1
  <2>1. Now = Number("size", 0)
    <3>1. Wire(request)[Start(request, Len(request.chunks) + 1) + 1] = Number("size", 0)
      BY <1>2, <1>3, ChunkedItems
    <3>2. QED
      BY <1>5, <1>7, <3>1, Zenon DEF Now
  <2>2. Now.is = "size" /\ Now.n = 0 /\ Now.n # NoNumber
    BY <1>2, <2>1 DEF Number
  <2>3. ReadOn("trailers")
    BY <1>1, <2>2
  <2>4. pc' = "trailers" /\ body' = body /\ need' = need
    BY <2>3 DEF ReadOn, Goto
  <2>5. Verdict(request) = "200"
    BY <1>2, <1>3, <1>5, <1>7, Verdicts
  <2>6. Payload(request) = body
    BY <1>3, <1>5, <1>7 DEF Payload
  <2>7. Whole'
    BY <1>1, <2>4, <2>5, <2>6 DEF Whole
  <2>8. QED
    BY <1>2, <2>4, <2>7 DEF Reading
<1>8. CASE i \in 1 .. Len(request.chunks)
  <2> DEFINE k == request.chunks[i]
             b == Before(request, i)
             s == Start(request, i)
  <2>1. /\ k.size \in Int \cup {NoNumber} /\ k.bytes \in Nat /\ k.size # 0
    BY <1>3, <1>8, ChunkFacts
  <2>2. Now = Number("size", k.size)
    <3>1. Wire(request)[Start(request, i) + 1] = Number("size", k.size)
      BY <1>2, <1>3, <1>8, ChunkedItems
    <3>2. QED
      BY <1>5, <3>1, Zenon DEF Now
  <2>3. Now.is = "size" /\ Now.n = k.size
    BY <2>2 DEF Number
  <2>4. \/ k.size = NoNumber /\ Refuse("400")
        \/ /\ k.size \in Int /\ k.size # NoNumber
           /\ IF body + k.size > Limit THEN Refuse("413")
              ELSE /\ need' = k.size
                   /\ Goto(IF k.size > 0 THEN "exact" ELSE "crlf")
                   /\ UNCHANGED <<body, out>>
    <3> HIDE DEF k
    <3>1. QED
      BY <1>1, <2>1, <2>3
  <2>5. Fault(request, i) = IF k.size = NoNumber THEN "400"
                            ELSE IF b + k.size > Limit THEN "413"
                            ELSE IF k.bytes = Positive(k.size) THEN "none" ELSE "400"
    BY Zenon DEF Fault
  <2>6. Fault(request, i) # "none" => Verdict(request) = Fault(request, i)
    BY <1>2, <1>3, <1>5, <1>8, Verdicts
  <2>7. b = body /\ s = got /\ b \in Nat
    BY <1>5
  <2> HIDE DEF k, b, s
  <2>8. CASE k.size = NoNumber /\ Refuse("400")
    <3>1. Verdict(request) = "400"
      BY <2>5, <2>6, <2>8
    <3>2. Refuses /\ pc' = "ended" /\ need' = need
      BY <2>8, <3>1 DEF Refuses, Refuse, Goto
    <3>3. QED
      BY <1>2, <3>2, NothingToRead
  <2>9. CASE k.size \in Int /\ k.size # NoNumber /\ body + k.size > Limit /\ Refuse("413")
    <3>1. Verdict(request) = "413"
      BY <2>5, <2>6, <2>7, <2>9
    <3>2. Refuses /\ pc' = "ended" /\ need' = need
      BY <2>9, <3>1 DEF Refuses, Refuse, Goto
    <3>3. QED
      BY <1>2, <3>2, NothingToRead
  <2>10. CASE /\ k.size \in Int /\ ~ (body + k.size > Limit)
              /\ need' = k.size /\ Goto(IF k.size > 0 THEN "exact" ELSE "crlf")
              /\ UNCHANGED <<body, out>>
    <3>0. /\ b + k.size <= Limit /\ body' = body /\ need' = k.size /\ i <= Len(request.chunks)
      BY <1>2, <1>6, <1>8, <2>7, <2>10
    <3>1. CASE k.size > 0
      <4>1. pc' = "exact"
        BY <2>10, <3>1 DEF Goto
      <4>2. need' \in 1 .. k.size /\ body' + need' = b + k.size /\ got' + need' = s + 1 + k.size
        BY <1>1, <1>2, <2>7, <2>10, <3>0, <3>1
      <4>3. InChunk(i)'
        BY <1>1, <1>5, <2>10, <3>0, <4>1, <4>2 DEF InChunk, k, b, s
      <4>4. AtChunk'
        BY <1>1, <1>3, <1>4, <4>3 DEF AtChunk, InChunks
      <4>5. QED
        BY <2>10, <4>1, <4>4 DEF Reading
    <3>2. CASE ~ (k.size > 0)
      <4>1. pc' = "crlf"
        BY <2>10, <3>2 DEF Goto
      <4>2. Positive(k.size) = 0
        BY <3>2 DEF Positive
      <4>3. body' = b + Positive(k.size) /\ got' = s + 1 + Positive(k.size)
        BY <1>1, <1>2, <2>7, <3>0, <4>2
      <4>4. InChunk(i)'
        BY <1>1, <1>5, <2>10, <3>0, <4>1, <4>3 DEF InChunk, k, b, s
      <4>5. AtChunk'
        BY <1>1, <1>3, <1>4, <4>4 DEF AtChunk, InChunks
      <4>6. QED
        BY <2>10, <4>1, <4>5 DEF Reading
    <3>3. QED
      BY <3>1, <3>2
  <2>11. QED
    BY <2>4, <2>8, <2>9, <2>10
<1>9. QED
  BY <1>6, <1>7, <1>8

\* The end of a chunk is where its size said, or 400.
LEMMA CrlfRead ==
  ASSUME TypeOK, Reading, ReadCrlf
  PROVE  Reading' /\ (pc' = "ended" => Refuses)
<1>1. /\ pc = "crlf" /\ AtChunk /\ request' = request /\ got' = got + 1 /\ chunked' = chunked
      /\ IF Now.is = "crlf" THEN ReadOn("size") ELSE Refuse("400")
  BY DEF ReadCrlf, Take, Reading, peer, heads
<1>2. /\ request \in RequestShape /\ NoNumber \notin Int /\ Limit \in Nat
      /\ got \in Nat /\ body \in Nat
  BY RequestFacts
<1>3. request.line = "line" /\ request.framing = "chunked" /\ chunked
  BY <1>1 DEF AtChunk, InChunks
<1>4. PICK i \in 1 .. Len(request.chunks) + 1 : InChunk(i)
  BY <1>1 DEF AtChunk
<1> DEFINE k == request.chunks[i]
           b == Before(request, i)
           s == Start(request, i)
           m == Positive(k.size)
<1>5. /\ Faultless(request, i) /\ i <= Len(request.chunks) /\ b \in Nat
      /\ k.size \in Int /\ b + k.size <= Limit /\ body = b + m /\ got = s + 1 + m
  BY <1>1, <1>4 DEF InChunk
<1>6. i \in 1 .. Len(request.chunks)
  <2>1. Len(request.chunks) \in Nat
    BY <1>2, ShapeFacts
  <2>2. QED
    BY <1>5, <2>1
<1>7. /\ i + 1 \in 1 .. Len(request.chunks) + 1 /\ k.bytes \in Nat /\ k.size <= k.bytes
      /\ s \in Nat /\ Start(request, i + 1) = s + k.bytes + 2
      /\ Before(request, i + 1) = b + m
  <2>1. k.size # NoNumber
    BY <1>2, <1>5
  <2>2. QED
    BY <1>3, <1>6, <2>1, ChunkFacts
<1>8. m \in Nat /\ m <= k.bytes
  BY <1>5, <1>7 DEF Positive
<1>9. Fault(request, i) = IF k.bytes = m THEN "none" ELSE "400"
  <2>1. Fault(request, i) = IF k.size = NoNumber THEN "400"
                            ELSE IF b + k.size > Limit THEN "413"
                            ELSE IF k.bytes = m THEN "none" ELSE "400"
    BY Zenon DEF Fault
  <2>2. k.size # NoNumber /\ ~ (b + k.size > Limit)
    <3> HIDE DEF b
    <3>1. QED
      BY <1>2, <1>5
  <2>3. QED
    BY <2>1, <2>2, Zenon
<1>10. CASE k.bytes = m
  <2>1. Now.is = "crlf"
    <3>1. Wire(request)[Start(request, i) + k.bytes + 2] = Item("crlf")
      BY <1>2, <1>3, <1>6, ChunkedItems
    <3>2. got + 1 = s + k.bytes + 2
      BY <1>5, <1>7, <1>8, <1>10
    <3>3. Now = Item("crlf")
      BY <3>1, <3>2, Zenon DEF Now
    <3>4. QED
      BY <3>3 DEF Item
  <2>2. pc' = "size" /\ body' = body
    BY <1>1, <2>1 DEF ReadOn, Goto
  <2>3. Faultless(request, i + 1)
    <3>1. Fault(request, i) = "none"
      BY <1>9, <1>10
    <3>2. \A j \in 1 .. (i + 1) - 1 : j = i \/ j \in 1 .. i - 1
      BY <1>6
    <3>3. QED
      BY <1>5, <3>1, <3>2, Zenon DEF Faultless
  <2>4. /\ got' = Start(request, i + 1) /\ body' = Before(request, i + 1)
        /\ Before(request, i + 1) \in Nat
    BY <1>1, <1>5, <1>7, <1>8, <1>10, <2>2
  <2>5. InChunk(i + 1)'
    BY <1>1, <2>2, <2>3, <2>4 DEF InChunk
  <2>6. AtChunk'
    BY <1>1, <1>3, <1>7, <2>5 DEF AtChunk, InChunks
  <2>7. QED
    BY <2>2, <2>6 DEF Reading
<1>11. CASE k.bytes # m
  <2>1. Now.is = "byte"
    <3>1. \A p \in 2 .. k.bytes + 1 : Wire(request)[Start(request, i) + p] = Item("byte")
      BY <1>2, <1>3, <1>6, ChunkedItems
    <3>2. m + 2 \in 2 .. k.bytes + 1 /\ got + 1 = s + (m + 2)
      <4> DEFINE z == k.bytes
      <4>1. s \in Nat /\ m \in Nat /\ z \in Nat /\ m <= z /\ m # z /\ got = s + 1 + m
        BY <1>5, <1>7, <1>8, <1>11, Zenon
      <4> HIDE DEF k, s, m, z
      <4>2. m + 2 \in 2 .. z + 1 /\ got + 1 = s + (m + 2)
        BY <4>1
      <4>3. QED
        BY <4>2, Zenon DEF z
    <3> DEFINE q == m + 2
    <3>3. q \in 2 .. k.bytes + 1 /\ got + 1 = Start(request, i) + q
      BY <3>2, Zenon
    <3> HIDE DEF q
    <3>4. Wire(request)[Start(request, i) + q] = Item("byte")
      BY <3>1, <3>3, Zenon
    <3>5. Now = Item("byte")
      BY <3>3, <3>4, Zenon DEF Now
    <3>6. QED
      BY <3>5 DEF Item
  <2>2. Refuse("400")
    BY <1>1, <2>1
  <2>3. Verdict(request) = "400"
    <3>1. Fault(request, i) = "400"
      BY <1>9, <1>11
    <3>2. QED
      BY <1>2, <1>3, <1>5, <1>6, <3>1, Verdicts
  <2>4. Refuses /\ pc' = "ended"
    BY <2>2, <2>3 DEF Refuses, Refuse, Goto
  <2>5. QED
    BY <2>4, NothingToRead
<1>12. QED
  BY <1>10, <1>11

\* Trailers change nothing.
LEMMA TrailerRead ==
  ASSUME TypeOK, Reading, ReadTrailer
  PROVE  Reading' /\ pc' # "ended"
<1>1. /\ pc = "trailers" /\ Whole /\ request' = request /\ body' = body
      /\ pc' \in {"route", "trailers"}
  BY DEF ReadTrailer, Take, Reading, ReadOn, Goto, peer
<1>2. Whole'
  BY <1>1 DEF Whole
<1>3. QED
  BY <1>1, <1>2 DEF Reading

\* The end of the input: 400 unless the trailers were being read.
LEMMA EofRead ==
  ASSUME TypeOK, Reading, ReadEof
  PROVE  Reading' /\ (pc' = "ended" => Refuses)
<1>1. CASE pc = "trailers"
  <2>1. pc' = "route" /\ Whole /\ request' = request /\ body' = body
    BY <1>1 DEF ReadEof, Reading, ReadOn, Goto, peer
  <2>2. Whole'
    BY <2>1 DEF Whole
  <2>3. QED
    BY <2>1, <2>2 DEF Reading
<1>2. CASE pc # "trailers"
  <2>1. Refuse("400") /\ client # "open"
    BY <1>2 DEF ReadEof, AtEof
  <2>2. Refuses /\ pc' = "ended"
    BY <2>1 DEF Refuses, Refuse, Goto
  <2>3. QED
    BY <2>2, NothingToRead
<1>3. QED
  BY <1>1, <1>2

\* Steps that touch none of what the reader keeps.
LEMMA ReadingStays ==
  ASSUME Reading, UNCHANGED <<request, got, chunked, length, need, body>>,
         \/ pc' = pc
         \/ pc \in {"dispatch", "line"} /\ pc' = "line"
         \/ pc \in {"route", "sent", "stream"} /\ pc' \in {"sent", "stream"}
  PROVE  Reading'
<1>1. AtStart => AtStart'
  BY DEF AtStart
<1>2. AtHeaders => AtHeaders'
  BY DEF AtHeaders, InChunks
<1>3. AtFraming => AtFraming'
  BY DEF AtFraming, InChunks
<1>4. AtLength => AtLength'
  BY DEF AtLength
<1>5. ASSUME pc' = pc, AtChunk
      PROVE  AtChunk'
  <2>1. PICK i \in 1 .. Len(request.chunks) + 1 : InChunk(i)
    BY <1>5 DEF AtChunk
  <2>2. InChunk(i)'
    BY <1>5, <2>1 DEF InChunk
  <2>3. QED
    BY <1>5, <2>1, <2>2 DEF AtChunk, InChunks
<1>6. Whole => Whole'
  BY DEF Whole
<1>7. QED
  BY <1>1, <1>2, <1>3, <1>4, <1>5, <1>6 DEF Reading

\* Every step keeps the reader's place.
LEMMA ReadingKept ==
  ASSUME TypeOK, Reading, [Next]_vars
  PROVE  Reading'
<1>1. CASE Dispatch
  <2>1. /\ pc = "dispatch" /\ pc' \in {"line", "responded"}
        /\ UNCHANGED <<request, got, chunked, length, need, body>>
    BY <1>1 DEF Dispatch, Goto, Quiet, peer, heads
  <2>2. QED
    BY <2>1, ReadingStays, NothingToRead
<1>2. CASE RespondCloses \/ DrainReads \/ DrainEnds
  <2>1. pc' \in {"drain", "ended"}
    BY <1>2 DEF RespondCloses, DrainReads, DrainEnds, ReadOn, Goto
  <2>2. QED
    BY <2>1, NothingToRead
<1>3. CASE ReadStep
  <2>1. CASE AnswerExpect
    <3>1. pc' = pc /\ UNCHANGED <<request, got, chunked, length, need, body>>
      BY <2>1 DEF AnswerExpect, peer
    <3>2. QED
      BY <3>1, ReadingStays
  <2>2. QED
    BY <1>3, <2>1, LineRead, HeaderRead, Framed, ExactRead, SizeRead, CrlfRead, TrailerRead,
       EofRead DEF ReadStep
<1>4. CASE RouteSends \/ StreamOpens \/ StreamGoesOn
  <2>1. /\ pc \in {"route", "stream"} /\ pc' \in {"sent", "stream"}
        /\ UNCHANGED <<request, got, chunked, length, need, body>>
    BY <1>4 DEF RouteSends, StreamOpens, StreamGoesOn, Goto, Quiet, peer, heads
  <2>2. QED
    BY <2>1, ReadingStays
<1>5. CASE RouteReturns \/ StreamEnds \/ BrokenPipe \/ RouteRaises
  <2>1. pc' = "ended"
    BY <1>5 DEF RouteReturns, StreamEnds, BrokenPipe, RouteRaises, Goto
  <2>2. QED
    BY <2>1, NothingToRead
<1>6. CASE Send \/ Shut \/ Leave \/ Hear \/ Reset
  <2>1. UNCHANGED process
    BY <1>6 DEF Send, Shut, Leave, Hear, Reset
  <2>2. pc' = pc /\ UNCHANGED <<request, got, chunked, length, need, body>>
    BY <2>1 DEF process
  <2>3. QED
    BY <2>2, ReadingStays
<1>7. CASE UNCHANGED vars
  <2>1. pc' = pc /\ UNCHANGED <<request, got, chunked, length, need, body>>
    BY <1>7 DEF vars
  <2>2. QED
    BY <2>1, ReadingStays
<1>8. QED
  BY <1>1, <1>2, <1>3, <1>4, <1>5, <1>6, <1>7 DEF Next, RunStep, RouteStep
-----------------------------------------------------------------------------
(* Types                                                                   *)

Places ==
  {"dispatch", "responded", "drain", "line", "headers", "framing", "exact",
   "size", "crlf", "trailers", "route", "sent", "stream", "ended"}

\* What a step of the process may do to the variables.
LEMMA ProcessTyped ==
  ASSUME TypeOK, UNCHANGED peer,
         got' = got \/ (Arrived /\ got' = got + 1),
         out' = out \/ \E x \in Statuses : out' = Append(out, x),
         pc' \in Places, fds' \subseteq {0, 1}, chunked' \in BOOLEAN, expect' \in BOOLEAN,
         length' = NoNumber \/ length' \in Int, need' \in Int, body' \in 0 .. Limit
  PROVE  TypeOK'
<1>1. got \in Nat /\ sent \in Nat
  BY RequestFacts
<1>2. UNCHANGED <<request, sent, client, heard, lost>>
  BY DEF peer
<1>3. got' \in 0 .. sent'
  BY <1>1, <1>2 DEF TypeOK, Arrived
<1>4. out' \in Seq(Statuses) /\ heard' \in 0 .. Len(out')
  <2>1. out \in Seq(Statuses) /\ heard \in 0 .. Len(out) /\ Len(out) \in Nat
    BY DEF TypeOK, Statuses
  <2>2. CASE out' = out
    BY <1>2, <2>1, <2>2
  <2>3. CASE \E x \in Statuses : out' = Append(out, x)
    <3>1. PICK x \in Statuses : out' = Append(out, x)
      BY <2>3
    <3>2. out' \in Seq(Statuses) /\ Len(out') = Len(out) + 1
      BY <2>1, <3>1, Appended
    <3>3. QED
      BY <1>2, <2>1, <3>2
  <2>4. QED
    BY <2>2, <2>3
<1>5. /\ request' \in Requests /\ client' \in {"open", "shut", "gone"}
      /\ sent' \in 0 .. Len(Wire(request')) /\ lost' \in BOOLEAN
  BY <1>2 DEF TypeOK
<1>6. QED
  BY <1>3, <1>4, <1>5 DEF TypeOK, Places, Statuses

\* Every step keeps the types.
LEMMA TypesKept ==
  ASSUME TypeOK, Reading, [Next]_vars
  PROVE  TypeOK'
<1>1. /\ request \in RequestShape /\ NoNumber \notin Int /\ Limit \in Nat
      /\ got \in Nat /\ sent \in Nat /\ body \in Nat /\ need \in Int
      /\ chunked \in BOOLEAN /\ expect \in BOOLEAN /\ length \in Int \cup {NoNumber}
  BY RequestFacts
<1>2. body \in 0 .. Limit /\ fds \subseteq {0, 1} /\ pc \in Places /\ out \in Seq(Statuses)
  BY DEF TypeOK, Places, Statuses
<1>3. ASSUME RunStep PROVE TypeOK'
  <2>1. /\ UNCHANGED <<request, sent, client, heard, lost, chunked, length, expect, need, body>>
        /\ got' = got \/ (Arrived /\ got' = got + 1)
    BY <1>3 DEF RunStep, Dispatch, RespondCloses, DrainReads, DrainEnds, ReadOn, Take, Quiet,
                peer, heads
  <2>2. pc' \in {"line", "responded", "drain", "ended"} /\ fds' \subseteq {0, 1}
    BY <1>2, <1>3 DEF RunStep, Dispatch, RespondCloses, DrainReads, DrainEnds, ReadOn, Goto
  <2>3. out' = out \/ \E x \in {"404", "503"} : out' = Append(out, x)
    BY <1>3 DEF RunStep, Dispatch, RespondCloses, DrainReads, DrainEnds, ReadOn, Write
  <2>4. UNCHANGED peer
    BY <2>1 DEF peer
  <2>5. QED
    BY <1>1, <1>2, <2>1, <2>2, <2>3, <2>4, ProcessTyped DEF Places, Statuses
<1>4. ASSUME RouteStep PROVE TypeOK'
  <2>1. UNCHANGED <<request, sent, client, heard, lost, got, chunked, length, expect, need, body>>
    BY <1>4 DEF RouteStep, RouteSends, RouteReturns, StreamOpens, StreamGoesOn, StreamEnds,
                BrokenPipe, RouteRaises, Quiet, peer, heads
  <2>2. pc' \in {"sent", "stream", "ended"} /\ fds' \subseteq {0, 1}
    BY <1>2, <1>4 DEF RouteStep, RouteSends, RouteReturns, StreamOpens, StreamGoesOn,
                      StreamEnds, BrokenPipe, RouteRaises, Goto
  <2>3. out' = out \/ \E x \in {"200", "500", "data"} : out' = Append(out, x)
    BY <1>4 DEF RouteStep, RouteSends, RouteReturns, StreamOpens, StreamGoesOn, StreamEnds,
                BrokenPipe, RouteRaises, Write
  <2>4. UNCHANGED peer
    BY <2>1 DEF peer
  <2>5. QED
    BY <1>1, <1>2, <2>1, <2>2, <2>3, <2>4, ProcessTyped DEF Places, Statuses
<1>5. ASSUME ReadStep PROVE TypeOK'
  <2>1. UNCHANGED peer /\ (got' = got \/ (Arrived /\ got' = got + 1))
    BY <1>5 DEF ReadStep, ReadLine, ReadHeader, AnswerExpect, Framing, ReadExact, ReadSize,
                ReadCrlf, ReadTrailer, ReadEof, Take
  <2>2. pc' \in Places /\ fds' \subseteq {0, 1}
    BY <1>2, <1>5 DEF ReadStep, ReadLine, ReadHeader, AnswerExpect, Framing, ReadExact,
                      ReadSize, ReadCrlf, ReadTrailer, ReadEof, ReadOn, Refuse, Goto, Places
  <2>3. out' = out \/ \E x \in Statuses : out' = Append(out, x)
    BY <1>5 DEF ReadStep, ReadLine, ReadHeader, AnswerExpect, Framing, ReadExact, ReadSize,
                ReadCrlf, ReadTrailer, ReadEof, ReadOn, Refuse, Write, Statuses
  <2>4. chunked' \in BOOLEAN /\ expect' \in BOOLEAN
    BY <1>1, <1>5 DEF ReadStep, ReadLine, ReadHeader, AnswerExpect, Framing, ReadExact,
                      ReadSize, ReadCrlf, ReadTrailer, ReadEof, heads
  <2>5. length' = NoNumber \/ length' \in Int
    <3>1. CASE ReadHeader
      <4>1. Reading' /\ pc' \in {"headers", "framing"} /\ request' = request
        BY <3>1, HeaderRead DEF ReadHeader, ReadOn, Goto, Take, peer
      <4>2. AtHeaders' \/ AtFraming'
        BY <4>1 DEF Reading
      <4>3. got' \in Int
        BY <1>1, <3>1 DEF ReadHeader, Take
      <4>4. length' = 0 \/ length' = Declared(request)
        <5>1. CASE AtFraming'
          BY <4>1, <5>1 DEF AtFraming
        <5>2. CASE AtHeaders'
          <6>1. Len(HeadWire(request)) \in Nat
            BY <1>1, WireItems
          <6>2. QED
            BY <4>1, <4>3, <5>2, <6>1 DEF AtHeaders
        <5>3. QED
          BY <4>2, <5>1, <5>2
      <4>5. request.length \in Int \cup {NoNumber}
        BY <1>1, ShapeFacts
      <4>6. QED
        BY <4>4, <4>5 DEF Declared
    <3>2. CASE ~ ReadHeader
      <4>1. length' = length
        BY <1>5, <3>2 DEF ReadStep, ReadLine, AnswerExpect, Framing, ReadExact, ReadSize,
                          ReadCrlf, ReadTrailer, ReadEof, heads
      <4>2. QED
        BY <1>1, <4>1
    <3>3. QED
      BY <3>1, <3>2
  <2>6. need' \in Int
    <3>1. CASE ReadSize
      BY <3>1, SizeRead
    <3>2. CASE Framing
      BY <1>1, <3>2 DEF Framing, ReadOn, Refuse
    <3>3. CASE ~ ReadSize /\ ~ Framing
      BY <1>1, <1>5, <3>3 DEF ReadStep, ReadLine, ReadHeader, AnswerExpect, ReadExact, ReadCrlf,
                              ReadTrailer, ReadEof, ReadOn, Refuse
    <3>4. QED
      BY <3>1, <3>2, <3>3
  <2>7. body' \in 0 .. Limit
    <3>1. CASE ReadExact
      BY <3>1, ExactRead
    <3>2. CASE ~ ReadExact
      <4>1. body' = body
        BY <1>5, <3>2 DEF ReadStep, ReadLine, ReadHeader, AnswerExpect, Framing, ReadSize,
                          ReadCrlf, ReadTrailer, ReadEof, ReadOn, Refuse
      <4>2. QED
        BY <1>2, <4>1
    <3>3. QED
      BY <3>1, <3>2
  <2>8. QED
    BY <2>1, <2>2, <2>3, <2>4, <2>5, <2>6, <2>7, ProcessTyped
<1>6. CASE Send \/ Shut \/ Leave \/ Hear \/ Reset
  <2>1. UNCHANGED <<request, pc, fds, got, chunked, length, expect, need, body, out>>
    BY <1>6 DEF Send, Shut, Leave, Hear, Reset, process
  <2>2. /\ client' \in {"open", "shut", "gone"} /\ lost' \in BOOLEAN
        /\ heard' \in 0 .. Len(out)
        /\ sent' = sent \/ (sent < Len(Wire(request)) /\ sent' = sent + 1)
    <3>1. Len(out) \in Nat /\ heard \in 0 .. Len(out)
      BY <1>2 DEF TypeOK
    <3>2. client \in {"open", "shut", "gone"} /\ lost \in BOOLEAN
      BY DEF TypeOK
    <3>3. client' \in {"open", "shut", "gone"} /\ lost' \in BOOLEAN
      BY <1>6, <3>2 DEF Send, Shut, Leave, Hear, Reset
    <3>4. heard' \in 0 .. Len(out)
      BY <1>6, <3>1 DEF Send, Shut, Leave, Hear, Reset
    <3>5. sent' = sent \/ (sent < Len(Wire(request)) /\ sent' = sent + 1)
      BY <1>6, Zenon DEF Send, Shut, Leave, Hear, Reset
    <3>6. QED
      BY <3>3, <3>4, <3>5
  <2>3. Len(Wire(request)) \in Nat
    BY <1>1, WireItems
  <2>4. sent' \in 0 .. Len(Wire(request)) /\ got \in 0 .. sent'
    BY <1>1, <2>2, <2>3 DEF TypeOK
  <2>5. QED
    BY <2>1, <2>2, <2>4 DEF TypeOK
<1>7. CASE UNCHANGED vars
  BY <1>7 DEF TypeOK, vars
<1>8. QED
  BY <1>3, <1>4, <1>5, <1>6, <1>7 DEF Next

-----------------------------------------------------------------------------
(* Every step keeps the answers                                            *)

BarePlaces ==
  {"dispatch", "line", "headers", "framing", "exact", "size", "crlf", "trailers", "route"}

\* One of S is one of a larger set.
LEMMA BeginsMore ==
  ASSUME NEW o, NEW S, NEW T, S \subseteq T, Begins(o, S)
  PROVE  Begins(o, T)
BY DEF Begins

\* An answer that begins with one of S does not begin with one of T.
LEMMA BeginsApart ==
  ASSUME NEW o \in Seq(Statuses), NEW S, NEW T, \A x \in S : x \notin T, Begins(o, S)
  PROVE  ~ Begins(o, T)
BY BeginsOnce, Zenon

\* Every step keeps what out has to say at each place.
LEMMA AnswersKept ==
  ASSUME TypeOK, Reading, Answers, [Next]_vars
  PROVE  Answers'
<1>1. /\ pc \in Places /\ out \in Seq(Statuses) /\ client \in {"open", "shut", "gone"}
      /\ lost \in BOOLEAN /\ got \in Nat /\ sent \in Nat
  BY RequestFacts DEF TypeOK, Places, Statuses
<1>2. /\ pc \in BarePlaces => Bare(out)
      /\ pc \in {"responded", "drain"} => Begins(out, {"404", "503"})
      /\ pc \in {"sent", "stream"} => Begins(out, {"200"})
      /\ pc = "ended" /\ client # "gone" => Fits
      /\ pc = "ended" /\ Begins(out, {"404", "503"}) => got = sent /\ client # "open"
      /\ lost => pc = "ended" /\ ~ Begins(out, {"404", "503"})
  BY DEF Answers, BarePlaces
<1>3. /\ pc \in {"sent", "stream"} => ~ Begins(out, {"404", "503"})
      /\ Bare(out) => ~ Begins(out, {"404", "503"})
  <2>1. ASSUME Begins(out, {"200"})
        PROVE  ~ Begins(out, {"404", "503"})
    <3>1. \A x \in {"200"} : x \notin {"404", "503"}
      OBVIOUS
    <3>2. QED
      BY <1>1, <2>1, <3>1, BeginsApart
  <2>2. ASSUME Bare(out)
        PROVE  ~ Begins(out, {"404", "503"})
    BY <1>1, <2>2, BeginsOnce, Zenon
  <2>3. QED
    BY <1>2, <2>1, <2>2
<1>4. ASSUME pc' \in BarePlaces, Bare(out'), ~ lost'
      PROVE  Answers'
  BY <1>4 DEF Answers, BarePlaces
<1>5. ASSUME pc # "ended", UNCHANGED <<lost, client, request>>
      PROVE  ~ lost'
  BY <1>2, <1>5
<1>6. \A s \in Statuses : out' = Append(out, s) =>
        /\ out' \in Seq(Statuses)
        /\ Bare(out) /\ s \in Interim => Bare(out')
        /\ \A S : Begins(out, S) => Begins(out', S)
        /\ \A S : Bare(out) /\ s \in S \ Interim => Begins(out', S)
  BY <1>1, Appended
<1>7. ASSUME Dispatch PROVE Answers'
  <2>1. /\ pc = "dispatch" /\ UNCHANGED <<lost, client, request>> /\ Bare(out)
        /\ \/ pc' = "line" /\ out' = out
           \/ pc' = "responded" /\ \E s \in {"404", "503"} : out' = Append(out, s)
    BY <1>2, <1>7 DEF Dispatch, Goto, Quiet, peer, Write, BarePlaces
  <2>2. ~ lost'
    BY <1>5, <2>1
  <2>3. CASE pc' = "line" /\ out' = out
    BY <1>4, <2>1, <2>2, <2>3 DEF BarePlaces
  <2>4. CASE pc' = "responded" /\ \E s \in {"404", "503"} : out' = Append(out, s)
    <3>1. PICK s \in {"404", "503"} : out' = Append(out, s)
      BY <2>4
    <3>2. s \in Statuses /\ s \in {"404", "503"} \ Interim
      BY DEF Statuses, Interim
    <3>3. Begins(out', {"404", "503"})
      BY <1>6, <2>1, <3>1, <3>2
    <3>4. QED
      BY <2>2, <2>4, <3>3 DEF Answers
  <2>5. QED
    BY <2>1, <2>3, <2>4
<1>8. ASSUME RespondCloses \/ DrainReads \/ DrainEnds PROVE Answers'
  <2>1. /\ pc \in {"responded", "drain"} /\ pc' \in {"drain", "ended"}
        /\ out' = out /\ UNCHANGED <<lost, client, request, sent>>
    BY <1>8 DEF RespondCloses, DrainReads, DrainEnds, ReadOn, Goto, Take, Quiet, peer
  <2>2. ~ lost' /\ Begins(out', {"404", "503"})
    BY <1>2, <2>1
  <2>3. CASE pc' = "drain"
    BY <2>2, <2>3 DEF Answers
  <2>4. CASE pc' = "ended"
    <3>1. got' = got /\ got = sent /\ client # "open"
      BY <1>8, <2>4 DEF RespondCloses, DrainReads, DrainEnds, ReadOn, Goto, Quiet, AtEof
    <3>2. Begins(out', {"404", "503", Verdict(request')})
      BY <2>2, BeginsMore
    <3>3. Fits'
      BY <3>2 DEF Fits
    <3>4. QED
      BY <2>1, <2>2, <2>4, <3>1, <3>3 DEF Answers
  <2>5. QED
    BY <2>1, <2>3, <2>4
<1>9. ASSUME ReadStep PROVE Answers'
  <2>1. pc \in BarePlaces /\ UNCHANGED <<lost, client, request>>
    BY <1>9 DEF ReadStep, ReadLine, ReadHeader, AnswerExpect, Framing, ReadExact, ReadSize,
                ReadCrlf, ReadTrailer, ReadEof, Take, peer, BarePlaces
  <2>2. ~ lost' /\ Bare(out)
    BY <1>2, <1>5, <2>1 DEF BarePlaces
  <2>3. CASE pc' = "ended"
    <3>1. Refuses
      <4>1. ~ AnswerExpect
        BY <2>3 DEF AnswerExpect
      <4>2. QED
        BY <1>9, <2>3, <4>1, LineRead, HeaderRead, Framed, ExactRead, SizeRead, CrlfRead,
           TrailerRead, EofRead DEF ReadStep
    <3>2. PICK s \in {"400", "413"} :
            Refuse(s) /\ (s = Verdict(request) \/ (s = "400" /\ client # "open"))
      BY <3>1 DEF Refuses
    <3>3. out' = Append(out, s) /\ s \in Statuses /\ s \notin Interim /\ s \notin {"404", "503"}
      BY <3>2 DEF Refuse, Write, Statuses, Interim
    <3>4. out' \in Seq(Statuses) /\ \A S : s \in S => Begins(out', S)
      BY <1>6, <2>2, <3>3
    <3>5. ~ Begins(out', {"404", "503"})
      <4>1. Begins(out', {s})
        BY <3>4
      <4>2. \A x \in {s} : x \notin {"404", "503"}
        BY <3>3
      <4>3. QED
        BY <3>4, <4>1, <4>2, BeginsApart
    <3>6. client' # "gone" => Fits'
      <4>1. CASE s = Verdict(request)
        <5>1. Begins(out', {"404", "503", Verdict(request')})
          BY <2>1, <3>4, <4>1
        <5>2. QED
          BY <5>1 DEF Fits
      <4>2. CASE s = "400" /\ client # "open"
        <5>1. Begins(out', {"400"})
          BY <3>4, <4>2
        <5>2. client' # "gone" => client' = "shut"
          BY <1>1, <2>1, <4>2
        <5>3. QED
          BY <5>1, <5>2 DEF Fits
      <4>3. QED
        BY <3>2, <4>1, <4>2
    <3>7. QED
      BY <2>2, <2>3, <3>5, <3>6 DEF Answers
  <2>4. CASE pc' # "ended"
    <3>1. pc' \in BarePlaces
      BY <1>9, <2>4 DEF ReadStep, ReadLine, ReadHeader, AnswerExpect, Framing, ReadExact,
                        ReadSize, ReadCrlf, ReadTrailer, ReadEof, ReadOn, Refuse, Goto, BarePlaces
    <3>2. out' = out \/ out' = Append(out, "100")
      BY <1>9, <2>4 DEF ReadStep, ReadLine, ReadHeader, AnswerExpect, Framing, ReadExact,
                        ReadSize, ReadCrlf, ReadTrailer, ReadEof, ReadOn, Refuse, Goto, Write
    <3>3. "100" \in Statuses /\ "100" \in Interim
      BY DEF Statuses, Interim
    <3>4. Bare(out')
      BY <1>6, <2>2, <3>2, <3>3
    <3>5. QED
      BY <1>4, <2>2, <3>1, <3>4
  <2>5. QED
    BY <2>3, <2>4
<1>10. ASSUME RouteStep PROVE Answers'
  <2>1. /\ pc \in {"route", "sent", "stream"} /\ UNCHANGED <<lost, client, request, got, sent>>
        /\ Verdict(request) = "200"
    BY <1>10 DEF RouteStep, RouteSends, RouteReturns, StreamOpens, StreamGoesOn, StreamEnds,
                 BrokenPipe, RouteRaises, Quiet, peer, Reading, Whole
  <2>2. ~ lost' /\ ~ Begins(out, {"404", "503"})
    BY <1>2, <1>3, <1>5, <2>1 DEF BarePlaces
  <2>3. /\ pc = "route" => Bare(out)
        /\ pc \in {"sent", "stream"} => Begins(out, {"200"})
    BY <1>2 DEF BarePlaces
  <2>4. /\ "200" \in Statuses /\ "500" \in Statuses /\ "data" \in Statuses
        /\ "200" \notin Interim /\ "500" \notin Interim
    BY DEF Statuses, Interim
  <2>5. CASE pc' \in {"sent", "stream"}
    <3>1. \/ pc = "route" /\ out' = Append(out, "200")
          \/ pc = "stream" /\ out' = Append(out, "data")
      BY <1>10, <2>5 DEF RouteStep, RouteSends, RouteReturns, StreamOpens, StreamGoesOn,
                         StreamEnds, BrokenPipe, RouteRaises, Goto, Write
    <3>2. Begins(out', {"200"})
      BY <1>6, <2>3, <2>4, <3>1
    <3>3. QED
      BY <2>2, <2>5, <3>2 DEF Answers
  <2>6. CASE pc' = "ended"
    <3>1. \/ pc \in {"sent", "stream"} /\ out' = out
          \/ client = "gone" /\ out' = out
          \/ out' = Append(out, "500")
      BY <1>10, <2>6 DEF RouteStep, RouteSends, RouteReturns, StreamOpens, StreamGoesOn,
                         StreamEnds, BrokenPipe, RouteRaises, Goto, Write
    <3>2. /\ client # "gone" => Begins(out', {"200"}) \/ Begins(out', {"500"})
          /\ ~ Begins(out', {"404", "503"})
      <4>1. CASE out' = out
        BY <2>2, <2>3, <3>1, <4>1
      <4>2. CASE out' = Append(out, "500")
        <5>1. out' \in Seq(Statuses) /\ (Begins(out', {"200"}) \/ Begins(out', {"500"}))
          BY <1>6, <2>1, <2>3, <2>4, <4>2
        <5>2. /\ \A x \in {"200"} : x \notin {"404", "503"}
              /\ \A x \in {"500"} : x \notin {"404", "503"}
          OBVIOUS
        <5>3. ~ Begins(out', {"404", "503"})
          BY <5>1, <5>2, BeginsApart
        <5>4. QED
          BY <5>1, <5>3
      <4>3. QED
        BY <3>1, <4>1, <4>2
    <3>3. client' # "gone" => Fits'
      <4>1. SUFFICES ASSUME client # "gone" PROVE Fits'
        BY <2>1
      <4>2. CASE Begins(out', {"200"})
        <5>1. Begins(out', {"404", "503", "200"})
          BY <4>2, BeginsMore
        <5>2. Verdict(request') = "200"
          BY <2>1
        <5>3. QED
          BY <5>1, <5>2 DEF Fits
      <4>3. CASE Begins(out', {"500"})
        BY <2>1, <4>3 DEF Fits
      <4>4. QED
        BY <3>2, <4>1, <4>2, <4>3
    <3>4. QED
      BY <2>2, <2>6, <3>2, <3>3 DEF Answers
  <2>7. pc' \in {"sent", "stream", "ended"}
    BY <1>10 DEF RouteStep, RouteSends, RouteReturns, StreamOpens, StreamGoesOn, StreamEnds,
                 BrokenPipe, RouteRaises, Goto
  <2>8. QED
    BY <2>5, <2>6, <2>7
<1>11. ASSUME Send \/ Shut \/ Leave \/ Hear \/ Reset PROVE Answers'
  <2>1. UNCHANGED <<request, pc, got, out>>
    BY <1>11 DEF Send, Shut, Leave, Hear, Reset, process
  <2>2. /\ client' = client \/ client' = "gone" \/ (client = "open" /\ client' = "shut")
        /\ sent' = sent \/ client = "open"
        /\ lost' = lost \/ (pc = "ended" /\ got < sent)
        /\ client' = "open" => client = "open"
    BY <1>11 DEF Send, Shut, Leave, Hear, Reset, Arrived
  <2>3. pc' = "ended" /\ client' # "gone" => Fits'
    <3>1. SUFFICES ASSUME pc = "ended", client' # "gone" PROVE Fits'
      BY <2>1
    <3>2. Fits /\ client # "gone"
      BY <1>2, <2>2, <3>1
    <3>3. client = "shut" => client' = "shut"
      BY <2>2, <3>1
    <3>4. QED
      BY <2>1, <3>2, <3>3 DEF Fits
  <2>4. pc' = "ended" /\ Begins(out', {"404", "503"}) => got' = sent' /\ client' # "open"
    BY <1>2, <2>1, <2>2
  <2>5. lost' => pc' = "ended" /\ ~ Begins(out', {"404", "503"})
    <3>1. got < sent => got # sent
      BY <1>1
    <3>2. QED
      BY <1>2, <2>1, <2>2, <3>1
  <2>6. QED
    BY <1>2, <2>1, <2>3, <2>4, <2>5 DEF Answers, BarePlaces
<1>12. CASE UNCHANGED vars
  BY <1>12 DEF Answers, Fits, vars
<1>13. QED
  BY <1>7, <1>8, <1>9, <1>10, <1>11, <1>12 DEF Next, RunStep
-----------------------------------------------------------------------------
(* Theorems                                                                *)

\* RequestInv holds at the start ...
LEMMA RequestStarts == Init => RequestInv
<1> SUFFICES ASSUME Init PROVE RequestInv
  OBVIOUS
<1>1. out = <<>> /\ Len(<<>>) = 0 /\ <<>> \in Seq(Statuses)
  BY DEF Init
<1>2. /\ request \in Requests /\ sent = 0 /\ client = "open" /\ heard = 0 /\ lost = FALSE
      /\ pc = "dispatch" /\ fds = {0, 1} /\ got = 0 /\ need = 0 /\ body = 0
      /\ chunked = FALSE /\ length = 0 /\ expect = FALSE
  BY DEF Init
<1>3. Len(Wire(request)) \in Nat
  <2>1. request \in RequestShape
    BY <1>2, RequestAssumption
  <2>2. QED
    BY <2>1, WireItems
<1>4. TypeOK
  <2>1. sent \in 0 .. Len(Wire(request)) /\ got \in 0 .. sent /\ body \in 0 .. Limit
    BY <1>2, <1>3, LimitAssumption
  <2>2. heard \in 0 .. Len(out) /\ out \in Seq(Statuses)
    BY <1>1, <1>2
  <2>3. fds \subseteq {0, 1} /\ pc \in Places /\ client \in {"open", "shut", "gone"}
    BY <1>2 DEF Places
  <2>4. lost \in BOOLEAN /\ chunked \in BOOLEAN /\ expect \in BOOLEAN
    BY <1>2, Zenon
  <2>5. length \in Int /\ need \in Int
    BY <1>2
  <2>6. QED
    BY <1>2, <2>1, <2>2, <2>3, <2>4, <2>5 DEF TypeOK, Statuses, Places
<1>5. Reading
  BY <1>2 DEF Reading, AtStart
<1>6. Answers
  <2>1. Bare(out)
    BY <1>1 DEF Bare
  <2>2. QED
    BY <1>2, <2>1 DEF Answers
<1>7. QED
  BY <1>4, <1>5, <1>6 DEF RequestInv

\* ... and through every step.
LEMMA RequestKept == RequestInv /\ [Next]_vars => RequestInv'
BY ReadingKept, TypesKept, AnswersKept DEF RequestInv

\* RequestInv is inductive.
LEMMA RequestInvariant == Spec => []RequestInv
<1>1. QED
  BY RequestStarts, RequestKept, PTL DEF Spec

\* Every variable keeps its type; the body never outgrows JCI_MAX_BODY.
THEOREM RequestTyped == Spec => []TypeOK
<1>1. RequestInv => TypeOK
  BY DEF RequestInv
<1>2. QED
  BY <1>1, RequestInvariant, PTL

\* Whatever requests clients send and however they cut them up: route() sees
\* whole bodies of well-formed requests within the limit.
THEOREM BodiesAreWhole == Spec => []BodyWhole
<1>1. RequestInv => BodyWhole
  BY DEF RequestInv, Reading, Whole, BodyWhole
<1>2. QED
  BY <1>1, RequestInvariant, PTL

\* The first answer of a process that has ended names the cause.
THEOREM AnswersFit == Spec => []AnswerFits
<1>1. RequestInv => AnswerFits
  <2>1. SUFFICES ASSUME RequestInv, pc = "ended", client # "gone"
                 PROVE  \E i \in DOMAIN out :
                          /\ First(i)
                          /\ \/ out[i] \in {"404", "503", Verdict(request)}
                             \/ out[i] = "500" /\ Verdict(request) = "200"
                             \/ out[i] = "400" /\ client = "shut"
    BY DEF AnswerFits
  <2>2. out \in Seq(Statuses)
    BY <2>1 DEF RequestInv, TypeOK, Statuses
  <2>3. Fits
    BY <2>1 DEF RequestInv, Answers
  <2>4. \A S : Begins(out, S) => \E i \in DOMAIN out : First(i) /\ out[i] \in S
    BY <2>2, FirstBegins
  <2>5. CASE Begins(out, {"404", "503", Verdict(request)})
    BY <2>4, <2>5
  <2>6. CASE Verdict(request) = "200" /\ Begins(out, {"500"})
    BY <2>4, <2>6
  <2>7. CASE client = "shut" /\ Begins(out, {"400"})
    BY <2>4, <2>7
  <2>8. QED
    BY <2>3, <2>5, <2>6, <2>7 DEF Fits
<1>2. QED
  BY <1>1, RequestInvariant, PTL

\* No reset overtakes the 404 or 503 of run.
THEOREM DrainPreventsReset == Spec => []NoReset
<1>1. RequestInv => NoReset
  <2>1. SUFFICES ASSUME RequestInv, NEW i \in DOMAIN out, First(i), out[i] \in {"404", "503"}
                 PROVE  ~ lost
    BY DEF NoReset
  <2>2. out \in Seq(Statuses)
    BY <2>1 DEF RequestInv, TypeOK, Statuses
  <2>3. Begins(out, {"404", "503"})
    BY <2>1, <2>2, FirstBegins
  <2>4. QED
    BY <2>1, <2>3 DEF RequestInv, Answers
<1>2. QED
  BY <1>1, RequestInvariant, PTL
=============================================================================
