---------------------------- MODULE RouteProofs ----------------------------
(***************************************************************************)
(* Proofs about RouteTable, for any files, any size of the buffers and any *)
(* number of processes: a name that is looked up and connected to reaches  *)
(* the handler of the line that decides about it.                          *)
(*                                                                         *)
(* The table is the result of a loop over the lines that fgets() makes of  *)
(* the file.  TableEntries says, by induction on the lines read, what the  *)
(* loop has put where; Found, which entry a name finds in it.  Of a file   *)
(* that fits the buffers, shim-meta's own loop makes the same table.       *)
(***************************************************************************)
EXTENDS RouteTable, Integers, SequenceTheorems, FiniteSetTheorems, WellFoundedInduction, TLAPS

\* A set of natural numbers has a least one.
LEMMA Least ==
  ASSUME NEW T \in SUBSET Nat, T # {}
  PROVE  \E x \in T : \A y \in T : x <= y
<1>1. \E x \in T : \A y \in T : ~ (<<y, x>> \in OpToRel(<, Nat))
  BY NatLessThanWellFounded, WFMin, Zenon
<1>2. PICK x \in T : \A y \in T : ~ (<<y, x>> \in OpToRel(<, Nat))
  BY <1>1
<1>3. x \in Nat /\ \A y \in T : y \in Nat
  BY <1>2, Zenon
<1>4. \A y \in T : y < x => <<y, x>> \in OpToRel(<, Nat)
  BY <1>3 DEF OpToRel
<1>5. \A y \in T : ~ (y < x)
  BY <1>2, <1>4, Zenon
<1>6. \A y \in T : x <= y
  BY <1>3, <1>5
<1>7. QED
  BY <1>2, <1>6, Zenon

\* Induction over the natural numbers, for the set of those of which something
\* holds.
LEMMA Induction ==
  ASSUME NEW T \in SUBSET Nat, 0 \in T, \A n \in T : n + 1 \in T
  PROVE  T = Nat
<1>1. SUFFICES ASSUME Nat \ T # {} PROVE FALSE
  OBVIOUS
<1>2. PICK x \in Nat \ T : \A y \in Nat \ T : x <= y
  BY <1>1, Least
<1>3. x \in Nat /\ x \notin T /\ x # 0
  BY <1>2
<1>4. x - 1 \in Nat /\ (x - 1) + 1 = x /\ ~ (x <= x - 1)
  BY <1>3
<1>5. x - 1 \notin T
  BY <1>3, <1>4
<1>6. QED
  BY <1>2, <1>4, <1>5, Zenon
-----------------------------------------------------------------------------
(* The lines that fgets() makes of a file                                  *)

\* The lines of the first lines of the file, the function inside ReadLines.
Reads(f) == CHOOSE after : after = [n \in 0 .. Len(f) |->
  IF n = 0 THEN <<>> ELSE after[n - 1] \o Chunks(f[n])]

\* There is a function that strings the chunks together.
LEMMA ReadsExist ==
  ASSUME NEW f, NEW m \in Nat
  PROVE  \E g : g = [n \in 0 .. m |-> IF n = 0 THEN <<>> ELSE g[n - 1] \o Chunks(f[n])]
<1> DEFINE E(g, k) == g = [n \in 0 .. k |-> IF n = 0 THEN <<>> ELSE g[n - 1] \o Chunks(f[n])]
           T == {k \in Nat : \E g : E(g, k)}
<1>1. 0 \in T
  <2>1. E([n \in 0 .. 0 |-> <<>>], 0)
    OBVIOUS
  <2> HIDE DEF E
  <2>2. QED
    BY <2>1
<1>2. ASSUME NEW k \in T PROVE k + 1 \in T
  <2>1. PICK g : E(g, k)
    OBVIOUS
  <2> DEFINE h == [n \in 0 .. (k + 1) |-> IF n = k + 1 THEN g[k] \o Chunks(f[n]) ELSE g[n]]
  <2>2. \A n \in 0 .. k : g[n] = IF n = 0 THEN <<>> ELSE g[n - 1] \o Chunks(f[n])
    BY <2>1
  <2>3. \A n \in 0 .. (k + 1) : h[n] = IF n = 0 THEN <<>> ELSE h[n - 1] \o Chunks(f[n])
    BY <2>2
  <2>4. E(h, k + 1)
    BY <2>3
  <2> HIDE DEF E, h
  <2>5. QED
    BY <2>4
<1> HIDE DEF E
<1>3. T = Nat
  BY <1>1, <1>2, Induction
<1>4. QED
  BY <1>3 DEF E

\* Some number of chunks is made of a line.
LEMMA ChunksCount ==
  ASSUME NEW w \in Seq(Words)
  PROVE  (Len(w) + LineWords - 1) \div LineWords \in Nat
<1>1. Len(w) \in Nat /\ LineWords \in Nat \ {0}
  BY SizeAssumption
<1>2. QED
  BY <1>1

\* What is read of a file is a finite sequence of lines.
LEMMA LinesAreLines ==
  ASSUME NEW f \in Seq(Seq(Words))
  PROVE  Len(ReadLines(f)) \in Nat /\ DOMAIN ReadLines(f) = 1 .. Len(ReadLines(f))
<1> DEFINE U == Reads(f)
           N(n) == (Len(f[n]) + LineWords - 1) \div LineWords
           S == UNION {{Chunks(f[n])[k] : k \in 1 .. N(n)} : n \in 1 .. Len(f)}
<1>0. Len(f) \in Nat
  OBVIOUS
<1>1. U = [n \in 0 .. Len(f) |-> IF n = 0 THEN <<>> ELSE U[n - 1] \o Chunks(f[n])]
  <2>1. \E g : g = [n \in 0 .. Len(f) |-> IF n = 0 THEN <<>> ELSE g[n - 1] \o Chunks(f[n])]
    BY <1>0, ReadsExist, Zenon
  <2>2. QED
    BY <2>1, Zenon DEF Reads
<1>2. ReadLines(f) = U[Len(f)]
  BY Zenon DEF ReadLines, Reads
<1> HIDE DEF U
<1>3. \A n \in 0 .. Len(f) : U[n] = IF n = 0 THEN <<>> ELSE U[n - 1] \o Chunks(f[n])
  BY <1>0, <1>1
<1>4. ASSUME NEW n \in 1 .. Len(f)
      PROVE  Chunks(f[n]) \in Seq(S)
  <2>1. f[n] \in Seq(Words)
    OBVIOUS
  <2> DEFINE m == N(n)
  <2>2. m \in Nat
    BY <2>1, ChunksCount
  <2>3. /\ DOMAIN Chunks(f[n]) = 1 .. m
        /\ Chunks(f[n]) = [k \in DOMAIN Chunks(f[n]) |-> Chunks(f[n])[k]]
    BY DEF Chunks
  <2>4. ASSUME NEW k \in 1 .. m PROVE Chunks(f[n])[k] \in S
    <3>1. Chunks(f[n])[k] \in {Chunks(f[n])[j] : j \in 1 .. N(n)}
      BY Zenon
    <3>2. QED
      BY <3>1, Zenon
  <2> DEFINE c == Chunks(f[n])
  <2> HIDE DEF m, S, c
  <2>5. c \in [1 .. m -> S]
    BY <2>3, <2>4 DEF c
  <2>6. c \in Seq(S)
    BY <2>2, <2>5, IsASeq
  <2>7. QED
    BY <2>6 DEF c
<1> HIDE DEF S
<1> DEFINE T == {n \in Nat : n <= Len(f) => U[n] \in Seq(S)}
<1>5. 0 \in T
  <2>1. U[0] = <<>> /\ <<>> \in Seq(S)
    BY <1>0, <1>3
  <2>2. QED
    BY <2>1
<1>6. ASSUME NEW m \in T PROVE m + 1 \in T
  <2>1. m \in Nat /\ (m <= Len(f) => U[m] \in Seq(S))
    OBVIOUS
  <2>2. SUFFICES ASSUME m + 1 <= Len(f) PROVE U[m + 1] \in Seq(S)
    BY <2>1
  <2>3. /\ m + 1 \in 1 .. Len(f) /\ m + 1 \in 0 .. Len(f) /\ m + 1 # 0
        /\ (m + 1) - 1 = m /\ m <= Len(f)
    BY <1>0, <2>1, <2>2
  <2>4. U[m + 1] = U[m] \o Chunks(f[m + 1])
    BY <1>3, <2>3, Zenon
  <2>5. U[m] \in Seq(S) /\ Chunks(f[m + 1]) \in Seq(S)
    BY <1>4, <2>1, <2>3
  <2>6. QED
    BY <2>4, <2>5, ConcatProperties, Zenon
<1>7. T = Nat
  BY <1>5, <1>6, Induction
<1>8. U[Len(f)] \in Seq(S)
  BY <1>0, <1>7
<1>9. QED
  BY <1>2, <1>8, LenProperties, Zenon

-----------------------------------------------------------------------------
(* The routes among the first n lines                                      *)

Routes(L, n) == {m \in 1 .. n : IsRoute(L[m])}
Count(L, n)  == Cardinality(Routes(L, n))

\* How the count grows.
LEMMA CountNext ==
  ASSUME NEW L
  PROVE  /\ Count(L, 0) = 0
         /\ \A n \in Nat : /\ Count(L, n) \in Nat
                          /\ Count(L, n + 1) = IF IsRoute(L[n + 1]) THEN Count(L, n) + 1
                                               ELSE Count(L, n)
         /\ \A n \in Nat : \A m \in 0 .. n : Count(L, m) <= Count(L, n)
<1>1. Count(L, 0) = 0
  <2>1. Routes(L, 0) = {}
    BY DEF Routes
  <2>2. QED
    BY <2>1, FS_EmptySet, Zenon DEF Count
<1>2. ASSUME NEW n \in Nat
      PROVE  IsFiniteSet(Routes(L, n)) /\ Count(L, n) \in Nat
  <2>1. IsFiniteSet(1 .. n)
    BY FS_Interval
  <2>2. Routes(L, n) \in SUBSET (1 .. n)
    BY DEF Routes
  <2>3. IsFiniteSet(Routes(L, n))
    BY <2>1, <2>2, FS_Subset, Zenon
  <2>4. QED
    BY <2>3, FS_CardinalityType, Zenon DEF Count
<1>3. ASSUME NEW n \in Nat
      PROVE  Count(L, n + 1) = IF IsRoute(L[n + 1]) THEN Count(L, n) + 1 ELSE Count(L, n)
  <2>1. CASE IsRoute(L[n + 1])
    <3>1. Routes(L, n + 1) = Routes(L, n) \cup {n + 1} /\ n + 1 \notin Routes(L, n)
      BY <2>1 DEF Routes
    <3>2. Cardinality(Routes(L, n) \cup {n + 1}) = Cardinality(Routes(L, n)) + 1
      BY <1>2, <3>1, FS_AddElement, Zenon
    <3>3. QED
      BY <2>1, <3>1, <3>2, Zenon DEF Count
  <2>2. CASE ~ IsRoute(L[n + 1])
    <3>1. Routes(L, n + 1) = Routes(L, n)
      BY <2>2 DEF Routes
    <3>2. QED
      BY <2>2, <3>1, Zenon DEF Count
  <2>3. QED
    BY <2>1, <2>2
<1>4. ASSUME NEW n \in Nat, NEW m \in 0 .. n
      PROVE  Count(L, m) <= Count(L, n)
  <2>1. Routes(L, m) \in SUBSET Routes(L, n)
    BY DEF Routes
  <2>2. QED
    BY <1>2, <2>1, FS_Subset, Zenon DEF Count
<1>5. QED
  BY <1>1, <1>2, <1>3, <1>4
-----------------------------------------------------------------------------
(* The table                                                               *)

\* The table after the first lines, the function inside load_config.
Tables(L) == CHOOSE after : after = [n \in 0 .. Len(L) |->
  IF n = 0 THEN <<>>
  ELSE IF IsRoute(L[n]) /\ Len(after[n - 1]) < MaxRoutes
       THEN Append(after[n - 1], Parsed(L[n]))
       ELSE after[n - 1]]

\* One turn of the loop of load_config.
Turn(t, w) == IF IsRoute(w) /\ Len(t) < MaxRoutes THEN Append(t, Parsed(w)) ELSE t

\* There is a function that runs the loop.
LEMMA TablesExist ==
  ASSUME NEW L, NEW m \in Nat
  PROVE  \E g : g = [n \in 0 .. m |-> IF n = 0 THEN <<>> ELSE Turn(g[n - 1], L[n])]
<1> DEFINE E(g, k) == g = [n \in 0 .. k |-> IF n = 0 THEN <<>> ELSE Turn(g[n - 1], L[n])]
           T == {k \in Nat : \E g : E(g, k)}
<1>1. 0 \in T
  <2>1. E([n \in 0 .. 0 |-> <<>>], 0)
    OBVIOUS
  <2> HIDE DEF E
  <2>2. QED
    BY <2>1
<1>2. ASSUME NEW k \in T PROVE k + 1 \in T
  <2>1. PICK g : E(g, k)
    OBVIOUS
  <2> DEFINE h == [n \in 0 .. (k + 1) |-> IF n = k + 1 THEN Turn(g[k], L[n]) ELSE g[n]]
  <2>2. \A n \in 0 .. k : g[n] = IF n = 0 THEN <<>> ELSE Turn(g[n - 1], L[n])
    BY <2>1
  <2>3. \A n \in 0 .. (k + 1) : h[n] = IF n = 0 THEN <<>> ELSE Turn(h[n - 1], L[n])
    BY <2>2
  <2>4. E(h, k + 1)
    BY <2>3
  <2> HIDE DEF E, h
  <2>5. QED
    BY <2>4
<1> HIDE DEF E
<1>3. T = Nat
  BY <1>1, <1>2, Induction
<1>4. QED
  BY <1>3 DEF E

\* The table is what the last turn leaves.
LEMMA TablesNext ==
  ASSUME NEW L, Len(L) \in Nat
  PROVE  /\ Tables(L)[0] = <<>>
         /\ \A n \in Nat : n + 1 <= Len(L) => Tables(L)[n + 1] = Turn(Tables(L)[n], L[n + 1])
<1> DEFINE U == Tables(L)
           E(g) == g = [n \in 0 .. Len(L) |-> IF n = 0 THEN <<>> ELSE Turn(g[n - 1], L[n])]
<1>1. E(U)
  <2>1. \E g : E(g)
    BY TablesExist, Zenon
  <2>2. U = CHOOSE g : E(g)
    BY Zenon DEF Tables, Turn
  <2> HIDE DEF E, U
  <2>3. QED
    BY <2>1, <2>2, Zenon
<1> HIDE DEF U
<1>2. \A n \in 0 .. Len(L) : U[n] = IF n = 0 THEN <<>> ELSE Turn(U[n - 1], L[n])
  BY <1>1
<1>3. U[0] = <<>>
  BY <1>2
<1>4. ASSUME NEW n \in Nat, n + 1 <= Len(L)
      PROVE  U[n + 1] = Turn(U[n], L[n + 1])
  <2>1. n + 1 \in 0 .. Len(L) /\ n + 1 # 0 /\ (n + 1) - 1 = n
    BY <1>4
  <2>2. QED
    BY <1>2, <2>1, Zenon
<1>5. QED
  BY <1>3, <1>4, Zenon DEF U

\* load_config returns the last of the tables.
LEMMA LoadIsTables ==
  ASSUME NEW f
  PROVE  load_config(f) = Tables(ReadLines(f))[Len(ReadLines(f))]
BY Zenon DEF load_config, Tables

\* What the table holds after n lines: the routes among them, in order, until
\* it is full.
Holds(t, L, n) ==
  /\ t \in Seq({Parsed(L[m]) : m \in 1 .. Len(L)})
  /\ Len(t) = IF Count(L, n) < MaxRoutes THEN Count(L, n) ELSE MaxRoutes
  /\ \A m \in 1 .. n : IsRoute(L[m]) /\ Count(L, m - 1) < MaxRoutes =>
       t[Count(L, m - 1) + 1] = Parsed(L[m])
  /\ \A i \in 1 .. Len(t) : \E m \in 1 .. n : IsRoute(L[m]) /\ Count(L, m - 1) = i - 1

\* The loop of load_config keeps the first MaxRoutes routes, in order.
LEMMA TableEntries ==
  ASSUME NEW L, Len(L) \in Nat
  PROVE  Holds(Tables(L)[Len(L)], L, Len(L))
<1> DEFINE U == Tables(L)
           S == {Parsed(L[m]) : m \in 1 .. Len(L)}
           P(n) == Holds(U[n], L, n)
           T == {n \in Nat : n <= Len(L) => P(n)}
<1>1. U[0] = <<>> /\ \A n \in Nat : n + 1 <= Len(L) => U[n + 1] = Turn(U[n], L[n + 1])
  BY TablesNext
<1>2. /\ Count(L, 0) = 0
      /\ \A n \in Nat : /\ Count(L, n) \in Nat
                       /\ Count(L, n + 1) = IF IsRoute(L[n + 1]) THEN Count(L, n) + 1
                                            ELSE Count(L, n)
      /\ \A n \in Nat : \A m \in 0 .. n : Count(L, m) <= Count(L, n)
  BY CountNext, Zenon
<1>3. MaxRoutes \in Nat \ {0}
  BY SizeAssumption
<1> HIDE DEF U
<1>4. 0 \in T
  <2>1. <<>> \in Seq(S) /\ Len(<<>>) = 0
    OBVIOUS
  <2>2. P(0)
    BY <1>1, <1>2, <1>3, <2>1 DEF Holds
  <2> HIDE DEF P
  <2>3. QED
    BY <2>2
<1>5. ASSUME NEW n \in T PROVE n + 1 \in T
  <2>1. n \in Nat /\ (n <= Len(L) => P(n))
    <3> HIDE DEF P
    <3>1. QED
      OBVIOUS
  <2>2. SUFFICES ASSUME n + 1 <= Len(L) PROVE P(n + 1)
    <3> HIDE DEF P
    <3>1. QED
      BY <2>1
  <2>3. P(n)
    <3> HIDE DEF P
    <3>1. QED
      BY <2>1, <2>2
  <2> DEFINE t == U[n]
             u == U[n + 1]
             x == Parsed(L[n + 1])
             c(m) == Count(L, m)
  <2>4. /\ t \in Seq(S) /\ Len(t) = IF c(n) < MaxRoutes THEN c(n) ELSE MaxRoutes
        /\ \A m \in 1 .. n : IsRoute(L[m]) /\ c(m - 1) < MaxRoutes => t[c(m - 1) + 1] = Parsed(L[m])
        /\ \A i \in 1 .. Len(t) : \E m \in 1 .. n : IsRoute(L[m]) /\ c(m - 1) = i - 1
    BY <2>3 DEF Holds
  <2>5. u = IF IsRoute(L[n + 1]) /\ Len(t) < MaxRoutes THEN Append(t, x) ELSE t
    BY <1>1, <2>1, <2>2 DEF Turn
  <2>6. x \in S
    <3>1. n + 1 \in 1 .. Len(L)
      BY <2>1, <2>2
    <3>2. QED
      BY <3>1
  <2>7. /\ c(n) \in Nat /\ c(n + 1) = IF IsRoute(L[n + 1]) THEN c(n) + 1 ELSE c(n)
        /\ \A m \in 1 .. n : c(m - 1) \in Nat /\ c(m) \in Nat /\ c(m) <= c(n)
        /\ \A m \in 1 .. n : IsRoute(L[m]) => c(m) = c(m - 1) + 1
    <3>1. \A m \in 1 .. n : m - 1 \in Nat /\ (m - 1) + 1 = m /\ m \in 0 .. n /\ m \in Nat
      BY <2>1
    <3>2. QED
      BY <1>2, <2>1, <3>1, Zenon
  <2>8. u \in Seq(S) /\ Len(u) = (IF c(n + 1) < MaxRoutes THEN c(n + 1) ELSE MaxRoutes)
    <3> HIDE DEF S, x, t, c
    <3>1. QED
      BY <1>3, <2>4, <2>5, <2>6, <2>7
  <2>9. ASSUME NEW m \in 1 .. n + 1, IsRoute(L[m]), c(m - 1) < MaxRoutes
        PROVE  u[c(m - 1) + 1] = Parsed(L[m])
    <3>1. CASE m \in 1 .. n
      <4>1. t[c(m - 1) + 1] = Parsed(L[m])
        BY <2>4, <2>9, <3>1
      <4>2. c(m - 1) + 1 \in 1 .. Len(t)
        <5> HIDE DEF t, c
        <5>1. c(m) = c(m - 1) + 1 /\ c(m) <= c(n) /\ c(m - 1) \in Nat
          BY <2>7, <2>9, <3>1
        <5>2. Len(t) = c(n) \/ Len(t) = MaxRoutes
          BY <2>4
        <5>3. c(n) \in Nat /\ c(m - 1) < MaxRoutes
          BY <2>7, <2>9, Zenon
        <5> DEFINE y == c(m - 1)
                   z == c(m)
                   l == Len(t)
        <5>4. z = y + 1 /\ z <= c(n) /\ y \in Nat /\ y < MaxRoutes /\ (l = c(n) \/ l = MaxRoutes)
          BY <5>1, <5>2, <5>3, Zenon
        <5> HIDE DEF y, z, l
        <5>5. y + 1 \in 1 .. l
          BY <1>3, <5>3, <5>4
        <5>6. QED
          BY <5>5, Zenon DEF y, l
      <4> HIDE DEF t, c, x, S
      <4>3. \A i \in 1 .. Len(t) : u[i] = t[i]
        BY <2>4, <2>5, <2>6
      <4>4. QED
        BY <4>1, <4>2, <4>3, Zenon
    <3>2. CASE m = n + 1
      <4>1. m - 1 = n
        BY <2>1, <3>2
      <4>2. IsRoute(L[n + 1]) /\ c(n) < MaxRoutes
        BY <2>9, <3>2, <4>1
      <4>3. Len(t) = c(n) /\ u = Append(t, x)
        BY <2>4, <2>5, <4>2
      <4>4. u[Len(t) + 1] = x
        <5> HIDE DEF t, c, x, S
        <5>1. QED
          BY <2>4, <2>6, <4>3
      <4>5. QED
        BY <3>2, <4>1, <4>3, <4>4
    <3>3. QED
      BY <2>1, <3>1, <3>2
  <2>10. ASSUME NEW i \in 1 .. Len(u)
         PROVE  \E m \in 1 .. n + 1 : IsRoute(L[m]) /\ c(m - 1) = i - 1
    <3>1. CASE i \in 1 .. Len(t)
      <4>1. PICK m \in 1 .. n : IsRoute(L[m]) /\ c(m - 1) = i - 1
        BY <2>4, <3>1
      <4>2. m \in 1 .. n + 1
        BY <2>1
      <4>3. QED
        BY <4>1, <4>2
    <3>2. CASE i \notin 1 .. Len(t)
      <4> HIDE DEF t, c, x, S
      <4>1. Len(t) \in Nat
        BY <2>4
      <4>2. IsRoute(L[n + 1]) /\ Len(t) < MaxRoutes /\ i = Len(t) + 1
        BY <2>4, <2>5, <2>6, <3>2, <4>1
      <4>3. Len(t) = c(n)
        BY <2>4, <4>2
      <4>4. (n + 1) - 1 = n /\ i - 1 = c(n) /\ n + 1 \in 1 .. n + 1
        BY <2>1, <4>1, <4>2, <4>3
      <4>5. QED
        BY <4>2, <4>4
    <3>3. QED
      BY <3>1, <3>2
  <2>11. QED
    BY <2>8, <2>9, <2>10 DEF Holds
<1>6. T = Nat
  <2> HIDE DEF P
  <2>1. QED
    BY <1>4, <1>5, Induction
<1>7. P(Len(L))
  <2> HIDE DEF P
  <2>1. QED
    BY <1>6
<1>8. QED
  BY <1>7 DEF U

-----------------------------------------------------------------------------
(* Looking a name up                                                       *)

\* The entry that a name finds is that of the deciding line, if there is one.
LEMMA Found ==
  ASSUME NEW f \in Seq(Seq(Words)), NEW h
  PROVE  LET t == load_config(f)
             L == ReadLines(f)
             i == find_route_by_host(t, h)
         IN  /\ DOMAIN t = 1 .. Len(t) /\ Len(t) \in Nat
             /\ i \in 0 .. Len(t)
             /\ i = 0 => Deciding(f, h) = {}
             /\ i # 0 => \E m \in Deciding(f, h) :
                           Deciding(f, h) = {m} /\ t[i] = Parsed(L[m])
<1> DEFINE t == load_config(f)
           L == ReadLines(f)
           n == Len(L)
           c(m) == Count(L, m)
           G(m) == fold[L[m][1]] = fold[h]
           D == Deciding(f, h)
           F(i) == fold[t[i].host] = fold[h]
           M == {i \in DOMAIN t : F(i)}
<1>1. n \in Nat
  BY LinesAreLines
<1>2. Holds(t, L, n)
  BY <1>1, LoadIsTables, TableEntries
<1>3. /\ t \in Seq({Parsed(L[m]) : m \in 1 .. n})
      /\ Len(t) = IF c(n) < MaxRoutes THEN c(n) ELSE MaxRoutes
      /\ \A m \in 1 .. n : IsRoute(L[m]) /\ c(m - 1) < MaxRoutes => t[c(m - 1) + 1] = Parsed(L[m])
      /\ \A i \in 1 .. Len(t) : \E m \in 1 .. n : IsRoute(L[m]) /\ c(m - 1) = i - 1
  BY <1>2 DEF Holds
<1>4. DOMAIN t = 1 .. Len(t) /\ Len(t) \in Nat /\ MaxRoutes \in Nat \ {0}
  <2> HIDE DEF t
  <2>1. QED
    BY <1>3, SizeAssumption
<1>5. /\ \A m \in 0 .. n : c(m) \in Nat
      /\ \A m \in 1 .. n : IsRoute(L[m]) => c(m) = c(m - 1) + 1
      /\ \A m \in 0 .. n : \A k \in 0 .. m : c(k) <= c(m)
  <2>1. \A m \in 1 .. n : m - 1 \in Nat /\ (m - 1) + 1 = m
    BY <1>1
  <2>2. \A m \in 0 .. n : m \in Nat
    BY <1>1
  <2>3. QED
    BY <2>1, <2>2, CountNext, Zenon
<1>6. DOMAIN L = 1 .. n
  BY LinesAreLines
<1>7. D = {m \in 1 .. n :
             /\ IsRoute(L[m]) /\ G(m)
             /\ \A k \in 1 .. m - 1 : IsRoute(L[k]) => ~ G(k)
             /\ c(m - 1) < MaxRoutes}
  BY <1>6, Zenon DEF Deciding, Count, Routes
<1>8. \A w : Parsed(w).host = w[1]
  BY DEF Parsed
<1>9. find_route_by_host(t, h) =
        IF \E i \in DOMAIN t : F(i)
        THEN CHOOSE i \in DOMAIN t : F(i) /\ \A j \in DOMAIN t : F(j) => i <= j
        ELSE 0
  BY Zenon DEF find_route_by_host, FirstIndex
<1> HIDE DEF t, L, n, c, D
\* Every entry is of a line, and of a line that is small enough.
<1>10. ASSUME NEW i \in 1 .. Len(t)
       PROVE  \E m \in 1 .. n : /\ IsRoute(L[m]) /\ c(m - 1) = i - 1 /\ c(m - 1) < MaxRoutes
                               /\ t[i] = Parsed(L[m])
  <2>1. PICK m \in 1 .. n : IsRoute(L[m]) /\ c(m - 1) = i - 1
    BY <1>3
  <2>2. i - 1 < MaxRoutes /\ (i - 1) + 1 = i
    <3>1. n \in 0 .. n
      BY <1>1
    <3>2. Len(t) <= MaxRoutes
      BY <1>3, <1>4, <1>5, <3>1
    <3>3. QED
      BY <1>4, <3>2
  <2>3. t[i] = Parsed(L[m])
    BY <1>3, <2>1, <2>2, Zenon
  <2>4. QED
    BY <2>1, <2>2, <2>3, Zenon
\* A deciding line has an entry, and what comes before it is of other hosts.
<1>11. ASSUME NEW m \in D
       PROVE  /\ c(m - 1) + 1 \in M /\ t[c(m - 1) + 1] = Parsed(L[m]) /\ D = {m}
              /\ \A j \in M : c(m - 1) + 1 <= j
  <2>1. /\ m \in 1 .. n /\ IsRoute(L[m]) /\ G(m) /\ c(m - 1) < MaxRoutes
        /\ \A k \in 1 .. m - 1 : IsRoute(L[k]) => ~ G(k)
    BY <1>7
  <2>2. t[c(m - 1) + 1] = Parsed(L[m])
    BY <1>3, <2>1
  <2>3. c(m - 1) \in Nat /\ c(m - 1) + 1 \in 1 .. Len(t)
    <3>1. m - 1 \in 0 .. n /\ m \in 0 .. n /\ n \in 0 .. n /\ m \in 0 .. n
      BY <1>1, <2>1
    <3>2. c(m) = c(m - 1) + 1 /\ c(m) <= c(n) /\ c(m - 1) \in Nat /\ c(n) \in Nat
      BY <1>5, <2>1, <3>1, Zenon
    <3> DEFINE y == c(m - 1)
               z == c(m)
               l == Len(t)
               d == c(n)
    <3>3. /\ z = y + 1 /\ z <= d /\ y \in Nat /\ d \in Nat /\ y < MaxRoutes
          /\ l = IF d < MaxRoutes THEN d ELSE MaxRoutes
      BY <1>3, <2>1, <3>2, Zenon
    <3> HIDE DEF y, z, l, d
    <3>4. y \in Nat /\ y + 1 \in 1 .. l
      BY <1>4, <3>3
    <3>5. QED
      BY <3>4, Zenon DEF y, l
  <2>4. c(m - 1) + 1 \in M
    BY <1>4, <1>8, <2>1, <2>2, <2>3
  <2>5. ASSUME NEW j \in M
        PROVE  c(m - 1) + 1 <= j
    <3>1. j \in 1 .. Len(t) /\ fold[t[j].host] = fold[h]
      BY <1>4
    <3>2. PICK k \in 1 .. n : IsRoute(L[k]) /\ c(k - 1) = j - 1 /\ t[j] = Parsed(L[k])
      BY <1>10, <3>1
    <3>3. G(k)
      BY <1>8, <3>1, <3>2
    <3>4. k \notin 1 .. m - 1
      BY <2>1, <3>2, <3>3
    <3>5. m - 1 \in 0 .. k - 1 /\ k - 1 \in 0 .. n
      BY <1>1, <2>1, <3>2, <3>4
    <3>6. c(m - 1) <= c(k - 1)
      BY <1>5, <3>5
    <3>7. QED
      BY <2>3, <3>1, <3>2, <3>6
  <2>6. ASSUME NEW k \in D
        PROVE  k = m
    <3>1. /\ k \in 1 .. n /\ IsRoute(L[k]) /\ G(k)
          /\ \A o \in 1 .. k - 1 : IsRoute(L[o]) => ~ G(o)
      BY <1>7
    <3>2. k \notin 1 .. m - 1 /\ m \notin 1 .. k - 1
      BY <2>1, <3>1, Zenon
    <3>3. QED
      BY <1>1, <2>1, <3>1, <3>2
  <2>7. QED
    BY <2>2, <2>4, <2>5, <2>6
\* An entry for the host leads to a deciding line.
<1>12. ASSUME NEW i \in M
       PROVE  D # {}
  <2>1. i \in 1 .. Len(t) /\ fold[t[i].host] = fold[h]
    BY <1>4
  <2>2. PICK k \in 1 .. n : /\ IsRoute(L[k]) /\ c(k - 1) = i - 1 /\ c(k - 1) < MaxRoutes
                           /\ t[i] = Parsed(L[k])
    BY <1>10, <2>1
  <2> DEFINE Q == {m \in 1 .. n : IsRoute(L[m]) /\ G(m)}
  <2>3. k \in Q
    BY <1>8, <2>1, <2>2
  <2>4. Q \in SUBSET Nat /\ Q # {}
    BY <1>1, <2>3
  <2>5. PICK m \in Q : \A y \in Q : m <= y
    <3> HIDE DEF Q
    <3>1. QED
      BY <2>4, Least
  <2>6. m \in 1 .. n /\ IsRoute(L[m]) /\ G(m) /\ m <= k
    BY <2>3, <2>5
  <2>7. ASSUME NEW o \in 1 .. m - 1, IsRoute(L[o])
        PROVE  ~ G(o)
    <3>1. o \in 1 .. n /\ ~ (m <= o)
      BY <1>1, <2>6, <2>7
    <3>2. o \notin Q
      BY <2>5, <3>1, Zenon
    <3>3. QED
      BY <2>7, <3>1, <3>2
  <2>8. c(m - 1) < MaxRoutes
    <3>1. m - 1 \in 0 .. k - 1 /\ k - 1 \in 0 .. n /\ m - 1 \in 0 .. n
      BY <1>1, <2>2, <2>6
    <3>2. c(m - 1) <= c(k - 1) /\ c(m - 1) \in Nat /\ c(k - 1) \in Nat
      BY <1>5, <3>1
    <3>3. QED
      BY <1>4, <2>2, <3>2
  <2>9. m \in D
    BY <1>7, <2>6, <2>7, <2>8
  <2>10. QED
    BY <2>9
<1> DEFINE r == find_route_by_host(t, h)
<1>13. CASE M = {}
  <2>1. r = 0
    BY <1>9, <1>13
  <2>2. D = {}
    BY <1>4, <1>11, <1>13
  <2>3. QED
    BY <1>4, <2>1, <2>2 DEF t, L, D
<1>14. CASE M # {}
  <2>1. PICK m \in D : TRUE
    BY <1>12, <1>14
  <2> DEFINE i == c(m - 1) + 1
  <2>2. i \in M /\ t[i] = Parsed(L[m]) /\ D = {m} /\ \A j \in M : i <= j
    BY <1>11
  <2> DEFINE P(k) == F(k) /\ \A j \in DOMAIN t : F(j) => k <= j
  <2>3. r = CHOOSE k \in DOMAIN t : P(k)
    <3>1. \E k \in DOMAIN t : F(k)
      BY <1>14
    <3> HIDE DEF F
    <3>2. QED
      BY <1>9, <3>1, Zenon
  <2>4. M \in SUBSET (1 .. Len(t))
    BY <1>4
  <2>a. i \in DOMAIN t /\ P(i)
    <3> HIDE DEF F
    <3>1. QED
      BY <2>2
  <2>b. r \in DOMAIN t /\ P(r)
    <3> HIDE DEF P, r
    <3>1. QED
      BY <2>3, <2>a, Zenon
  <2>c. r <= i /\ i <= r
    <3> HIDE DEF F, r
    <3>1. QED
      BY <2>a, <2>b, Zenon
  <2> HIDE DEF M, i, r, P
  <2>5. r = i
    <3>1. r \in Int /\ i \in Int
      BY <1>4, <2>a, <2>b
    <3>2. QED
      BY <2>c, <3>1
  <2>6. r \in 1 .. Len(t)
    BY <2>2, <2>4, <2>5
  <2>7. t[r] = Parsed(L[m]) /\ r # 0 /\ r \in 0 .. Len(t)
    BY <1>4, <2>2, <2>5, <2>6
  <2>8. QED
    BY <1>4, <2>1, <2>2, <2>7 DEF t, L, D, r
<1>15. QED
  BY <1>13, <1>14

-----------------------------------------------------------------------------
(* Through the sentinel and back                                           *)

\* The address that a name gets from a table.
Address(t, h) ==
  IF find_route_by_host(t, h) = 0 THEN 0 ELSE sentinel(find_route_by_host(t, h))

\* Every process keeps the table of the file it started with, and the last
\* address it got is the one of that table.
TableInv ==
  /\ file \in Files /\ started \subseteq Procs
  /\ DOMAIN source = Procs /\ DOMAIN table = Procs /\ DOMAIN dns = Procs
  /\ DOMAIN reached = Procs /\ DOMAIN listing = Procs
  /\ \A p \in started : source[p] \in Files /\ table[p] = load_config(source[p])
  /\ \A p \in started : dns[p] = Unasked \/ dns[p].addr = Address(table[p], dns[p].host)
  /\ \A p \in Procs \ started : dns[p] = Unasked

\* A sentinel finds the entry that it was made for.
LEMMA Returned ==
  ASSUME NEW t, NEW n \in Nat, DOMAIN t = 1 .. n, NEW i \in 0 .. n
  PROVE  find_route_by_ip(t, IF i = 0 THEN 0 ELSE sentinel(i)) = i
<1> DEFINE a == IF i = 0 THEN 0 ELSE sentinel(i)
           F(k) == sentinel(k) = a
           P(k) == F(k) /\ \A j \in DOMAIN t : F(j) => k <= j
           f == CHOOSE k \in DOMAIN t : P(k)
<1>1. find_route_by_ip(t, a) = IF \E k \in DOMAIN t : F(k) THEN f ELSE 0
  BY Zenon DEF find_route_by_ip, FirstIndex
<1>2. CASE i = 0
  <2>1. \A k \in DOMAIN t : ~ F(k)
    BY <1>2 DEF sentinel
  <2> HIDE DEF F, f, a
  <2>2. QED
    BY <1>1, <1>2, <2>1 DEF a
<1>3. CASE i # 0
  <2>1. i \in DOMAIN t /\ F(i)
    BY <1>3
  <2>2. \A k \in DOMAIN t : F(k) => k = i
    BY <1>3 DEF sentinel
  <2>3. P(i)
    <3>1. \A j \in DOMAIN t : j = i => i <= j
      OBVIOUS
    <3> HIDE DEF F
    <3>2. QED
      BY <2>1, <2>2, <3>1
  <2>4. f \in DOMAIN t /\ P(f)
    <3> HIDE DEF P
    <3>1. QED
      BY <2>1, <2>3, Zenon
  <2>5. f = i
    <3> HIDE DEF f, F
    <3>1. QED
      BY <2>2, <2>4
  <2> HIDE DEF F, f, a
  <2>6. QED
    BY <1>1, <2>1, <2>5 DEF a
<1>4. QED
  BY <1>2, <1>3

\* What connect() finds for the address of a name.
LEMMA Reached ==
  ASSUME NEW f \in Seq(Seq(Words)), NEW h
  PROVE  LET t == load_config(f)
             i == find_route_by_ip(t, Address(t, h))
             line == {ReadLines(f)[n] : n \in Deciding(f, h)}
         IN  (IF i = 0 THEN Elsewhere ELSE t[i])
               \in IF line = {} THEN {Elsewhere} ELSE {Parsed(w) : w \in line}
<1> DEFINE t == load_config(f)
           k == find_route_by_host(t, h)
           i == find_route_by_ip(t, Address(t, h))
           line == {ReadLines(f)[n] : n \in Deciding(f, h)}
<1>1. /\ DOMAIN t = 1 .. Len(t) /\ Len(t) \in Nat /\ k \in 0 .. Len(t)
      /\ k = 0 => Deciding(f, h) = {}
      /\ k # 0 => \E m \in Deciding(f, h) :
                    Deciding(f, h) = {m} /\ t[k] = Parsed(ReadLines(f)[m])
  BY Found, Zenon
<1>2. i = k
  <2> DEFINE n == Len(t)
  <2>1. n \in Nat /\ DOMAIN t = 1 .. n /\ k \in 0 .. n
    BY <1>1, Zenon
  <2>2. i = find_route_by_ip(t, IF k = 0 THEN 0 ELSE sentinel(k))
    BY Zenon DEF Address
  <2> HIDE DEF t, n, i, k
  <2>3. QED
    BY <2>1, <2>2, Returned
<1> HIDE DEF t, i, k
<1>3. CASE k = 0
  BY <1>1, <1>2, <1>3 DEF t, i
<1>4. CASE k # 0
  <2>1. PICK m \in Deciding(f, h) : Deciding(f, h) = {m} /\ t[k] = Parsed(ReadLines(f)[m])
    BY <1>1, <1>4
  <2>2. ReadLines(f)[m] \in line
    BY <2>1
  <2> HIDE DEF line
  <2>3. (IF i = 0 THEN Elsewhere ELSE t[i])
          \in IF line = {} THEN {Elsewhere} ELSE {Parsed(w) : w \in line}
    BY <1>2, <1>4, <2>1, <2>2
  <2>4. QED
    BY <2>3 DEF t, i, line
<1>5. QED
  BY <1>3, <1>4

\* TableInv holds before any process starts.
LEMMA TableStarts == Init => TableInv
BY DEF Init, TableInv

\* Every step keeps it: a started process never loads a table again, and what
\* it remembers of a name comes from its own table.
LEMMA TableKept == TableInv /\ [Next]_vars => TableInv'
<1> SUFFICES ASSUME TableInv, [Next]_vars PROVE TableInv'
  OBVIOUS
<1>1. /\ file \in Files /\ started \subseteq Procs
      /\ DOMAIN source = Procs /\ DOMAIN table = Procs /\ DOMAIN dns = Procs
      /\ DOMAIN reached = Procs /\ DOMAIN listing = Procs
      /\ \A p \in started : source[p] \in Files /\ table[p] = load_config(source[p])
      /\ \A p \in started : dns[p] = Unasked \/ dns[p].addr = Address(table[p], dns[p].host)
      /\ \A p \in Procs \ started : dns[p] = Unasked
  BY DEF TableInv
<1>2. CASE Edit
  BY <1>1, <1>2, FileAssumption DEF Edit, TableInv
<1>3. ASSUME NEW p \in Procs, Start(p) PROVE TableInv'
  <2>1. /\ p \notin started /\ started' = started \cup {p}
        /\ source' = [source EXCEPT ![p] = file]
        /\ table' = [table EXCEPT ![p] = load_config(file)]
        /\ UNCHANGED <<file, dns, reached, listing>>
    BY <1>3 DEF Start
  <2>2. /\ DOMAIN source' = Procs /\ DOMAIN table' = Procs
        /\ source'[p] = file /\ table'[p] = load_config(file)
        /\ \A q \in Procs \ {p} : source'[q] = source[q] /\ table'[q] = table[q]
    BY <1>1, <2>1
  <2>3. ASSUME NEW q \in started'
        PROVE  /\ source'[q] \in Files /\ table'[q] = load_config(source'[q])
               /\ dns'[q] = Unasked \/ dns'[q].addr = Address(table'[q], dns'[q].host)
    <3>1. CASE q = p
      BY <1>1, <2>1, <2>2, <3>1
    <3>2. CASE q # p
      BY <1>1, <2>1, <2>2, <3>2
    <3>3. QED
      BY <3>1, <3>2
  <2>4. QED
    BY <1>1, <2>1, <2>2, <2>3 DEF TableInv
<1>4. ASSUME NEW p \in Procs, NEW h \in Hosts, do_getaddrinfo(p, h) PROVE TableInv'
  <2> DEFINE a == Address(table[p], h)
             d == [host |-> h, addr |-> a]
  <2>1. /\ p \in started /\ dns' = [dns EXCEPT ![p] = d]
        /\ reached' = [reached EXCEPT ![p] = Elsewhere]
        /\ UNCHANGED <<file, source, table, started, listing>>
    BY <1>4 DEF do_getaddrinfo, Address
  <2>2. d.host = h /\ d.addr = a
    BY Zenon
  <2> HIDE DEF d, a
  <2>3. /\ DOMAIN dns' = Procs /\ DOMAIN reached' = Procs /\ dns'[p] = d
        /\ \A q \in Procs \ {p} : dns'[q] = dns[q]
    BY <1>1, <2>1
  <2>4. ASSUME NEW q \in started
        PROVE  dns'[q] = Unasked \/ dns'[q].addr = Address(table[q], dns'[q].host)
    <3>1. CASE q = p
      BY <2>2, <2>3, <3>1 DEF a
    <3>2. CASE q # p
      BY <1>1, <2>3, <3>2
    <3>3. QED
      BY <3>1, <3>2
  <2>5. \A q \in Procs \ started : dns'[q] = Unasked
    BY <1>1, <2>1, <2>3
  <2>6. QED
    BY <1>1, <2>1, <2>3, <2>4, <2>5 DEF TableInv
<1>5. ASSUME NEW p \in Procs, do_connect(p) PROVE TableInv'
  <2>1. DOMAIN reached' = Procs /\ UNCHANGED <<file, source, table, started, dns, listing>>
    BY <1>1, <1>5 DEF do_connect
  <2>2. QED
    BY <1>1, <2>1 DEF TableInv
<1>6. ASSUME NEW p \in Procs, AskMeta(p) PROVE TableInv'
  BY <1>1, <1>6 DEF AskMeta, TableInv
<1>7. CASE UNCHANGED vars
  BY <1>1, <1>7 DEF vars, TableInv
<1>8. QED
  BY <1>2, <1>3, <1>4, <1>5, <1>6, <1>7 DEF Next

\* TableInv is an invariant of the specification.
LEMMA TableInvariant == Spec => []TableInv
BY TableStarts, TableKept, PTL DEF Spec

\* However routes.conf is edited while programs run, and however it is cut up
\* by the buffers: connect() to the address of a name reaches the handler of
\* the line that decides about the name in the file the process started with.
THEOREM HandlersAreRight == Spec => RightHandler
<1> DEFINE Right(p) ==
      do_connect(p) =>
        LET line == {ReadLines(source[p])[n] : n \in Deciding(source[p], dns[p].host)}
        IN  reached'[p] \in IF line = {} THEN {Elsewhere} ELSE {Parsed(w) : w \in line}
<1>1. ASSUME TableInv, NEW p \in Procs PROVE Right(p)
  <2>1. SUFFICES ASSUME do_connect(p)
                 PROVE  LET line == {ReadLines(source[p])[n] :
                                       n \in Deciding(source[p], dns[p].host)}
                        IN  reached'[p] \in IF line = {} THEN {Elsewhere}
                                            ELSE {Parsed(w) : w \in line}
    OBVIOUS
  <2> DEFINE t == table[p]
             a == dns[p].addr
             i == find_route_by_ip(t, a)
  <2>2. /\ p \in started /\ dns[p] # Unasked
        /\ reached' = [reached EXCEPT ![p] = IF i = 0 THEN Elsewhere ELSE t[i]]
    BY <2>1, Zenon DEF do_connect
  <2>3. /\ source[p] \in Files /\ t = load_config(source[p]) /\ DOMAIN reached = Procs
        /\ a = Address(t, dns[p].host)
    BY <1>1, <2>2 DEF TableInv
  <2>4. source[p] \in Seq(Seq(Words))
    BY <2>3, FileAssumption
  <2>5. reached'[p] = IF i = 0 THEN Elsewhere ELSE t[i]
    <3> HIDE DEF t, i
    <3>1. QED
      BY <1>1, <2>2, <2>3
  <2> DEFINE s == load_config(source[p])
             k == find_route_by_ip(s, Address(s, dns[p].host))
  <2>6. reached'[p] = IF k = 0 THEN Elsewhere ELSE s[k]
    BY <2>3, <2>5, Zenon
  <2>7. QED
    BY <2>4, <2>6, Reached, Zenon
<1>2. TableInv => \A p \in Procs : Right(p)
  BY <1>1
<1>3. TableInv /\ [Next]_vars => [\A p \in Procs : Right(p)]_vars
  BY <1>2
<1>4. QED
  BY <1>3, TableInvariant, PTL DEF Spec, RightHandler

-----------------------------------------------------------------------------
(* What shim-meta reads                                                    *)

\* What shim-meta has made of the first lines, the function inside read_routes.
Listed(f) == CHOOSE out : out = [n \in 0 .. Len(f) |->
  IF n = 0 THEN <<>>
  ELSE IF Len(f[n]) >= 2 /\ f[n][1] # Comment
       THEN Append(out[n - 1], ListedAs(f[n]))
       ELSE out[n - 1]]

\* One turn of the loop of read_routes.
List(r, w) == IF Len(w) >= 2 /\ w[1] # Comment THEN Append(r, ListedAs(w)) ELSE r

\* There is a function that runs the loop.
LEMMA ListedExist ==
  ASSUME NEW f, NEW m \in Nat
  PROVE  \E g : g = [n \in 0 .. m |-> IF n = 0 THEN <<>> ELSE List(g[n - 1], f[n])]
<1> DEFINE E(g, k) == g = [n \in 0 .. k |-> IF n = 0 THEN <<>> ELSE List(g[n - 1], f[n])]
           T == {k \in Nat : \E g : E(g, k)}
<1>1. 0 \in T
  <2>1. E([n \in 0 .. 0 |-> <<>>], 0)
    OBVIOUS
  <2> HIDE DEF E
  <2>2. QED
    BY <2>1
<1>2. ASSUME NEW k \in T PROVE k + 1 \in T
  <2>1. PICK g : E(g, k)
    OBVIOUS
  <2> DEFINE h == [n \in 0 .. (k + 1) |-> IF n = k + 1 THEN List(g[k], f[n]) ELSE g[n]]
  <2>2. \A n \in 0 .. k : g[n] = IF n = 0 THEN <<>> ELSE List(g[n - 1], f[n])
    BY <2>1
  <2>3. \A n \in 0 .. (k + 1) : h[n] = IF n = 0 THEN <<>> ELSE List(h[n - 1], f[n])
    BY <2>2
  <2>4. E(h, k + 1)
    BY <2>3
  <2> HIDE DEF E, h
  <2>5. QED
    BY <2>4
<1> HIDE DEF E
<1>3. T = Nat
  BY <1>1, <1>2, Induction
<1>4. QED
  BY <1>3 DEF E

\* What is listed, turn by turn.
LEMMA ListedNext ==
  ASSUME NEW f, Len(f) \in Nat
  PROVE  /\ Listed(f)[0] = <<>>
         /\ \A n \in Nat : n + 1 <= Len(f) => Listed(f)[n + 1] = List(Listed(f)[n], f[n + 1])
         /\ read_routes(f) = Listed(f)[Len(f)]
<1> DEFINE U == Listed(f)
           E(g) == g = [n \in 0 .. Len(f) |-> IF n = 0 THEN <<>> ELSE List(g[n - 1], f[n])]
<1>1. E(U)
  <2>1. \E g : E(g)
    BY ListedExist, Zenon
  <2>2. U = CHOOSE g : E(g)
    BY Zenon DEF Listed, List
  <2> HIDE DEF E, U
  <2>3. QED
    BY <2>1, <2>2, Zenon
<1>2. read_routes(f) = U[Len(f)]
  BY Zenon DEF read_routes, Listed
<1> HIDE DEF U
<1>3. \A n \in 0 .. Len(f) : U[n] = IF n = 0 THEN <<>> ELSE List(U[n - 1], f[n])
  BY <1>1
<1>4. U[0] = <<>>
  BY <1>3
<1>5. ASSUME NEW n \in Nat, n + 1 <= Len(f)
      PROVE  U[n + 1] = List(U[n], f[n + 1])
  <2>1. n + 1 \in 0 .. Len(f) /\ n + 1 # 0 /\ (n + 1) - 1 = n
    BY <1>5
  <2>2. QED
    BY <1>3, <2>1, Zenon
<1>6. QED
  BY <1>2, <1>4, <1>5, Zenon DEF U

\* What fgets() has made of the first lines, line by line.
LEMMA ReadsNext ==
  ASSUME NEW f, Len(f) \in Nat
  PROVE  /\ Reads(f)[0] = <<>>
         /\ \A n \in Nat : n + 1 <= Len(f) => Reads(f)[n + 1] = Reads(f)[n] \o Chunks(f[n + 1])
         /\ ReadLines(f) = Reads(f)[Len(f)]
<1> DEFINE U == Reads(f)
           E(g) == g = [n \in 0 .. Len(f) |-> IF n = 0 THEN <<>> ELSE g[n - 1] \o Chunks(f[n])]
<1>1. E(U)
  <2>1. \E g : E(g)
    BY ReadsExist, Zenon
  <2>2. U = CHOOSE g : E(g)
    BY Zenon DEF Reads
  <2> HIDE DEF E, U
  <2>3. QED
    BY <2>1, <2>2, Zenon
<1>2. ReadLines(f) = U[Len(f)]
  BY Zenon DEF ReadLines, Reads
<1> HIDE DEF U
<1>3. \A n \in 0 .. Len(f) : U[n] = IF n = 0 THEN <<>> ELSE U[n - 1] \o Chunks(f[n])
  BY <1>1
<1>4. U[0] = <<>>
  BY <1>3
<1>5. ASSUME NEW n \in Nat, n + 1 <= Len(f)
      PROVE  U[n + 1] = U[n] \o Chunks(f[n + 1])
  <2>1. n + 1 \in 0 .. Len(f) /\ n + 1 # 0 /\ (n + 1) - 1 = n
    BY <1>5
  <2>2. QED
    BY <1>3, <2>1, Zenon
<1>6. QED
  BY <1>2, <1>4, <1>5, Zenon DEF U

\* A line that fits the buffer is read in one piece, an empty one not at all.
LEMMA OneChunk ==
  ASSUME NEW w \in Seq(Words), Len(w) <= LineWords
  PROVE  Chunks(w) = IF Len(w) = 0 THEN <<>> ELSE <<w>>
<1> DEFINE N == (Len(w) + LineWords - 1) \div LineWords
           C(k) == SubSeq(w, (k - 1) * LineWords + 1,
                          IF k * LineWords < Len(w) THEN k * LineWords ELSE Len(w))
<1>1. Chunks(w) = [k \in 1 .. N |-> C(k)]
  BY Zenon DEF Chunks
<1>2. Len(w) \in Nat /\ LineWords \in Nat /\ LineWords # 0
  BY SizeAssumption
<1>3. CASE Len(w) = 0
  <2>1. N = 0
    BY <1>2, <1>3
  <2> HIDE DEF N, C
  <2>2. [k \in 1 .. N |-> C(k)] = <<>>
    BY <2>1
  <2>3. QED
    BY <1>1, <1>3, <2>2
<1>4. CASE Len(w) # 0
  <2>1. N = 1
    <3> DEFINE l == Len(w)
               a == l + LineWords - 1
    <3>1. a \in Int /\ LineWords <= a /\ a < 2 * LineWords
      BY <1>2, <1>4
    <3> HIDE DEF a
    <3>2. a \div LineWords = 1
      BY <1>2, <3>1
    <3>3. QED
      BY <3>2 DEF a
  <2>2. C(1) = w
    <3>1. (1 - 1) * LineWords + 1 = 1 /\ 1 * LineWords = LineWords /\ ~ (LineWords < Len(w))
      BY <1>2
    <3>2. C(1) = SubSeq(w, 1, Len(w))
      BY <3>1, Zenon
    <3>3. QED
      BY <3>2, SubSeqFull, Zenon
  <2> HIDE DEF N, C
  <2>3. [k \in 1 .. N |-> C(k)] = <<w>>
    BY <2>1, <2>2
  <2>4. QED
    BY <1>1, <1>4, <2>3
<1>5. QED
  BY <1>3, <1>4

\* The table of a sequence of lines that were read.
Load(s) == Tables(s)[Len(s)]

\* One more line is one more turn of the loop.
LEMMA LoadAppend ==
  ASSUME NEW S, NEW s \in Seq(S), NEW w \in S
  PROVE  Load(Append(s, w)) = Turn(Load(s), w)
<1> DEFINE a == Append(s, w)
           l == Len(s)
           U == Tables(s)
           V == Tables(a)
           T == {n \in Nat : n <= l => V[n] = U[n]}
<1>1. l \in Nat /\ Len(a) = l + 1 /\ a[l + 1] = w /\ \A n \in 1 .. l : a[n] = s[n]
  BY AppendProperties
<1> HIDE DEF a, l
<1>2. U[0] = <<>> /\ \A n \in Nat : n + 1 <= l => U[n + 1] = Turn(U[n], s[n + 1])
  BY <1>1, TablesNext, Zenon DEF l
<1>3. Len(a) \in Nat
  BY <1>1
<1>4. V[0] = <<>> /\ \A n \in Nat : n + 1 <= Len(a) => V[n + 1] = Turn(V[n], a[n + 1])
  BY <1>3, TablesNext, Zenon
<1> HIDE DEF U, V
<1>5. 0 \in T
  BY <1>2, <1>4
<1>6. ASSUME NEW n \in T PROVE n + 1 \in T
  <2>1. SUFFICES ASSUME n + 1 <= l PROVE V[n + 1] = U[n + 1]
    OBVIOUS
  <2>2. n \in Nat /\ n + 1 <= Len(a) /\ n + 1 \in 1 .. l /\ n <= l
    BY <1>1, <2>1
  <2>3. V[n] = U[n] /\ a[n + 1] = s[n + 1]
    BY <1>1, <2>2
  <2>4. QED
    BY <1>2, <1>4, <2>1, <2>2, <2>3, Zenon
<1>7. T = Nat
  BY <1>5, <1>6, Induction
<1>8. V[l] = U[l]
  BY <1>1, <1>7
<1>9. V[l + 1] = Turn(U[l], w)
  <2>1. l + 1 <= Len(a)
    BY <1>1
  <2>2. QED
    BY <1>1, <1>4, <1>8, <2>1, Zenon
<1>10. QED
  BY <1>1, <1>9, Zenon DEF Load, V, U, l, a

\* An entry of the table the way shim-meta prints it.
Printed(x) ==
  [host |-> x.host, methods |-> IF x.methods = "" THEN "*" ELSE x.methods, handler |-> x.handler]

\* What is shown of a table that grows.
LEMMA ShownAppend ==
  ASSUME NEW S, NEW t \in Seq(S), NEW x \in S
  PROVE  /\ Len(Shown(t)) = Len(t)
         /\ Shown(Append(t, x)) = Append(Shown(t), Printed(x))
<1> DEFINE D == {Printed(y) : y \in S}
           a == Append(t, x)
           d == Printed(x)
           l == Len(t)
<1>1. /\ l \in Nat /\ DOMAIN t = 1 .. l /\ \A i \in 1 .. l : t[i] \in S
      /\ DOMAIN a = 1 .. (l + 1) /\ a[l + 1] = x /\ \A i \in 1 .. l : a[i] = t[i]
  BY AppendProperties
<1>2. \A u : Shown(u) = [i \in DOMAIN u |-> Printed(u[i])]
  BY Zenon DEF Shown, Printed
<1> DEFINE p == Shown(t)
           q == Shown(a)
<1>3. p = [i \in 1 .. l |-> Printed(t[i])] /\ q = [i \in 1 .. (l + 1) |-> Printed(a[i])]
  BY <1>1, <1>2, Zenon
<1>4. d \in D /\ \A i \in 1 .. l : Printed(t[i]) \in D
  BY <1>1
<1> HIDE DEF D, p, q, a, d, l
<1>5. p \in [1 .. l -> D]
  BY <1>3, <1>4
<1>6. p \in Seq(D) /\ Len(p) = l
  <2>1. p \in Seq(D)
    BY <1>1, <1>5, IsASeq
  <2>2. QED
    BY <1>1, <1>5, <2>1
<1>7. \A i \in 1 .. (l + 1) : q[i] = IF i = l + 1 THEN d ELSE p[i]
  <2>1. \A i \in 1 .. (l + 1) : i # l + 1 => i \in 1 .. l
    BY <1>1
  <2>2. \A i \in 1 .. l : a[i] = t[i] /\ p[i] = Printed(t[i])
    BY <1>1, <1>3
  <2>3. \A i \in 1 .. (l + 1) : q[i] = Printed(a[i])
    BY <1>3
  <2>4. l + 1 \in 1 .. (l + 1)
    BY <1>1
  <2>5. QED
    BY <1>1, <2>1, <2>2, <2>3, <2>4, Zenon DEF d
<1>8. Append(p, d) = [i \in 1 .. (l + 1) |-> IF i = l + 1 THEN d ELSE p[i]]
  <2>1. /\ Append(p, d) \in Seq(D) /\ Len(Append(p, d)) = l + 1
        /\ \A i \in 1 .. l : Append(p, d)[i] = p[i]
        /\ Append(p, d)[l + 1] = d
    BY <1>4, <1>6, AppendProperties
  <2> DEFINE e == Append(p, d)
  <2> HIDE DEF e
  <2>2. e = [i \in 1 .. (l + 1) |-> e[i]]
    <3>1. e \in Seq(D) /\ Len(e) = l + 1
      BY <2>1, Zenon DEF e
    <3>2. e \in [1 .. Len(e) -> D]
      BY <3>1, LenProperties, Zenon
    <3>3. QED
      BY <3>1, <3>2
  <2>3. \A i \in 1 .. (l + 1) : e[i] = IF i = l + 1 THEN d ELSE p[i]
    BY <1>1, <2>1 DEF e
  <2>4. QED
    BY <2>2, <2>3 DEF e
<1>9. q = Append(p, d)
  BY <1>3, <1>7, <1>8
<1>10. QED
  BY <1>6, <1>9, Zenon DEF p, q, a, d, l

\* Shim and shim-meta split a line alike.
LEMMA PrintedParsed ==
  ASSUME NEW w \in Seq(Words), Len(w) >= 2
  PROVE  Printed(Parsed(w)) = ListedAs(w)
<1>1. CASE Len(w) > 2 /\ w[2] \in Tokens
  <2>1. w[2] # "" /\ Len(w) >= 3
    <3>1. w[2] # ""
      BY <1>1, TokenAssumption, Zenon
    <3>2. Len(w) >= 3
      BY <1>1
    <3>3. QED
      BY <3>1, <3>2, Zenon
  <2> DEFINE y == [host |-> w[1], methods |-> w[2], handler |-> SubSeq(w, 3, Len(w))]
  <2>2. Parsed(w) = y /\ ListedAs(w) = y
    BY <1>1, <2>1, Zenon DEF Parsed, ListedAs, is_method_token
  <2>3. y.methods = w[2] /\ y.host = w[1] /\ y.handler = SubSeq(w, 3, Len(w))
    OBVIOUS
  <2>4. Printed(y) = y
    BY <2>1, <2>3, Zenon DEF Printed
  <2>5. QED
    BY <2>2, <2>4, Zenon
<1>2. CASE ~ (Len(w) > 2 /\ w[2] \in Tokens)
  <2>1. ~ (Len(w) >= 3 /\ w[2] \in Tokens)
    BY <1>2
  <2>2. Tail(w) = SubSeq(w, 2, Len(w))
    <3>1. w # <<>>
      OBVIOUS
    <3>2. QED
      BY <3>1, TailIsSubSeq, Zenon
  <2> DEFINE s == SubSeq(w, 2, Len(w))
  <2> HIDE DEF s
  <2>3. Parsed(w) = [host |-> w[1], methods |-> "", handler |-> s]
    BY <1>2 DEF Parsed, is_method_token, s
  <2>4. ListedAs(w) = [host |-> w[1], methods |-> "*", handler |-> s]
    BY <2>1, <2>2, Zenon DEF ListedAs, s
  <2> DEFINE y == [host |-> w[1], methods |-> "", handler |-> s]
             z == [host |-> w[1], methods |-> "*", handler |-> s]
  <2>5. y.methods = "" /\ y.host = z.host /\ y.handler = s
    OBVIOUS
  <2>6. Printed(y) = z
    BY <2>5, Zenon DEF Printed
  <2>7. QED
    BY <2>3, <2>4, <2>6, Zenon
<1>3. QED
  BY <1>1, <1>2

\* Of a file that fits the buffers, shim-meta lists the shim's own table.
LEMMA SameTable ==
  ASSUME NEW f \in Seq(Seq(Words)), Fits(f)
  PROVE  read_routes(f) = Shown(load_config(f))
<1> DEFINE C == Reads(f)
           R == Listed(f)
           Lines == Seq(Words)
           S == {Parsed(w) : w \in Lines}
           Good(n) == /\ C[n] \in Seq(Lines) /\ Load(C[n]) \in Seq(S)
                      /\ Len(R[n]) <= MaxRoutes => R[n] = Shown(Load(C[n]))
                      /\ Len(R[n]) \in Nat
           T == {n \in Nat : n <= Len(f) => Good(n)}
<1>1. Len(f) \in Nat /\ \A n \in 1 .. Len(f) : f[n] \in Lines
  OBVIOUS
<1>2. /\ C[0] = <<>>
      /\ \A n \in Nat : n + 1 <= Len(f) => C[n + 1] = C[n] \o Chunks(f[n + 1])
      /\ ReadLines(f) = C[Len(f)]
  BY <1>1, ReadsNext, Zenon
<1>3. /\ R[0] = <<>>
      /\ \A n \in Nat : n + 1 <= Len(f) => R[n + 1] = List(R[n], f[n + 1])
      /\ read_routes(f) = R[Len(f)]
  BY <1>1, ListedNext, Zenon
<1>4. load_config(f) = Load(C[Len(f)])
  BY <1>2, LoadIsTables, Zenon DEF Load
<1>5. /\ \A n \in 1 .. Len(f) : Len(f[n]) <= LineWords
      /\ Len(read_routes(f)) <= MaxRoutes
  BY DEF Fits
<1> HIDE DEF C, R, Lines
<1>6. 0 \in T
  <2>1. Load(<<>>) = <<>>
    <3>1. Len(<<>>) = 0
      OBVIOUS
    <3>2. QED
      BY <3>1, TablesNext DEF Load
  <2>2. Shown(<<>>) = <<>>
    BY DEF Shown
  <2>3. <<>> \in Seq(Lines) /\ <<>> \in Seq(S) /\ Len(<<>>) \in Nat
    OBVIOUS
  <2>4. Good(0)
    BY <1>2, <1>3, <2>1, <2>2, <2>3, Zenon
  <2> HIDE DEF Good
  <2>5. QED
    BY <2>4
<1>7. ASSUME NEW n \in T PROVE n + 1 \in T
  <2>1. SUFFICES ASSUME n + 1 <= Len(f) PROVE Good(n + 1)
    <3> HIDE DEF Good
    <3>1. QED
      OBVIOUS
  <2>2. Good(n)
    <3> HIDE DEF Good
    <3>1. QED
      BY <1>1, <2>1
  <2>3. n \in Nat /\ n + 1 \in 1 .. Len(f)
    BY <1>1, <2>1
  <2> DEFINE w == f[n + 1]
             c == C[n]
             r == R[n]
             t == Load(c)
             x == Parsed(w)
  <2>4. w \in Lines /\ Len(w) <= LineWords
    BY <1>1, <1>5, <2>3
  <2>5. c \in Seq(Lines) /\ t \in Seq(S) /\ (Len(r) <= MaxRoutes => r = Shown(t)) /\ Len(r) \in Nat
    BY <2>2, Zenon
  <2>6. C[n + 1] = c \o Chunks(w) /\ R[n + 1] = List(r, w)
    BY <1>2, <1>3, <2>1, <2>3, Zenon
  <2>7. Chunks(w) = IF Len(w) = 0 THEN <<>> ELSE <<w>>
    BY <2>4, OneChunk, Zenon DEF Lines
  <2>8. Len(w) \in Nat
    BY <2>4 DEF Lines
  <2> HIDE DEF Good, w, c, r, t, S
  <2>9. CASE Len(w) = 0
    <3>1. C[n + 1] = c
      BY <2>5, <2>6, <2>7, <2>9, ConcatEmptySeq, Zenon
    <3>2. R[n + 1] = r
      BY <2>6, <2>9 DEF List
    <3>3. QED
      BY <2>2, <3>1, <3>2, Zenon DEF Good, c, r, t
  <2>10. CASE Len(w) # 0 /\ ~ IsRoute(w)
    <3>1. C[n + 1] = Append(c, w)
      BY <2>4, <2>5, <2>6, <2>7, <2>10, AppendIsConcat, Zenon
    <3>2. R[n + 1] = r
      BY <2>6, <2>10 DEF List, IsRoute
    <3>3. Load(C[n + 1]) = Turn(t, w)
      BY <2>4, <2>5, <3>1, LoadAppend, Zenon DEF t
    <3>4. Load(C[n + 1]) = t
      BY <2>10, <3>3, Zenon DEF Turn
    <3>5. C[n + 1] \in Seq(Lines)
      BY <2>4, <2>5, <3>1
    <3>6. QED
      BY <2>5, <3>2, <3>4, <3>5, Zenon DEF Good
  <2>11. CASE Len(w) # 0 /\ IsRoute(w)
    <3>1. C[n + 1] = Append(c, w)
      BY <2>4, <2>5, <2>6, <2>7, <2>11, AppendIsConcat, Zenon
    <3>2. R[n + 1] = Append(r, ListedAs(w))
      BY <2>6, <2>11 DEF List, IsRoute
    <3>3. Load(C[n + 1]) = Turn(t, w)
      BY <2>4, <2>5, <3>1, LoadAppend, Zenon DEF t
    <3>4. C[n + 1] \in Seq(Lines)
      BY <2>4, <2>5, <3>1
    <3>5. x \in S
      BY <2>4, Zenon DEF S
    <3>6. Printed(x) = ListedAs(w)
      <4>1. Len(w) >= 2
        BY <2>11 DEF IsRoute
      <4>2. QED
        BY <2>4, <4>1, PrintedParsed, Zenon DEF Lines
    <3> HIDE DEF x
    <3>7. Len(Shown(t)) = Len(t) /\ Shown(Append(t, x)) = Append(Shown(t), Printed(x))
      BY <2>5, <3>5, ShownAppend, Zenon
    <3>8. Turn(t, w) = IF Len(t) < MaxRoutes THEN Append(t, x) ELSE t
      BY <2>11, Zenon DEF Turn, x
    <3>9. Turn(t, w) \in Seq(S)
      BY <2>5, <3>5, <3>8
    <3>10. Len(R[n + 1]) \in Nat /\ (Len(R[n + 1]) <= MaxRoutes => Len(r) < MaxRoutes)
      <4>1. Len(R[n + 1]) = Len(r) + 1
        BY <2>5, <3>2
      <4>2. MaxRoutes \in Nat
        BY SizeAssumption
      <4>3. QED
        BY <2>5, <4>1, <4>2
    <3>11. ASSUME Len(R[n + 1]) <= MaxRoutes
           PROVE  R[n + 1] = Shown(Load(C[n + 1]))
      <4>1. Len(r) < MaxRoutes
        BY <3>10, <3>11
      <4>2. Len(r) <= MaxRoutes
        BY <2>5, <4>1, SizeAssumption
      <4>3. r = Shown(t)
        BY <2>5, <4>2, Zenon
      <4>4. Turn(t, w) = Append(t, x)
        BY <3>7, <3>8, <4>1, <4>3, Zenon
      <4>5. QED
        BY <3>2, <3>3, <3>6, <3>7, <4>3, <4>4, Zenon
    <3>12. QED
      BY <3>3, <3>4, <3>9, <3>10, <3>11, Zenon DEF Good
  <2>12. QED
    BY <2>9, <2>10, <2>11, Zenon
<1> HIDE DEF Good
<1>8. T = Nat
  BY <1>6, <1>7, Induction
<1>9. Good(Len(f))
  BY <1>1, <1>8
<1>10. QED
  BY <1>3, <1>4, <1>5, <1>9, Zenon DEF Good

\* Asked before any edit about a file whose lines and routes fit the shim's
\* buffers, shim-meta reports the shim's own table, for any files.
THEOREM MetaIsRight == Spec => MetaAgrees
<1> DEFINE Agrees(p) ==
      AskMeta(p) /\ file = source[p] /\ Fits(file) => listing'[p] = Shown(table[p])
<1>1. ASSUME TableInv, NEW p \in Procs PROVE Agrees(p)
  <2>1. SUFFICES ASSUME AskMeta(p), file = source[p], Fits(file)
                 PROVE  listing'[p] = Shown(table[p])
    OBVIOUS
  <2>2. p \in started /\ listing' = [listing EXCEPT ![p] = read_routes(file)]
    BY <2>1, Zenon DEF AskMeta
  <2>3. /\ DOMAIN listing = Procs /\ file \in Files
        /\ table[p] = load_config(file)
    BY <1>1, <2>1, <2>2 DEF TableInv
  <2>4. file \in Seq(Seq(Words))
    BY <2>3, FileAssumption
  <2>5. read_routes(file) = Shown(load_config(file))
    BY <2>1, <2>4, SameTable, Zenon
  <2> DEFINE r == read_routes(file)
  <2>6. r = Shown(table[p]) /\ listing' = [listing EXCEPT ![p] = r]
    BY <2>2, <2>3, <2>5, Zenon
  <2> HIDE DEF r
  <2>7. QED
    BY <2>3, <2>6
<1>2. TableInv => \A p \in Procs : Agrees(p)
  BY <1>1
<1>3. TableInv /\ [Next]_vars => [\A p \in Procs : Agrees(p)]_vars
  BY <1>2
<1>4. QED
  BY <1>3, TableInvariant, PTL DEF Spec, MetaAgrees

=============================================================================
