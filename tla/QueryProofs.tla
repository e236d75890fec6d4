----------------------------- MODULE QueryProofs ----------------------------
(***************************************************************************)
(* Proofs about queries.  Of SqlQuery: a GET leaves the database as it   *)
(* is, and the last status line is right about its statement.  Of          *)
(* QueryJob: the rows of a 200, the warning of a GET that wrote, and the   *)
(* name of a job that is left running.  Of GraphqlOps: what its scanner finds in any document,   *)
(* and that a GET that is forwarded runs no mutation.                      *)
(***************************************************************************)
EXTENDS SqlQuery, QueryJob, GraphqlOps, SequenceTheorems, WellFoundedInduction, TLAPS

-----------------------------------------------------------------------------
(* SqlQuery.                                                               *)


Places == {"data", "file"}

\* The shape of the request, the handler's step and the session.
Shape ==
  /\ ask \in [backend : SqlBackends, method : {"GET", "POST"}, statement : Statements,
              locked : BOOLEAN, granted : BOOLEAN]
  /\ ask.granted => ask.backend \in {"mysql", "postgres"}
  /\ step \in SqlSteps
  /\ db \in [link : {"none", "up", "lost", "closed"}, ro : BOOLEAN,
             pending : SUBSET Places, durable : SUBSET Places]

\* The places that a GET may write: another file, with the server's privilege.
MayWrite == IF ask.granted THEN {"file"} ELSE {}

\* Why a GET leaves the database alone: it has written nothing yet, it executes
\* in a session that may not write, and MySQL's EXPLAIN has stopped what that
\* session would let through, files excepted.
ReadsOnly ==
  Reads =>
    /\ db.pending = {} /\ db.durable \subseteq MayWrite
    /\ step \in {"explain", "execute"} => db.ro
    /\ step = "execute" /\ On("mysql") => Stmt \notin {"ddl", "script"}

SqlInv == Shape /\ ReadsOnly

-----------------------------------------------------------------------------
\* A statement that a GET gets to execute writes nothing, but for a file that
\* the user is granted.
LEMMA ReadWritesOnlyFiles ==
  ASSUME SqlInv, Reads, step = "execute", Outcome = "wrote"
  PROVE  Stmt = "file" /\ ask.granted
<1> USE DEF SqlInv, Shape, ReadsOnly
<1>1. db.ro
  OBVIOUS
<1>2. ~TakesScripts
  BY DEF TakesScripts, Prepared
<1>3. Stmt \in Statements
  BY DEF Stmt
<1>4. Stmt \notin {"none", "syntax", "wrong", "script"} /\ ~Denied /\ Stmt # "select"
  BY <1>2 DEF Outcome
<1>5. ~Refuses
  BY DEF Outcome
<1>6. ~(On("mysql") /\ Stmt = "ddl")
  OBVIOUS
<1>7. Stmt = "file" /\ ask.backend \in {"mysql", "postgres"}
  BY <1>1, <1>3, <1>4, <1>5, <1>6 DEF Refuses, Statements
<1> QED
  BY <1>4, <1>7 DEF Denied

\* What a statement does to the session.
LEMMA EffectShape ==
  ASSUME Shape
  PROVE  /\ Effect(db) \in [link : {db.link}, ro : {db.ro}, pending : SUBSET Places,
                            durable : SUBSET Places]
         /\ Outcome # "wrote" => Effect(db) = db
BY DEF Shape, Effect, Place, Places

\* What a GET does to the session.
LEMMA ReadEffect ==
  ASSUME SqlInv, Reads, step = "execute"
  PROVE  /\ Effect(db).ro = db.ro /\ Effect(db).link = db.link
         /\ Effect(db).pending = {} /\ Effect(db).durable \subseteq MayWrite
<1> USE DEF SqlInv, Shape, ReadsOnly
<1>1. CASE Outcome # "wrote"
  BY <1>1, EffectShape
<1>2. CASE Outcome = "wrote"
  <2>1. Stmt = "file" /\ ask.granted
    BY <1>2, ReadWritesOnlyFiles
  <2>2. Effect(db) = [db EXCEPT !.durable = @ \cup {"file"}]
    BY <1>2, <2>1 DEF Effect, Immediate, Place
  <2> QED
    BY <2>1, <2>2 DEF MayWrite
<1> QED
  BY <1>1, <1>2

\* SqlInv holds from the start and every step of a handler keeps it.
LEMMA SqlInvInit == SqlInit => SqlInv
BY DEF SqlInit, SqlInv, Shape, ReadsOnly, MayWrite, SqlSteps, Reads, Stmt, On, Places

\* Every step keeps what is known of connection and transaction.
LEMMA SqlInvStep == SqlInv /\ [SqlNext]_sqlVars => SqlInv'
<1> SUFFICES ASSUME SqlInv, [SqlNext]_sqlVars
             PROVE  SqlInv'
  OBVIOUS
<1>0. ask' = ask
  BY DEF SqlNext, Route, Connect, ConnectFails, Explain, ExplainLost, Execute, ExecuteLost,
         ExecuteFails, Commit, CommitFails, Answer, AnswerFails, Leave, LeaveFails, sqlVars
<1>m. MayWrite' = MayWrite
  BY <1>0 DEF MayWrite
<1> USE <1>0, <1>m DEF SqlInv, Shape, ReadsOnly, SqlSteps, Reads, On, Stmt, Send
<1>1. CASE Route
  BY <1>1 DEF Route
<1>2. CASE Connect
  BY <1>2 DEF Connect, SqlBackends
<1>3. CASE ConnectFails
  BY <1>3 DEF ConnectFails
<1>4. CASE Explain
  BY <1>4 DEF Explain
<1>5. CASE ExplainLost
  BY <1>5 DEF ExplainLost
<1>6. CASE Execute
  BY <1>6, ReadEffect, EffectShape DEF Execute
<1>7. CASE ExecuteLost
  BY <1>7, ReadEffect, EffectShape DEF ExecuteLost
<1>7a. CASE ExecuteFails
  BY <1>7a, ReadEffect, EffectShape DEF ExecuteFails
<1>8. CASE Commit
  BY <1>8 DEF Commit, Committed
<1>9. CASE CommitFails
  <2>1. /\ step' = "answer" /\ ask' = ask
        /\ db' \in {RolledBack("up"), Committed("lost"), RolledBack("lost")}
    BY <1>9 DEF CommitFails
  <2>2. CASE db' \in {RolledBack("up"), RolledBack("lost")}
    BY <2>1, <2>2 DEF RolledBack
  <2>3. CASE db' = Committed("lost")
    BY <2>1, <2>3 DEF Committed
  <2> QED
    BY <2>1, <2>2, <2>3
<1>10. CASE Answer
  BY <1>10 DEF Answer
<1>11. CASE AnswerFails
  BY <1>11 DEF AnswerFails, RolledBack
<1>12. CASE Leave
  BY <1>12 DEF Leave, Committed, RolledBack
<1>13. CASE LeaveFails
  BY <1>13 DEF LeaveFails, RolledBack
<1>14. CASE UNCHANGED sqlVars
  BY <1>14 DEF sqlVars
<1> QED
  BY <1>1, <1>2, <1>3, <1>4, <1>5, <1>6, <1>7, <1>7a, <1>8, <1>9, <1>10, <1>11, <1>12, <1>13,
     <1>14 DEF SqlNext

\* So it is known of every state.
LEMMA SqlInvHolds == SqlSpec => []SqlInv
BY SqlInvInit, SqlInvStep, PTL DEF SqlSpec

\* ADR 0005: a GET leaves the database as it is, under any of the four
\* mechanisms, whatever its statement is and wherever it is cut off; another
\* file it writes only with the privilege that MySQL and PostgreSQL have for it.
THEOREM ReadsLeaveData == SqlSpec => []GetLeavesData
<1>1. SqlInv => GetLeavesData
  BY DEF SqlInv, ReadsOnly, MayWrite, GetLeavesData
<1> QED
  BY <1>1, SqlInvHolds, PTL
-----------------------------------------------------------------------------
(* The answer                                                              *)

\* Nothing has been written by the statement; and when a refusal may be wrong
\* about that.
Clean == db.pending = {} /\ db.durable = {}

Excused == Clean \/ (reply = 400 /\ Partial)

\* Between the steps: until it executes, a handler has changed and said
\* nothing; from then on the status it is about to send fits what is durable,
\* or will be when the session ends.
Fate ==
  /\ step \in {"route", "connect", "explain", "execute"} => Clean /\ answers = <<>>
  /\ step = "commit" =>
       /\ answers = <<>> /\ reply = 200
       /\ Outcome = "wrote" => db.pending \cup db.durable = Place
  /\ step \in {"answer", "leave"} =>
       /\ answers = IF step = "leave" THEN <<reply>> ELSE <<>>
       /\ reply = 200 /\ Outcome = "wrote" =>
            (IF On("postgres") THEN db.pending \cup db.durable ELSE db.durable) = Place
       /\ reply \in {400, 405} => Excused
  /\ AnswerIsFate

\* What a server makes of a statement is settled when the session is opened.
LEMMA OutcomeSettled ==
  ASSUME ask' = ask, db'.ro = db.ro
  PROVE  /\ Outcome' = Outcome /\ Place' = Place /\ Stmt' = Stmt /\ Partial' = Partial
         /\ \A b : On(b)' = On(b)
BY DEF Outcome, Refuses, Denied, TakesScripts, Prepared, Reads, Stmt, On, Place, Partial, Immediate

\* What is written is where Place says, and kept or pending at once.
LEMMA EffectPlaces ==
  ASSUME Shape, Clean, Outcome = "wrote"
  PROVE  /\ Effect(db).pending \cup Effect(db).durable = Place
         /\ Immediate => Effect(db).durable = Place
BY DEF Shape, Clean, Effect, Places, Place

\* Nothing is told and nothing is written at the start.
LEMMA FateInit == SqlInit => Fate
BY DEF SqlInit, Fate, Clean, AnswerIsFate

\* Every step keeps fate and answer in agreement.
LEMMA FateStep == SqlInv /\ SqlInv' /\ Fate /\ [SqlNext]_sqlVars => Fate'
<1> SUFFICES ASSUME SqlInv, SqlInv', Fate, [SqlNext]_sqlVars
             PROVE  Fate'
  OBVIOUS
<1> USE DEF SqlInv, Shape, SqlSteps, Send, Fate, Clean, Excused, AnswerIsFate
<1>1. CASE Route
  BY <1>1 DEF Route
<1>2. CASE Connect
  BY <1>2 DEF Connect
<1>3. CASE ConnectFails
  BY <1>3 DEF ConnectFails
<1>4. CASE Explain
  BY <1>4 DEF Explain
<1>5. CASE ExplainLost
  BY <1>5 DEF ExplainLost
<1>6. CASE Execute
  <2>1. step = "execute" /\ ask' = ask /\ answers' = <<>> /\ db'.ro = db.ro
    BY <1>6, EffectShape DEF Execute
  <2>2. CASE Outcome \in {"error", "readonly"}
    BY <1>6, <2>1, <2>2, OutcomeSettled DEF Execute
  <2>3. CASE Outcome = "wrote"
    <3>1. Reads => Stmt = "file"
      BY <2>1, <2>3, ReadWritesOnlyFiles
    <3>2. /\ db' = Effect(db) /\ reply' = 200
          /\ step' = IF CommitsFirst THEN "commit" ELSE "answer"
      BY <1>6, <2>3 DEF Execute
    <3>3. db'.pending \cup db'.durable = Place
      BY <2>1, <2>3, <3>2, EffectPlaces
    <3>4. ~CommitsFirst => On("postgres") \/ On("clickhouse") \/ Stmt = "file"
      BY <3>1 DEF CommitsFirst
    <3>5. On("clickhouse") \/ Stmt = "file" => db'.durable = Place
      BY <2>1, <2>3, <3>2, EffectPlaces DEF Immediate
    <3> QED
      BY <2>1, <3>2, <3>3, <3>4, <3>5, OutcomeSettled
  <2>4. CASE Outcome = "rows"
    BY <1>6, <2>1, <2>4, OutcomeSettled DEF Execute
  <2> QED
    BY <2>2, <2>3, <2>4 DEF Outcome
<1>7. CASE ExecuteLost
  <2>1. /\ step = "execute" /\ step' = "answer" /\ ask' = ask /\ answers' = <<>>
        /\ db'.ro = db.ro
        /\ reply' = CASE On("mysql") -> 400 [] On("postgres") -> 500 [] OTHER -> 502
    BY <1>7, EffectShape DEF ExecuteLost
  <2>2. reply' = 400 => On("mysql")
    BY <2>1 DEF On
  <2>3. On("mysql") => Clean' \/ Partial
    BY <1>7, <2>1 DEF ExecuteLost, Partial, On
  <2> QED
    BY <2>1, <2>2, <2>3, OutcomeSettled
<1>7a. CASE ExecuteFails
  <2>1. /\ step = "execute" /\ step' = "answer" /\ ask' = ask /\ answers' = <<>>
        /\ db'.ro = db.ro /\ reply' \in {400, 500, 502}
    BY <1>7a, EffectShape DEF ExecuteFails
  <2>2. Clean' \/ Partial
    BY <1>7a, <2>1 DEF ExecuteFails
  <2> QED
    BY <2>1, <2>2, OutcomeSettled
<1>8. CASE Commit
  <2>1. /\ step = "commit" /\ step' = "answer" /\ ask' = ask /\ answers' = <<>> /\ reply' = 200
        /\ db'.ro = db.ro /\ db'.pending = {} /\ db'.durable = db.durable \cup db.pending
    BY <1>8 DEF Commit, Committed
  <2>2. Outcome = "wrote" => db'.durable = Place /\ db'.pending \cup db'.durable = Place
    BY <2>1
  <2> QED
    BY <2>1, <2>2, OutcomeSettled
<1>9. CASE CommitFails
  BY <1>9 DEF CommitFails
<1>10. CASE Answer
  BY <1>10, OutcomeSettled DEF Answer
<1>11. CASE AnswerFails
  BY <1>11 DEF AnswerFails
<1>12. CASE Leave
  <2>1. /\ step = "leave" /\ step' = "done" /\ ask' = ask /\ reply' = reply
        /\ answers' = <<reply>> /\ db'.ro = db.ro
        /\ db'.durable = IF On("postgres") THEN db.durable \cup db.pending ELSE db.durable
    BY <1>12 DEF Leave, Committed, RolledBack
  <2> QED
    BY <2>1, OutcomeSettled
<1>13. CASE LeaveFails
  BY <1>13 DEF LeaveFails
<1>14. CASE UNCHANGED sqlVars
  BY <1>14, OutcomeSettled DEF sqlVars
<1> QED
  BY <1>1, <1>2, <1>3, <1>4, <1>5, <1>6, <1>7, <1>7a, <1>8, <1>9, <1>10, <1>11, <1>12, <1>13,
     <1>14 DEF SqlNext

\* When the process has ended, its last status line is right about the
\* statement: after a 200 what was written is committed, after a 405 nothing was
\* written, after a 400 only what no transaction protects.
THEOREM AnswerTellsFate == SqlSpec => []AnswerIsFate
<1>1. Fate => AnswerIsFate
  BY DEF Fate
<1> QED
  BY <1>1, SqlInvHolds, FateInit, FateStep, PTL DEF SqlSpec

-----------------------------------------------------------------------------
(* QueryJob: numbers and rows.                                             *)

\* The two ends of a page: what Min gives of two bounds.
LEMMA MinOfTwo ==
  ASSUME NEW a \in Int, NEW b \in Int
  PROVE  /\ Min({a, b}) \in {a, b}
         /\ Min({a, b}) <= a /\ Min({a, b}) <= b
<1>1. \E x \in {a, b} : \A y \in {a, b} : x <= y
  OBVIOUS
<1>2. QED
  BY <1>1 DEF Min

\* The first n rows of a result, and what the page loop makes of them.
FirstRows(n) == [i \in 1..n |-> i]

\* The first n rows are n.
LEMMA RowsLength ==
  ASSUME NEW n \in Nat
  PROVE  FirstRows(n) \in Seq(Nat) /\ Len(FirstRows(n)) = n
BY DEF FirstRows

\* A page that goes on where the rows so far end gives the first rows, and more.
LEMMA NextRows ==
  ASSUME NEW l \in Nat, NEW n \in Nat, NEW s, s = [i \in 1..n |-> l + i]
  PROVE  FirstRows(l) \o s = FirstRows(l + n)
<1>1. s \in Seq(Nat) /\ Len(s) = n
  OBVIOUS
<1>2. FirstRows(l) \in Seq(Nat) /\ Len(FirstRows(l)) = l
  BY RowsLength
<1>3. /\ FirstRows(l) \o s \in Seq(Nat) /\ Len(FirstRows(l) \o s) = l + n
      /\ \A i \in 1..(l + n) : (FirstRows(l) \o s)[i] = IF i <= l THEN FirstRows(l)[i] ELSE s[i - l]
  <2>1. /\ FirstRows(l) \o s \in Seq(Nat)
        /\ Len(FirstRows(l) \o s) = Len(FirstRows(l)) + Len(s)
        /\ \A i \in 1..(Len(FirstRows(l)) + Len(s)) :
             (FirstRows(l) \o s)[i] = IF i <= Len(FirstRows(l)) THEN FirstRows(l)[i]
                                      ELSE s[i - Len(FirstRows(l))]
    BY <1>1, <1>2, ConcatProperties, Zenon
  <2>2. QED
    BY <1>1, <1>2, <2>1
<1>4. \A i \in 1..(l + n) : (FirstRows(l) \o s)[i] = FirstRows(l + n)[i]
  BY <1>3 DEF FirstRows
<1>5. FirstRows(l + n) \in Seq(Nat) /\ Len(FirstRows(l + n)) = l + n
  BY RowsLength
<1>6. QED
  BY <1>3, <1>4, <1>5, SeqEqual, Zenon

\* The first page of athena without its header starts with the first row.
LEMMA RowsAfterHeader ==
  ASSUME NEW n \in Nat \ {0}, NEW s, s = [i \in 1..n |-> i - 1]
  PROVE  Tail(s) = FirstRows(n - 1)
<1>1. s \in Seq(Nat) /\ Len(s) = n
  OBVIOUS
<1>2. Tail(s) = [i \in 1..(n - 1) |-> s[i + 1]]
  BY <1>1
<1>3. QED
  BY <1>2 DEF FirstRows

\* What is cut off at a limit is at the end.
LEMMA RowsCut ==
  ASSUME NEW l \in Nat, NEW m \in 0..l
  PROVE  SubSeq(FirstRows(l), 1, m) = FirstRows(m)
<1>1. SubSeq(FirstRows(l), 1, m) = [i \in 1..m |-> FirstRows(l)[i]]
  BY RowsLength
<1>2. QED
  BY <1>1 DEF FirstRows
-----------------------------------------------------------------------------
(* Answers.                                                                *)

AnswerSet == [status : Nat, named : BOOLEAN, truncated : BOOLEAN, warned : BOOLEAN,
              broken : BOOLEAN]

\* What a reply says, with a job's name in it and without.
LEMMA Replies ==
  \A n \in Nat : /\ Status(n) \in AnswerSet /\ Status(n).status = n /\ ~Status(n).named
                 /\ Named(n) \in AnswerSet /\ Named(n).status = n /\ Named(n).named
BY DEF Status, Named, Blank, AnswerSet

\* The same when the call itself broke.
LEMMA BrokenReplies ==
  \A n \in Nat : /\ [Status(n) EXCEPT !.broken = TRUE] \in AnswerSet
                 /\ [Status(n) EXCEPT !.broken = TRUE].status = n
                 /\ [Status(n) EXCEPT !.broken = TRUE].broken
                 /\ [Status(n) EXCEPT !.broken = TRUE].named = FALSE
BY DEF Status, Blank, AnswerSet

\* A job that failed is never answered with a 200 or the 504 of a deadline.
LEMMA Failures ==
  Failure \in {Named(400), Named(502), Status(400), Status(405)}
BY DEF Failure

-----------------------------------------------------------------------------
(* The invariant.                                                          *)

PageSet == [rows : Seq(Nat), served : Nat, token : BOOLEAN]

JobSet == [state : {"none", "running", "succeeded", "failed", "cancelled"},
           bound : BOOLEAN, changed : BOOLEAN]

JobTypes ==
  /\ req \in [backend : Backends, op : {"get", "post", "fetch"}, kind : Kinds,
              limit : MaxRows, total : Totals, guarded : BOOLEAN]
  /\ job \in JobSet
  /\ pc \in JobSteps
  /\ polls \in 0..Polls
  /\ page \in PageSet
  /\ answer \in AnswerSet

\* How far the job is at each step of the handler, and what an answer that
\* was given before the job ended says of it.
JobPhase ==
  /\ pc \in {"start", "dryrun", "submit"} => job.state = "none"
  /\ pc \in {"first", "page"} => job.state = "succeeded"
  /\ pc # "done" => answer = Blank
  /\ pc = "done" /\ job.state = "running" => answer.named \/ answer.broken
  /\ answer.status = 200 => job.state = "succeeded"

\* What is known of a job that may have written: its statement writes, it ran
\* unbound, and BigQuery started none for a GET that was no SELECT.  A 200 to
\* a GET carries the warning the handler can give.
JobWrites ==
  /\ job.changed => job.state = "succeeded" /\ Writes /\ ~job.bound
  /\ req.op = "get" =>
       /\ job.state # "none" => job.bound = Forbidden
       /\ Is("bigquery") /\ (pc = "submit" \/ job.state # "none") => req.kind = "select"
       /\ answer.status = 200 /\ Writes /\ ~Forbidden =>
            answer.warned \/ Is("bigquery") \/ (Is("snowflake") /\ req.kind = "ddl")

\* The page loop: the rows so far are the first ones of the result, as many
\* as the raw rows handed out without the header; and without a token nothing
\* is left.
PageFits ==
  /\ page.rows = FirstRows(Len(page.rows))
  /\ pc \notin {"page", "done"} => page = NoPage
  /\ pc = "page" =>
       /\ page.served = Len(page.rows) + Header /\ page.served <= Raw
       /\ ~page.token => page.served = Raw
  /\ pc = "done" /\ answer.status = 504 /\ answer.named => page = NoPage
  /\ answer.status = 200 => RowsExact

JobInv == JobTypes /\ JobPhase /\ JobWrites /\ PageFits

\* The steps that several parts of the invariant look at.
LEMMA BoundJob ==
  ASSUME NEW j \in JobSet, NEW b \in BOOLEAN,
         NEW state \in {"running", "succeeded", "failed", "cancelled"}
  PROVE  LET k == [j EXCEPT !.state = state, !.bound = b]
         IN  k \in JobSet /\ k.state = state /\ k.bound = b /\ k.changed = j.changed
<1> DEFINE k == [j EXCEPT !.state = state, !.bound = b]
<1>1. k \in JobSet
  BY DEF JobSet
<1>2. k.state = state
  BY DEF JobSet
<1>3. k.bound = b
  BY DEF JobSet
<1>4. k.changed = j.changed
  BY DEF JobSet
<1>5. QED
  BY <1>1, <1>2, <1>3, <1>4

\* A job that was started has the bound of its kind of statement.
LEMMA StartedJob ==
  ASSUME JobTypes
  PROVE  /\ Started \in JobSet
         /\ Started.state = "running" /\ Started.changed = job.changed
         /\ Started.bound = Forbidden
<1>1. job \in JobSet /\ Forbidden \in BOOLEAN
  BY DEF JobTypes, Forbidden, Writes
<1>2. QED
  BY <1>1, BoundJob DEF Started

\* A job ends once, and writes only when it succeeds and is not bound to read.
LEMMA EndedJob ==
  ASSUME JobTypes, JobEnds
  PROVE  /\ job' \in JobSet /\ job.state = "running"
         /\ job'.state \in {"succeeded", "failed", "cancelled"} /\ job'.bound = job.bound
         /\ job'.changed => job'.state = "succeeded" /\ Writes /\ ~job.bound
<1>1. PICK state \in {"succeeded", "failed", "cancelled"} :
        /\ state = "succeeded" => ~job.bound
        /\ job' = [job EXCEPT !.state = state, !.changed = state = "succeeded" /\ Writes]
  BY DEF JobEnds
<1>2. PICK b \in BOOLEAN : b = (state = "succeeded" /\ Writes)
  BY DEF Writes
<1>3. /\ state \in {"running", "succeeded", "failed", "cancelled"} /\ job \in JobSet
      /\ job' = [job EXCEPT !.state = state, !.changed = b]
  BY <1>1, <1>2 DEF JobTypes
<1>4. job' \in JobSet /\ job'.state = state /\ job'.bound = job.bound /\ job'.changed = b
  <2>1. job' \in JobSet
    BY <1>3 DEF JobSet
  <2>2. job'.state = state
    BY <1>3 DEF JobSet
  <2>3. job'.bound = job.bound
    BY <1>3 DEF JobSet
  <2>4. job'.changed = b
    BY <1>3 DEF JobSet
  <2>5. QED
    BY <2>1, <2>2, <2>3, <2>4
<1>5. QED
  BY <1>1, <1>2, <1>4 DEF JobEnds

\* The numbers of a request and its result.
LEMMA Numbers ==
  ASSUME JobTypes
  PROVE  /\ req.limit \in Nat /\ req.total \in Nat /\ PageCap \in Int /\ PageCap > 0
         /\ Header \in {0, 1} /\ Raw \in Nat /\ Raw = req.total + Header
         /\ page.rows \in Seq(Nat) /\ Len(page.rows) \in Nat /\ page.served \in Nat
<1>1. req.limit \in MaxRows /\ req.total \in Totals
  BY DEF JobTypes
<1>2. page.rows \in Seq(Nat) /\ page.served \in Nat
  BY DEF JobTypes, PageSet
<1>3. req.limit \in Nat /\ req.total \in Nat
  BY <1>1, JobAssumption, Zenon
<1>4. PageCap \in Int /\ PageCap > 0
  <2>1. PageCap \in Nat \ {0}
    BY JobAssumption, Zenon
  <2>2. QED
    BY <2>1
<1>5. QED
  BY <1>2, <1>3, <1>4 DEF Raw, Header

\* What a page call hands out: some of the raw rows that are left, and a
\* token unless none is left.
LEMMA Handed ==
  ASSUME JobTypes, page.served <= Raw, NEW limit \in Int,
         NEW n \in Sizes(limit), NEW more \in Tokens(n, limit)
  PROVE  /\ n \in Nat /\ page.served + n <= Raw
         /\ more \in BOOLEAN /\ (~more => page.served + n = Raw)
         /\ limit > 0 /\ page.served < Raw => n > 0
<1> DEFINE most == Min({limit, Raw - page.served})
<1>1. Raw \in Nat /\ page.served \in Nat /\ Raw - page.served \in Int
  BY Numbers
<1>2. most \in {limit, Raw - page.served} /\ most <= limit /\ most <= Raw - page.served
  BY <1>1, MinOfTwo, Zenon
<1>3. n \in (IF most = 0 THEN {0} ELSE 1..most)
  BY DEF Sizes
<1>4. n \in Nat /\ page.served + n <= Raw /\ (limit > 0 /\ page.served < Raw => n > 0)
  <2> HIDE DEF most
  <2> QED
    BY <1>1, <1>2, <1>3
<1>5. more \in BOOLEAN /\ (~more => page.served + n = Raw)
  <2>1. CASE page.served + n < Raw
    BY <2>1 DEF Tokens
  <2>2. CASE page.served + n = Raw
    BY <2>2 DEF Tokens
  <2>3. QED
    BY <1>1, <1>4, <2>1, <2>2
<1>6. QED
  BY <1>4, <1>5

\* What a page call asks for; the first one of athena has room for the header.
LEMMA AsksSome ==
  ASSUME JobTypes
  PROVE  /\ Asked(page.rows) \in Int
         /\ pc = "first" /\ Header = 1 /\ page = NoPage => Asked(page.rows) > 0
<1>1. Len(page.rows) \in Nat /\ req.limit \in Nat /\ Raw \in Nat /\ PageCap \in Int /\ PageCap > 0
  BY Numbers
<1>2. PICK b \in Int : b = (IF pc = "first" THEN 1 ELSE 0) + req.limit - Len(page.rows)
  BY <1>1
<1>3. Min({PageCap, b}) \in {PageCap, b}
  BY <1>1, <1>2, MinOfTwo, Zenon
<1>4. Is("athena") => Asked(page.rows) \in {PageCap, b}
  BY <1>2, <1>3 DEF Asked, Is
<1>5. ~Is("athena") => Asked(page.rows) \in Int
  BY <1>1 DEF Asked
<1>6. page = NoPage => Len(page.rows) = 0
  BY DEF NoPage
<1>7. Header = 1 => Is("athena")
  BY DEF Header
<1>8. QED
  BY <1>1, <1>2, <1>4, <1>5, <1>6, <1>7

\* One page more: the rows are still the first ones, without a gap.
LEMMA PageGrows ==
  ASSUME JobTypes, PageFits, NextPage
  PROVE  /\ page' \in PageSet /\ page'.rows = FirstRows(Len(page'.rows))
         /\ page'.served = Len(page'.rows) + Header /\ page'.served <= Raw
         /\ ~page'.token => page'.served = Raw
<1> DEFINE Grown(n, more) == [rows   |-> page.rows \o Convert(Hand(n)),
                              served |-> page.served + n, token |-> more]
<1>a. PICK n \in Sizes(Asked(page.rows)) :
        \E more \in Tokens(n, Asked(page.rows)) : page' = Grown(n, more)
  BY DEF NextPage
<1>b. PICK more \in Tokens(n, Asked(page.rows)) : page' = Grown(n, more)
  BY <1>a
<1>1. /\ page'.rows = page.rows \o Convert(Hand(n))
      /\ page'.served = page.served + n /\ page'.token = more
      /\ page' = [rows |-> page'.rows, served |-> page'.served, token |-> page'.token]
  BY <1>b
<1>2. pc = "page" \/ (pc = "first" /\ page = NoPage)
  BY DEF NextPage, PageFits
<1>3. /\ page.served <= Raw
      /\ pc = "first" => page.rows = << >> /\ page.served = 0
      /\ pc = "page" => page.served = Len(page.rows) + Header
  BY <1>2, Numbers DEF PageFits, NoPage
<1>4. /\ n \in Nat /\ page.served + n <= Raw
      /\ more \in BOOLEAN /\ (~more => page.served + n = Raw)
      /\ pc = "first" /\ Header = 1 => n > 0
  BY <1>1, <1>2, <1>3, Numbers, AsksSome, Handed
<1> DEFINE l == Len(page.rows)
<1>5. l \in Nat /\ page.rows = FirstRows(l)
  BY Numbers DEF PageFits
<1>6. PICK m \in Nat : /\ page'.rows = FirstRows(m)
                       /\ page.served + n = m + Header
  <2>1. CASE pc = "page"
    <3>1. Hand(n) = [i \in 1..n |-> l + i]
      BY <1>3, <1>4, <1>5, <2>1, Numbers DEF Hand
    <3>2. page.rows \o Hand(n) = FirstRows(l + n)
      BY <1>4, <1>5, <3>1, NextRows
    <3>3. Convert(Hand(n)) = Hand(n)
      BY <2>1 DEF Convert
    <3>4. page'.rows = FirstRows(l + n)
      BY <1>1, <1>5, <3>2, <3>3
    <3>5. l + n \in Nat /\ page.served + n = (l + n) + Header
      <4>1. page.served = l + Header /\ Header \in Nat /\ n \in Nat /\ l \in Nat
        BY <1>3, <1>4, <1>5, <2>1, Numbers
      <4>2. QED
        BY <4>1
    <3>6. QED
      BY <3>4, <3>5
  <2>2. CASE pc = "first" /\ Header = 0
    <3>1. Hand(n) = [i \in 1..n |-> 0 + i] /\ l = 0
      BY <1>3, <1>4, <2>2 DEF Hand
    <3>2. page.rows \o Hand(n) = FirstRows(0 + n)
      BY <1>4, <1>5, <3>1, NextRows
    <3>3. Convert(Hand(n)) = Hand(n)
      BY <2>2 DEF Convert
    <3>4. QED
      BY <1>1, <1>3, <1>4, <2>2, <3>2, <3>3
  <2>3. CASE pc = "first" /\ Header = 1
    <3>1. Hand(n) = [i \in 1..n |-> i - 1] /\ n \in Nat \ {0}
      BY <1>3, <1>4, <2>3 DEF Hand
    <3>2. Convert(Hand(n)) = FirstRows(n - 1)
      BY <2>3, <3>1, RowsAfterHeader DEF Convert
    <3>3. n - 1 \in Nat /\ page.served + n = (n - 1) + Header
      BY <1>3, <1>4, <2>3, <3>1
    <3>4. FirstRows(n - 1) \in Seq(Nat)
      BY <3>3, RowsLength
    <3>5. << >> \o FirstRows(n - 1) = FirstRows(n - 1)
      BY <3>4, ConcatEmptySeq, Zenon
    <3>6. page'.rows = FirstRows(n - 1)
      BY <1>1, <1>3, <2>3, <3>2, <3>5
    <3>7. QED
      BY <3>3, <3>6
  <2>4. QED
    BY <1>2, <2>1, <2>2, <2>3, Numbers
<1>7. page'.rows \in Seq(Nat) /\ Len(page'.rows) = m
  BY <1>6, RowsLength
<1>8. QED
  BY <1>1, <1>4, <1>6, <1>7, Numbers DEF PageSet

\* The answer of a request whose rows are complete or cut at max_rows.
LEMMA Delivered ==
  ASSUME JobTypes, PageFits, Deliver
  PROVE  /\ pc = "page" /\ pc' = "done" /\ page' \in PageSet
         /\ answer' \in AnswerSet /\ answer'.status = 200 /\ answer'.warned = Warned
         /\ UNCHANGED <<req, job, polls>>
         /\ RowsExact'
<1> DEFINE l == Len(page.rows)
           m == Min({l, req.limit})
<1>1. /\ page' = [page EXCEPT !.rows = SubSeq(page.rows, 1, m)]
      /\ answer' = [status |-> 200, named |-> TRUE, truncated |-> Truncated,
                    warned |-> Warned, broken |-> FALSE]
      /\ pc = "page" /\ pc' = "done" /\ UNCHANGED <<req, job, polls>>
      /\ page.token => l >= req.limit
  BY Numbers DEF Deliver, Reply
<1>2. /\ l \in Nat /\ req.limit \in Nat /\ page.rows = FirstRows(l)
      /\ page.served = l + Header /\ page.served <= Raw
      /\ ~page.token => page.served = Raw
  BY <1>1, Numbers DEF PageFits
<1>3. m \in {l, req.limit} /\ m <= l /\ m <= req.limit
  <2>1. l \in Int /\ req.limit \in Int
    BY <1>2
  <2>2. QED
    BY <2>1, MinOfTwo, Zenon
<1> HIDE DEF m
<1>4. page'.rows = FirstRows(m) /\ page' \in PageSet
  <2>1. m \in 0..l
    BY <1>2, <1>3
  <2>2. SubSeq(page.rows, 1, m) = FirstRows(m) /\ FirstRows(m) \in Seq(Nat)
    <3>1. SubSeq(FirstRows(l), 1, m) = FirstRows(m)
      BY <1>2, <2>1, RowsCut, Zenon
    <3>2. m \in Nat
      BY <1>2, <2>1
    <3>3. FirstRows(m) \in Seq(Nat)
      BY <3>2, RowsLength
    <3>4. QED
      BY <1>2, <3>1, <3>3
  <2>3. QED
    BY <1>1, <2>2 DEF JobTypes, PageSet
<1>5. Len(page'.rows) = m
  BY <1>2, <1>3, <1>4, RowsLength
<1>6. Truncated \in BOOLEAN /\ Warned \in BOOLEAN
  BY DEF Truncated, Warned
<1>7. /\ answer' \in AnswerSet /\ answer'.status = 200
      /\ answer'.warned = Warned /\ answer'.truncated = Truncated
  BY <1>1, <1>6 DEF AnswerSet
<1>8. ~Truncated => m = req.total
  BY <1>1, <1>2, <1>3, Numbers DEF Truncated
<1>9. RowsExact'
  BY <1>1, <1>2, <1>3, <1>4, <1>5, <1>7, <1>8 DEF RowsExact, FirstRows
<1>10. QED
  BY <1>1, <1>4, <1>7, <1>9

\* A dry run lets a read through and refuses anything else.
LEMMA DryRunAnswers ==
  ASSUME DryRun
  PROVE  \/ pc' = "submit" /\ answer' = answer /\ req.kind = "select"
         \/ /\ pc' = "done" /\ answer' \in AnswerSet /\ answer'.status \in {400, 405}
            /\ req.kind # "select"
BY Replies DEF DryRun, Reply

\* A call that breaks ends the request with an error that names no job; the
\* job it would have started may have started.
LEMMA BrokenCall ==
  ASSUME CallFails
  PROVE  /\ pc # "done" /\ pc' = "done"
         /\ answer' \in AnswerSet /\ answer'.status \in {400, 502, 504}
         /\ answer'.broken /\ ~answer'.named
         /\ job' = job \/ (pc = "submit" /\ job' = Started)
         /\ UNCHANGED <<req, polls, page>>
<1>1. PICK status \in CallErrors :
        pc' = "done" /\ answer' = [Status(status) EXCEPT !.broken = TRUE]
  BY DEF CallFails, Reply
<1>2. status \in {400, 502, 504} /\ status \in Nat
  BY DEF CallErrors
<1>3. QED
  BY <1>1, <1>2, BrokenReplies DEF CallFails

\* Every step keeps the types, for a page that fits.
LEMMA JobTypesStep == JobTypes /\ PageFits /\ [JobNext]_jobVars => JobTypes'
<1> SUFFICES ASSUME JobTypes, PageFits, [JobNext]_jobVars
             PROVE  JobTypes'
  OBVIOUS
<1> USE JobAssumption DEF JobTypes, JobSteps
<1>1. CASE Start
  BY <1>1 DEF Start
<1>2. CASE DryRun
  BY <1>2, DryRunAnswers DEF DryRun
<1>3. CASE Submit
  BY <1>3, Replies, StartedJob DEF Submit, Reply
<1>4. CASE Poll
  BY <1>4, Failures, Replies DEF Poll, Settled, Reply
<1>5. CASE Deadline
  BY <1>5, Replies DEF Deadline, Reply
<1>6. CASE Lookup
  BY <1>6, Failures, Replies DEF Lookup, Settled, Reply
<1>7. CASE NextPage
  BY <1>7, PageGrows DEF NextPage
<1>8. CASE Deliver
  BY <1>8, Delivered DEF Deliver
<1>9. CASE CallFails
  BY <1>9, BrokenCall, StartedJob
<1>10. CASE Fetch
  <2>1. [req EXCEPT !.op = "fetch"] \in [backend : Backends, op : {"get", "post", "fetch"},
                kind : Kinds, limit : MaxRows, total : Totals, guarded : BOOLEAN]
    OBVIOUS
  <2>2. Blank \in AnswerSet
    BY DEF Blank, AnswerSet
  <2>3. QED
    BY <1>10, <2>1, <2>2 DEF Fetch
<1>11. CASE JobEnds
  BY <1>11, EndedJob DEF JobEnds
<1>12. CASE UNCHANGED jobVars
  BY <1>12 DEF jobVars
<1>13. QED
  BY <1>1, <1>2, <1>3, <1>4, <1>5, <1>6, <1>7, <1>8, <1>9, <1>10, <1>11, <1>12 DEF JobNext, Work


\* Every step keeps what is known of the job in each phase.
LEMMA JobPhaseStep == JobTypes /\ JobPhase /\ [JobNext]_jobVars => JobPhase'
<1> SUFFICES ASSUME JobTypes, JobPhase, [JobNext]_jobVars
             PROVE  JobPhase'
  OBVIOUS
<1> USE DEF JobTypes, JobPhase, JobSteps, AnswerSet
<1>1. CASE Start
  BY <1>1 DEF Start
<1>2. CASE DryRun
  BY <1>2, DryRunAnswers DEF DryRun
<1>3. CASE Submit
  BY <1>3, Replies, StartedJob DEF Submit, Reply
<1>4. CASE Poll
  BY <1>4, Failures, Replies DEF Poll, Settled, Reply
<1>5. CASE Deadline
  BY <1>5, Replies DEF Deadline, Reply
<1>6. CASE Lookup
  BY <1>6, Failures, Replies DEF Lookup, Settled, Reply
<1>7. CASE NextPage
  BY <1>7 DEF NextPage
<1>8. CASE Deliver
  BY <1>8 DEF Deliver, Reply
<1>9. CASE CallFails
  BY <1>9, BrokenCall, StartedJob
<1>10. CASE Fetch
  BY <1>10 DEF Fetch, Blank
<1>11. CASE JobEnds
  BY <1>11, EndedJob DEF JobEnds
<1>12. CASE UNCHANGED jobVars
  BY <1>12 DEF jobVars
<1>13. QED
  BY <1>1, <1>2, <1>3, <1>4, <1>5, <1>6, <1>7, <1>8, <1>9, <1>10, <1>11, <1>12 DEF JobNext, Work


\* A statement that writes stays bound, or its answer says so.
LEMMA JobWritesStep == JobTypes /\ JobPhase /\ JobWrites /\ [JobNext]_jobVars => JobWrites'
<1> SUFFICES ASSUME JobTypes, JobPhase, JobWrites, [JobNext]_jobVars
             PROVE  JobWrites'
  OBVIOUS
<1> USE JobAssumption DEF JobTypes, JobPhase, JobWrites, JobSteps, AnswerSet, Is, Writes, Forbidden
<1>1. CASE Start
  BY <1>1 DEF Start
<1>2. CASE DryRun
  BY <1>2, DryRunAnswers DEF DryRun
<1>3. CASE Submit
  BY <1>3, Replies, StartedJob DEF Submit, Reply
<1>4. CASE Poll
  BY <1>4, Failures, Replies DEF Poll, Settled, Reply
<1>5. CASE Deadline
  BY <1>5, Replies DEF Deadline, Reply
<1>6. CASE Lookup
  BY <1>6, Failures, Replies DEF Lookup, Settled, Reply
<1>7. CASE NextPage
  BY <1>7 DEF NextPage
<1>8. CASE Deliver
  BY <1>8 DEF Deliver, Reply, Warned, CountsRows
<1>9. CASE CallFails
  BY <1>9, BrokenCall, StartedJob
<1>10. CASE Fetch
  BY <1>10 DEF Fetch, Blank
<1>11. CASE JobEnds
  BY <1>11, EndedJob DEF JobEnds
<1>12. CASE UNCHANGED jobVars
  BY <1>12 DEF jobVars
<1>13. QED
  BY <1>1, <1>2, <1>3, <1>4, <1>5, <1>6, <1>7, <1>8, <1>9, <1>10, <1>11, <1>12 DEF JobNext, Work

\* A step that leaves the page alone.
LEMMA PageKept ==
  ASSUME PageFits, page' = page,
         req'.backend = req.backend, req'.kind = req.kind,
         req'.limit = req.limit, req'.total = req.total,
         pc' = "page" => pc = "page",
         pc' \notin {"page", "done"} => page = NoPage,
         answer'.status = 200 => answer' = answer,
         pc' = "done" /\ answer'.status = 504 /\ answer'.named => page = NoPage
  PROVE  PageFits'
<1>1. /\ Header' = Header /\ Raw' = Raw
      /\ RowsExact /\ answer'.status = 200 => RowsExact'
  BY DEF Header, Raw, Is, RowsExact
<1>2. QED
  BY <1>1 DEF PageFits

\* Every page adds the rows that come next, and none past the limit.
LEMMA PageFitsStep == JobTypes /\ JobPhase /\ PageFits /\ [JobNext]_jobVars => PageFits'
<1> SUFFICES ASSUME JobTypes, JobPhase, PageFits, [JobNext]_jobVars
             PROVE  PageFits'
  OBVIOUS
<1> USE DEF JobPhase, Blank
<1>0. pc \notin {"page", "done"} => page = NoPage
  BY DEF PageFits
<1>1. CASE Start
  BY <1>0, <1>1, PageKept DEF Start
<1>2. CASE DryRun
  BY <1>0, <1>2, DryRunAnswers, PageKept DEF DryRun
<1>3. CASE Submit
  BY <1>0, <1>3, Replies, PageKept DEF Submit, Reply
<1>4. CASE Poll
  BY <1>0, <1>4, Failures, Replies, PageKept DEF Poll, Settled, Reply
<1>5. CASE Deadline
  BY <1>0, <1>5, PageKept, Replies DEF Deadline, Reply
<1>6. CASE Lookup
  BY <1>0, <1>6, Failures, Replies, PageKept DEF Lookup, Settled, Reply
<1>7. CASE NextPage
  <2>1. pc' = "page" /\ answer' = answer /\ req' = req /\ answer.status # 200
    BY <1>7 DEF NextPage, Blank
  <2>2. Header' = Header /\ Raw' = Raw
    BY <2>1 DEF Header, Raw, Is
  <2>3. QED
    BY <1>7, <2>1, <2>2, PageGrows DEF PageFits
<1>8. CASE Deliver
  <2>1. page'.rows = FirstRows(Len(page'.rows))
    BY <1>8, Delivered DEF RowsExact, FirstRows
  <2>2. QED
    BY <1>8, <2>1, Delivered DEF PageFits
<1>9. CASE CallFails
  BY <1>9, BrokenCall, PageKept
<1>10. CASE Fetch
  BY <1>10, PageKept DEF Fetch, Blank, PageFits
<1>11. CASE JobEnds
  BY <1>11, PageKept DEF JobEnds, PageFits
<1>12. CASE UNCHANGED jobVars
  BY <1>12, PageKept DEF jobVars, PageFits
<1>13. QED
  BY <1>1, <1>2, <1>3, <1>4, <1>5, <1>6, <1>7, <1>8, <1>9, <1>10, <1>11, <1>12 DEF JobNext, Work

\* The invariant of a request to a warehouse.
LEMMA JobInvariant == JobSpec => []JobInv
<1>1. JobInit => JobInv
  <2> SUFFICES ASSUME JobInit PROVE JobInv
    OBVIOUS
  <2>1. JobTypes /\ JobPhase
    BY JobAssumption DEF JobInit, JobTypes, JobPhase, JobSet, JobSteps, NoPage, PageSet,
       AnswerSet, Blank
  <2>2. JobWrites
    BY DEF JobInit, JobWrites, Blank
  <2>3. PageFits
    BY DEF JobInit, PageFits, NoPage, Blank, FirstRows
  <2>4. QED
    BY <2>1, <2>2, <2>3 DEF JobInv
<1>2. JobInv /\ [JobNext]_jobVars => JobInv'
  BY JobTypesStep, JobPhaseStep, JobWritesStep, PageFitsStep DEF JobInv
<1>3. QED
  BY <1>1, <1>2, PTL DEF JobSpec
-----------------------------------------------------------------------------
\* However a provider cuts the result into pages, a 200 holds its first rows,
\* each once and in order, at most max_rows, and a complete one all of them.
THEOREM RowsAreExact == JobSpec => []RowsExact
<1>1. JobInv => RowsExact
  BY DEF JobInv, PageFits, RowsExact
<1>2. QED
  BY <1>1, JobInvariant, PTL

\* A GET that has changed something was not one to BigQuery, nor one under a
\* role or credential that cannot write, and its 200 warns where it can.
THEOREM GetWritesAreWarned == JobSpec => []GetWriteWarned
<1>1. JobInv => GetWriteWarned
  BY DEF JobInv, JobTypes, JobPhase, JobWrites, GetWriteWarned, Forbidden, Writes, Is
<1>2. QED
  BY <1>1, JobInvariant, PTL

\* No job is left running without its name or a failed call in the answer,
\* and a 200 means that the job has succeeded.
THEOREM OrphansAreNamed == JobSpec => []NoSilentOrphan
<1>1. JobInv => NoSilentOrphan
  BY DEF JobInv, JobPhase, NoSilentOrphan
<1>2. QED
  BY <1>1, JobInvariant, PTL
-----------------------------------------------------------------------------
(* Numbers                                                                 *)

\* A set of natural numbers has a least one.
LEMMA Least ==
  ASSUME NEW T \in SUBSET Nat, T # {}
  PROVE  \E x \in T : \A y \in T : x <= y
<1>1. \E x \in T : \A y \in T : ~ (<<y, x>> \in OpToRel(<, Nat))
  BY NatLessThanWellFounded, WFMin, Zenon
<1>2. PICK x \in T : \A y \in T : ~ (<<y, x>> \in OpToRel(<, Nat))
  BY <1>1
<1>3. x \in Nat /\ \A y \in T : y \in Nat
  BY <1>2, Zenon
<1>4. \A y \in T : y < x => <<y, x>> \in OpToRel(<, Nat)
  BY <1>3 DEF OpToRel
<1>5. \A y \in T : ~ (y < x)
  BY <1>2, <1>4, Zenon
<1>6. \A y \in T : x <= y
  BY <1>3, <1>5
<1>7. QED
  BY <1>2, <1>6, Zenon

\* Induction over the natural numbers, for the set of those of which something
\* holds.
LEMMA Induction ==
  ASSUME NEW T \in SUBSET Nat, 0 \in T, \A n \in T : n + 1 \in T
  PROVE  T = Nat
<1>1. SUFFICES ASSUME Nat \ T # {} PROVE FALSE
  OBVIOUS
<1>2. PICK x \in Nat \ T : \A y \in Nat \ T : x <= y
  BY <1>1, Least
<1>3. x \in Nat /\ x \notin T /\ x # 0
  BY <1>2
<1>4. x - 1 \in Nat /\ (x - 1) + 1 = x /\ ~ (x <= x - 1)
  BY <1>3
<1>5. x - 1 \notin T
  BY <1>3, <1>4
<1>6. QED
  BY <1>2, <1>4, <1>5, Zenon
-----------------------------------------------------------------------------
(* GraphqlOps: the scanner                                                 *)

\* The scanner's state after each token of a text.
Scans(g, s, ts, n) == g = [k \in 0 .. n |-> IF k = 0 THEN s ELSE Scan(g[k - 1], ts[k])]
ScanAt(s, ts) == CHOOSE at : Scans(at, s, ts, Len(ts))

\* There is a function that scans a text.
LEMMA ScansExist ==
  ASSUME NEW s, NEW ts, NEW m \in Nat
  PROVE  \E g : Scans(g, s, ts, m)
<1> DEFINE E(g, n) == Scans(g, s, ts, n)
           T == {n \in Nat : \E g : E(g, n)}
<1>1. 0 \in T
  <2>1. E([k \in 0 .. 0 |-> s], 0)
    BY DEF Scans
  <2> HIDE DEF E
  <2>2. QED
    BY <2>1
<1>2. ASSUME NEW n \in T PROVE n + 1 \in T
  <2>1. PICK g : E(g, n)
    OBVIOUS
  <2> DEFINE h == [k \in 0 .. (n + 1) |-> IF k = n + 1 THEN Scan(g[n], ts[k]) ELSE g[k]]
  <2>2. \A k \in 0 .. n : g[k] = IF k = 0 THEN s ELSE Scan(g[k - 1], ts[k])
    BY <2>1 DEF Scans
  <2>3. \A k \in 0 .. (n + 1) : h[k] = IF k = 0 THEN s ELSE Scan(h[k - 1], ts[k])
    BY <2>2
  <2>4. E(h, n + 1)
    BY <2>3 DEF Scans
  <2> HIDE DEF E, h
  <2>5. QED
    BY <2>4
<1> HIDE DEF E
<1>3. T = Nat
  BY <1>1, <1>2, Induction
<1>4. QED
  BY <1>3 DEF E

\* The scanner's first state, its next, and the last one.
LEMMA ScanNext ==
  ASSUME NEW s, NEW ts, Len(ts) \in Nat
  PROVE  /\ ScanAt(s, ts)[0] = s
         /\ \A k \in Nat : k + 1 <= Len(ts) =>
              ScanAt(s, ts)[k + 1] = Scan(ScanAt(s, ts)[k], ts[k + 1])
         /\ Scanned(s, ts) = ScanAt(s, ts)[Len(ts)]
<1> DEFINE U == ScanAt(s, ts)
<1>1. Scans(U, s, ts, Len(ts))
  <2>1. \E g : Scans(g, s, ts, Len(ts))
    BY ScansExist, Zenon
  <2>2. QED
    BY <2>1, Zenon DEF ScanAt
<1>2. Scanned(s, ts) = U[Len(ts)]
  BY Zenon DEF Scanned, ScanAt, Scans
<1> HIDE DEF U
<1>3. \A k \in 0 .. Len(ts) : U[k] = IF k = 0 THEN s ELSE Scan(U[k - 1], ts[k])
  BY <1>1 DEF Scans
<1>4. U[0] = s
  BY <1>3
<1>5. ASSUME NEW k \in Nat, k + 1 <= Len(ts)
      PROVE  U[k + 1] = Scan(U[k], ts[k + 1])
  <2>1. k + 1 \in 0 .. Len(ts) /\ k + 1 # 0 /\ (k + 1) - 1 = k
    BY <1>5
  <2>2. QED
    BY <1>3, <2>1, Zenon
<1>6. QED
  BY <1>2, <1>4, <1>5, Zenon DEF U

\* A text in two parts is scanned in two parts.
LEMMA ScanJoin ==
  ASSUME NEW s, NEW S, NEW a \in Seq(S), NEW b \in Seq(S)
  PROVE  Scanned(s, a \o b) = Scanned(Scanned(s, a), b)
<1> DEFINE c == a \o b
           la == Len(a)
           lb == Len(b)
           m == Scanned(s, a)
           C(k) == ScanAt(s, c)[k]
           A(k) == ScanAt(s, a)[k]
           B(k) == ScanAt(m, b)[k]
<1>1. /\ la \in Nat /\ lb \in Nat /\ Len(c) = la + lb
      /\ \A k \in 1 .. la : c[k] = a[k]
      /\ \A k \in 1 .. lb : c[la + k] = b[k]
  BY LenProperties, ConcatProperties
<1>2. /\ A(0) = s /\ m = A(la)
      /\ \A k \in Nat : k + 1 <= la => A(k + 1) = Scan(A(k), a[k + 1])
  BY <1>1, ScanNext
<1>3. /\ B(0) = m /\ Scanned(m, b) = B(lb)
      /\ \A k \in Nat : k + 1 <= lb => B(k + 1) = Scan(B(k), b[k + 1])
  BY <1>1, ScanNext
<1>4. /\ C(0) = s /\ Scanned(s, c) = C(la + lb)
      /\ \A k \in Nat : k + 1 <= la + lb => C(k + 1) = Scan(C(k), c[k + 1])
  <2>1. Len(c) \in Nat
    BY <1>1
  <2>2. /\ C(0) = s /\ Scanned(s, c) = C(Len(c))
        /\ \A k \in Nat : k + 1 <= Len(c) => C(k + 1) = Scan(C(k), c[k + 1])
    <3> HIDE DEF c
    <3>1. QED
      BY <2>1, ScanNext
  <2> HIDE DEF c, la, lb, C
  <2>3. QED
    BY <1>1, <2>2
<1> HIDE DEF c, la, lb, m, A, B, C
<1> DEFINE T == {k \in Nat : k <= la => C(k) = A(k)}
<1>5. T = Nat
  <2>1. 0 \in T
    BY <1>2, <1>4
  <2>2. ASSUME NEW k \in T PROVE k + 1 \in T
    <3>1. SUFFICES ASSUME k + 1 <= la PROVE C(k + 1) = A(k + 1)
      OBVIOUS
    <3>2. k <= la /\ k + 1 <= la + lb /\ k + 1 \in 1 .. la /\ k \in Nat
      BY <1>1, <3>1
    <3>3. C(k) = A(k) /\ c[k + 1] = a[k + 1]
      BY <1>1, <3>2
    <3>4. QED
      BY <1>2, <1>4, <3>1, <3>2, <3>3, Zenon
  <2> HIDE DEF T
  <2>3. T \in SUBSET Nat
    BY DEF T
  <2>4. QED
    BY <2>1, <2>2, <2>3, Induction
<1>6. C(la) = m
  BY <1>1, <1>2, <1>5
<1> DEFINE R == {k \in Nat : k <= lb => C(la + k) = B(k)}
<1>7. R = Nat
  <2>1. 0 \in R
    BY <1>1, <1>3, <1>6
  <2>2. ASSUME NEW k \in R PROVE k + 1 \in R
    <3>1. SUFFICES ASSUME k + 1 <= lb PROVE C(la + (k + 1)) = B(k + 1)
      OBVIOUS
    <3>2. /\ k <= lb /\ (la + k) + 1 <= la + lb /\ k + 1 \in 1 .. lb /\ k \in Nat
          /\ la + k \in Nat /\ la + (k + 1) = (la + k) + 1
      BY <1>1, <3>1
    <3>3. C(la + k) = B(k) /\ c[(la + k) + 1] = b[k + 1]
      BY <1>1, <3>2
    <3>4. QED
      BY <1>3, <1>4, <3>1, <3>2, <3>3, Zenon
  <2> HIDE DEF R
  <2>3. R \in SUBSET Nat
    BY DEF R
  <2>4. QED
    BY <2>1, <2>2, <2>3, Induction
<1>8. C(la + lb) = B(lb)
  BY <1>1, <1>7
<1>9. QED
  BY <1>3, <1>4, <1>8, Zenon DEF c, m

\* What the scanner keeps of a text.
Keywords == OpTypes \cup {"fragment"}
Entry    == OpTypes \X (Words \cup {""})
ScanRec  ==
  [ops : Seq(Entry), depth : Nat, kw : Keywords \cup {""}, name : Words \cup {""}, skip : {0, 1}]

\* The parts of a state.
Holds(r, o, n, k, m, p) ==
  r.ops = o /\ r.depth = n /\ r.kw = k /\ r.name = m /\ r.skip = p

\* A state is made of its parts.
LEMMA StateHolds == \A o, n, k, m, p : Holds(State(o, n, k, m, p), o, n, k, m, p)
BY DEF Holds, State

\* A state of typed parts is one.
LEMMA StateTyped ==
  \A o \in Seq(Entry), n \in Nat, k \in Keywords \cup {""}, m \in Words \cup {""}, p \in {0, 1} :
    State(o, n, k, m, p) \in ScanRec
BY Zenon DEF State, ScanRec

\* The types of what is in a state.
LEMMA TypedState ==
  ASSUME NEW s \in ScanRec
  PROVE  /\ s.ops \in Seq(Entry) /\ s.depth \in Nat /\ s.kw \in Keywords \cup {""}
         /\ s.name \in Words \cup {""} /\ s.skip \in {0, 1}
BY Zenon DEF ScanRec

\* An opening brace goes one deeper; outside of braces it ends a definition.
LEMMA OpeningBrace ==
  ASSUME NEW s \in ScanRec
  PROVE  /\ Scan(s, "{") \in ScanRec /\ Scan(s, "{").depth = s.depth + 1
         /\ s.depth > 0 =>
              /\ Scan(s, "{").ops = s.ops /\ Scan(s, "{").kw = s.kw
              /\ Scan(s, "{").name = s.name /\ Scan(s, "{").skip = s.skip
         /\ s.depth = 0 =>
              /\ Scan(s, "{").kw = "" /\ Scan(s, "{").name = "" /\ Scan(s, "{").skip = 0
              /\ Scan(s, "{").ops = Noted(s) /\ Noted(s) \in Seq(Entry)
<1> DEFINE n == s.depth
           o == s.ops
<1>1. Scan(s, "{") = Brace(s)
  BY Zenon DEF Scan
<1>2. o \in Seq(Entry) /\ n \in Nat
  BY TypedState, Zenon
<1>3. CASE n > 0
  <2>1. Scan(s, "{") = State(s.ops, n + 1, s.kw, s.name, s.skip)
    BY <1>1, <1>3, Zenon DEF Brace
  <2>2. n + 1 \in Nat /\ n # 0
    <3> HIDE DEF n, o
    <3>1. QED
      BY <1>2, <1>3
  <2> HIDE DEF n
  <2>3. Scan(s, "{") \in ScanRec
    BY <2>1, <2>2, TypedState, Zenon DEF State, ScanRec
  <2>4. /\ Scan(s, "{").ops = s.ops /\ Scan(s, "{").depth = n + 1 /\ Scan(s, "{").kw = s.kw
        /\ Scan(s, "{").name = s.name /\ Scan(s, "{").skip = s.skip
    <3>1. Holds(Scan(s, "{"), s.ops, n + 1, s.kw, s.name, s.skip)
      BY <2>1, StateHolds
    <3>2. QED
      BY <3>1, Zenon DEF Holds
  <2>5. QED
    BY <2>2, <2>3, <2>4, Zenon DEF n
<1>4. CASE ~ (n > 0)
  <2>1. Scan(s, "{") = State(Noted(s), 1, "", "", 0)
    BY <1>1, <1>4, Zenon DEF Brace
  <2>2. n = 0 /\ 0 + 1 = 1 /\ 1 \in Nat /\ 0 \in {0, 1}
    <3> HIDE DEF n, o
    <3>1. QED
      BY <1>2, <1>4
  <2>3. Noted(s) \in Seq(Entry)
    <3>1. <<"query", "">> \in Entry
      BY Zenon DEF OpTypes, Entry
    <3>2. s.kw \in OpTypes => <<s.kw, s.name>> \in Entry
      BY TypedState, Zenon DEF Entry
    <3>3. \A e \in Entry : Append(o, e) \in Seq(Entry)
      <4> HIDE DEF o
      <4>1. QED
        BY <1>2
    <3>4. QED
      BY <1>2, <3>1, <3>2, <3>3, Zenon DEF Noted
  <2>4. Scan(s, "{") \in ScanRec
    <3>1. "" \in Keywords \cup {""} /\ "" \in Words \cup {""}
      BY Zenon
    <3>2. State(Noted(s), 1, "", "", 0) \in ScanRec
      BY <2>2, <2>3, <3>1, StateTyped, Zenon
    <3>3. QED
      BY <2>1, <3>2, Zenon
  <2>5. /\ Scan(s, "{").ops = Noted(s) /\ Scan(s, "{").depth = 1 /\ Scan(s, "{").kw = ""
        /\ Scan(s, "{").name = "" /\ Scan(s, "{").skip = 0
    <3>1. Holds(Scan(s, "{"), Noted(s), 1, "", "", 0)
      BY <2>1, StateHolds
    <3>2. QED
      BY <3>1, Zenon DEF Holds
  <2>6. QED
    BY <1>4, <2>2, <2>3, <2>4, <2>5, Zenon
<1>5. QED
  BY <1>3, <1>4, Zenon

\* A closing brace changes nothing else.
LEMMA ClosingBrace ==
  ASSUME NEW s \in ScanRec, s.depth > 0
  PROVE  /\ Scan(s, "}") \in ScanRec /\ Scan(s, "}").depth = s.depth - 1
         /\ Scan(s, "}").ops = s.ops /\ Scan(s, "}").kw = s.kw
         /\ Scan(s, "}").name = s.name /\ Scan(s, "}").skip = s.skip
<1> DEFINE n == s.depth
<1>1. "}" # "{"
  OBVIOUS
<1>2. Scan(s, "}") = State(s.ops, n - 1, s.kw, s.name, s.skip)
  BY <1>1, Zenon DEF Scan
<1>3. n - 1 \in Nat
  <2>1. n \in Nat
    BY TypedState, Zenon
  <2>2. n > 0
    OBVIOUS
  <2> HIDE DEF n
  <2>3. QED
    BY <2>1, <2>2
<1> HIDE DEF n
<1>4. Scan(s, "}") \in ScanRec
  BY <1>2, <1>3, TypedState, Zenon DEF State, ScanRec
<1>5. /\ Scan(s, "}").ops = s.ops /\ Scan(s, "}").depth = n - 1 /\ Scan(s, "}").kw = s.kw
      /\ Scan(s, "}").name = s.name /\ Scan(s, "}").skip = s.skip
  <2>1. Holds(Scan(s, "}"), s.ops, n - 1, s.kw, s.name, s.skip)
    BY <1>2, StateHolds
  <2>2. QED
    BY <2>1, Zenon DEF Holds
<1>6. QED
  BY <1>4, <1>5, Zenon DEF n

\* Any other token leaves the depth and the operations alone, and in braces
\* all; outside of them, a pending keyword and a name stay, and only a keyword
\* becomes one.
LEMMA OtherToken ==
  ASSUME NEW s \in ScanRec, NEW x \in Symbols \ Braces
  PROVE  /\ Scan(s, x) \in ScanRec /\ Scan(s, x).depth = s.depth /\ Scan(s, x).ops = s.ops
         /\ s.depth > 0 => Scan(s, x) = s
         /\ s.kw # "" => Scan(s, x).kw = s.kw /\ (s.name # "" => Scan(s, x).name = s.name)
         /\ s.kw = "" => Scan(s, x).name = s.name /\ (x \notin Keywords => Scan(s, x).kw = "")
<1>1. x # "{" /\ x # "}"
  BY Zenon DEF Braces
<1>2. 0 \in {0, 1} /\ 1 \in {0, 1}
  OBVIOUS
<1>3. CASE Scan(s, x) = s
  BY <1>3, Zenon
<1>4. CASE ~ (s.depth > 0) /\ \E p \in {0, 1} : Scan(s, x) = State(s.ops, s.depth, s.kw, s.name, p)
  <2>1. PICK p \in {0, 1} : Scan(s, x) = State(s.ops, s.depth, s.kw, s.name, p)
    BY <1>4, Zenon
  <2>2. Scan(s, x) \in ScanRec
    BY <2>1, TypedState, Zenon DEF State, ScanRec
  <2>3. /\ Scan(s, x).ops = s.ops /\ Scan(s, x).depth = s.depth /\ Scan(s, x).kw = s.kw
        /\ Scan(s, x).name = s.name /\ Scan(s, x).skip = p
    <3>1. Holds(Scan(s, x), s.ops, s.depth, s.kw, s.name, p)
      BY <2>1, StateHolds
    <3>2. QED
      BY <3>1, Zenon DEF Holds
  <2>4. QED
    BY <1>4, <2>2, <2>3, Zenon
<1>5. CASE /\ ~ (s.depth > 0) /\ s.kw = ""
           /\ Scan(s, x) = State(s.ops, s.depth, Keyword(x), s.name, 0)
  <2>1. Keyword(x) \in Keywords \cup {""} /\ (x \notin Keywords => Keyword(x) = "")
    BY Zenon DEF Keyword, Keywords
  <2>2. Scan(s, x) \in ScanRec
    BY <1>2, <1>5, <2>1, TypedState, Zenon DEF State, ScanRec
  <2>3. /\ Scan(s, x).ops = s.ops /\ Scan(s, x).depth = s.depth /\ Scan(s, x).kw = Keyword(x)
        /\ Scan(s, x).name = s.name /\ Scan(s, x).skip = 0
    <3>1. Holds(Scan(s, x), s.ops, s.depth, Keyword(x), s.name, 0)
      BY <1>5, StateHolds
    <3>2. QED
      BY <3>1, Zenon DEF Holds
  <2>4. QED
    BY <1>5, <2>1, <2>2, <2>3, Zenon
<1>6. CASE /\ ~ (s.depth > 0) /\ s.kw # "" /\ s.name = "" /\ x \in Words
           /\ Scan(s, x) = State(s.ops, s.depth, s.kw, x, 0)
  <2>1. Scan(s, x) \in ScanRec
    BY <1>2, <1>6, TypedState, Zenon DEF State, ScanRec
  <2>2. /\ Scan(s, x).ops = s.ops /\ Scan(s, x).depth = s.depth /\ Scan(s, x).kw = s.kw
        /\ Scan(s, x).name = x /\ Scan(s, x).skip = 0
    <3>1. Holds(Scan(s, x), s.ops, s.depth, s.kw, x, 0)
      BY <1>6, StateHolds
    <3>2. QED
      BY <3>1, Zenon DEF Holds
  <2>3. QED
    BY <1>6, <2>1, <2>2, Zenon
<1>7. CASE s.depth > 0
  <2>1. Scan(s, x) = s
    BY <1>1, <1>7, Zenon DEF Scan
  <2>2. QED
    BY <1>3, <2>1, Zenon
<1>8. CASE ~ (s.depth > 0) /\ x = "@"
  <2>1. Scan(s, x) = State(s.ops, s.depth, s.kw, s.name, 1)
    BY <1>1, <1>8, Zenon DEF Scan
  <2>2. QED
    BY <1>2, <1>4, <1>8, <2>1, Zenon
<1>9. CASE ~ (s.depth > 0) /\ x # "@" /\ x \in Words
  <2>1. Scan(s, x) = Word(s, x)
    BY <1>1, <1>9, Zenon DEF Scan
  <2>2. CASE s.skip = 1
    <3>1. Scan(s, x) = State(s.ops, s.depth, s.kw, s.name, 0)
      BY <2>1, <2>2, Zenon DEF Word
    <3>2. QED
      BY <1>2, <1>4, <1>9, <3>1, Zenon
  <2>3. CASE s.skip # 1 /\ s.kw = ""
    <3>1. Scan(s, x) = State(s.ops, s.depth, Keyword(x), s.name, 0)
      BY <2>1, <2>3, Zenon DEF Word
    <3>2. QED
      BY <1>5, <1>9, <2>3, <3>1, Zenon
  <2>4. CASE s.skip # 1 /\ s.kw # "" /\ s.name = "" /\ x # "on"
    <3>1. Scan(s, x) = State(s.ops, s.depth, s.kw, x, 0)
      BY <2>1, <2>4, Zenon DEF Word
    <3>2. QED
      BY <1>6, <1>9, <2>4, <3>1, Zenon
  <2>5. CASE s.skip # 1 /\ s.kw # "" /\ ~ (s.name = "" /\ x # "on")
    <3>1. Scan(s, x) = State(s.ops, s.depth, s.kw, s.name, IF x = "on" THEN 1 ELSE 0)
      BY <2>1, <2>5, Zenon DEF Word
    <3>2. (IF x = "on" THEN 1 ELSE 0) \in {0, 1}
      BY <1>2, Zenon
    <3>3. QED
      BY <1>4, <1>9, <3>1, <3>2, Zenon
  <2>6. QED
    BY <2>2, <2>3, <2>4, <2>5, Zenon
<1>10. CASE ~ (s.depth > 0) /\ x # "@" /\ x \notin Words
  <2>1. Scan(s, x) = s
    BY <1>1, <1>10, Zenon DEF Scan
  <2>2. QED
    BY <1>3, <2>1, Zenon
<1>11. QED
  BY <1>7, <1>8, <1>9, <1>10, Zenon

\* The depth after each token of a text.
Depths(g, ts, n) ==
  g = [k \in 0 .. n |-> IF k = 0 THEN 0 ELSE g[k - 1] + Turn(ts[k])]

\* There is a function that counts depth.
LEMMA DepthsExist ==
  ASSUME NEW ts, NEW m \in Nat
  PROVE  \E g : Depths(g, ts, m)
<1> DEFINE E(g, n) == Depths(g, ts, n)
           T == {n \in Nat : \E g : E(g, n)}
<1>1. 0 \in T
  <2>1. E([k \in 0 .. 0 |-> 0], 0)
    BY DEF Depths
  <2> HIDE DEF E
  <2>2. QED
    BY <2>1
<1>2. ASSUME NEW n \in T PROVE n + 1 \in T
  <2>1. PICK g : E(g, n)
    OBVIOUS
  <2> DEFINE h == [k \in 0 .. (n + 1) |-> IF k = n + 1 THEN g[n] + Turn(ts[n + 1]) ELSE g[k]]
  <2>2. \A k \in 0 .. n : g[k] = IF k = 0 THEN 0 ELSE g[k - 1] + Turn(ts[k])
    BY <2>1 DEF Depths
  <2>3. \A k \in 0 .. (n + 1) : h[k] = IF k = 0 THEN 0 ELSE h[k - 1] + Turn(ts[k])
    BY <2>2
  <2>4. E(h, n + 1)
    BY <2>3 DEF Depths
  <2> HIDE DEF E, h
  <2>5. QED
    BY <2>4
<1> HIDE DEF E
<1>3. T = Nat
  BY <1>1, <1>2, Induction
<1>4. QED
  BY <1>3 DEF E

\* What a token does to the depth.
LEMMA TurnIs == \A t : Turn(t) \in Int
BY DEF Turn

\* Depth begins at 0; a brace changes it by one, another token does not.
LEMMA DepthNext ==
  ASSUME NEW ts, Len(ts) \in Nat
  PROVE  /\ Depth(ts)[0] = 0
         /\ \A k \in 0 .. Len(ts) : Depth(ts)[k] \in Int
         /\ \A k \in Nat : k + 1 <= Len(ts) =>
              Depth(ts)[k + 1] = Depth(ts)[k] + Turn(ts[k + 1])
<1> DEFINE U == Depth(ts)
<1>1. Depths(U, ts, Len(ts))
  <2>1. \E g : Depths(g, ts, Len(ts))
    BY DepthsExist, Zenon
  <2> DEFINE c == CHOOSE g : Depths(g, ts, Len(ts))
  <2>2. Depths(c, ts, Len(ts))
    BY <2>1, Zenon
  <2>3. U = c
    BY Zenon DEF Depth, Depths
  <2>4. QED
    BY <2>2, <2>3, Zenon
<1> HIDE DEF U
<1>2. \A k \in 0 .. Len(ts) : U[k] = IF k = 0 THEN 0 ELSE U[k - 1] + Turn(ts[k])
  BY <1>1 DEF Depths
<1>3. \A k \in Nat : Turn(ts[k]) \in Int
  BY TurnIs
<1>4. U[0] = 0
  BY <1>2
<1>5. ASSUME NEW k \in Nat, k + 1 <= Len(ts)
      PROVE  U[k + 1] = U[k] + Turn(ts[k + 1])
  <2>1. k + 1 \in 0 .. Len(ts) /\ k + 1 # 0 /\ (k + 1) - 1 = k
    BY <1>5
  <2>2. QED
    BY <1>2, <2>1, Zenon
<1> DEFINE T == {k \in Nat : k <= Len(ts) => U[k] \in Int}
<1>6. T = Nat
  <2>1. 0 \in T
    BY <1>4
  <2>2. ASSUME NEW k \in T PROVE k + 1 \in T
    BY <1>3, <1>5
  <2> HIDE DEF T
  <2>3. T \in SUBSET Nat
    BY DEF T
  <2>4. QED
    BY <2>1, <2>2, <2>3, Induction
<1>7. \A k \in 0 .. Len(ts) : U[k] \in Int
  BY <1>6
<1>8. QED
  BY <1>4, <1>5, <1>7, Zenon DEF U

\* A scanner that knows no more and no less.
Same(s, r) == r.ops = s.ops /\ r.kw = s.kw /\ r.name = s.name /\ r.skip = s.skip

\* A scanner in braces.
Inside == {s \in ScanRec : s.depth > 0}

\* In braces, a token changes the depth alone.
LEMMA InBraces ==
  ASSUME NEW s \in Inside, NEW x \in Symbols
  PROVE  /\ Scan(s, x) \in ScanRec /\ Same(s, Scan(s, x))
         /\ Scan(s, x).depth = s.depth + Turn(x)
<1>0. s \in ScanRec /\ s.depth > 0
  BY Zenon DEF Inside
<1> DEFINE n == s.depth
<1>1. n + 0 = n /\ n - 1 = n + (0 - 1)
  <2>1. n \in Nat
    BY <1>0, TypedState, Zenon
  <2> HIDE DEF n
  <2>2. QED
    BY <2>1
<1>2. CASE x = "{"
  BY <1>0, <1>2, OpeningBrace, Zenon DEF Same, Turn
<1>3. CASE x = "}"
  <2>1. x # "{"
    BY <1>3
  <2>2. QED
    BY <1>0, <1>1, <1>3, <2>1, ClosingBrace, Zenon DEF Same, Turn
<1>4. CASE x \in Symbols \ Braces
  <2>1. x # "{" /\ x # "}"
    BY <1>4, Zenon DEF Braces
  <2>2. Scan(s, x) = s
    BY <1>0, <1>4, OtherToken, Zenon
  <2>3. QED
    BY <1>0, <1>1, <2>1, <2>2, Zenon DEF Same, Turn
<1>5. QED
  BY <1>2, <1>3, <1>4, Zenon DEF Braces

\* A balanced text in braces changes nothing.
LEMMA BodyScanned ==
  ASSUME NEW s \in Inside, NEW b \in Seq(Symbols), Balanced(b)
  PROVE  /\ Scanned(s, b) \in ScanRec /\ Same(s, Scanned(s, b))
         /\ Scanned(s, b).depth = s.depth
<1> DEFINE at(k) == ScanAt(s, b)[k]
           D(k) == Depth(b)[k]
           l == Len(b)
<1>1. l \in Nat /\ \A k \in Nat : k + 1 <= l => b[k + 1] \in Symbols
  OBVIOUS
<1>2. /\ at(0) = s /\ Scanned(s, b) = at(l)
      /\ \A k \in Nat : k + 1 <= l => at(k + 1) = Scan(at(k), b[k + 1])
  BY <1>1, ScanNext
<1>3. /\ D(0) = 0 /\ D(l) = 0 /\ \A k \in 0 .. l : D(k) \in Int /\ D(k) >= 0
      /\ \A k \in Nat : k + 1 <= l =>
           D(k + 1) = D(k) + Turn(b[k + 1])
  BY <1>1, DepthNext DEF Balanced
<1> DEFINE n == s.depth
           d(k) == at(k).depth
<1>0. s \in ScanRec /\ n > 0
  BY Zenon DEF Inside
<1>4. n \in Nat /\ n > 0
  BY <1>0, TypedState, Zenon
<1> DEFINE P(k) == at(k) \in ScanRec /\ Same(s, at(k)) /\ d(k) = n + D(k)
           T == {k \in Nat : k <= l => P(k)}
<1> HIDE DEF at, D, l
<1>5. 0 \in T
  <2>1. n = n + D(0)
    <3> HIDE DEF n
    <3>1. QED
      BY <1>3, <1>4
  <2>2. P(0)
    BY <1>0, <1>2, <2>1, Zenon DEF Same
  <2> HIDE DEF P
  <2>3. QED
    BY <2>2
<1>6. ASSUME NEW k \in T PROVE k + 1 \in T
  <2>1. SUFFICES ASSUME k + 1 <= l PROVE P(k + 1)
    <3> HIDE DEF P
    <3>1. QED
      OBVIOUS
  <2>2. k \in Nat /\ k <= l /\ k \in 0 .. l
    BY <1>1, <2>1
  <2>3. P(k)
    <3> HIDE DEF P
    <3>1. QED
      BY <2>2
  <2>4. d(k) > 0
    <3> HIDE DEF n, d
    <3>1. QED
      BY <1>3, <1>4, <2>2, <2>3
  <2>5. b[k + 1] \in Symbols /\ at(k + 1) = Scan(at(k), b[k + 1])
    BY <1>1, <1>2, <2>1, <2>2
  <2>6. /\ at(k + 1) \in ScanRec /\ Same(at(k), at(k + 1))
        /\ d(k + 1) = d(k) + Turn(b[k + 1])
    BY <2>3, <2>4, <2>5, InBraces, Zenon DEF Inside
  <2>7. Same(s, at(k + 1))
    BY <2>3, <2>6, Zenon DEF Same
  <2>8. d(k + 1) = n + D(k + 1)
    <3> HIDE DEF n, d
    <3>1. D(k) \in Int /\ d(k) = n + D(k)
      BY <1>3, <2>2, <2>3
    <3>2. QED
      BY <1>3, <1>4, <2>1, <2>2, <2>6, <3>1, TurnIs
  <2>9. QED
    BY <2>6, <2>7, <2>8, Zenon
<1>7. T = Nat
  <2> HIDE DEF P
  <2>1. T \in SUBSET Nat
    OBVIOUS
  <2> HIDE DEF T
  <2>2. QED
    BY <1>5, <1>6, <2>1, Induction
<1>8. P(l)
  <2> HIDE DEF P
  <2>1. QED
    BY <1>1, <1>7
<1>9. n + D(l) = n
  <2> HIDE DEF n
  <2>1. QED
    BY <1>3, <1>4
<1>10. QED
  BY <1>2, <1>8, <1>9, Zenon

\* How many operations a definition of this keyword is.
Own(kw) == IF kw \in OpTypes THEN 1 ELSE 0

\* A list that has grown by a definition of this keyword and one of these
\* names, and by operations that the scanner made up.
More(o, p, kw, ns) ==
  /\ Len(o) + Own(kw) <= Len(p)
  /\ \A i \in 1 .. Len(o) : p[i] = o[i]
  /\ kw \in OpTypes => p[Len(o) + 1][1] = kw /\ p[Len(o) + 1][2] \in ns
  /\ \A i \in 1 .. Len(p) : i > Len(o) + Own(kw) => p[i] = <<"query", "">>

\* A list that is longer by one.
LEMMA Appended ==
  ASSUME NEW p \in Seq(Entry), NEW x \in Entry
  PROVE  /\ Append(p, x) \in Seq(Entry) /\ Len(p) \in Nat /\ Len(Append(p, x)) = Len(p) + 1
         /\ Append(p, x)[Len(p) + 1] = x
         /\ \A i \in 1 .. Len(p) : Append(p, x)[i] = p[i]
OBVIOUS

\* There is nothing behind the end.
LEMMA NothingBehind ==
  \A n \in Nat : /\ n + 0 <= n /\ n + 1 <= n + 1
                 /\ \A i \in 1 .. n : ~ (i > n + 0)
                 /\ \A i \in 1 .. (n + 1) : ~ (i > n + 1)
OBVIOUS

\* The operation of a definition is noted.
LEMMA MoreFirst ==
  ASSUME NEW o \in Seq(Entry), NEW kw \in Keywords, NEW m \in Words \cup {""}, NEW ns,
         m \in ns
  PROVE  More(o, IF kw \in OpTypes THEN Append(o, <<kw, m>>) ELSE o, kw, ns)
<1> DEFINE x == <<kw, m>>
           p == Append(o, x)
           n == Len(o)
<1>1. x[1] = kw /\ x[2] = m
  OBVIOUS
<1>2. CASE kw \in OpTypes
  <2>1. x \in Entry
    BY <1>2, Zenon DEF Entry
  <2> HIDE DEF x
  <2>2. /\ n \in Nat /\ Len(p) = n + 1 /\ p[n + 1] = x
        /\ \A i \in 1 .. n : p[i] = o[i]
    BY <2>1, Appended, Zenon
  <2>3. Own(kw) = 1
    BY <1>2, Zenon DEF Own
  <2> HIDE DEF p, n
  <2>4. /\ n + Own(kw) <= Len(p)
        /\ \A i \in 1 .. Len(p) : i > n + Own(kw) => p[i] = <<"query", "">>
    <3>1. n \in Nat /\ Len(p) = n + 1
      BY <2>2
    <3>2. n + 1 <= Len(p) /\ \A i \in 1 .. Len(p) : ~ (i > n + 1)
      BY <3>1, NothingBehind, Zenon
    <3>3. QED
      BY <2>3, <3>2, Zenon
  <2>5. p[n + 1][1] = kw /\ p[n + 1][2] \in ns
    BY <1>1, <2>2, Zenon
  <2>6. More(o, p, kw, ns)
    BY <2>2, <2>4, <2>5, Zenon DEF More, n
  <2>7. QED
    BY <1>2, <2>6, Zenon DEF p, x
<1>3. CASE kw \notin OpTypes
  <2>1. n \in Nat
    BY LenProperties
  <2>2. Own(kw) = 0
    BY <1>3, Zenon DEF Own
  <2> HIDE DEF n
  <2>3. /\ n + Own(kw) <= n
        /\ \A i \in 1 .. n : i > n + Own(kw) => o[i] = <<"query", "">>
    <3>1. n + 0 <= n /\ \A i \in 1 .. n : ~ (i > n + 0)
      BY <2>1, NothingBehind, Zenon
    <3>2. QED
      BY <2>2, <3>1, Zenon
  <2>4. More(o, o, kw, ns)
    BY <1>3, <2>3, Zenon DEF More, n
  <2>5. QED
    BY <1>3, <2>4, Zenon
<1>4. QED
  BY <1>2, <1>3, Zenon

\* An operation is made up.
LEMMA MoreAgain ==
  ASSUME NEW o \in Seq(Entry), NEW p \in Seq(Entry), NEW kw, NEW ns, More(o, p, kw, ns)
  PROVE  More(o, Append(p, <<"query", "">>), kw, ns)
<1> DEFINE x == <<"query", "">>
           q == Append(p, x)
           n == Len(o)
           l == Len(p)
<1>1. x \in Entry
  BY Zenon DEF Entry, OpTypes
<1>2. /\ l \in Nat /\ Len(q) = l + 1 /\ q[l + 1] = x
      /\ \A i \in 1 .. l : q[i] = p[i]
  <2> HIDE DEF x
  <2>1. QED
    BY <1>1, Appended, Zenon
<1>3. n \in Nat
  BY LenProperties
<1> DEFINE w == Own(kw)
<1>4. w \in Nat /\ (kw \in OpTypes => w = 1)
  BY DEF Own
<1>5. /\ n + w <= l
      /\ \A i \in 1 .. n : p[i] = o[i]
      /\ kw \in OpTypes => p[n + 1][1] = kw /\ p[n + 1][2] \in ns
      /\ \A i \in 1 .. l : i > n + w => p[i] = x
  BY Zenon DEF More
<1> HIDE DEF x, q, n, l, w
<1>6. n + w <= Len(q) /\ \A i \in 1 .. n : i \in 1 .. l
  <2>1. l \in Nat /\ Len(q) = l + 1 /\ n + w <= l /\ w \in Nat
    BY <1>2, <1>4, <1>5, Zenon
  <2>2. QED
    BY <1>3, <2>1
<1>7. \A i \in 1 .. n : q[i] = o[i]
  BY <1>2, <1>5, <1>6, Zenon
<1>8. \A i \in 1 .. Len(q) : i > n + w => q[i] = x
  <2>1. \A i \in 1 .. Len(q) : i \in 1 .. l \/ i = l + 1
    BY <1>2
  <2>2. QED
    BY <1>2, <1>5, <2>1, Zenon
<1>9. kw \in OpTypes => q[n + 1][1] = kw /\ q[n + 1][2] \in ns
  <2>1. kw \in OpTypes => n + 1 \in 1 .. l
    <3>1. l \in Nat /\ n + w <= l
      BY <1>2, <1>5, Zenon
    <3>2. w = 1 => n + 1 \in 1 .. l
      BY <1>3, <3>1
    <3>3. QED
      BY <1>4, <3>2, Zenon
  <2>2. QED
    BY <1>2, <1>5, <2>1, Zenon
<1>10. QED
  BY <1>6, <1>7, <1>8, <1>9, Zenon DEF More, x, q, n, w

\* Nothing in a text outside of braces looks like a definition, once there
\* were braces.
Clear(e) ==
  \A j, k \in 1 .. Len(e) : j < k /\ e[j] = "{" /\ Depth(e)[k] = 0 => e[k] \notin Keywords

\* What the scanner knows after some of the text between a name and the
\* selection set: before an object all that it knew, after it no definition.
Before(e, k) == \A j \in 1 .. k : e[j] # "{"
Keeps(o, kw, ns, r) == r.depth = 0 /\ r.ops = o /\ r.kw = kw /\ r.name \in ns
Loses(o, kw, ns, r) == r.kw = "" /\ r.name = "" /\ More(o, r.ops, kw, ns)
Passed(o, kw, ns, e, k, r) ==
  /\ r \in ScanRec /\ r.depth = Depth(e)[k]
  /\ \/ Before(e, k) /\ Keeps(o, kw, ns, r)
     \/ ~Before(e, k) /\ Loses(o, kw, ns, r)

\* An opening brace outside of braces ends a definition.
LEMMA DefinitionEnds ==
  ASSUME NEW o \in Seq(Entry), NEW kw \in Keywords, NEW ns, NEW r \in ScanRec,
         \/ Keeps(o, kw, ns, r)
         \/ Loses(o, kw, ns, r)
  PROVE  More(o, Noted(r), kw, ns)
<1>1. "" \notin OpTypes /\ "" \notin Keywords
  BY Zenon DEF OpTypes, Keywords
<1>2. CASE Keeps(o, kw, ns, r)
  <2>1. r.kw = kw /\ r.ops = o /\ kw # ""
    BY <1>1, <1>2, Zenon DEF Keeps
  <2>2. Noted(r) = IF kw \in OpTypes THEN Append(o, <<kw, r.name>>) ELSE o
    BY <2>1, Zenon DEF Noted
  <2>3. r.name \in Words \cup {""}
    BY TypedState, Zenon
  <2> DEFINE m == r.name
  <2>4. More(o, IF kw \in OpTypes THEN Append(o, <<kw, m>>) ELSE o, kw, ns)
    BY <1>2, <2>3, MoreFirst, Zenon DEF Keeps
  <2>5. QED
    BY <2>2, <2>4, Zenon
<1>3. CASE Loses(o, kw, ns, r)
  <2>1. r.kw = "" /\ r.ops \in Seq(Entry) /\ More(o, r.ops, kw, ns)
    BY <1>3, TypedState, Zenon DEF Loses
  <2>2. Noted(r) = Append(r.ops, <<"query", "">>)
    BY <1>1, <2>1, Zenon DEF Noted
  <2>3. QED
    BY <2>1, <2>2, MoreAgain, Zenon
<1>4. QED
  BY <1>2, <1>3, Zenon

\* A name stays when words follow, or may be any.
Sticky(ns) == ns = Words \cup {""} \/ "" \notin ns

\* One token more.
LEMMA PassedNext ==
  ASSUME NEW o \in Seq(Entry), NEW kw \in Keywords, NEW ns, Sticky(ns), NEW e \in Seq(Symbols),
         Balanced(e), Clear(e), NEW k \in Nat, k + 1 <= Len(e), NEW r,
         Passed(o, kw, ns, e, k, r)
  PROVE  Passed(o, kw, ns, e, k + 1, Scan(r, e[k + 1]))
<1> DEFINE x == e[k + 1]
           D(j) == Depth(e)[j]
           l == Len(e)
           q == Scan(r, x)
           d == r.depth
<1>1. l \in Nat /\ x \in Symbols /\ k + 1 \in 1 .. l /\ k \in 0 .. l /\ k + 1 \in 0 .. l
  OBVIOUS
<1>2. D(k + 1) = D(k) + Turn(x) /\ D(k) \in Int /\ D(k + 1) \in Int
  BY <1>1, DepthNext
<1>3. D(k) >= 0 /\ D(k + 1) >= 0
  BY <1>1, Zenon DEF Balanced
<1>4. r \in ScanRec /\ d = D(k)
  BY Zenon DEF Passed
<1>5. ~ (d > 0) => d = 0
  <2> HIDE DEF D, d
  <2>1. QED
    BY <1>2, <1>3, <1>4
<1>6. d > 0 => d # 0
  <2> HIDE DEF D, d
  <2>1. QED
    BY <1>2, <1>3, <1>4
<1>7. /\ x = "{" => ~Before(e, k + 1)
      /\ x # "{" => (Before(e, k + 1) <=> Before(e, k))
  <2>1. \A j \in 1 .. (k + 1) : j \in 1 .. k \/ j = k + 1
    OBVIOUS
  <2>2. \A j \in 1 .. k : j \in 1 .. (k + 1)
    OBVIOUS
  <2>3. k + 1 \in 1 .. (k + 1)
    OBVIOUS
  <2>4. QED
    BY <2>1, <2>2, <2>3, Zenon DEF Before
<1>8. ~Before(e, k) => ~Before(e, k + 1)
  BY <1>7, Zenon
<1>9. CASE d > 0
  <2>1. ~Before(e, k) /\ Loses(o, kw, ns, r)
    BY <1>6, <1>9, Zenon DEF Passed, Keeps
  <2>2. q \in ScanRec /\ Same(r, q) /\ q.depth = d + Turn(x)
    BY <1>1, <1>4, <1>9, InBraces, Zenon DEF Inside
  <2>3. Loses(o, kw, ns, q)
    BY <2>1, <2>2, Zenon DEF Loses, Same
  <2>4. QED
    BY <1>2, <1>4, <1>8, <2>1, <2>2, <2>3, Zenon DEF Passed
<1>10. CASE d = 0 /\ x = "{"
  <2>1. /\ q \in ScanRec /\ q.depth = d + 1
        /\ q.kw = "" /\ q.name = "" /\ q.ops = Noted(r)
    <3>1. /\ Scan(r, "{") \in ScanRec /\ Scan(r, "{").depth = d + 1
          /\ Scan(r, "{").kw = "" /\ Scan(r, "{").name = "" /\ Scan(r, "{").ops = Noted(r)
      BY <1>4, <1>10, OpeningBrace, Zenon
    <3>2. q = Scan(r, "{")
      BY <1>10, Zenon
    <3> HIDE DEF q
    <3>3. QED
      BY <3>1, <3>2, Zenon
  <2>2. \/ Keeps(o, kw, ns, r)
        \/ Loses(o, kw, ns, r)
    BY Zenon DEF Passed, Keeps
  <2>3. More(o, Noted(r), kw, ns)
    BY <1>4, <2>2, DefinitionEnds, Zenon
  <2>4. Loses(o, kw, ns, q)
    BY <2>1, <2>3, Zenon DEF Loses
  <2>5. Turn(x) = 1
    BY <1>10, Zenon DEF Turn
  <2>6. QED
    BY <1>2, <1>4, <1>7, <1>10, <2>1, <2>4, <2>5, Zenon DEF Passed
<1>11. CASE d = 0 /\ x = "}"
  <2>1. Turn(x) = 0 - 1
    BY <1>11 DEF Turn
  <2>2. FALSE
    <3> HIDE DEF D, d, x
    <3>1. D(k) = 0 /\ D(k + 1) = D(k) + (0 - 1)
      BY <1>2, <1>4, <1>11, <2>1, Zenon
    <3>2. QED
      BY <1>3, <3>1
  <2>3. QED
    BY <2>2, Zenon
<1>12. CASE d = 0 /\ x \in Symbols \ Braces
  <2>1. /\ q \in ScanRec /\ q.depth = d /\ q.ops = r.ops
        /\ r.kw # "" => q.kw = r.kw /\ (r.name # "" => q.name = r.name)
        /\ r.kw = "" => q.name = r.name /\ (x \notin Keywords => q.kw = "")
    BY <1>4, <1>12, OtherToken, Zenon
  <2>2. x # "{" /\ x # "}"
    BY <1>12, Zenon DEF Braces
  <2>3. D(k + 1) = D(k)
    <3>1. Turn(x) = 0
      BY <2>2, Zenon DEF Turn
    <3> HIDE DEF D, x
    <3>2. QED
      BY <1>2, <3>1
  <2>4. CASE Before(e, k) /\ Keeps(o, kw, ns, r)
    <3>1. kw # ""
      BY Zenon DEF Keywords, OpTypes
    <3>2. r.name \in ns /\ q.name \in Words \cup {""}
      BY <2>1, <2>4, TypedState, Zenon DEF Keeps
    <3>3. q.name \in ns
      BY <2>1, <2>4, <3>1, <3>2, Zenon DEF Keeps, Sticky
    <3>4. Keeps(o, kw, ns, q)
      BY <1>12, <2>1, <2>4, <3>1, <3>3, Zenon DEF Keeps
    <3>5. QED
      BY <1>4, <1>7, <2>1, <2>2, <2>3, <2>4, <3>4, Zenon DEF Passed
  <2>5. CASE ~Before(e, k) /\ Loses(o, kw, ns, r)
    <3>1. PICK j \in 1 .. k : e[j] = "{"
      BY <2>5, Zenon DEF Before
    <3>2. j \in 1 .. l /\ j < k + 1
      <4> HIDE DEF l
      <4>1. QED
        BY <1>1
    <3>3. x \notin Keywords
      BY <1>1, <1>4, <1>12, <2>3, <3>1, <3>2, Zenon DEF Clear
    <3>4. Loses(o, kw, ns, q)
      BY <2>1, <2>5, <3>3, Zenon DEF Loses
    <3>5. QED
      BY <1>4, <1>8, <2>1, <2>3, <2>5, <3>4, Zenon DEF Passed
  <2>6. QED
    BY <2>4, <2>5, Zenon DEF Passed
<1>13. QED
  BY <1>1, <1>5, <1>9, <1>10, <1>11, <1>12, Zenon DEF Braces

\* The text before the selection set.
LEMMA ExtraScanned ==
  ASSUME NEW s \in ScanRec, s.depth = 0, NEW kw \in Keywords, s.kw = kw,
         NEW ns, s.name \in ns, NEW e \in Seq(Symbols), Balanced(e), Clear(e),
         e # <<>> => Sticky(ns)
  PROVE  Passed(s.ops, kw, ns, e, Len(e), Scanned(s, e))
<1> DEFINE at(k) == ScanAt(s, e)[k]
           l == Len(e)
           o == s.ops
           P(k) == Passed(o, kw, ns, e, k, at(k))
           T == {k \in Nat : k <= l => P(k)}
<1>1. l \in Nat /\ (l # 0 => e # <<>>) /\ 1 .. 0 = {} /\ o \in Seq(Entry)
  <2>1. l \in Nat /\ (l # 0 => e # <<>>) /\ 1 .. 0 = {}
    OBVIOUS
  <2>2. o \in Seq(Entry)
    BY TypedState, Zenon
  <2>3. QED
    BY <2>1, <2>2, Zenon
<1>2. /\ at(0) = s /\ Scanned(s, e) = at(l)
      /\ \A k \in Nat : k + 1 <= l => at(k + 1) = Scan(at(k), e[k + 1])
  BY <1>1, ScanNext
<1>3. Depth(e)[0] = 0
  BY <1>1, DepthNext
<1> HIDE DEF at
<1>4. P(0)
  <2>1. Before(e, 0)
    BY <1>1, Zenon DEF Before
  <2>2. Keeps(o, kw, ns, s)
    BY Zenon DEF Keeps
  <2>3. QED
    BY <1>2, <1>3, <2>1, <2>2, Zenon DEF Passed
<1> HIDE DEF o
<1>5. ASSUME NEW k \in T PROVE k + 1 \in T
  <2>1. SUFFICES ASSUME k + 1 <= l PROVE P(k + 1)
    <3> HIDE DEF P
    <3>1. QED
      OBVIOUS
  <2>2. k \in Nat /\ k <= l /\ l # 0
    <3> HIDE DEF P, l
    <3>1. QED
      BY <1>1, <2>1
  <2>3. P(k) /\ Sticky(ns)
    <3> HIDE DEF P
    <3>1. QED
      BY <1>1, <2>2, Zenon
  <2>4. at(k + 1) = Scan(at(k), e[k + 1])
    BY <1>2, <2>1, <2>2, Zenon
  <2>5. Passed(o, kw, ns, e, k + 1, Scan(at(k), e[k + 1]))
    BY <1>1, <2>1, <2>2, <2>3, PassedNext, Zenon
  <2>6. QED
    BY <2>4, <2>5, Zenon
<1> HIDE DEF P
<1>6. T \in SUBSET Nat /\ (0 \in T <=> (0 <= l => P(0)))
  BY Zenon
<1>7. \A k \in Nat : k \in T => (k <= l => P(k))
  BY Zenon
<1> HIDE DEF T
<1>8. T = Nat
  BY <1>4, <1>5, <1>6, Induction
<1>9. l <= l
  <2> HIDE DEF l
  <2>1. QED
    BY <1>1
<1>10. P(l)
  BY <1>1, <1>7, <1>8, <1>9, Zenon
<1>11. QED
  BY <1>2, <1>10, Zenon DEF P, o

\* A text of one token, and of none.
LEMMA ScanOne ==
  ASSUME NEW s, NEW x
  PROVE  Scanned(s, <<x>>) = Scan(s, x) /\ Scanned(s, <<>>) = s
<1>1. Len(<<x>>) = 1 /\ <<x>>[1] = x /\ 1 \in Nat /\ 0 \in Nat /\ 0 + 1 = 1 /\ 1 <= 1
  OBVIOUS
<1>2. Len(<<>>) = 0
  OBVIOUS
<1>3. Scanned(s, <<x>>) = Scan(s, x)
  <2>1. /\ ScanAt(s, <<x>>)[0] = s
        /\ \A k \in Nat : k + 1 <= Len(<<x>>) =>
             ScanAt(s, <<x>>)[k + 1] = Scan(ScanAt(s, <<x>>)[k], <<x>>[k + 1])
        /\ Scanned(s, <<x>>) = ScanAt(s, <<x>>)[Len(<<x>>)]
    BY <1>1, ScanNext
  <2> DEFINE g == ScanAt(s, <<x>>)
             y == <<x>>
  <2>2. /\ g[0] = s
        /\ \A k \in Nat : k + 1 <= Len(y) => g[k + 1] = Scan(g[k], y[k + 1])
        /\ Scanned(s, y) = g[Len(y)] /\ Len(y) = 1 /\ y[1] = x
    BY <1>1, <2>1, Zenon
  <2> HIDE DEF g, y
  <2>3. g[0 + 1] = Scan(g[0], y[0 + 1])
    BY <1>1, <2>2, Zenon
  <2>4. g[1] = Scan(s, x)
    BY <1>1, <2>2, <2>3, Zenon
  <2>5. QED
    BY <2>2, <2>4, Zenon DEF y
<1>4. Scanned(s, <<>>) = s
  <2>1. ScanAt(s, <<>>)[0] = s /\ Scanned(s, <<>>) = ScanAt(s, <<>>)[Len(<<>>)]
    BY <1>1, <1>2, ScanNext
  <2>2. QED
    BY <1>2, <2>1, Zenon
<1>5. QED
  BY <1>3, <1>4, Zenon

\* A scanner outside of definitions.
Fresh(r) == r \in ScanRec /\ r.depth = 0 /\ r.kw = "" /\ r.name = "" /\ r.skip = 0

\* The name that the scanner takes for a definition's: "on" is none to it, and
\* without one, a word behind may be.
Spoken(x) == IF x = "on" THEN "" ELSE x
Called(d) == Spoken(d.name)
Names(d)  == IF d.name = "" THEN Words \cup {""} ELSE {Called(d)}

\* A scanner in a definition.
Begun(r, o, kw, m) == r \in ScanRec /\ r.depth = 0 /\ r.ops = o /\ r.kw = kw /\ r.name = m

\* Keywords and words are no symbols.
LEMMA WordsAre ==
  /\ \A x \in Words : x # "{" /\ x # "}" /\ x # "@" /\ x # ""
  /\ \A x \in Keywords : x \in Words /\ Keyword(x) = x
BY DEF Keywords, OpTypes, Words, Keyword

\* Numbers that the scanner uses.
LEMMA Small == ~ (0 > 0) /\ 0 # 1 /\ 0 \in Nat /\ 0 \in {0, 1} /\ 1 \in {0, 1}
OBVIOUS

\* A sequence of two.
LEMMA PairIs ==
  ASSUME NEW x, NEW y
  PROVE  <<x, y>> = <<x>> \o <<y>>
<1> DEFINE S == {x, y}
           a == <<x>>
           b == <<y>>
           c == a \o b
           p == <<x, y>>
<1>1. a \in Seq(S) /\ b \in Seq(S) /\ Len(a) = 1 /\ Len(b) = 1 /\ a[1] = x /\ b[1] = y
  OBVIOUS
<1>2. p \in Seq(S) /\ Len(p) = 2 /\ p[1] = x /\ p[2] = y
  OBVIOUS
<1> HIDE DEF S, a, b, p
<1>3. /\ c \in Seq(S) /\ Len(c) = Len(a) + Len(b)
      /\ \A i \in 1 .. (Len(a) + Len(b)) : c[i] = IF i <= Len(a) THEN a[i] ELSE b[i - Len(a)]
  BY <1>1, ConcatProperties, Zenon
<1> HIDE DEF c
<1>4. Len(c) = 2 /\ c[1] = x /\ c[2] = y
  BY <1>1, <1>3
<1>5. \A i \in 1 .. Len(c) : c[i] = p[i]
  BY <1>2, <1>4
<1>6. c = p
  BY <1>2, <1>3, <1>4, <1>5, SeqEqual
<1>7. QED
  BY <1>6, Zenon DEF c, p, a, b

\* Texts of one token and of two.
LEMMA Texts ==
  ASSUME NEW S, NEW x \in S, NEW y \in S
  PROVE  /\ <<x>> \in Seq(S) /\ <<y>> \in Seq(S) /\ <<x, y>> = <<x>> \o <<y>>
         /\ \A b \in Seq(S) : b \o <<y>> \in Seq(S) /\ <<x>> \o b \in Seq(S)
<1>1. <<x>> \in Seq(S) /\ <<y>> \in Seq(S)
  OBVIOUS
<1>2. <<x, y>> = <<x>> \o <<y>>
  BY PairIs, Zenon
<1>3. \A b \in Seq(S) : b \o <<y>> \in Seq(S) /\ <<x>> \o b \in Seq(S)
  BY <1>1, ConcatProperties, Zenon
<1>4. QED
  BY <1>1, <1>2, <1>3, Zenon

\* The scanner reads tokens one after the other.
LEMMA Joined ==
  \A s : \A a, b \in Seq(Symbols) : Scanned(s, a \o b) = Scanned(Scanned(s, a), b)
BY ScanJoin

\* A keyword begins a definition.
LEMMA KeywordScanned ==
  ASSUME NEW s, Fresh(s), NEW kw \in Keywords
  PROVE  /\ Scan(s, kw) \in ScanRec
         /\ Holds(Scan(s, kw), s.ops, 0, kw, "", 0)
<1>1. /\ kw # "{" /\ kw # "}" /\ kw # "@" /\ kw \in Words /\ Keyword(kw) = kw /\ 0 # 1
  BY WordsAre, Small, Zenon
<1>2. ~ (0 > 0)
  BY Small, Zenon
<1>3. Scan(s, kw) = Word(s, kw)
  BY <1>1, <1>2, Zenon DEF Scan, Fresh
<1>4. Word(s, kw) = State(s.ops, 0, kw, "", 0)
  BY <1>1, Zenon DEF Word, Fresh
<1>5. s.ops \in Seq(Entry) /\ 0 \in Nat /\ 0 \in {0, 1}
  BY Small, TypedState, Zenon DEF Fresh
<1>6. State(s.ops, 0, kw, "", 0) \in ScanRec
  <2>1. kw \in Keywords \cup {""} /\ "" \in Words \cup {""}
    BY Zenon
  <2>2. QED
    BY <1>5, <2>1, StateTyped, Zenon
<1>7. QED
  BY <1>3, <1>4, <1>6, StateHolds, Zenon

\* A name follows it.
LEMMA NameScanned ==
  ASSUME NEW o \in Seq(Entry), NEW kw \in Keywords, NEW s \in ScanRec,
         Holds(s, o, 0, kw, "", 0), NEW x \in Words
  PROVE  Begun(Scan(s, x), o, kw, Spoken(x))
<1>1. x # "{" /\ x # "}" /\ x # "@" /\ kw # "" /\ 0 # 1
  BY WordsAre, Small, Zenon
<1>2. ~ (0 > 0) /\ 0 \in Nat /\ 0 \in {0, 1} /\ 1 \in {0, 1}
  BY Small, Zenon
<1>3. Scan(s, x) = Word(s, x)
  BY <1>1, <1>2, Zenon DEF Scan, Holds
<1>4. CASE x = "on"
  <2>1. Scan(s, x) = State(o, 0, kw, "", 1)
    BY <1>1, <1>3, <1>4, Zenon DEF Word, Holds
  <2>2. Holds(Scan(s, x), o, 0, kw, "", 1)
    BY <2>1, StateHolds
  <2>3. kw \in Keywords \cup {""} /\ "" \in Words \cup {""}
    BY Zenon
  <2>4. State(o, 0, kw, "", 1) \in ScanRec
    BY <1>2, <2>3, StateTyped, Zenon
  <2>5. QED
    BY <1>4, <2>1, <2>2, <2>4, Zenon DEF Holds, Spoken, Begun
<1>5. CASE x # "on"
  <2>1. Scan(s, x) = State(o, 0, kw, x, 0)
    BY <1>1, <1>3, <1>5, Zenon DEF Word, Holds
  <2>2. Holds(Scan(s, x), o, 0, kw, x, 0)
    BY <2>1, StateHolds
  <2>3. kw \in Keywords \cup {""} /\ x \in Words \cup {""}
    BY Zenon
  <2>4. State(o, 0, kw, x, 0) \in ScanRec
    BY <1>2, <2>3, StateTyped, Zenon
  <2>5. QED
    BY <1>5, <2>1, <2>2, <2>4, Zenon DEF Holds, Spoken, Begun
<1>6. QED
  BY <1>4, <1>5, Zenon

\* The parts of a definition.
LEMMA DefTypes ==
  ASSUME NEW d \in DefShape
  PROVE  /\ d.kind \in Keywords /\ d.short \in BOOLEAN /\ d.name \in Words \cup {""}
         /\ d.extra \in Seq(Symbols) /\ d.body \in Seq(Symbols) /\ d.before \in Seq(Symbols)
BY Zenon DEF DefShape, Keywords

\* The beginning of a definition.
LEMMA OpeningScanned ==
  ASSUME NEW d \in DefShape, ~d.short, NEW s, Fresh(s)
  PROVE  Begun(Scanned(s, Opening(d)), s.ops, d.kind, Called(d))
<1> DEFINE kw == d.kind
           x == d.name
           t == Scan(s, kw)
<1>1. kw \in Keywords /\ x \in Words \cup {""}
  BY DefTypes, Zenon
<1>2. t \in ScanRec /\ Holds(t, s.ops, 0, kw, "", 0) /\ s.ops \in Seq(Entry)
  BY <1>1, KeywordScanned, TypedState, Zenon DEF Fresh
<1>3. CASE x = ""
  <2>1. Opening(d) = <<kw>>
    BY <1>3, Zenon DEF Opening
  <2>2. Scanned(s, Opening(d)) = t
    BY <2>1, ScanOne, Zenon
  <2>3. Called(d) = ""
    BY <1>3, Zenon DEF Called, Spoken
  <2>4. QED
    BY <1>2, <2>2, <2>3, Zenon DEF Holds, Begun
<1>4. CASE x # ""
  <2>1. x \in Words
    BY <1>1, <1>4, Zenon
  <2>2. Opening(d) = <<kw, x>>
    BY <1>4, Zenon DEF Opening
  <2>3. <<kw, x>> = <<kw>> \o <<x>> /\ <<kw>> \in Seq(Symbols) /\ <<x>> \in Seq(Symbols)
    <3>1. kw \in Symbols /\ x \in Symbols
      BY <1>1, <2>1, Zenon DEF Symbols, Words, Keywords
    <3>2. QED
      BY <3>1, Texts, Zenon
  <2>4. Scanned(s, <<kw>>) = t /\ Scanned(t, <<x>>) = Scan(t, x)
    BY ScanOne, Zenon
  <2>5. Scanned(s, Opening(d)) = Scan(t, x)
    <3>1. Scanned(s, <<kw>> \o <<x>>) = Scanned(Scanned(s, <<kw>>), <<x>>)
      BY <2>3, Joined, Zenon
    <3> DEFINE a == <<kw>>
               b == <<x>>
    <3>2. /\ Scanned(s, a \o b) = Scanned(Scanned(s, a), b) /\ Opening(d) = a \o b
          /\ Scanned(s, a) = t /\ Scanned(t, b) = Scan(t, x)
      BY <2>2, <2>3, <2>4, <3>1, Zenon
    <3> HIDE DEF a, b
    <3>3. QED
      BY <3>2
  <2> HIDE DEF t
  <2>6. Begun(Scan(t, x), s.ops, kw, Spoken(x))
    BY <1>1, <1>2, <2>1, NameScanned, Zenon
  <2>7. Called(d) = Spoken(x)
    BY Zenon DEF Called
  <2>8. QED
    BY <2>5, <2>6, <2>7, Zenon
<1>5. QED
  BY <1>3, <1>4, Zenon

\* The selection set ends the definition.
LEMMA SelectionScanned ==
  ASSUME NEW s \in ScanRec, s.depth = 0, NEW b \in Seq(Symbols), Balanced(b)
  PROVE  LET r == Scanned(s, <<"{">> \o (b \o <<"}">>))
         IN  Fresh(r) /\ r.ops = Noted(s)
<1> DEFINE t == Scan(s, "{")
           u == Scanned(t, b)
           r == Scan(u, "}")
<1>1. t \in ScanRec /\ t.depth = 0 + 1 /\ t.kw = "" /\ t.name = "" /\ t.skip = 0
      /\ t.ops = Noted(s)
  BY OpeningBrace, Zenon
<1>2. 0 + 1 > 0 /\ (0 + 1) - 1 = 0
  OBVIOUS
<1>3. t \in Inside
  BY <1>1, <1>2, Zenon DEF Inside
<1> HIDE DEF t
<1>4. u \in ScanRec /\ Same(t, u) /\ u.depth = 0 + 1
  BY <1>1, <1>3, BodyScanned, Zenon
<1> HIDE DEF u
<1>5. /\ r \in ScanRec /\ r.depth = 0 /\ r.ops = u.ops /\ r.kw = u.kw
      /\ r.name = u.name /\ r.skip = u.skip
  BY <1>2, <1>4, ClosingBrace, Zenon
<1> HIDE DEF r
<1>6. Fresh(r) /\ r.ops = Noted(s)
  BY <1>1, <1>4, <1>5, Zenon DEF Fresh, Same
<1>7. Scanned(s, <<"{">> \o (b \o <<"}">>)) = r
  <2>1. /\ <<"{">> \in Seq(Symbols) /\ <<"}">> \in Seq(Symbols)
        /\ b \o <<"}">> \in Seq(Symbols)
    <3>1. "{" \in Symbols /\ "}" \in Symbols
      BY Zenon DEF Symbols, Braces
    <3>2. QED
      BY <3>1, Texts, Zenon
  <2>2. Scanned(s, <<"{">> \o (b \o <<"}">>)) = Scanned(Scanned(s, <<"{">>), b \o <<"}">>)
    BY <2>1, Joined, Zenon
  <2>3. Scanned(t, b \o <<"}">>) = Scanned(u, <<"}">>)
    BY <2>1, Joined, Zenon DEF u
  <2>4. Scanned(s, <<"{">>) = t /\ Scanned(u, <<"}">>) = r
    BY ScanOne, Zenon DEF t, r
  <2>5. QED
    BY <2>2, <2>3, <2>4, Zenon
<1>8. QED
  BY <1>6, <1>7, Zenon

\* A list that has grown by one definition.
Grown(o, p, d) ==
  /\ p \in Seq(Entry) /\ More(o, p, d.kind, Names(d))
  /\ ~Objects(d) => Len(p) = Len(o) + Own(d.kind)

\* A definition is well-formed, and does not mislead the scanner.
Plain(d) ==
  /\ d \in DefShape /\ Balanced(d.extra) /\ Balanced(d.body) /\ ~Misleads(d)
  /\ d.short => d.kind = "query" /\ d.name = "" /\ d.extra = <<>>

\* What noting an operation adds.
LEMMA NotedLength ==
  ASSUME NEW o \in Seq(Entry), NEW kw \in Keywords, NEW r \in ScanRec, r.ops = o, r.kw = kw
  PROVE  Len(Noted(r)) = Len(o) + Own(kw)
<1> DEFINE n == Len(o)
           m == r.name
<1>1. kw # ""
  BY WordsAre, Zenon
<1>2. m \in Words \cup {""}
  BY TypedState, Zenon
<1>3. n \in Nat
  BY LenProperties
<1>4. CASE kw \in OpTypes
  <2>1. <<kw, m>> \in Entry
    BY <1>2, <1>4, Zenon DEF Entry
  <2> DEFINE x == <<kw, m>>
  <2>2. Noted(r) = Append(o, x)
    BY <1>4, Zenon DEF Noted
  <2> HIDE DEF x, n, m
  <2>3. Len(Append(o, x)) = n + 1
    BY <2>1, Appended, Zenon DEF n, x
  <2>4. Own(kw) = 1
    BY <1>4, Zenon DEF Own
  <2>5. QED
    BY <2>2, <2>3, <2>4, Zenon DEF n
<1>5. CASE kw \notin OpTypes
  <2>1. Noted(r) = o
    BY <1>1, <1>5, Zenon DEF Noted
  <2>2. Own(kw) = 0
    BY <1>5, Zenon DEF Own
  <2>3. n = n + 0
    <3> HIDE DEF n
    <3>1. QED
      BY <1>3
  <2>4. QED
    BY <2>1, <2>2, <2>3, Zenon
<1>6. QED
  BY <1>4, <1>5, Zenon

\* Nothing is a text.
LEMMA EmptyText == <<>> \in Seq(Symbols)
OBVIOUS

\* The beginning of a definition is a text.
LEMMA OpeningTyped ==
  ASSUME NEW d \in DefShape
  PROVE  Opening(d) \in Seq(Symbols)
<1> DEFINE kw == d.kind
           x == d.name
<1>1. kw \in Symbols /\ (x # "" => x \in Symbols)
  BY DefTypes, WordsAre, Zenon DEF Symbols
<1>2. CASE x = ""
  BY <1>1, <1>2, Texts, EmptyText, Zenon DEF Opening
<1>3. CASE x # ""
  <2>1. <<kw>> \in Seq(Symbols) /\ <<x>> \in Seq(Symbols) /\ <<kw, x>> = <<kw>> \o <<x>>
    BY <1>1, <1>3, Texts, Zenon
  <2>2. <<kw>> \o <<x>> \in Seq(Symbols)
    BY <2>1, ConcatProperties, Zenon
  <2>3. QED
    BY <1>3, <2>1, <2>2, EmptyText, Zenon DEF Opening
<1>4. QED
  BY <1>2, <1>3, Zenon

\* A definition is a text.
LEMMA TokensTyped ==
  ASSUME NEW d \in DefShape
  PROVE  Tokens1(d) \in Seq(Symbols)
<1>1. d.extra \in Seq(Symbols) /\ d.body \in Seq(Symbols) /\ Opening(d) \in Seq(Symbols)
  BY DefTypes, OpeningTyped, Zenon
<1>2. "{" \in Symbols /\ "}" \in Symbols
  BY Zenon DEF Symbols, Braces
<1> DEFINE end == <<"{">> \o (d.body \o <<"}">>)
<1>3. end \in Seq(Symbols)
  BY <1>1, <1>2, Texts, Zenon
<1> HIDE DEF end
<1>4. d.extra \o end \in Seq(Symbols)
  BY <1>1, <1>3, ConcatProperties, Zenon
<1>5. Opening(d) \o (d.extra \o end) \in Seq(Symbols)
  BY <1>1, <1>4, ConcatProperties, Zenon
<1>6. QED
  BY <1>5, Zenon DEF Tokens1, end

\* Scanning a definition.
LEMMA DefScanned ==
  ASSUME NEW d, Plain(d), NEW s, Fresh(s)
  PROVE  /\ Fresh(Scanned(s, Tokens1(d)))
         /\ Grown(s.ops, Scanned(s, Tokens1(d)).ops, d)
<1> DEFINE e == d.extra
           b == d.body
           o == s.ops
           kw == d.kind
           ns == Names(d)
           r == Scanned(s, Tokens1(d))
           end == <<"{">> \o (b \o <<"}">>)
<1>1. /\ d \in DefShape /\ kw \in Keywords /\ d.name \in Words \cup {""}
      /\ e \in Seq(Symbols) /\ b \in Seq(Symbols) /\ Balanced(e) /\ Balanced(b)
  BY DefTypes, Zenon DEF Plain
<1>2. o \in Seq(Entry)
  BY TypedState, Zenon DEF Fresh
<1>3. end \in Seq(Symbols)
  <2>1. "{" \in Symbols /\ "}" \in Symbols
    BY Zenon DEF Symbols, Braces
  <2>2. QED
    BY <1>1, <2>1, Texts, Zenon
<1>4. ASSUME NEW t \in ScanRec, t.depth = 0, r = Scanned(t, end),
             \/ Keeps(o, kw, ns, t)
             \/ Loses(o, kw, ns, t) /\ Objects(d)
             \/ t = s /\ kw = "query" /\ ns = Words \cup {""}
      PROVE  Fresh(r) /\ Grown(o, r.ops, d)
  <2>1. Fresh(r) /\ r.ops = Noted(t)
    BY <1>1, <1>4, SelectionScanned, Zenon
  <2>2. r.ops \in Seq(Entry)
    BY <2>1, TypedState, Zenon DEF Fresh
  <2>3. CASE Keeps(o, kw, ns, t)
    <3>1. More(o, Noted(t), kw, ns)
      BY <1>1, <1>2, <1>4, <2>3, DefinitionEnds, Zenon
    <3>2. Len(Noted(t)) = Len(o) + Own(kw)
      BY <1>1, <1>2, <1>4, <2>3, NotedLength, Zenon DEF Keeps
    <3>3. QED
      BY <2>1, <2>2, <3>1, <3>2, Zenon DEF Grown
  <2>4. CASE Loses(o, kw, ns, t) /\ Objects(d)
    <3>1. More(o, Noted(t), kw, ns)
      BY <1>1, <1>2, <1>4, <2>4, DefinitionEnds, Zenon
    <3>2. QED
      BY <2>1, <2>2, <2>4, <3>1, Zenon DEF Grown
  <2>5. CASE t = s /\ kw = "query" /\ ns = Words \cup {""}
    <3>1. "query" \in OpTypes /\ "" \notin OpTypes /\ "" \in Words \cup {""}
      BY Zenon DEF OpTypes
    <3>2. Noted(t) = Append(o, <<"query", "">>)
      BY <2>5, <3>1, Zenon DEF Noted, Fresh
    <3>3. More(o, IF kw \in OpTypes THEN Append(o, <<kw, "">>) ELSE o, kw, ns)
      BY <1>1, <1>2, <2>5, <3>1, MoreFirst, Zenon
    <3>4. More(o, Noted(t), kw, ns)
      BY <2>5, <3>1, <3>2, <3>3, Zenon
    <3>5. Len(Noted(t)) = Len(o) + 1
      <4>1. <<"query", "">> \in Entry
        BY <3>1, Zenon DEF Entry
      <4> DEFINE x == <<"query", "">>
      <4>2. x \in Entry /\ Noted(t) = Append(o, x)
        BY <3>2, <4>1, Zenon
      <4> HIDE DEF x
      <4>3. Len(Append(o, x)) = Len(o) + 1
        BY <1>2, <4>2, Appended, Zenon
      <4>4. QED
        BY <4>2, <4>3, Zenon
    <3>6. Own(kw) = 1
      BY <2>5, <3>1, Zenon DEF Own
    <3>7. QED
      BY <2>1, <2>2, <3>4, <3>5, <3>6, Zenon DEF Grown
  <2>6. QED
    BY <1>4, <2>3, <2>4, <2>5, Zenon
<1>5. CASE d.short
  <2>1. Opening(d) = <<>> /\ e = <<>> /\ kw = "query" /\ d.name = ""
    BY <1>5, Zenon DEF Opening, Plain
  <2>2. <<>> \o (<<>> \o end) = end
    <3> HIDE DEF end
    <3>1. QED
      BY <1>3, ConcatEmptySeq
  <2>3. Tokens1(d) = end
    BY <2>1, <2>2, Zenon DEF Tokens1
  <2>4. ns = Words \cup {""}
    BY <2>1, Zenon DEF Names
  <2>5. s \in ScanRec /\ s.depth = 0 /\ r = Scanned(s, end)
    BY <2>3, Zenon DEF Fresh
  <2>6. QED
    BY <1>4, <2>1, <2>4, <2>5, Zenon
<1>6. CASE ~d.short
  <2> DEFINE u == Scanned(s, Opening(d))
             t == Scanned(u, e)
  <2>1. Begun(u, o, kw, Called(d))
    BY <1>1, <1>6, OpeningScanned, Zenon
  <2>2. Clear(e)
    <3>1. \A j, k \in 1 .. Len(e) :
            j < k /\ e[j] = "{" /\ Depth(e)[k] = 0 => e[k] \notin Keywords
      <4>1. DOMAIN e = 1 .. Len(e)
        BY <1>1, LenProperties, Zenon
      <4>2. QED
        BY <4>1, Zenon DEF Plain, Misleads, Keywords
    <3>2. QED
      BY <3>1, Zenon DEF Clear
  <2>3. Called(d) \in ns
    <3>1. CASE d.name = ""
      BY <3>1 DEF Called, Spoken, Names
    <3>2. CASE d.name # ""
      BY <3>2, Zenon DEF Names
    <3>3. QED
      BY <3>1, <3>2, Zenon
  <2>4. e # <<>> => Sticky(ns)
    <3>1. CASE d.name = ""
      BY <3>1, Zenon DEF Names, Sticky
    <3>2. CASE d.name # "" /\ d.name # "on"
      BY <3>2, Zenon DEF Names, Sticky, Called, Spoken
    <3>3. CASE d.name = "on"
      BY <3>3, Zenon DEF Plain, Misleads
    <3>4. QED
      BY <3>1, <3>2, <3>3, Zenon
  <2>5. u \in ScanRec /\ u.depth = 0 /\ u.kw = kw /\ u.ops = o /\ u.name \in ns
    BY <2>1, <2>3, Zenon DEF Begun
  <2>6. Passed(o, kw, ns, e, Len(e), t)
    <3> HIDE DEF u, ns, e
    <3>1. Passed(u.ops, kw, ns, e, Len(e), t)
      BY <1>1, <2>2, <2>4, <2>5, ExtraScanned, Zenon
    <3>2. QED
      BY <2>5, <3>1, Zenon
  <2>7. t \in ScanRec /\ t.depth = 0
    BY <1>1, <2>6, Zenon DEF Passed, Balanced
  <2>8. ~Before(e, Len(e)) => Objects(d)
    <3>1. DOMAIN e = 1 .. Len(e)
      BY <1>1, LenProperties, Zenon
    <3>2. QED
      BY <3>1, Zenon DEF Before, Objects
  <2>9. r = Scanned(t, end)
    <3>1. Opening(d) \in Seq(Symbols)
      BY OpeningTyped, Zenon DEF Plain
    <3>2. Tokens1(d) = Opening(d) \o (e \o end)
      BY Zenon DEF Tokens1
    <3> HIDE DEF end, e
    <3>3. e \o end \in Seq(Symbols)
      BY <1>1, <1>3, ConcatProperties, Zenon
    <3>4. Scanned(s, Opening(d) \o (e \o end)) = Scanned(u, e \o end)
      BY <3>1, <3>3, Joined, Zenon
    <3>5. Scanned(u, e \o end) = Scanned(t, end)
      BY <1>1, <1>3, Joined, Zenon
    <3>6. QED
      BY <3>2, <3>4, <3>5, Zenon
  <2>10. Keeps(o, kw, ns, t) \/ (Loses(o, kw, ns, t) /\ Objects(d))
    BY <2>6, <2>8, Zenon DEF Passed
  <2> HIDE DEF t
  <2>11. QED
    BY <1>4, <2>7, <2>9, <2>10, Zenon
<1>7. QED
  BY <1>5, <1>6, Zenon

\* A text after each of its parts.
Flats(g, f, n) == g = [k \in 0 .. n |-> IF k = 0 THEN <<>> ELSE g[k - 1] \o f[k]]
FlatAt(f) == CHOOSE g : Flats(g, f, Len(f))

\* There is a function that joins the parts.
LEMMA FlatsExist ==
  ASSUME NEW f, NEW m \in Nat
  PROVE  \E g : Flats(g, f, m)
<1> DEFINE E(g, n) == Flats(g, f, n)
           T == {n \in Nat : \E g : E(g, n)}
<1>1. 0 \in T
  <2>1. E([k \in 0 .. 0 |-> <<>>], 0)
    BY DEF Flats
  <2> HIDE DEF E
  <2>2. QED
    BY <2>1
<1>2. ASSUME NEW n \in T PROVE n + 1 \in T
  <2>1. PICK g : E(g, n)
    OBVIOUS
  <2> DEFINE h == [k \in 0 .. (n + 1) |-> IF k = n + 1 THEN g[n] \o f[k] ELSE g[k]]
  <2>2. \A k \in 0 .. n : g[k] = IF k = 0 THEN <<>> ELSE g[k - 1] \o f[k]
    BY <2>1 DEF Flats
  <2>3. \A k \in 0 .. (n + 1) : h[k] = IF k = 0 THEN <<>> ELSE h[k - 1] \o f[k]
    BY <2>2
  <2>4. E(h, n + 1)
    BY <2>3 DEF Flats
  <2> HIDE DEF E, h
  <2>5. QED
    BY <2>4
<1> HIDE DEF E
<1>3. T = Nat
  BY <1>1, <1>2, Induction
<1>4. QED
  BY <1>3 DEF E

\* A text begins empty, and a part is added to it.
LEMMA FlatNext ==
  ASSUME NEW f, Len(f) \in Nat
  PROVE  /\ FlatAt(f)[0] = <<>>
         /\ \A k \in Nat : k + 1 <= Len(f) => FlatAt(f)[k + 1] = FlatAt(f)[k] \o f[k + 1]
         /\ Flat(f) = FlatAt(f)[Len(f)]
<1> DEFINE U == FlatAt(f)
<1>1. Flats(U, f, Len(f))
  <2>1. \E g : Flats(g, f, Len(f))
    BY FlatsExist, Zenon
  <2>2. QED
    BY <2>1, Zenon DEF FlatAt
<1>2. Flat(f) = U[Len(f)]
  BY Zenon DEF Flat, FlatAt, Flats
<1> HIDE DEF U
<1>3. \A k \in 0 .. Len(f) : U[k] = IF k = 0 THEN <<>> ELSE U[k - 1] \o f[k]
  BY <1>1 DEF Flats
<1>4. U[0] = <<>>
  BY <1>3
<1>5. ASSUME NEW k \in Nat, k + 1 <= Len(f)
      PROVE  U[k + 1] = U[k] \o f[k + 1]
  <2>1. k + 1 \in 0 .. Len(f) /\ k + 1 # 0 /\ (k + 1) - 1 = k
    BY <1>5
  <2>2. QED
    BY <1>3, <2>1, Zenon
<1>6. QED
  BY <1>2, <1>4, <1>5, Zenon DEF U

\* The definitions of a document, each as its text.
Bare(d) == [i \in 1 .. Len(d) |-> Tokens1(d[i])]

\* They are as many.
LEMMA BareIs ==
  ASSUME NEW d \in Seq(DefShape)
  PROVE  /\ Len(d) \in Nat /\ Len(Bare(d)) = Len(d)
         /\ \A i \in 1 .. Len(d) : Bare(d)[i] = Tokens1(d[i])
<1>1. Len(d) \in Nat
  BY LenProperties, Zenon
<1> DEFINE l == Len(d)
           S == {Tokens1(d[i]) : i \in 1 .. l}
           f == [i \in 1 .. l |-> Tokens1(d[i])]
<1>2. f \in [1 .. l -> S]
  OBVIOUS
<1>3. \A i \in 1 .. l : f[i] = Tokens1(d[i])
  OBVIOUS
<1> HIDE DEF l, S, f
<1>4. Len(f) = l
  BY <1>1, <1>2 DEF l
<1>5. QED
  BY <1>1, <1>3, <1>4, Zenon DEF Bare, f, l

\* What the list says of the first n definitions of a document: each operation
\* is in it, and what is in it is one, or made up behind an object.
IsOp(d, i)     == d[i].kind \in OpTypes
Tells(x, d, i) == x[1] = d[i].kind /\ x[2] \in Names(d[i])
Lists(p, d, n) ==
  \A i \in 1 .. n : IsOp(d, i) => \E k \in 1 .. Len(p) : Tells(p[k], d, i)
Comes(x, d, n) ==
  \/ x = <<"query", "">> /\ \E i \in 1 .. n : Objects(d[i])
  \/ \E i \in 1 .. n : IsOp(d, i) /\ Tells(x, d, i)
Few(p, d, n) ==
  (\A i \in 1 .. n : ~Objects(d[i])) =>
    /\ (\A i \in 1 .. n : ~IsOp(d, i)) => Len(p) = 0
    /\ \A m : (\A i \in 1 .. n : IsOp(d, i) => i = m) => Len(p) <= 1
ListTold(p, d, n) ==
  /\ p \in Seq(Entry) /\ Lists(p, d, n) /\ Few(p, d, n)
  /\ \A k \in 1 .. Len(p) : Comes(p[k], d, n)

\* The numbers up to one more.
LEMMA OneMore ==
  ASSUME NEW n \in Nat
  PROVE  /\ n + 1 \in 1 .. (n + 1) /\ \A i \in 1 .. n : i \in 1 .. (n + 1) /\ i # n + 1
         /\ \A i \in 1 .. (n + 1) : i \in 1 .. n \/ i = n + 1
OBVIOUS

\* One definition more.
LEMMA ListGrows ==
  ASSUME NEW d, NEW n \in Nat, NEW p, ListTold(p, d, n), NEW q, Grown(p, q, d[n + 1]),
         d[n + 1].kind \in Keywords
  PROVE  ListTold(q, d, n + 1)
<1> DEFINE x == d[n + 1]
           lp == Len(p)
           lq == Len(q)
           w == Own(x.kind)
<1>1. p \in Seq(Entry) /\ q \in Seq(Entry)
  BY Zenon DEF ListTold, Grown
<1>2. lp \in Nat /\ lq \in Nat
  BY <1>1, LenProperties
<1>3. w \in {0, 1} /\ (IsOp(d, n + 1) => w = 1) /\ (~IsOp(d, n + 1) => w = 0)
  BY Zenon DEF Own, IsOp
<1>4. /\ lp + w <= lq
      /\ \A i \in 1 .. lp : q[i] = p[i]
      /\ IsOp(d, n + 1) => Tells(q[lp + 1], d, n + 1)
      /\ \A i \in 1 .. lq : i > lp + w => q[i] = <<"query", "">>
      /\ ~Objects(x) => lq = lp + w
  BY Zenon DEF Grown, More, IsOp, Tells
<1> HIDE DEF lp, lq, w, x
<1>5. /\ \A k \in 1 .. lp : k \in 1 .. lq
      /\ w = 1 => lp + 1 \in 1 .. lq
      /\ w = 0 => lp + 0 = lp
      /\ \A k \in 1 .. lq : k \in 1 .. lp \/ (w = 1 /\ k = lp + 1) \/ (k > lp + w /\ lq # lp + w)
  <2>1. lp + w <= lq /\ w \in {0, 1}
    BY <1>3, <1>4, Zenon
  <2>2. QED
    BY <1>2, <2>1
<1>6. Lists(q, d, n + 1)
  <2>1. SUFFICES ASSUME NEW i \in 1 .. (n + 1), IsOp(d, i)
                 PROVE  \E k \in 1 .. lq : Tells(q[k], d, i)
    BY Zenon DEF Lists, lq
  <2>2. CASE i \in 1 .. n
    <3>1. PICK k \in 1 .. lp : Tells(p[k], d, i)
      BY <2>1, <2>2, Zenon DEF ListTold, Lists, lp
    <3>2. QED
      BY <1>4, <1>5, <3>1, Zenon
  <2>3. CASE i = n + 1
    BY <1>3, <1>4, <1>5, <2>1, <2>3, Zenon
  <2>4. QED
    BY <2>2, <2>3, OneMore, Zenon
<1>7. ASSUME NEW k \in 1 .. lq PROVE Comes(q[k], d, n + 1)
  <2>1. CASE k \in 1 .. lp
    <3>1. Comes(q[k], d, n)
      BY <1>4, <2>1, Zenon DEF ListTold, lp
    <3>2. QED
      BY <3>1, OneMore, Zenon DEF Comes
  <2>2. CASE w = 1 /\ k = lp + 1
    <3>1. IsOp(d, n + 1) /\ Tells(q[k], d, n + 1)
      <4>1. 0 # 1
        OBVIOUS
      <4>2. QED
        BY <1>3, <1>4, <2>2, <4>1, Zenon
    <3>2. QED
      BY <3>1, OneMore, Zenon DEF Comes
  <2>3. CASE k > lp + w /\ lq # lp + w
    <3>1. q[k] = <<"query", "">> /\ Objects(d[n + 1])
      BY <1>4, <2>3, Zenon DEF x
    <3>2. QED
      BY <3>1, OneMore, Zenon DEF Comes
  <2>4. QED
    BY <1>5, <2>1, <2>2, <2>3, Zenon
<1>8. Few(q, d, n + 1)
  <2>1. SUFFICES ASSUME \A i \in 1 .. (n + 1) : ~Objects(d[i])
                 PROVE  /\ (\A i \in 1 .. (n + 1) : ~IsOp(d, i)) => lq = 0
                        /\ \A m : (\A i \in 1 .. (n + 1) : IsOp(d, i) => i = m) => lq <= 1
    BY Zenon DEF Few, lq
  <2>2. /\ (\A i \in 1 .. n : ~IsOp(d, i)) => lp = 0
        /\ \A m : (\A i \in 1 .. n : IsOp(d, i) => i = m) => lp <= 1
    BY <2>1, OneMore, Zenon DEF ListTold, Few, lp
  <2>3. lq = lp + w
    BY <1>4, <2>1, OneMore, Zenon DEF x
  <2>4. CASE ~IsOp(d, n + 1)
    <3>1. lq = lp
      BY <1>3, <1>5, <2>3, <2>4, Zenon
    <3>2. QED
      BY <2>2, <3>1, OneMore, Zenon
  <2>5. CASE IsOp(d, n + 1)
    <3>1. w = 1 /\ (lp = 0 => lq <= 1)
      <4>1. w = 1
        BY <1>3, <2>5, Zenon
      <4>2. lp = 0 => lq <= 1
        BY <1>2, <2>3, <4>1
      <4>3. QED
        BY <4>1, <4>2, Zenon
    <3>2. ASSUME NEW m, \A i \in 1 .. (n + 1) : IsOp(d, i) => i = m
          PROVE  lq <= 1
      <4>1. m = n + 1
        BY <2>5, <3>2, OneMore, Zenon
      <4>2. \A i \in 1 .. n : ~IsOp(d, i)
        BY <3>2, <4>1, OneMore, Zenon
      <4>3. QED
        BY <2>2, <3>1, <4>2, Zenon
    <3>3. QED
      BY <2>5, <3>2, OneMore, Zenon
  <2>6. QED
    BY <2>4, <2>5, Zenon
<1>9. QED
  BY <1>1, <1>6, <1>7, <1>8, Zenon DEF ListTold, lq

\* The scanner begins outside of definitions, with an empty list.
LEMMA ScannerFresh == Fresh(Scanner) /\ Scanner.ops = <<>>
<1>1. Holds(Scanner, <<>>, 0, "", "", 0)
  BY StateHolds, Zenon DEF Scanner
<1>2. <<>> \in Seq(Entry)
  OBVIOUS
<1>3. Scanner \in ScanRec
  <2>1. "" \in Keywords \cup {""} /\ "" \in Words \cup {""}
    BY Zenon
  <2>2. State(<<>>, 0, "", "", 0) \in ScanRec
    BY <1>2, <2>1, Small, StateTyped, Zenon
  <2>3. QED
    BY <2>2, Zenon DEF Scanner
<1>4. QED
  BY <1>1, <1>3, Zenon DEF Fresh, Holds

\* What the list says of a document whose definitions do not mislead.
LEMMA DocumentTold ==
  ASSUME NEW d \in Seq(DefShape), \A i \in 1 .. Len(d) : Plain(d[i])
  PROVE  ListTold(Scanned(Scanner, Flat(Bare(d))).ops, d, Len(d))
<1> DEFINE l == Len(d)
           at(k) == FlatAt(Bare(d))[k]
           r(k) == Scanned(Scanner, at(k))
           P(k) == at(k) \in Seq(Symbols) /\ Fresh(r(k)) /\ ListTold(r(k).ops, d, k)
           T == {k \in Nat : k <= l => P(k)}
<1>2. l \in Nat /\ Len(Bare(d)) = l
  BY BareIs, Zenon
<1>3. \A i \in 1 .. l : d[i] \in DefShape /\ Plain(d[i])
  BY Zenon DEF Plain
<1>4. /\ at(0) = <<>> /\ Flat(Bare(d)) = at(l)
      /\ \A k \in Nat : k + 1 <= l => at(k + 1) = at(k) \o Bare(d)[k + 1]
  BY <1>2, FlatNext, Zenon
<1>5. P(0)
  <2>1. r(0) = Scanner
    BY <1>4, ScanOne, Zenon
  <2>2. ListTold(<<>>, d, 0)
    <3>1. 1 .. 0 = {} /\ Len(<<>>) = 0 /\ 0 <= 1 /\ <<>> \in Seq(Entry)
      OBVIOUS
    <3>2. QED
      BY <3>1, Zenon DEF ListTold, Lists, Few
  <2>3. QED
    BY <1>4, <2>1, <2>2, EmptyText, ScannerFresh, Zenon
<1> HIDE DEF at
<1>6. ASSUME NEW k \in T PROVE k + 1 \in T
  <2>1. SUFFICES ASSUME k + 1 <= l PROVE P(k + 1)
    <3> HIDE DEF P
    <3>1. QED
      OBVIOUS
  <2>2. k \in Nat /\ k <= l /\ k + 1 \in 1 .. l
    <3> HIDE DEF P, l
    <3>1. QED
      BY <1>2, <2>1
  <2>3. P(k)
    <3> HIDE DEF P
    <3>1. QED
      BY <2>2, Zenon
  <2> DEFINE x == d[k + 1]
  <2>4. x \in DefShape /\ Plain(x) /\ x.kind \in Keywords /\ Tokens1(x) \in Seq(Symbols)
    BY <1>3, <2>2, DefTypes, TokensTyped, Zenon
  <2>5. at(k + 1) = at(k) \o Tokens1(x)
    BY <1>4, <2>1, <2>2, BareIs, Zenon
  <2>6. at(k) \o Tokens1(x) \in Seq(Symbols)
    BY <2>3, <2>4, ConcatProperties, Zenon
  <2>7. r(k + 1) = Scanned(r(k), Tokens1(x))
    <3> DEFINE a == at(k)
               b == Tokens1(x)
    <3>1. a \in Seq(Symbols) /\ b \in Seq(Symbols)
      BY <2>3, <2>4, Zenon
    <3>2. at(k + 1) = a \o b
      BY <2>5, Zenon
    <3> HIDE DEF a, b, x
    <3>3. Scanned(Scanner, a \o b) = Scanned(Scanned(Scanner, a), b)
      BY <3>1, Joined, Zenon
    <3>4. QED
      BY <3>2, <3>3, Zenon DEF a, b
  <2> HIDE DEF r
  <2>8. Fresh(r(k + 1)) /\ Grown(r(k).ops, r(k + 1).ops, x)
    BY <2>3, <2>4, <2>7, DefScanned, Zenon
  <2>9. ListTold(r(k + 1).ops, d, k + 1)
    <3> DEFINE p == r(k).ops
               q == r(k + 1).ops
    <3>1. ListTold(p, d, k) /\ Grown(p, q, d[k + 1]) /\ d[k + 1].kind \in Keywords
      BY <2>3, <2>4, <2>8, Zenon
    <3> HIDE DEF p, q
    <3>2. ListTold(q, d, k + 1)
      BY <2>2, <3>1, ListGrows, Zenon
    <3>3. QED
      BY <3>2, Zenon DEF q
  <2>10. QED
    BY <2>5, <2>6, <2>8, <2>9, Zenon
<1> HIDE DEF P
<1>7. T \in SUBSET Nat /\ (0 \in T <=> (0 <= l => P(0)))
  BY Zenon
<1>8. \A k \in Nat : k \in T => (k <= l => P(k))
  BY Zenon
<1> HIDE DEF T
<1>9. T = Nat
  BY <1>5, <1>6, <1>7, Induction
<1>10. l <= l
  <2> HIDE DEF l
  <2>1. QED
    BY <1>2
<1>11. P(l)
  BY <1>2, <1>8, <1>9, <1>10, Zenon
<1>12. Scanned(Scanner, Flat(Bare(d))).ops = r(l).ops
  BY <1>4, Zenon
<1>13. QED
  BY <1>11, <1>12, Zenon DEF P

-----------------------------------------------------------------------------
(* GraphqlOps: comments and block strings                                  *)

Modes  == {"text", "comment", "block"}
LexRec == [mode : Modes, seen : Seq(Symbols)]

\* What is read up to each token of a text.
LexRuns(g, who, ts, n) ==
  g = [k \in 0 .. n |-> IF k = 0 THEN Reading("text", <<>>) ELSE Lex(who, g[k - 1], ts[k])]
LexAt(who, ts) == CHOOSE at : LexRuns(at, who, ts, Len(ts))

\* There is a function that reads a text.
LEMMA LexRunsExist ==
  ASSUME NEW who, NEW ts, NEW m \in Nat
  PROVE  \E g : LexRuns(g, who, ts, m)
<1> DEFINE E(g, n) == LexRuns(g, who, ts, n)
           T == {n \in Nat : \E g : E(g, n)}
           s == Reading("text", <<>>)
<1>1. 0 \in T
  <2>1. E([k \in 0 .. 0 |-> s], 0)
    BY DEF LexRuns
  <2> HIDE DEF E
  <2>2. QED
    BY <2>1
<1>2. ASSUME NEW n \in T PROVE n + 1 \in T
  <2>1. PICK g : E(g, n)
    OBVIOUS
  <2> DEFINE h == [k \in 0 .. (n + 1) |-> IF k = n + 1 THEN Lex(who, g[n], ts[k]) ELSE g[k]]
  <2>2. \A k \in 0 .. n : g[k] = IF k = 0 THEN s ELSE Lex(who, g[k - 1], ts[k])
    BY <2>1 DEF LexRuns
  <2>3. \A k \in 0 .. (n + 1) : h[k] = IF k = 0 THEN s ELSE Lex(who, h[k - 1], ts[k])
    BY <2>2
  <2>4. E(h, n + 1)
    BY <2>3 DEF LexRuns
  <2> HIDE DEF E, h
  <2>5. QED
    BY <2>4
<1> HIDE DEF E
<1>3. T = Nat
  BY <1>1, <1>2, Induction
<1>4. QED
  BY <1>3 DEF E

\* How a text is read: from the beginning, token by token.
LEMMA LexNext ==
  ASSUME NEW who, NEW ts, Len(ts) \in Nat
  PROVE  /\ Lexes(who, ts)[0] = Reading("text", <<>>)
         /\ \A k \in Nat : k + 1 <= Len(ts) =>
              Lexes(who, ts)[k + 1] = Lex(who, Lexes(who, ts)[k], ts[k + 1])
<1> DEFINE U == LexAt(who, ts)
<1>1. LexRuns(U, who, ts, Len(ts))
  <2>1. \E g : LexRuns(g, who, ts, Len(ts))
    BY LexRunsExist, Zenon
  <2>2. QED
    BY <2>1, Zenon DEF LexAt
<1>2. Lexes(who, ts) = U
  BY Zenon DEF Lexes, LexAt, LexRuns
<1> HIDE DEF U
<1>3. \A k \in 0 .. Len(ts) :
        U[k] = IF k = 0 THEN Reading("text", <<>>) ELSE Lex(who, U[k - 1], ts[k])
  BY <1>1 DEF LexRuns
<1>4. U[0] = Reading("text", <<>>)
  BY <1>3
<1>5. ASSUME NEW k \in Nat, k + 1 <= Len(ts)
      PROVE  U[k + 1] = Lex(who, U[k], ts[k + 1])
  <2>1. k + 1 \in 0 .. Len(ts) /\ k + 1 # 0 /\ (k + 1) - 1 = k
    BY <1>5
  <2>2. QED
    BY <1>3, <2>1, Zenon
<1>6. QED
  BY <1>2, <1>4, <1>5, Zenon

\* What a reading is made of.
LEMMA ReadingIs ==
  /\ \A m, s : Reading(m, s).mode = m /\ Reading(m, s).seen = s
  /\ \A m \in Modes, s \in Seq(Symbols) : Reading(m, s) \in LexRec
  /\ \A r \in LexRec : r.mode \in Modes /\ r.seen \in Seq(Symbols) /\ r = Reading(r.mode, r.seen)
BY DEF Reading, LexRec

\* A token that is read.
LEMMA LexTyped ==
  ASSUME NEW who, NEW r \in LexRec, NEW t \in Symbols
  PROVE  Lex(who, r, t) \in LexRec
<1>1. r.mode \in Modes /\ r.seen \in Seq(Symbols) /\ Append(r.seen, t) \in Seq(Symbols)
  BY ReadingIs, AppendProperties
<1>2. "text" \in Modes /\ "comment" \in Modes /\ "block" \in Modes
  BY Zenon DEF Modes
<1>3. QED
  BY <1>1, <1>2, ReadingIs, Zenon DEF Lex

\* The tokens of a text.
LEMMA TokensOf ==
  ASSUME NEW S, NEW ts \in Seq(S)
  PROVE  /\ Len(ts) \in Nat /\ DOMAIN ts = 1 .. Len(ts)
         /\ \A k \in Nat : k + 1 <= Len(ts) =>
              k <= Len(ts) /\ k + 1 \in 1 .. Len(ts) /\ (k + 1) - 1 = k /\ ts[k + 1] \in S
<1>1. Len(ts) \in Nat /\ DOMAIN ts = 1 .. Len(ts)
  BY LenProperties, Zenon
<1>2. \A k \in 1 .. Len(ts) : ts[k] \in S
  BY ElementOfSeq, Zenon
<1> HIDE DEF Symbols
<1>3. \A k \in Nat : k + 1 <= Len(ts) =>
        k <= Len(ts) /\ k + 1 \in 1 .. Len(ts) /\ (k + 1) - 1 = k
  BY <1>1
<1>4. QED
  BY <1>1, <1>2, <1>3, Zenon

\* Every place of a text is in something, with some tokens seen.
LEMMA LexesTyped ==
  ASSUME NEW who, NEW ts \in Seq(Symbols)
  PROVE  \A k \in Nat : k <= Len(ts) => Lexes(who, ts)[k] \in LexRec
<1> DEFINE l == Len(ts)
           at(k) == Lexes(who, ts)[k]
           T == {k \in Nat : k <= l => at(k) \in LexRec}
<1>1. /\ l \in Nat /\ at(0) = Reading("text", <<>>)
      /\ \A k \in Nat : k + 1 <= l => at(k + 1) = Lex(who, at(k), ts[k + 1])
  BY TokensOf, LexNext, Zenon
<1>2. \A k \in Nat : k + 1 <= l => k <= l /\ ts[k + 1] \in Symbols
  BY TokensOf, Zenon
<1> HIDE DEF l, at
<1>3. 0 \in T
  <2>1. "text" \in Modes /\ 0 \in Nat
    BY Zenon DEF Modes
  <2>2. at(0) \in LexRec
    BY <1>1, <2>1, EmptyText, ReadingIs, Zenon
  <2>3. QED
    BY <2>1, <2>2, Zenon
<1>4. ASSUME NEW k \in T PROVE k + 1 \in T
  <2>1. k \in Nat /\ k + 1 \in Nat
    OBVIOUS
  <2>2. k + 1 <= l => at(k + 1) \in LexRec
    BY <1>1, <1>2, <2>1, LexTyped, Zenon
  <2>3. QED
    BY <2>1, <2>2, Zenon
<1> HIDE DEF T
<1>5. T = Nat
  <2>1. T \in SUBSET Nat
    BY Zenon DEF T
  <2>2. QED
    BY <1>3, <1>4, <2>1, Induction
<1>6. QED
  BY <1>5, Zenon DEF T, at, l

\* Without a bare carriage return in a comment and an escape in a block string
\* the scanner reads what the server reads.
LEMMA ReadAlike ==
  ASSUME NEW ts \in Seq(Symbols), ~Misread(ts)
  PROVE  Lexed("scanner", ts) = Lexed("server", ts)
<1> DEFINE l == Len(ts)
           A(k) == Lexes("scanner", ts)[k]
           B(k) == Lexes("server", ts)[k]
           T == {k \in Nat : k <= l => A(k) = B(k)}
<1>1. /\ l \in Nat /\ A(0) = B(0)
      /\ \A k \in Nat : k + 1 <= l =>
           A(k + 1) = Lex("scanner", A(k), ts[k + 1]) /\ B(k + 1) = Lex("server", B(k), ts[k + 1])
  BY TokensOf, LexNext, Zenon
<1>2. \A k \in Nat : k + 1 <= l =>
        /\ k <= l /\ B(k) \in LexRec
        /\ ~ (B(k).mode = "comment" /\ ts[k + 1] = "cr")
        /\ ~ (B(k).mode = "block" /\ ts[k + 1] = "escaped")
  <2>1. SUFFICES ASSUME NEW k \in Nat, k + 1 <= l
                 PROVE  /\ k <= l /\ B(k) \in LexRec
                        /\ ~ (B(k).mode = "comment" /\ ts[k + 1] = "cr")
                        /\ ~ (B(k).mode = "block" /\ ts[k + 1] = "escaped")
    BY Zenon
  <2>2. k <= l /\ k + 1 \in DOMAIN ts /\ (k + 1) - 1 = k
    BY <2>1, TokensOf, Zenon
  <2>3. B(k) \in LexRec
    BY <2>2, LexesTyped, Zenon
  <2>4. \A j \in DOMAIN ts :
          /\ ~ (Lexes("server", ts)[j - 1].mode = "comment" /\ ts[j] = "cr")
          /\ ~ (Lexes("server", ts)[j - 1].mode = "block" /\ ts[j] = "escaped")
    BY Zenon DEF Misread
  <2>5. QED
    BY <2>2, <2>3, <2>4, Zenon
<1> HIDE DEF l, A, B
<1>3. ASSUME NEW r \in LexRec, NEW t,
             ~ (r.mode = "comment" /\ t = "cr"), ~ (r.mode = "block" /\ t = "escaped")
      PROVE  Lex("scanner", r, t) = Lex("server", r, t)
  <2>1. r.mode \in Modes
    BY ReadingIs, Zenon
  <2>2. r.mode # "text" =>
          (t \in Closers("scanner", r.mode) <=> t \in Closers("server", r.mode))
    BY <1>3, <2>1 DEF Closers, Modes
  <2>3. CASE r.mode # "text"
    BY <2>2, <2>3, Zenon DEF Lex
  <2>4. CASE r.mode = "text"
    BY <2>4, Zenon DEF Lex
  <2>5. QED
    BY <2>3, <2>4, Zenon
<1>4. 0 \in T
  BY <1>1
<1>5. ASSUME NEW k \in T PROVE k + 1 \in T
  <2>1. k \in Nat /\ k + 1 \in Nat
    OBVIOUS
  <2>2. SUFFICES ASSUME k + 1 <= l PROVE A(k + 1) = B(k + 1)
    BY <2>1, Zenon
  <2>3. A(k) = B(k)
    BY <1>2, <2>1, <2>2, Zenon
  <2>4. QED
    BY <1>1, <1>2, <1>3, <2>1, <2>2, <2>3, Zenon
<1> HIDE DEF T
<1>6. T = Nat
  <2>1. T \in SUBSET Nat
    BY Zenon DEF T
  <2>2. QED
    BY <1>4, <1>5, <2>1, Induction
<1>7. A(l) = B(l)
  <2>1. l <= l
    BY <1>1
  <2>2. QED
    BY <1>1, <1>6, <2>1, Zenon DEF T
<1>8. QED
  BY <1>7, Zenon DEF Lexed, A, B, l

\* What is read behind a text does not change with it.
LEMMA LexBehind ==
  ASSUME NEW who, NEW p \in Seq(Symbols), NEW r \in LexRec, NEW t \in Symbols
  PROVE  Lex(who, Reading(r.mode, p \o r.seen), t) =
           Reading(Lex(who, r, t).mode, p \o Lex(who, r, t).seen)
<1> DEFINE m == r.mode
           s == r.seen
           q == Reading(m, p \o s)
<1>1. q.mode = m /\ q.seen = p \o s /\ s \in Seq(Symbols)
  BY ReadingIs, Zenon
<1>2. p \o Append(s, t) = Append(p \o s, t)
  <2>1. p \o s \in Seq(Symbols) /\ <<t>> \in Seq(Symbols)
    BY <1>1, ConcatProperties, Texts, Zenon
  <2>2. Append(s, t) = s \o <<t>> /\ Append(p \o s, t) = (p \o s) \o <<t>>
    BY <1>1, <2>1, AppendIsConcat, Zenon
  <2>3. (p \o s) \o <<t>> = p \o (s \o <<t>>)
    <3> DEFINE u == <<t>>
    <3>1. u \in Seq(Symbols)
      BY <2>1, Zenon
    <3> HIDE DEF u, s
    <3>2. (p \o s) \o u = p \o (s \o u)
      BY <1>1, <3>1, ConcatAssociative
    <3>3. QED
      BY <3>2, Zenon DEF u
  <2>4. QED
    BY <2>2, <2>3, Zenon
<1> HIDE DEF q
<1>3. CASE m # "text"
  <2>1. Lex(who, q, t) = Reading(IF t \in Closers(who, m) THEN "text" ELSE m, p \o s)
    BY <1>1, <1>3, Zenon DEF Lex
  <2>2. Lex(who, r, t) = Reading(IF t \in Closers(who, m) THEN "text" ELSE m, s)
    BY <1>3, Zenon DEF Lex
  <2>3. QED
    BY <2>1, <2>2, ReadingIs, Zenon DEF q
<1>4. CASE m = "text" /\ t \in {"#", "block", "escaped"}
  <2>1. PICK n : Lex(who, q, t) = Reading(n, p \o s) /\ Lex(who, r, t) = Reading(n, s)
    BY <1>1, <1>4, Zenon DEF Lex
  <2>2. QED
    <3> HIDE DEF m, s
    <3>1. Reading(n, p \o s) = Reading(Reading(n, s).mode, p \o Reading(n, s).seen)
      BY ReadingIs
    <3>2. QED
      BY <2>1, <3>1, Zenon DEF q, m, s
<1>5. CASE m = "text" /\ t \notin {"#", "block", "escaped"}
  <2>1. Lex(who, q, t) = Reading("text", IF t \in {"lf", "cr"} THEN p \o s ELSE Append(p \o s, t))
    BY <1>1, <1>5, Zenon DEF Lex
  <2>2. Lex(who, r, t) = Reading("text", IF t \in {"lf", "cr"} THEN s ELSE Append(s, t))
    BY <1>5, Zenon DEF Lex
  <2> DEFINE x == IF t \in {"lf", "cr"} THEN s ELSE Append(s, t)
  <2>3. Lex(who, r, t) = Reading("text", x) /\ Lex(who, q, t) = Reading("text", p \o x)
    BY <1>2, <2>1, <2>2, Zenon
  <2> HIDE DEF x
  <2>4. Reading("text", p \o x) = Reading(Reading("text", x).mode, p \o Reading("text", x).seen)
    BY ReadingIs
  <2>5. QED
    BY <2>3, <2>4, Zenon DEF q
<1>6. QED
  BY <1>3, <1>4, <1>5, Zenon

\* A text which the scanner reads to its end as the tokens in seen.
ReadAs(ts, seen) ==
  ts \in Seq(Symbols) /\ seen \in Seq(Symbols) /\ Lexed("scanner", ts) = Reading("text", seen)

\* Two such texts are read one after the other.
LEMMA ReadJoin ==
  ASSUME NEW a, NEW b, NEW x, NEW y, ReadAs(a, x), ReadAs(b, y)
  PROVE  ReadAs(a \o b, x \o y)
<1> DEFINE c == a \o b
           la == Len(a)
           lb == Len(b)
           A(k) == Lexes("scanner", a)[k]
           B(k) == Lexes("scanner", b)[k]
           C(k) == Lexes("scanner", c)[k]
<1>1. a \in Seq(Symbols) /\ b \in Seq(Symbols) /\ x \in Seq(Symbols) /\ y \in Seq(Symbols)
  BY Zenon DEF ReadAs
<1>2. /\ c \in Seq(Symbols) /\ la \in Nat /\ lb \in Nat /\ Len(c) = la + lb
      /\ \A k \in 1 .. la : c[k] = a[k]
      /\ \A k \in 1 .. lb : c[la + k] = b[k]
  <2>1. /\ c \in Seq(Symbols) /\ Len(c) = Len(a) + Len(b) /\ Len(a) \in Nat /\ Len(b) \in Nat
        /\ \A i \in 1 .. Len(a) + Len(b) : c[i] = IF i <= Len(a) THEN a[i] ELSE b[i - Len(a)]
    BY <1>1, ConcatProperties, LenProperties, Zenon
  <2> HIDE DEF c
  <2>2. QED
    BY <2>1
<1>3. /\ A(0) = Reading("text", <<>>) /\ A(la) = Reading("text", x)
      /\ \A k \in Nat : k + 1 <= la => A(k + 1) = Lex("scanner", A(k), a[k + 1])
  <2>1. A(la) = Reading("text", x)
    BY Zenon DEF ReadAs, Lexed
  <2>2. Len(a) \in Nat
    BY <1>1, LenProperties, Zenon
  <2>3. /\ A(0) = Reading("text", <<>>)
        /\ \A k \in Nat : k + 1 <= la => A(k + 1) = Lex("scanner", A(k), a[k + 1])
    BY <2>2, LexNext, Zenon
  <2>4. QED
    BY <2>1, <2>3, Zenon
<1>4. /\ B(0) = Reading("text", <<>>) /\ B(lb) = Reading("text", y)
      /\ \A k \in Nat : k + 1 <= lb => B(k + 1) = Lex("scanner", B(k), b[k + 1])
  <2>1. B(lb) = Reading("text", y)
    BY Zenon DEF ReadAs, Lexed
  <2>2. Len(b) \in Nat
    BY <1>1, LenProperties, Zenon
  <2>3. /\ B(0) = Reading("text", <<>>)
        /\ \A k \in Nat : k + 1 <= lb => B(k + 1) = Lex("scanner", B(k), b[k + 1])
    BY <2>2, LexNext, Zenon
  <2>4. QED
    BY <2>1, <2>3, Zenon
<1>5. /\ C(0) = Reading("text", <<>>) /\ Lexed("scanner", c) = C(la + lb)
      /\ \A k \in Nat : k + 1 <= la + lb => C(k + 1) = Lex("scanner", C(k), c[k + 1])
  <2>1. Len(c) \in Nat
    BY <1>2
  <2>2. /\ C(0) = Reading("text", <<>>) /\ Lexed("scanner", c) = C(Len(c))
        /\ \A k \in Nat : k + 1 <= Len(c) => C(k + 1) = Lex("scanner", C(k), c[k + 1])
    BY <2>1, LexNext, Zenon DEF Lexed
  <2> HIDE DEF c, la, lb, C
  <2>3. QED
    BY <1>2, <2>2
<1>6. \A k \in Nat : k + 1 <= lb => k <= lb /\ B(k) \in LexRec /\ b[k + 1] \in Symbols
  BY <1>1, TokensOf, LexesTyped, Zenon
<1> HIDE DEF c, la, lb, A, B, C
<1> DEFINE T == {k \in Nat : k <= la => C(k) = A(k)}
<1>7. T = Nat
  <2>1. 0 \in T
    BY <1>3, <1>5
  <2>2. ASSUME NEW k \in T PROVE k + 1 \in T
    <3>1. SUFFICES ASSUME k + 1 <= la PROVE C(k + 1) = A(k + 1)
      OBVIOUS
    <3>2. k <= la /\ k + 1 <= la + lb /\ k + 1 \in 1 .. la /\ k \in Nat
      BY <1>2, <3>1
    <3>3. C(k) = A(k) /\ c[k + 1] = a[k + 1]
      BY <1>2, <3>2
    <3>4. QED
      BY <1>3, <1>5, <3>1, <3>2, <3>3, Zenon
  <2> HIDE DEF T
  <2>3. T \in SUBSET Nat
    BY DEF T
  <2>4. QED
    BY <2>1, <2>2, <2>3, Induction
<1>8. C(la) = Reading("text", x)
  BY <1>2, <1>3, <1>7
<1> DEFINE D(k) == Reading(B(k).mode, x \o B(k).seen)
           R == {k \in Nat : k <= lb => C(la + k) = D(k)}
<1>9. R = Nat
  <2>1. 0 \in R
    <3>1. D(0) = Reading("text", x \o <<>>) /\ x \o <<>> = x
      BY <1>1, <1>4, ReadingIs, ConcatEmptySeq, Zenon
    <3>2. la + 0 = la /\ 0 \in Nat
      BY <1>2
    <3> HIDE DEF D
    <3>3. QED
      BY <1>8, <3>1, <3>2, Zenon
  <2>2. ASSUME NEW k \in R PROVE k + 1 \in R
    <3>1. SUFFICES ASSUME k + 1 <= lb PROVE C(la + (k + 1)) = D(k + 1)
      OBVIOUS
    <3> HIDE DEF D
    <3>2. /\ k <= lb /\ (la + k) + 1 <= la + lb /\ k + 1 \in 1 .. lb /\ k \in Nat
          /\ la + k \in Nat /\ la + (k + 1) = (la + k) + 1
      BY <1>2, <3>1
    <3>3. C(la + k) = D(k) /\ c[(la + k) + 1] = b[k + 1]
      BY <1>2, <3>2
    <3>4. C((la + k) + 1) = Lex("scanner", D(k), b[k + 1])
      BY <1>5, <3>2, <3>3, Zenon
    <3>5. Lex("scanner", D(k), b[k + 1]) = D(k + 1)
      <4>1. B(k) \in LexRec /\ b[k + 1] \in Symbols /\ B(k + 1) = Lex("scanner", B(k), b[k + 1])
        BY <1>4, <1>6, <3>1, <3>2, Zenon
      <4> DEFINE r == B(k)
                 t == b[k + 1]
                 n == Lex("scanner", r, t)
      <4>2. r \in LexRec /\ t \in Symbols /\ n = B(k + 1)
        BY <4>1, Zenon
      <4> HIDE DEF r, t
      <4>3. Lex("scanner", Reading(r.mode, x \o r.seen), t) = Reading(n.mode, x \o n.seen)
        BY <1>1, <4>2, LexBehind, Zenon
      <4> HIDE DEF n
      <4>4. QED
        BY <4>2, <4>3 DEF D, r, t
    <3>6. QED
      BY <3>2, <3>4, <3>5, Zenon
  <2> HIDE DEF R
  <2>3. R \in SUBSET Nat
    BY DEF R
  <2>4. QED
    BY <2>1, <2>2, <2>3, Induction
<1>10. C(la + lb) = Reading("text", x \o y)
  <2>1. lb <= lb
    BY <1>2
  <2>2. C(la + lb) = D(lb)
    BY <1>2, <1>9, <2>1, Zenon
  <2>3. B(lb).mode = "text" /\ B(lb).seen = y
    BY <1>4, ReadingIs
  <2>4. QED
    BY <2>2, <2>3
<1>11. x \o y \in Seq(Symbols)
  BY <1>1, ConcatProperties, Zenon
<1>12. QED
  BY <1>2, <1>5, <1>10, <1>11, Zenon DEF ReadAs, c

\* Nothing is read as nothing, and a token outside comments and strings as itself.
LEMMA ReadOne ==
  /\ ReadAs(<<>>, <<>>)
  /\ \A who : Lexed(who, <<>>).seen = <<>>
  /\ \A t \in Symbols \ Delimiters : ReadAs(<<t>>, <<t>>)
<1>1. ASSUME NEW who PROVE Lexed(who, <<>>) = Reading("text", <<>>)
  <2>1. Len(<<>>) = 0 /\ Len(<<>>) \in Nat
    OBVIOUS
  <2>2. Lexes(who, <<>>)[0] = Reading("text", <<>>)
    BY <2>1, LexNext, Zenon
  <2>3. QED
    BY <2>1, <2>2, Zenon DEF Lexed
<1>2. ASSUME NEW t \in Symbols \ Delimiters PROVE ReadAs(<<t>>, <<t>>)
  <2> DEFINE ts == <<t>>
  <2>1. /\ ts \in Seq(Symbols) /\ Len(ts) = 1 /\ ts[1] = t /\ 0 \in Nat /\ 1 \in Nat
        /\ 0 + 1 = 1 /\ 1 <= 1 /\ Append(<<>>, t) = ts
    OBVIOUS
  <2> HIDE DEF ts
  <2>2. Lexed("scanner", ts) = Lex("scanner", Reading("text", <<>>), t)
    <3> DEFINE at(k) == Lexes("scanner", ts)[k]
    <3>1. Len(ts) \in Nat
      BY <2>1, Zenon
    <3>2. /\ at(0) = Reading("text", <<>>)
          /\ \A k \in Nat : k + 1 <= Len(ts) => at(k + 1) = Lex("scanner", at(k), ts[k + 1])
      BY <3>1, LexNext, Zenon
    <3>3. Lexed("scanner", ts) = at(Len(ts))
      BY Zenon DEF Lexed
    <3> HIDE DEF at
    <3>4. at(0 + 1) = Lex("scanner", at(0), ts[0 + 1])
      BY <2>1, <3>2, Zenon
    <3>5. QED
      BY <2>1, <3>2, <3>3, <3>4, Zenon
  <2>3. t \notin {"#", "lf", "cr", "block", "escaped"}
    BY Zenon DEF Delimiters
  <2>4. Lexed("scanner", ts) = Reading("text", ts)
    <3> DEFINE r == Reading("text", <<>>)
    <3>1. r.mode = "text" /\ r.seen = <<>>
      BY ReadingIs
    <3> HIDE DEF r
    <3>2. Lex("scanner", r, t) = Reading("text", Append(<<>>, t))
      BY <2>3, <3>1, Zenon DEF Lex
    <3>3. QED
      BY <2>1, <2>2, <3>2, Zenon DEF r
  <2>5. QED
    BY <2>1, <2>4, Zenon DEF ReadAs, ts
<1>3. \A who : Lexed(who, <<>>).seen = <<>>
  BY <1>1, ReadingIs
<1>4. ReadAs(<<>>, <<>>)
  BY <1>1, EmptyText, Zenon DEF ReadAs
<1>5. QED
  BY <1>2, <1>3, <1>4, Zenon

\* The beginning of a definition has no comments and no strings in it.
LEMMA OpeningRead ==
  ASSUME NEW d \in DefShape
  PROVE  ReadAs(Opening(d), Opening(d))
<1> DEFINE kw == d.kind
           x == d.name
<1>1. \A w \in Words : w \in Symbols \ Delimiters
  BY Zenon DEF Words, OpTypes, Symbols, Delimiters
<1>2. ReadAs(<<kw>>, <<kw>>)
  BY <1>1, DefTypes, WordsAre, ReadOne, Zenon
<1>3. CASE x = ""
  BY <1>2, <1>3, ReadOne, Zenon DEF Opening
<1>4. CASE x # ""
  <2>1. ReadAs(<<x>>, <<x>>) /\ <<kw, x>> = <<kw>> \o <<x>>
    BY <1>1, <1>4, DefTypes, ReadOne, PairIs, Zenon
  <2>2. ReadAs(<<kw>> \o <<x>>, <<kw>> \o <<x>>)
    BY <1>2, <2>1, ReadJoin, Zenon
  <2>3. ReadAs(<<kw, x>>, <<kw, x>>)
    BY <2>1, <2>2, Zenon
  <2>4. QED
    BY <1>4, <2>3, ReadOne, Zenon DEF Opening
<1>5. QED
  BY <1>3, <1>4, Zenon

\* A definition whose comments and block strings end alike for both.
Alike(d) ==
  /\ d \in DefShape
  /\ \A part \in {d.before, d.extra, d.body} : Lexed("server", part).mode = "text"
  /\ Lexed("server", d.before).seen = <<>>
  /\ ~Misread(d.before) /\ ~Misread(d.extra) /\ ~Misread(d.body)

\* The scanner reads of it what the server reads.
LEMMA DefinitionRead ==
  ASSUME NEW d, Alike(d)
  PROVE  Visible(d) \in DefShape /\ ReadAs(d.before \o Tokens1(d), Tokens1(Visible(d)))
<1> DEFINE v == Visible(d)
           e == Lexed("server", d.extra).seen
           b == Lexed("server", d.body).seen
<1>1. /\ d \in DefShape /\ d.before \in Seq(Symbols) /\ d.extra \in Seq(Symbols)
      /\ d.body \in Seq(Symbols)
  BY DefTypes, Zenon DEF Alike
<1>2. ASSUME NEW ts \in Seq(Symbols), ~Misread(ts), Lexed("server", ts).mode = "text"
      PROVE  ReadAs(ts, Lexed("server", ts).seen)
  <2> DEFINE r == Lexed("server", ts)
  <2>1. r \in LexRec
    <3>1. Len(ts) \in Nat
      BY LenProperties, Zenon
    <3>2. Len(ts) <= Len(ts)
      BY <3>1
    <3>3. QED
      BY <3>1, <3>2, LexesTyped, Zenon DEF Lexed
  <2>2. Lexed("scanner", ts) = r
    BY <1>2, ReadAlike, Zenon
  <2>3. r.seen \in Seq(Symbols) /\ r = Reading("text", r.seen)
    BY <1>2, <2>1, ReadingIs, Zenon
  <2>4. QED
    BY <2>2, <2>3, Zenon DEF ReadAs
<1>3. ReadAs(d.before, <<>>) /\ ReadAs(d.extra, e) /\ ReadAs(d.body, b)
  BY <1>1, <1>2, Zenon DEF Alike
<1>4. e \in Seq(Symbols) /\ b \in Seq(Symbols)
  BY <1>3, Zenon DEF ReadAs
<1>5. /\ v.kind = d.kind /\ v.short = d.short /\ v.name = d.name /\ v.extra = e /\ v.body = b
      /\ v \in DefShape
  <2> HIDE DEF e, b
  <2>1. v = [before |-> <<>>, kind |-> d.kind, short |-> d.short, name |-> d.name,
             extra |-> e, body |-> b]
    BY Zenon DEF Visible, e, b
  <2> HIDE DEF v
  <2>2. d.kind \in OpTypes \cup {"fragment"} /\ d.short \in BOOLEAN /\ d.name \in Words \cup {""}
    BY <1>1, DefTypes, Zenon DEF Keywords
  <2>3. QED
    BY <1>4, <2>1, <2>2, EmptyText DEF DefShape
<1>6. Opening(v) = Opening(d)
  BY <1>5, Zenon DEF Opening
<1>7. ReadAs(Tokens1(d), Tokens1(v))
  <2> DEFINE p == <<"{">>
             q == <<"}">>
  <2>1. ReadAs(p, p) /\ ReadAs(q, q)
    <3>1. "{" \in Symbols \ Delimiters /\ "}" \in Symbols \ Delimiters
      BY Zenon DEF Symbols, Braces, Delimiters
    <3>2. QED
      BY <3>1, ReadOne, Zenon
  <2>2. ReadAs(Opening(d), Opening(d))
    BY <1>1, OpeningRead, Zenon
  <2>3. Tokens1(d) = Opening(d) \o (d.extra \o (p \o (d.body \o q)))
    BY Zenon DEF Tokens1
  <2>4. Tokens1(v) = Opening(d) \o (e \o (p \o (b \o q)))
    BY <1>5, <1>6, Zenon DEF Tokens1
  <2> HIDE DEF p, q, e, b, v
  <2>5. ReadAs(p \o (d.body \o q), p \o (b \o q))
    BY <1>3, <2>1, ReadJoin, Zenon
  <2>6. ReadAs(Opening(d) \o (d.extra \o (p \o (d.body \o q))),
               Opening(d) \o (e \o (p \o (b \o q))))
    BY <1>3, <2>2, <2>5, ReadJoin, Zenon
  <2>7. QED
    BY <2>3, <2>4, <2>6, Zenon
<1>8. Tokens1(v) \in Seq(Symbols)
  BY <1>5, TokensTyped, Zenon
<1>9. <<>> \o Tokens1(v) = Tokens1(v)
  BY <1>8, ConcatEmptySeq, Zenon
<1>10. ReadAs(d.before \o Tokens1(d), <<>> \o Tokens1(v))
  BY <1>3, <1>7, ReadJoin, Zenon
<1>11. QED
  BY <1>5, <1>9, <1>10, Zenon

\* A document as the server sees it.
Shown(d) == [i \in 1 .. Len(d) |-> Visible(d[i])]

\* It is a document with as many definitions.
LEMMA ShownIs ==
  ASSUME NEW d \in Seq(DefShape), \A i \in 1 .. Len(d) : Alike(d[i])
  PROVE  /\ Shown(d) \in Seq(DefShape) /\ Len(Shown(d)) = Len(d) /\ Len(d) \in Nat
         /\ \A i \in 1 .. Len(d) : Shown(d)[i] = Visible(d[i])
<1> DEFINE l == Len(d)
           f == [i \in 1 .. l |-> Visible(d[i])]
<1>1. l \in Nat
  BY LenProperties, Zenon
<1>2. \A i \in 1 .. l : f[i] = Visible(d[i]) /\ Visible(d[i]) \in DefShape
  BY DefinitionRead, Zenon
<1>3. f \in [1 .. l -> DefShape]
  BY <1>2, Zenon
<1> HIDE DEF l, f
<1>4. f \in Seq(DefShape) /\ Len(f) = l
  BY <1>1, <1>3
<1>5. QED
  BY <1>1, <1>2, <1>4, Zenon DEF Shown, l, f

\* Both read a document alike if they read its definitions alike.
LEMMA DocumentRead ==
  ASSUME NEW d \in Seq(DefShape), \A i \in 1 .. Len(d) : Alike(d[i])
  PROVE  ReadAs(Text(d), Flat(Bare(Shown(d))))
<1> DEFINE l == Len(d)
           e == Shown(d)
           f == [i \in 1 .. l |-> d[i].before \o Tokens1(d[i])]
           at(k) == FlatAt(f)[k]
           to(k) == FlatAt(Bare(e))[k]
           T == {k \in Nat : k <= l => ReadAs(at(k), to(k))}
<1>1. l \in Nat /\ \A i \in 1 .. l : Bare(e)[i] = Tokens1(Visible(d[i]))
  <2>1. e \in Seq(DefShape) /\ Len(e) = l /\ l \in Nat
        /\ \A i \in 1 .. l : e[i] = Visible(d[i])
    BY ShownIs, Zenon
  <2> HIDE DEF e, l
  <2>2. QED
    BY <2>1, BareIs, Zenon
<1>2. Len(Bare(e)) = l
  <2>1. e \in Seq(DefShape) /\ Len(e) = l
    BY ShownIs, Zenon
  <2> HIDE DEF e, l
  <2>2. QED
    BY <2>1, BareIs, Zenon
<1>3. Len(f) = l /\ \A i \in 1 .. l : f[i] = d[i].before \o Tokens1(d[i])
  <2>1. \A i \in 1 .. l : f[i] = d[i].before \o Tokens1(d[i])
    BY Zenon
  <2>2. f \in [1 .. l -> {d[i].before \o Tokens1(d[i]) : i \in 1 .. l}]
    BY Zenon
  <2> HIDE DEF f, l
  <2>3. Len(f) = l
    BY <1>1, <2>2
  <2>4. QED
    BY <2>1, <2>3, Zenon
<1>4. /\ at(0) = <<>> /\ Flat(f) = at(l)
      /\ \A k \in Nat : k + 1 <= l => at(k + 1) = at(k) \o f[k + 1]
  <2> HIDE DEF f, l
  <2>1. Len(f) \in Nat
    BY <1>1, <1>3, Zenon
  <2>2. QED
    BY <1>3, <2>1, FlatNext, Zenon
<1>5. /\ to(0) = <<>> /\ Flat(Bare(e)) = to(l)
      /\ \A k \in Nat : k + 1 <= l => to(k + 1) = to(k) \o Bare(e)[k + 1]
  <2> HIDE DEF e, l
  <2>1. Len(Bare(e)) \in Nat
    BY <1>1, <1>2, Zenon
  <2>2. QED
    BY <1>2, <2>1, FlatNext, Zenon
<1>6. Text(d) = Flat(f)
  BY Zenon DEF Text
<1>7. \A i \in 1 .. l : ReadAs(f[i], Bare(e)[i])
  <2>1. \A i \in 1 .. l : ReadAs(d[i].before \o Tokens1(d[i]), Tokens1(Visible(d[i])))
    BY DefinitionRead, Zenon
  <2> HIDE DEF f, e
  <2>2. QED
    BY <1>1, <1>3, <2>1, Zenon
<1> HIDE DEF f, e, l, at, to
<1>8. 0 \in T
  BY <1>4, <1>5, ReadOne, Zenon
<1>9. ASSUME NEW k \in T PROVE k + 1 \in T
  <2>1. SUFFICES ASSUME k + 1 <= l PROVE ReadAs(at(k + 1), to(k + 1))
    OBVIOUS
  <2>2. k \in Nat /\ k <= l /\ k + 1 \in 1 .. l
    BY <1>1, <2>1
  <2>3. ReadAs(at(k), to(k)) /\ ReadAs(f[k + 1], Bare(e)[k + 1])
    BY <1>7, <2>2, Zenon
  <2>4. at(k + 1) = at(k) \o f[k + 1] /\ to(k + 1) = to(k) \o Bare(e)[k + 1]
    BY <1>4, <1>5, <2>1, <2>2, Zenon
  <2>5. ReadAs(at(k) \o f[k + 1], to(k) \o Bare(e)[k + 1])
    BY <2>3, ReadJoin, Zenon
  <2>6. QED
    BY <2>4, <2>5, Zenon
<1>10. T \in SUBSET Nat /\ (l \in T => (l <= l => ReadAs(at(l), to(l))))
  BY Zenon
<1> HIDE DEF T
<1>11. T = Nat
  BY <1>8, <1>9, <1>10, Induction
<1>12. l <= l
  BY <1>1
<1>13. ReadAs(at(l), to(l))
  BY <1>1, <1>10, <1>11, <1>12, Zenon
<1>14. QED
  BY <1>4, <1>5, <1>6, <1>13, Zenon DEF e

\* The document has no object outside a selection set.
NoObjects(d) == \A i \in 1 .. Len(d) : ~Objects(Visible(d[i]))

\* What the list p says of it.
Told(p, d) ==
  /\ p \in Seq(Entry) /\ Lists(p, d, Len(d))
  /\ NoObjects(d) => \A m : (\A i \in 1 .. Len(d) : IsOp(d, i) => i = m) => Len(p) <= 1
  /\ \A k \in 1 .. Len(p) :
       \/ p[k] = <<"query", "">> /\ ~NoObjects(d)
       \/ \E i \in 1 .. Len(d) : IsOp(d, i) /\ Tells(p[k], d, i)

\* A document with definitions that the scanner reads right is told right.
LEMMA ReadableTold ==
  ASSUME NEW d \in Documents, \A i \in DOMAIN d : Readable(d[i])
  PROVE  d \in Seq(DefShape) /\ Told(operation_types(Text(d)), d)
<1> DEFINE e == Shown(d)
           l == Len(d)
           p == operation_types(Text(d))
<1>1. d \in Seq(DefShape) /\ DOMAIN d = 1 .. l
  <2>1. d \in Seq(DefShape)
    BY GraphqlAssumption, Zenon
  <2>2. QED
    BY <2>1, LenProperties, Zenon
<1>2. ASSUME NEW i \in 1 .. l PROVE Alike(d[i]) /\ Plain(Visible(d[i]))
  <2> DEFINE x == d[i]
  <2>1. /\ x \in DefShape /\ Readable(x)
        /\ \A part \in {x.before, x.extra, x.body} : Lexed("server", part).mode = "text"
        /\ Lexed("server", x.before).seen = <<>>
        /\ Balanced(Visible(x).extra) /\ Balanced(Visible(x).body)
        /\ x.short => x.kind = "query" /\ x.name = "" /\ x.extra = <<>>
    BY <1>1, GraphqlAssumption, ElementOfSeq, Zenon
  <2>2. Alike(x) /\ ~Misleads(Visible(x))
    BY <2>1, Zenon DEF Alike, Readable
  <2>3. Visible(x) \in DefShape
    BY <2>2, DefinitionRead, Zenon
  <2>4. /\ Visible(x).kind = x.kind /\ Visible(x).short = x.short /\ Visible(x).name = x.name
        /\ Visible(x).extra = Lexed("server", x.extra).seen
    BY DEF Visible
  <2>5. Visible(x).short => Visible(x).kind = "query" /\ Visible(x).name = ""
                            /\ Visible(x).extra = <<>>
    BY <2>1, <2>4, ReadOne, Zenon
  <2>6. QED
    BY <2>1, <2>2, <2>3, <2>5, Zenon DEF Plain
<1>3. e \in Seq(DefShape) /\ Len(e) = l /\ l \in Nat /\ \A i \in 1 .. l : e[i] = Visible(d[i])
  BY <1>1, <1>2, ShownIs, Zenon
<1>4. p = Scanned(Scanner, Flat(Bare(e))).ops
  <2>1. Lexed("scanner", Text(d)) = Reading("text", Flat(Bare(e)))
    BY <1>1, <1>2, DocumentRead, Zenon DEF ReadAs
  <2>2. Lexed("scanner", Text(d)).seen = Flat(Bare(e))
    BY <2>1, ReadingIs, Zenon
  <2>3. QED
    BY <2>2, Zenon DEF operation_types
<1> HIDE DEF e, p, l
<1>5. ListTold(p, e, l)
  <2>1. \A i \in 1 .. Len(e) : Plain(e[i])
    BY <1>2, <1>3, Zenon
  <2>2. ListTold(Scanned(Scanner, Flat(Bare(e))).ops, e, Len(e))
    BY <1>3, <2>1, DocumentTold, Zenon
  <2>3. QED
    BY <1>3, <1>4, <2>2, Zenon
<1>6. ASSUME NEW i \in 1 .. l
      PROVE  (IsOp(e, i) <=> IsOp(d, i)) /\ \A x : Tells(x, e, i) <=> Tells(x, d, i)
  <2>1. e[i].kind = d[i].kind /\ e[i].name = d[i].name
    <3>1. Visible(d[i]).kind = d[i].kind /\ Visible(d[i]).name = d[i].name
      BY DEF Visible
    <3>2. QED
      BY <1>3, <3>1, Zenon
  <2>2. Names(e[i]) = Names(d[i])
    BY <2>1, Zenon DEF Names, Called
  <2>3. QED
    BY <2>1, <2>2, Zenon DEF IsOp, Tells
<1>7. NoObjects(d) <=> \A i \in 1 .. l : ~Objects(e[i])
  BY <1>3, Zenon DEF NoObjects, l
<1>8. Lists(p, d, l)
  BY <1>5, <1>6, Zenon DEF ListTold, Lists
<1>9. NoObjects(d) => \A m : (\A i \in 1 .. l : IsOp(d, i) => i = m) => Len(p) <= 1
  BY <1>5, <1>6, <1>7, Zenon DEF ListTold, Few
<1>10. ASSUME NEW k \in 1 .. Len(p)
       PROVE  \/ p[k] = <<"query", "">> /\ ~NoObjects(d)
              \/ \E i \in 1 .. l : IsOp(d, i) /\ Tells(p[k], d, i)
  BY <1>5, <1>6, <1>7, Zenon DEF ListTold, Comes
<1>11. p \in Seq(Entry)
  BY <1>5, Zenon DEF ListTold
<1>12. QED
  BY <1>1, <1>8, <1>9, <1>10, <1>11, Zenon DEF Told, l, p

\* An entry with the name that is asked for belongs to the operation that has it.
LEMMA OneOfName ==
  ASSUME Valid(doc), NEW op \in {"A", "B"}, NEW m \in Operations(doc), doc[m].name = op,
         NEW j \in Operations(doc), op \in Names(doc[j])
  PROVE  j = m
<1>1. SUFFICES ASSUME j # m PROVE FALSE
  BY Zenon
<1>2. doc[j].name # "" /\ doc[j].name # op
  BY <1>1, Zenon DEF Valid
<1>3. op = Spoken(doc[j].name)
  BY <1>2, Zenon DEF Names, Called
<1>4. op # ""
  BY Zenon
<1>5. QED
  BY <1>2, <1>3, <1>4, Zenon DEF Spoken

\* Operations are the definitions with such a keyword.
LEMMA OperationsAre ==
  ASSUME NEW d \in Seq(DefShape)
  PROVE  \A i : i \in Operations(d) <=> i \in 1 .. Len(d) /\ IsOp(d, i)
<1>1. DOMAIN d = 1 .. Len(d) /\ \A i \in 1 .. Len(d) : d[i].kind \in Keywords
  <2>1. DOMAIN d = 1 .. Len(d)
    BY LenProperties, Zenon
  <2>2. \A i \in 1 .. Len(d) : d[i] \in DefShape
    BY ElementOfSeq, Zenon
  <2>3. QED
    BY <2>1, <2>2, DefTypes, Zenon
<1>2. \A x \in Keywords : x # "fragment" <=> x \in OpTypes
  BY Zenon DEF Keywords, OpTypes
<1>3. QED
  BY <1>1, <1>2, Zenon DEF Operations, IsOp

\* Lengths that matter.
LEMMA Short ==
  /\ Len(<<>>) = 0 /\ 1 .. 0 = {}
  /\ \A l \in Nat : 1 .. l \in SUBSET Nat
  /\ \A l \in Nat : (l <= 1 <=> ~ (l > 1)) /\ (l <= 1 => \A i, k \in 1 .. l : i = k)
OBVIOUS

\* What is not refused is no mutation.
LEMMA NoMutation ==
  ASSUME doc \in Seq(DefShape), Valid(doc), call.op \in {"", "A", "B"},
         Told(operation_types(Text(doc)), doc),
         ~Refused(Text(doc), call.op)
  PROVE  ~Runs("mutation")
<1> DEFINE p == operation_types(Text(doc))
           op == call.op
           n == Len(doc)
<1>1. SUFFICES ASSUME Runs("mutation") PROVE FALSE
  OBVIOUS
<1>2. PICK m \in Operations(doc) :
        /\ doc[m].kind = "mutation"
        /\ IF op = "" THEN Operations(doc) = {m} ELSE doc[m].name = op
  BY <1>1, Zenon DEF Runs
<1>3. p \in Seq(Entry) /\ DOMAIN p = 1 .. Len(p) /\ Len(p) \in Nat
  <2>1. p \in Seq(Entry)
    BY Zenon DEF Told
  <2>2. QED
    BY <2>1, LenProperties, Zenon
<1>4. m \in 1 .. n /\ IsOp(doc, m)
  BY OperationsAre, Zenon
<1>5. PICK k \in 1 .. Len(p) : Tells(p[k], doc, m)
  BY <1>4, Zenon DEF Told, Lists
<1>6. /\ ~ (op = "" /\ Len(p) > 1)
      /\ \E i \in DOMAIN p : op \in {"", p[i][2]} /\ p[i][1] = "query"
  BY Zenon DEF Refused
<1>7. PICK i \in 1 .. Len(p) : op \in {"", p[i][2]} /\ p[i][1] = "query"
  BY <1>3, <1>6, Zenon
<1>8. CASE op = ""
  <2>1. Len(p) <= 1
    BY <1>3, <1>6, <1>8, Short, Zenon
  <2>2. i = k
    BY <1>3, <1>5, <1>7, <2>1, Short, Zenon
  <2>3. p[k][1] = "mutation" /\ p[k][1] = "query" /\ "mutation" # "query"
    BY <1>2, <1>5, <1>7, <2>2, Zenon DEF Tells
  <2>4. QED
    BY <2>3, Zenon
<1>9. CASE op # ""
  <2>1. op \in {"A", "B"} /\ doc[m].name = op /\ p[i][2] = op
    BY <1>2, <1>7, <1>9, Zenon
  <2>2. p[i] = <<"query", "">> \/ \E j \in 1 .. n : IsOp(doc, j) /\ Tells(p[i], doc, j)
    BY <1>7, Zenon DEF Told
  <2>3. p[i] # <<"query", "">>
    <3>1. <<"query", "">>[2] = ""
      OBVIOUS
    <3>2. QED
      BY <1>9, <2>1, <3>1, Zenon
  <2>4. PICK j \in 1 .. n : IsOp(doc, j) /\ Tells(p[i], doc, j)
    BY <2>2, <2>3, Zenon
  <2>5. j \in Operations(doc) /\ op \in Names(doc[j]) /\ doc[j].kind = "query"
    BY <1>7, <2>1, <2>4, OperationsAre, Zenon DEF Tells
  <2>6. j = m
    BY <2>1, <2>5, OneOfName, Zenon
  <2>7. "mutation" # "query"
    OBVIOUS
  <2>8. QED
    BY <1>2, <2>5, <2>6, <2>7, Zenon
<1>10. QED
  BY <1>8, <1>9, Zenon

\* A query is not refused, in a document without objects.
LEMMA QueryAdmitted ==
  ASSUME doc \in Seq(DefShape), Valid(doc), call.op \in {"", "A", "B"},
         Told(operation_types(Text(doc)), doc),
         Runs("query"), NoObjects(doc)
  PROVE  ~Refused(Text(doc), call.op)
<1> DEFINE p == operation_types(Text(doc))
           op == call.op
           n == Len(doc)
           matching == {i \in DOMAIN p : op \in {"", p[i][2]}}
<1>1. PICK m \in Operations(doc) :
        /\ doc[m].kind = "query"
        /\ IF op = "" THEN Operations(doc) = {m} ELSE doc[m].name = op
  BY Zenon DEF Runs
<1>2. DOMAIN p = 1 .. Len(p) /\ Len(p) \in Nat /\ DOMAIN doc = 1 .. n
  <2>1. p \in Seq(Entry)
    BY Zenon DEF Told
  <2>2. QED
    BY <2>1, LenProperties, Zenon
<1>3. m \in 1 .. n /\ IsOp(doc, m)
  BY OperationsAre, Zenon
<1>4. PICK k \in 1 .. Len(p) : Tells(p[k], doc, m)
  BY <1>3, Zenon DEF Told, Lists
<1>5. p # <<>>
  BY <1>4, Short, Zenon
<1>6. op = "" => Len(p) <= 1
  <2>1. SUFFICES ASSUME op = "" PROVE Len(p) <= 1
    OBVIOUS
  <2>2. \A i \in 1 .. n : IsOp(doc, i) => i = m
    BY <1>1, <2>1, OperationsAre, Zenon
  <2>3. QED
    BY <2>2, Zenon DEF Told
<1>7. k \in matching
  <2>1. CASE op = ""
    BY <1>2, <2>1, Zenon
  <2>2. CASE op # ""
    <3>1. op \in {"A", "B"} /\ doc[m].name = op /\ op # "on"
      BY <1>1, <2>2, Zenon
    <3>2. Names(doc[m]) = {op}
      BY <2>2, <3>1, Zenon DEF Names, Called, Spoken
    <3>3. p[k][2] = op
      BY <1>4, <3>2, Zenon DEF Tells
    <3>4. QED
      BY <1>2, <3>3, Zenon
  <2>3. QED
    BY <2>1, <2>2, Zenon
<1>8. PICK i \in matching : \A j \in matching : i <= j
  <2>1. matching \in SUBSET Nat
    BY <1>2, Short, Zenon
  <2> HIDE DEF matching
  <2>2. QED
    BY <1>7, <2>1, Least, Zenon
<1>9. i \in 1 .. Len(p)
  BY <1>2, Zenon
<1>10. p[i][1] = "query"
  <2>1. CASE op = ""
    <3>1. i = k
      BY <1>2, <1>4, <1>6, <1>9, <2>1, Short, Zenon
    <3>2. QED
      BY <1>1, <1>4, <3>1, Zenon DEF Tells
  <2>2. CASE op # ""
    <3>1. op \in {"A", "B"} /\ doc[m].name = op /\ p[i][2] = op
      BY <1>1, <1>8, <2>2, Zenon
    <3>2. PICK j \in 1 .. n : IsOp(doc, j) /\ Tells(p[i], doc, j)
      BY <1>9, Zenon DEF Told
    <3>4. j \in Operations(doc) /\ op \in Names(doc[j]) /\ doc[j].kind = p[i][1]
      BY <3>1, <3>2, OperationsAre, Zenon DEF Tells
    <3>5. j = m
      BY <3>1, <3>4, OneOfName, Zenon
    <3>6. QED
      BY <1>1, <3>4, <3>5, Zenon
  <2>3. QED
    BY <2>1, <2>2, Zenon
<1>11. ~ (op = "" /\ Len(p) > 1)
  BY <1>2, <1>6, Short, Zenon
<1>12. QED
  BY <1>5, <1>8, <1>10, <1>11, Zenon DEF Refused

-----------------------------------------------------------------------------
(* GraphqlOps: the handler                                                 *)

\* What is forwarded on a GET is what the scanner admits.
GqlInv ==
  /\ doc \in Documents /\ Valid(doc) /\ call.op \in {"", "A", "B"}
  /\ stage = "route" => ~sent
  /\ stage \in {"route", "upstream"} => verdict # "400"
  /\ call.what = "get" /\ stage # "route" /\ verdict # "400" =>
       (sent <=> ~Refused(Text(doc), call.op))

\* It holds at the start.
LEMMA GqlBegins == GqlInit => GqlInv
<1>1. SUFFICES ASSUME GqlInit PROVE GqlInv
  OBVIOUS
<1>2. doc \in Documents /\ Valid(doc) /\ stage = "route" /\ verdict = "none" /\ sent = FALSE
  BY <1>1, Zenon DEF GqlInit
<1>3. call.op \in {"", "A", "B"}
  BY <1>1 DEF GqlInit
<1>4. QED
  BY <1>2, <1>3, Zenon DEF GqlInv

\* A step keeps it.
LEMMA GqlStep == GqlInv /\ [GqlNext]_gqlVars => GqlInv'
<1>1. SUFFICES ASSUME GqlInv, [GqlNext]_gqlVars PROVE GqlInv'
  OBVIOUS
<1>2. CASE Malformed
  BY <1>1, <1>2, Zenon DEF GqlInv, Malformed, Says
<1>3. CASE Gate
  <2>1. doc' = doc /\ call' = call /\ stage = "route" /\ ~sent /\ verdict # "400"
    BY <1>1, <1>3, Zenon DEF Gate, GqlInv
  <2>2. CASE call.what = "get" /\ Refused(Text(doc), call.op)
    <3>1. stage' = "done" /\ verdict' = "405" /\ sent' = sent
      BY <1>3, <2>2, Zenon DEF Gate, Says
    <3>2. QED
      BY <1>1, <2>1, <2>2, <3>1, Zenon DEF GqlInv
  <2>3. CASE ~ (call.what = "get" /\ Refused(Text(doc), call.op))
    <3>1. /\ stage' = "upstream" /\ verdict' = verdict
          /\ sent' = (call.what \in {"get", "post"})
      BY <1>3, <2>3, Zenon DEF Gate
    <3>2. call.what = "get" => sent'
      BY <3>1, Zenon
    <3>3. QED
      BY <1>1, <2>1, <2>3, <3>1, <3>2, Zenon DEF GqlInv
  <2>4. QED
    BY <2>2, <2>3, Zenon
<1>4. CASE UpstreamAnswers
  <2>1. /\ doc' = doc /\ call' = call /\ sent' = sent
        /\ stage = "upstream" /\ stage' = "done"
    BY <1>4, Zenon DEF UpstreamAnswers, Says
  <2>2. QED
    BY <1>1, <2>1, Zenon DEF GqlInv
<1>5. CASE UpstreamFails
  BY <1>1, <1>5, Zenon DEF GqlInv, UpstreamFails, Says
<1>6. CASE UNCHANGED gqlVars
  BY <1>1, <1>6, Zenon DEF GqlInv, gqlVars
<1>7. QED
  BY <1>1, <1>2, <1>3, <1>4, <1>5, <1>6, Zenon DEF GqlNext

\* A GET that is forwarded never runs a mutation, and a query is forwarded,
\* whatever the document: names, fragments, directives, variables, comments,
\* strings and nested selections do not mislead the scanner, but for those that
\* Misread and Misleads name.
THEOREM GateIsExact == GqlSpec => []GateExact
<1>1. GqlInv => GateExact
  <2>1. SUFFICES ASSUME GqlInv, call.what = "get", stage # "route", verdict # "400",
                        \A i \in DOMAIN doc : Readable(doc[i])
                 PROVE  /\ sent => ~Runs("mutation")
                        /\ /\ Runs("query")
                           /\ \A i \in DOMAIN doc : ~Objects(Visible(doc[i]))
                           => sent
    BY Zenon DEF GateExact
  <2>2. /\ doc \in Documents /\ Valid(doc) /\ call.op \in {"", "A", "B"}
        /\ sent <=> ~Refused(Text(doc), call.op)
    BY <2>1, Zenon DEF GqlInv
  <2>3. doc \in Seq(DefShape) /\ Told(operation_types(Text(doc)), doc)
    BY <2>1, <2>2, ReadableTold, Zenon
  <2>4. sent => ~Runs("mutation")
    BY <2>2, <2>3, NoMutation, Zenon
  <2>5. Runs("query") /\ (\A i \in DOMAIN doc : ~Objects(Visible(doc[i]))) => sent
    <3>1. DOMAIN doc = 1 .. Len(doc)
      BY <2>3, LenProperties, Zenon
    <3>2. (\A i \in DOMAIN doc : ~Objects(Visible(doc[i]))) => NoObjects(doc)
      BY <3>1, Zenon DEF NoObjects
    <3>3. QED
      BY <2>2, <2>3, <3>2, QueryAdmitted, Zenon
  <2>6. QED
    BY <2>4, <2>5, Zenon
<1>2. QED
  BY <1>1, GqlBegins, GqlStep, PTL DEF GqlSpec
=============================================================================
