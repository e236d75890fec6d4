------------------------------ MODULE SqlQuery ------------------------------
(***************************************************************************)
(* /query of the four SQL handlers (postgres, mysql, sqlite, clickhouse):  *)
(* one statement, the backend's own read-only mechanism for GET, and the   *)
(* order of execute, commit, answer and close.  The databases are external.*)
(* A statement is one of a few kinds; what it did is a set of places that  *)
(* changed: the database itself, or another file of the same machine.      *)
(***************************************************************************)
EXTENDS Naturals, Sequences

SqlBackends == {"postgres", "mysql", "sqlite", "clickhouse"}

Statements ==
  {"none",        \* no ?sql=, or a body that does not parse
   "syntax",      \* refused by every parser
   "wrong",       \* refused by every server: an unknown table
   "select", "dml",
   "returning",   \* DML with a result set
   "ddl",
   "script",      \* COMMIT; and then a statement that writes
   "file"}        \* writes another file: ATTACH or VACUUM INTO (SQLite), SELECT ...
                  \* INTO OUTFILE (MySQL), COPY ... TO (PostgreSQL), INSERT INTO
                  \* FUNCTION file() (ClickHouse)

VARIABLES
  ask,      \* backend, method, statement; locked: readonly = true (sqlite); granted:
            \* the configured user may write files of the server (FILE in MySQL,
            \* pg_write_server_files in PostgreSQL)
  step,     \* the handler's next step
  db,       \* link: none, up, lost, closed; ro: this session may not write;
            \* pending: places changed but not committed; durable: committed
  reply,    \* the status about to be sent
  answers   \* the status lines sent

sqlVars == <<ask, step, db, reply, answers>>

SqlSteps == {"route", "connect", "explain", "execute", "commit", "answer", "leave", "done"}

SqlInit ==
  /\ ask \in [backend : SqlBackends, method : {"GET", "POST"}, statement : Statements,
              locked : BOOLEAN, granted : BOOLEAN]
  /\ ask.granted => ask.backend \in {"mysql", "postgres"}
  /\ ask.locked => ask.backend = "sqlite"
  /\ step = "route" /\ reply = 0 /\ answers = <<>>
  /\ db = [link |-> "none", ro |-> FALSE, pending |-> {}, durable |-> {}]

On(b)   == ask.backend = b
Reads   == ask.method = "GET"
Stmt    == ask.statement
Place   == IF Stmt = "file" THEN {"file"} ELSE {"data"}
HasRows == Stmt \in {"select", "returning"}

\* Mutated form: a GET is executed as it comes.
NeverPrepared == FALSE

\* cur.execute(..., prepare=True)
Prepared == Reads
-----------------------------------------------------------------------------
(* What the servers do with a statement (external)                         *)

\* Only PostgreSQL runs several statements at once, and not prepared ones.
TakesScripts == On("postgres") /\ ~Prepared

\* A read-only session: what of a write it refuses.  DDL commits MySQL's
\* transaction and then runs outside it; to MySQL and PostgreSQL a statement
\* that writes a file is a read.
Refuses ==
  /\ db.ro
  /\ Stmt \in {"dml", "returning", "ddl", "file"}
  /\ ~(On("mysql") /\ Stmt = "ddl")
  /\ ~(ask.backend \in {"mysql", "postgres"} /\ Stmt = "file")

\* Effects that need no commit: ClickHouse has no transactions, DDL of MySQL
\* and of SQLite, other files, a COMMIT in the script itself.
Immediate ==
  \/ On("clickhouse")
  \/ Stmt \in {"file", "script"}
  \/ Stmt = "ddl" /\ ask.backend \in {"mysql", "sqlite"}

\* What no transaction protects is, when it fails midway, done in part; DDL of
\* SQLite is a transaction of its own.
Partial == Immediate /\ ~(On("sqlite") /\ Stmt = "ddl")

\* The server's own privilege for files, which no session takes away.
Denied == Stmt = "file" /\ ask.backend \in {"mysql", "postgres"} /\ ~ask.granted

Outcome ==
  IF \/ Stmt \in {"none", "syntax", "wrong"} \/ Denied
     \/ Stmt = "script" /\ ~TakesScripts THEN "error"
  ELSE IF Refuses THEN "readonly"
  ELSE IF Stmt = "select" THEN "rows"
  ELSE "wrote"

Effect(d) ==
  IF Outcome # "wrote" THEN d
  ELSE IF Immediate THEN [d EXCEPT !.durable = @ \cup Place]
  ELSE [d EXCEPT !.pending = Place]

RolledBack(link) == [db EXCEPT !.link = link, !.pending = {}]
Committed(link)  == [db EXCEPT !.link = link, !.pending = {}, !.durable = @ \cup db.pending]
-----------------------------------------------------------------------------
(* The handler                                                             *)

Send(status) == step' = "answer" /\ reply' = status

\* route(): no statement, and the sqlite handler's own readonly = true.
Route ==
  /\ step = "route"
  /\ IF ask.locked /\ ~Reads THEN Send(405)
     ELSE IF Stmt = "none" THEN Send(400)
     ELSE step' = "connect" /\ UNCHANGED reply
  /\ UNCHANGED <<ask, db, answers>>

\* conn.read_only, START TRANSACTION READ ONLY, mode=ro, readonly=1
Connect ==
  /\ step = "connect"
  /\ db' = [db EXCEPT !.link = "up", !.ro = Reads]
  /\ step' = IF On("mysql") /\ Reads THEN "explain" ELSE "execute"
  /\ UNCHANGED <<ask, reply, answers>>

\* psycopg's error is left to main(), as are all of sqlite3's: 500.
ConnectFails ==
  /\ step = "connect"
  /\ \E status \in {500, 502} :
       /\ status = 500 => On("postgres") \/ On("sqlite")
       /\ status = 502 => ~On("postgres")
       /\ Send(status)
  /\ UNCHANGED <<ask, db, answers>>

\* MySQL parses EXPLAIN only before queries and DML; any other error is left
\* for the statement itself to meet.
Explain ==
  /\ step = "explain"
  /\ IF Stmt \in {"ddl", "script", "syntax"} THEN Send(405)
     ELSE step' = "execute" /\ UNCHANGED reply
  /\ UNCHANGED <<ask, db, answers>>

\* 405 for the server's own refusal, and for the script that PostgreSQL does
\* not prepare; MySQL's secure_file_priv has the error number of a read-only
\* server; sqlite3 before 3.11 raised a Warning for a script; to ClickHouse the
\* credentials may be what is wrong.
Refusal ==
  IF Outcome = "readonly" \/ (On("postgres") /\ Stmt = "script") THEN {405}
  ELSE IF On("mysql") /\ Stmt = "file" THEN {400, 405}
  ELSE IF On("sqlite") /\ Stmt = "script" THEN {400, 500}
  ELSE IF On("clickhouse") THEN {400, 502}
  ELSE {400}

\* The EXPLAIN runs into a lost connection, and the statement after it.
ExplainLost ==
  /\ step = "explain"
  /\ db' = [db EXCEPT !.link = "lost"]
  /\ Send(400) /\ UNCHANGED <<ask, answers>>

\* Mutated form: a result set means there is nothing to commit.
CommitsUnlessRows == ~HasRows /\ ~Reads /\ ~On("clickhouse")

\* A commit comes next, unless the session only reads, PostgreSQL has rows to
\* send first, or ClickHouse has nothing to commit.
CommitsFirst ==
  IF On("postgres") THEN ~HasRows ELSE ~Reads /\ ~On("clickhouse")

Execute ==
  /\ step = "execute"
  /\ IF Outcome \in {"error", "readonly"}
       THEN /\ \E status \in Refusal : Send(status)
            /\ UNCHANGED db
       ELSE /\ db' = Effect(db)
            /\ reply' = 200
            /\ step' = IF CommitsFirst THEN "commit" ELSE "answer"
  /\ UNCHANGED <<ask, answers>>

\* The connection ends, or pymysql's read_timeout does, while the server works:
\* what needs no commit may have been done.  pymysql calls that an
\* OperationalError like any other, and the mysql handler answers 400.
ExecuteLost ==
  /\ step = "execute" /\ ~On("sqlite")
  /\ \/ db' = [db EXCEPT !.link = "lost"]
     \/ Immediate /\ db' = [Effect(db) EXCEPT !.link = "lost"]
  /\ Send(CASE On("mysql") -> 400 [] On("postgres") -> 500 [] OTHER -> 502)
  /\ UNCHANGED <<ask, answers>>

\* The statement fails midway (a constraint, a full disk, a division by zero):
\* the server undoes what it can.  To psycopg some of that is a ProgrammingError,
\* the rest is left to main(), and so is sqlite3's in fetchall(); ClickHouse's
\* has a code, or not.
ExecuteFails ==
  /\ step = "execute" /\ Outcome \in {"rows", "wrote"}
  /\ \/ UNCHANGED db
     \/ Partial /\ db' = Effect(db)
  /\ \E status \in {400, 500, 502} :
       /\ status = 500 => On("postgres") \/ On("sqlite")
       /\ status = 502 => On("clickhouse")
       /\ Send(status)
  /\ UNCHANGED <<ask, answers>>

Commit ==
  /\ step = "commit"
  /\ db' = Committed("up")
  /\ Send(200) /\ UNCHANGED <<ask, answers>>

\* A deferred constraint, a lock, or a lost connection: main() answers, or in
\* mysql route().  An acknowledgement may be what was lost.
CommitFails ==
  /\ step = "commit"
  /\ db' \in {RolledBack("up"), Committed("lost"), RolledBack("lost")}
  /\ db'.link = "lost" => ~On("sqlite")
  /\ \E status \in {500, 502} :
        /\ status = 502 => On("mysql")
        /\ Send(status)
  /\ UNCHANGED <<ask, answers>>

Answer ==
  /\ step = "answer"
  /\ answers' = Append(answers, reply)
  /\ step' = "leave" /\ UNCHANGED <<ask, db, reply>>

\* The client has hung up: the write fails, and the with or finally block
\* closes a connection that has committed nothing more.
AnswerFails ==
  /\ step = "answer" /\ step' = "done"
  /\ db' = RolledBack("closed")
  /\ UNCHANGED <<ask, reply, answers>>

\* finally: conn.close(); psycopg's with commits first.
Leave ==
  /\ step = "leave"
  /\ db' = IF On("postgres") THEN Committed("closed") ELSE RolledBack("closed")
  /\ step' = "done" /\ UNCHANGED <<ask, reply, answers>>

\* That commit fails after the answer has gone out: main() sends another one.
LeaveFails ==
  /\ step = "leave" /\ On("postgres") /\ db.pending # {}
  /\ db' = RolledBack("closed")
  /\ answers' = Append(answers, 500)
  /\ step' = "done" /\ UNCHANGED <<ask, reply>>

SqlNext ==
  \/ Route \/ Connect \/ ConnectFails \/ Explain \/ ExplainLost \/ Execute
  \/ ExecuteLost \/ ExecuteFails \/ Commit \/ CommitFails \/ Answer \/ AnswerFails \/ Leave \/ LeaveFails

SqlSpec == SqlInit /\ [][SqlNext]_sqlVars
-----------------------------------------------------------------------------
(* Properties                                                              *)

\* A GET leaves the database as it is under all four mechanisms, whatever kind
\* of statement it carries and wherever it is cut off (ADR 0005).  Another file
\* it can write only where a read-only session is no obstacle, in MySQL and
\* PostgreSQL, and then the configured user has the privilege for files.
GetLeavesData ==
  Reads => db.durable \subseteq (IF ask.granted THEN {"file"} ELSE {})

\* When the process has ended, its last status line is right about the
\* statement: after 200 what was written is committed, after a 405 nothing was;
\* after a 400 nothing was either, unless the statement is one that no
\* transaction protects and failed midway, or MySQL's answer got lost, which
\* the handler also calls a 400.
AnswerIsFate ==
  step = "done" /\ answers # <<>> =>
    LET last == answers[Len(answers)]
    IN /\ last = 200 /\ Outcome = "wrote" => db.durable = Place
       /\ last = 405 => db.durable = {}
       /\ last = 400 /\ db.durable # {} => Partial
=============================================================================
