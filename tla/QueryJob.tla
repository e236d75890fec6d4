------------------------------ MODULE QueryJob ------------------------------
(***************************************************************************)
(* /query of the cloud query handlers (bigquery, athena, snowflake): a job *)
(* is started at a provider, polled under a deadline, and its result read  *)
(* page by page; what a GET may start; and the later look at a job that    *)
(* outlived its request.  The provider and its jobs are external.  Rows    *)
(* are numbered 1..total; row 0 is the header row that Athena puts first.  *)
(***************************************************************************)
EXTENDS Naturals, Sequences, SequencesExt, FiniteSetsExt

CONSTANTS
  Backends,   \* which of the three handlers
  MaxRows,    \* values of max_rows
  Totals,     \* how many rows a result may have
  Polls,      \* looks at a running job within the ten minutes
  PageCap     \* rows Athena returns at most in one page (1000)

ASSUME JobAssumption ==
  /\ Backends \subseteq {"bigquery", "athena", "snowflake"}
  /\ MaxRows \subseteq Nat /\ Totals \subseteq Nat
  /\ Polls \in Nat \ {0} /\ PageCap \in Nat \ {0}

VARIABLES
  req,     \* backend, op, kind of statement, limit: max_rows, total: rows of
           \* its result; guarded: readonly_role is set (snowflake), or the
           \* credential cannot write (athena)
  job,     \* at the provider - state; bound: it may not write; changed: it has
           \* written
  pc,      \* the handler's next step
  polls,   \* looks that found the job running
  page,    \* rows: converted so far; served: raw rows the provider has handed
           \* out; token: it says there are more
  answer   \* status; named: has the job's id; truncated, warned: its flags;
           \* broken: it reports a call that failed

jobVars == <<req, job, pc, polls, page, answer>>

JobSteps  == {"start", "dryrun", "submit", "poll", "lookup", "first", "page", "done"}
Ops    == {"get", "post", "fetch"}
Kinds  == {"select", "show", "dml", "ddl", "bad"}
NoPage == [rows |-> <<>>, served |-> 0, token |-> FALSE]
Blank  == [status |-> 0, named |-> FALSE, truncated |-> FALSE, warned |-> FALSE, broken |-> FALSE]

JobInit ==
  /\ req \in [backend : Backends, op : {"get", "post"}, kind : Kinds, limit : MaxRows,
              total : Totals, guarded : BOOLEAN]
  /\ req.kind = "show" => req.backend = "athena"
  /\ req.kind \notin {"select", "show"} => req.total = 0
  /\ req.guarded => req.backend # "bigquery"
  /\ job = [state |-> "none", bound |-> FALSE, changed |-> FALSE]
  /\ pc = "start" /\ polls = 0 /\ page = NoPage /\ answer = Blank

Is(b)      == req.backend = b
Writes     == req.kind \in {"dml", "ddl"}
Reply(a)   == pc' = "done" /\ answer' = a
Status(n)  == [Blank EXCEPT !.status = n]
Named(n)   == [Blank EXCEPT !.status = n, !.named = TRUE]
-----------------------------------------------------------------------------
(* The provider (external)                                                 *)

\* A write is refused by the role of a GET at snowflake, by the credential
\* of any request at athena.
Forbidden == Writes /\ req.guarded /\ (Is("athena") \/ req.op = "get")

Started == [job EXCEPT !.state = "running", !.bound = Forbidden]

JobEnds ==
  /\ job.state = "running"
  /\ \E state \in {"succeeded", "failed", "cancelled"} :
       /\ state = "succeeded" => req.kind # "bad" /\ ~job.bound
       /\ job' = [job EXCEPT !.state = state, !.changed = state = "succeeded" /\ Writes]
  /\ UNCHANGED <<req, pc, polls, page, answer>>

Header == IF Is("athena") /\ req.kind = "select" THEN 1 ELSE 0
Raw    == Header + req.total

\* The next n raw rows, by number.
Hand(n) == [i \in 1..n |-> page.served + i - Header]

\* How many raw rows come when at most limit are asked for: some, if any are
\* left.  A page that is full may carry a token though nothing follows.
Sizes(limit) ==
  LET most == Min({limit, Raw - page.served})
  IN IF most = 0 THEN {0} ELSE 1..most

Tokens(n, limit) ==
  IF page.served + n < Raw THEN {TRUE}
  ELSE IF n = limit /\ n > 0 /\ ~Is("snowflake") THEN BOOLEAN ELSE {FALSE}
-----------------------------------------------------------------------------
(* The handlers                                                            *)

Start ==
  /\ pc = "start"
  /\ pc' = IF Is("bigquery") /\ req.op = "get" THEN "dryrun" ELSE "submit"
  /\ UNCHANGED <<req, job, polls, page, answer>>

\* Mutated form: the gate names what it refuses, and forgets DDL.
DryRunDml ==
  /\ pc = "dryrun"
  /\ IF req.kind = "dml" THEN Reply(Status(405))
     ELSE pc' = "submit" /\ UNCHANGED answer
  /\ UNCHANGED <<req, job, polls, page>>

\* dry_run(), refuse_statement(): only what BigQuery classifies as SELECT.
DryRun ==
  /\ pc = "dryrun"
  /\ CASE req.kind = "select" -> pc' = "submit" /\ UNCHANGED answer
       [] req.kind = "bad" -> Reply(Status(400))
       [] OTHER -> Reply(Status(405))
  /\ UNCHANGED <<req, job, polls, page>>

\* Snowflake's own refusal of what the readonly_role may not do: a 405.
RoleRefuses == Is("snowflake") /\ Forbidden

\* The call that starts the job, or is refused at once.
Submit ==
  /\ pc = "submit"
  /\ \/ /\ job' = Started
        /\ pc' = "poll" /\ UNCHANGED answer
     \/ /\ req.kind = "bad" /\ Reply(Status(400)) /\ UNCHANGED job
     \/ /\ RoleRefuses /\ Reply(Status(405)) /\ UNCHANGED job
  /\ UNCHANGED <<req, polls, page>>

\* What a job that did not succeed is answered with: athena's describe(), and
\* the error documents of the others.
Failure ==
  CASE Is("athena") -> Named(IF job.state = "failed" THEN 400 ELSE 502)
    [] RoleRefuses -> Status(405)
    [] OTHER -> Status(400)

Settled ==
  IF job.state = "succeeded" THEN pc' = "first" /\ UNCHANGED answer ELSE Reply(Failure)

\* Mutated form: an answer to the poll is the result.
PollTakesAnything ==
  /\ pc = "poll" /\ pc' = "first"
  /\ UNCHANGED <<req, job, polls, page, answer>>

\* One look at the job; the time allowed is counted in looks.
Poll ==
  /\ pc = "poll"
  /\ IF job.state = "running"
       THEN polls < Polls /\ polls' = polls + 1 /\ UNCHANGED <<pc, answer>>
       ELSE Settled /\ UNCHANGED polls
  /\ UNCHANGED <<req, job, page>>

\* Mutated form: poll until the job ends.
NoDeadline == FALSE /\ UNCHANGED jobVars

\* The deadline is found passed after a look that saw the job running.
Deadline ==
  /\ pc = "poll" /\ polls = Polls
  /\ Reply(Named(504))
  /\ UNCHANGED <<req, job, polls, page>>

\* GET /executions/{id}, GET /statements/{handle}: one look at a job that an
\* earlier answer named.
Fetch ==
  /\ pc = "done" /\ answer.status = 504 /\ answer.named /\ ~Is("bigquery")
  /\ req' = [req EXCEPT !.op = "fetch"]
  /\ pc' = "lookup" /\ answer' = Blank
  /\ UNCHANGED <<job, polls, page>>

Lookup ==
  /\ pc = "lookup"
  /\ IF job.state = "running"
       THEN Reply(Named(IF Is("athena") THEN 502 ELSE 202))
       ELSE IF Is("snowflake") /\ job.state # "succeeded" THEN Reply(Status(400)) ELSE Settled
  /\ UNCHANGED <<req, job, polls, page>>

\* What a page call asks for; a partition of snowflake has the size it has.
Asked(rows) ==
  CASE Is("bigquery") -> req.limit - Len(rows)
    [] Is("athena") -> Min({PageCap, (IF pc = "first" THEN 1 ELSE 0) + req.limit - Len(rows)})
    [] OTHER -> Raw

\* Mutated form: the header is dropped from every page.
ConvertAll(rows) == SubSeq(rows, 1 + Header, Len(rows))

\* convert_rows(): the header is dropped from the first page.
Convert(rows) == IF pc = "first" /\ Header = 1 THEN Tail(rows) ELSE rows

\* Rows are fetched while the provider has more and max_rows is not reached.
NextPage ==
  /\ \/ pc = "first"
     \/ pc = "page" /\ page.token /\ Len(page.rows) < req.limit
  /\ \E n \in Sizes(Asked(page.rows)) : \E more \in Tokens(n, Asked(page.rows)) :
       page' = [rows   |-> page.rows \o Convert(Hand(n)),
                served |-> page.served + n,
                token  |-> more]
  /\ pc' = "page" /\ UNCHANGED <<req, job, polls, answer>>

\* pageToken, NextToken, or the row counts of snowflake's partitions.
Truncated ==
  \/ page.token /\ ~Is("snowflake")
  \/ Len(page.rows) > req.limit
  \/ Is("snowflake") /\ Raw > req.limit

\* wrote(): snowflake's stats count rows, and DDL has none.
CountsRows == Is("snowflake") /\ req.kind = "dml"

\* DDL and non-SELECT DML at athena; at snowflake what was counted, without a
\* role.
Warned ==
  /\ req.op = "get"
  /\ (Is("athena") /\ Writes) \/ (CountsRows /\ ~req.guarded)

Deliver ==
  /\ pc = "page" /\ ~(page.token /\ Len(page.rows) < req.limit)
  /\ page' = [page EXCEPT !.rows = SubSeq(@, 1, Min({Len(@), req.limit}))]
  /\ Reply([status |-> 200, named |-> TRUE, truncated |-> Truncated, warned |-> Warned,
            broken |-> FALSE])
  /\ UNCHANGED <<req, job, polls>>

\* What a failed call is answered with.  TimeoutError of a socket is the one
\* that athena and snowflake raise at their deadline; AWS throttles with a 400.
CallErrors ==
  {502} \cup (IF Is("bigquery") THEN {} ELSE {504}) \cup (IF Is("athena") THEN {400} ELSE {})

\* A call fails.  The answer to a submit may be what got lost.
CallFails ==
  /\ pc \in {"dryrun", "submit", "poll", "lookup", "first", "page"}
  /\ \E status \in CallErrors : Reply([Status(status) EXCEPT !.broken = TRUE])
  /\ \/ UNCHANGED job
     \/ pc = "submit" /\ job' = Started
  /\ UNCHANGED <<req, polls, page>>

Work ==
  \/ Start \/ DryRun \/ Submit \/ Poll \/ Deadline \/ Lookup \/ NextPage \/ Deliver

JobNext == Work \/ CallFails \/ Fetch \/ JobEnds

\* The handler runs and its calls return: connect_upstream() bounds each one.
\* Jobs need not end, and nobody need come back for them.
JobSpec == JobInit /\ [][JobNext]_jobVars /\ WF_jobVars(Work)
-----------------------------------------------------------------------------
(* Properties                                                              *)

\* However the result was cut into pages, a 200 holds its first rows, each
\* once and in order, at most max_rows, and says so when rows are missing.
RowsExact ==
  answer.status = 200 =>
    /\ page.rows = [i \in 1..Len(page.rows) |-> i]
    /\ Len(page.rows) <= req.limit
    /\ ~answer.truncated => Len(page.rows) = req.total

\* What a GET changes, it could not know and tells: never at BigQuery, never
\* under a role or credential that cannot write, and with a warning on the 200
\* (snowflake's stats do not show DDL).
GetWriteWarned ==
  req.op = "get" /\ job.changed =>
    /\ ~Is("bigquery") /\ ~req.guarded
    /\ answer.status = 200 => answer.warned \/ (Is("snowflake") /\ req.kind = "ddl")

\* A request that ends while its job runs has named the job, or reports a call
\* that failed; a 200 means that the job has succeeded.
NoSilentOrphan ==
  /\ pc = "done" /\ job.state = "running" => answer.named \/ answer.broken
  /\ answer.status = 200 => job.state = "succeeded"

\* Every request is answered, even if its job never ends.
Answered == pc # "done" ~> pc = "done"
=============================================================================
