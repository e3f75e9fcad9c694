----------------------------- MODULE BackupApi -----------------------------
(***************************************************************************)
(* POST /api/v1/backups: what the API process does with the reports of the *)
(* agents.  A request is one coroutine on one database session (get_db);   *)
(* it is suspended at every query, so any number of requests are somewhere *)
(* between authentication and commit.  The Prometheus counters live in the *)
(* process, the rows in the database, and the process may be restarted     *)
(* (autoheal.sh does it) at any moment.                                    *)
(***************************************************************************)
EXTENDS Integers, FiniteSets

CONSTANTS
  App,          \* the registered applications
  Key,          \* the API keys agents present
  KeyOwner,     \* the active application each key finds, None if there is none
  Req,          \* the POST requests
  Time,         \* possible values of started_at
  Elapsed,      \* possible values of finished_at - started_at
  CommitFirst,  \* does the session commit before the response is sent?
  None

(***************************************************************************)
(* get_db commits after its yield.  FastAPI runs that code before sending  *)
(* the response in the versions 0.106 to 0.117 and after it from 0.118 on; *)
(* requirements.txt:1 accepts both (fastapi>=0.110).                       *)
(***************************************************************************)
ASSUME ApiAssumption ==
  /\ KeyOwner \in [Key -> {None} \cup App]
  /\ Time \subseteq Int /\ Elapsed \subseteq Int
  /\ CommitFirst \in BOOLEAN
  /\ None \notin Int
  /\ None \notin {"201", "401", "422", "500", "gave up", "yes", "no"}

VARIABLES
  pc,          \* where each request is in the server
  report,      \* the payload of each request, with its key
  answer,      \* what the agent got: a status code, or that it gave up
  table,       \* backup_runs, the committed rows
  successes,   \* backup_success_total
  failures,    \* backup_failure_total
  lastSuccess, \* backup_last_success_timestamp
  atBoot       \* history: the rows there were when the process started

metrics == <<successes, failures, lastSuccess>>
vars == <<pc, report, answer, table, metrics, atBoot>>

RunStatus == {"SUCCESS", "FAILED", "RUNNING"}
Report == [key : Key, status : RunStatus, started : Time, elapsed : Elapsed]

OnServer == {"auth", "insert", "inserted", "committed", "answered"}
Authenticated == OnServer \ {"auth"}

Row(q) == [req |-> q, app |-> KeyOwner[report[q].key], status |-> report[q].status,
           finished |-> report[q].started + report[q].elapsed]

Init ==
  /\ pc = [q \in Req |-> "unsent"]
  /\ report = [q \in Req |-> None]
  /\ answer = [q \in Req |-> None]
  /\ table = {}
  /\ successes = [a \in App |-> 0]
  /\ failures = [a \in App |-> 0]
  /\ lastSuccess = [a \in App |-> None]
  /\ atBoot = {}

Goto(q, from, to) == pc[q] = from /\ pc' = [pc EXCEPT ![q] = to]

\* The response reaches an agent that still waits for it.
Answer(q, code) ==
  answer' = [answer EXCEPT ![q] = IF @ = None THEN code ELSE @]

-----------------------------------------------------------------------------
\* The agent: Reporter.report.

Post(q) ==
  /\ Goto(q, "unsent", "auth")
  /\ \E r \in Report : report' = [report EXCEPT ![q] = r]
  /\ UNCHANGED <<answer, table, metrics, atBoot>>

\* 30 seconds, or a connection that breaks.  The server is not told.
GiveUp(q) ==
  /\ pc[q] # "unsent" /\ answer[q] = None
  /\ answer' = [answer EXCEPT ![q] = "gave up"]
  /\ UNCHANGED <<pc, report, table, metrics, atBoot>>

-----------------------------------------------------------------------------
\* The server.

\* duration_seconds has ge=0 in the schema; the agent computes it from two
\* readings of the wall clock.
Valid(r) == r.elapsed >= 0

\* Mutant of Authenticate: a key nobody owns is let through.
AuthenticateAnyKey(q) ==
  /\ Goto(q, "auth", "insert")
  /\ Valid(report[q])
  /\ UNCHANGED <<report, answer, table, metrics, atBoot>>

Authenticate(q) ==
  /\ Goto(q, "auth", "insert")
  /\ KeyOwner[report[q].key] # None
  /\ Valid(report[q])
  /\ UNCHANGED <<report, answer, table, metrics, atBoot>>

\* The dependencies are resolved first, so a bad key wins over a bad body.
Refuse(q) ==
  /\ Goto(q, "auth", "done")
  /\ \/ KeyOwner[report[q].key] = None /\ Answer(q, "401")
     \/ KeyOwner[report[q].key] # None /\ ~Valid(report[q]) /\ Answer(q, "422")
  /\ UNCHANGED <<report, table, metrics, atBoot>>

\* A query fails (the database is away, a value does not fit its column):
\* get_db rolls back and the agent gets a 500.
QueryFails(q) ==
  /\ Goto(q, pc[q], "done") /\ pc[q] \in {"auth", "insert"}
  /\ Answer(q, "500")
  /\ UNCHANGED <<report, table, metrics, atBoot>>

\* Mutant of Record: the FAILED branch of _update_metrics counts nothing.
RecordUncounted(q) ==
  LET a == KeyOwner[report[q].key]
  IN /\ Goto(q, "insert", "inserted")
     /\ \/ /\ report[q].status = "SUCCESS"
           /\ successes' = [successes EXCEPT ![a] = @ + 1]
           /\ lastSuccess' = [lastSuccess EXCEPT ![a] = Row(q).finished]
           /\ UNCHANGED failures
        \/ /\ report[q].status # "SUCCESS"
           /\ UNCHANGED metrics
     /\ UNCHANGED <<report, answer, table, atBoot>>

\* record: create_run flushes the INSERT and _update_metrics follows without
\* another await.  Nothing is committed yet.
Record(q) ==
  LET a == KeyOwner[report[q].key]
      r == report[q]
  IN /\ Goto(q, "insert", "inserted")
     /\ \/ /\ r.status = "SUCCESS"
           /\ successes' = [successes EXCEPT ![a] = @ + 1]
           /\ lastSuccess' = [lastSuccess EXCEPT ![a] = Row(q).finished]
           /\ UNCHANGED failures
        \/ /\ r.status = "FAILED"
           /\ failures' = [failures EXCEPT ![a] = @ + 1]
           /\ UNCHANGED <<successes, lastSuccess>>
        \/ /\ r.status = "RUNNING"
           /\ UNCHANGED metrics
     /\ UNCHANGED <<report, answer, table, atBoot>>

\* The exit code of get_db, in the place its FastAPI version gives it.
BeforeCommit == IF CommitFirst THEN "inserted" ELSE "answered"
AfterCommit == IF CommitFirst THEN "committed" ELSE "done"

Commit(q) ==
  /\ Goto(q, BeforeCommit, AfterCommit)
  /\ table' = table \cup {Row(q)}
  /\ UNCHANGED <<report, answer, metrics, atBoot>>

\* Mutant of CommitFails: get_db rolls back and does not raise again.
CommitErrorSwallowed(q) ==
  /\ Goto(q, BeforeCommit, AfterCommit)
  /\ table' \in {table, table \cup {Row(q)}}
  /\ UNCHANGED <<report, answer, metrics, atBoot>>

\* The connection breaks in COMMIT: the transaction is rolled back, or was
\* committed and nobody heard.  A 500, if the response is not out already.
CommitFails(q) ==
  /\ Goto(q, BeforeCommit, "done")
  /\ table' \in {table, table \cup {Row(q)}}
  /\ IF CommitFirst THEN Answer(q, "500") ELSE UNCHANGED answer
  /\ UNCHANGED <<report, metrics, atBoot>>

Respond(q) ==
  /\ IF CommitFirst THEN Goto(q, "committed", "done") ELSE Goto(q, "inserted", "answered")
  /\ Answer(q, "201")
  /\ UNCHANGED <<report, table, metrics, atBoot>>

\* The process is killed and started again: requests and metrics are gone; of
\* the transactions that were at their COMMIT some may have got through.
Restart ==
  /\ \E got \in SUBSET {q \in Req : pc[q] = BeforeCommit} :
        table' = table \cup {Row(q) : q \in got}
  /\ atBoot' = table'
  /\ pc' = [q \in Req |-> IF pc[q] \in OnServer THEN "done" ELSE pc[q]]
  /\ successes' = [a \in App |-> 0]
  /\ failures' = [a \in App |-> 0]
  /\ lastSuccess' = [a \in App |-> None]
  /\ UNCHANGED <<report, answer>>

Serve(q) ==
  \/ Authenticate(q) \/ Refuse(q) \/ QueryFails(q) \/ Record(q)
  \/ Commit(q) \/ CommitFails(q) \/ Respond(q)

Next == (\E q \in Req : Post(q) \/ GiveUp(q) \/ Serve(q)) \/ Restart

Spec == Init /\ [][Next]_vars

-----------------------------------------------------------------------------
\* A request on the server has a payload, an authenticated one an application.
PayloadsOK ==
  \A q \in Req : /\ pc[q] # "unsent" => report[q] \in Report
                 /\ pc[q] \in Authenticated => KeyOwner[report[q].key] \in App

\* A committed row is that of a request which got as far as its COMMIT.
TableOK ==
  \A r \in table : /\ r.req \in Req /\ r = Row(r.req) /\ r.app \in App
                   /\ pc[r.req] \in {"committed", "done"}

\* A gauge has a value exactly if its process has counted a success.
GaugesOK == \A a \in App : lastSuccess[a] = None <=> successes[a] = 0

TypeOK ==
  /\ pc \in [Req -> {"unsent", "done"} \cup OnServer]
  /\ report \in [Req -> {None} \cup Report]
  /\ answer \in [Req -> {None, "201", "401", "422", "500", "gave up"}]
  /\ successes \in [App -> Nat] /\ failures \in [App -> Nat]
  /\ lastSuccess \in [App -> {None} \cup Int]
  /\ GaugesOK /\ PayloadsOK /\ TableOK /\ atBoot \subseteq table

\* What the agent was told is recorded is recorded: a 201, which lets it exit
\* with 0, comes only for a row that is committed, whatever the database and
\* the process do afterwards (PRD section 7, line 176: "Every backup must
\* produce a structured record.").
AckedIsOnRecord ==
  \A q \in Req : answer[q] = "201" => Row(q) \in table

\* The same once everything about the request is over, so that no COMMIT which
\* is still to come can make it good: a run whose agent got a 201 is recorded,
\* in either order of commit and answer ("Every backup must produce a
\* structured record.", PRD line 176).
AckedIsKept ==
  \A q \in Req : answer[q] = "201" /\ pc[q] = "done" => Row(q) \in table

Rows(status, a) == {r \in table \ atBoot : r.status = status /\ r.app = a}

\* Every run committed since the process started has been counted, although
\* the counting comes first and the commit may fail or go unheard: increase()
\* of backup_failure_total misses no failure on record.
CommittedIsCounted ==
  \A a \in App : /\ Cardinality(Rows("SUCCESS", a)) <= successes[a]
                 /\ Cardinality(Rows("FAILED", a)) <= failures[a]

\* What the endpoint promises its agents where the session commits before the
\* response is sent: see ReportLedger.  In particular no row is entered for a
\* report after it was answered with an error, but one may be after its agent
\* gave up waiting.
Entitled(q) == KeyOwner[report[q].key] # None /\ Valid(report[q])

Phase == [q \in Req |->
            IF pc[q] \in {"committed", "answered", "done"} THEN "closed"
            ELSE IF pc[q] = "unsent" THEN "unsent" ELSE "open"]
Claim == [q \in Req |-> IF pc[q] # "unsent" /\ Entitled(q) THEN {Row(q)} ELSE {}]
Heard == [q \in Req |->
            IF answer[q] = None THEN None ELSE IF answer[q] = "201" THEN "yes" ELSE "no"]

Promise == INSTANCE ReportLedger
  WITH phase <- Phase, claim <- Claim, rows <- table, heard <- Heard
KeepsPromise == Promise!Spec
=============================================================================
