---------------------------- MODULE StatusReads ----------------------------
(***************************************************************************)
(* Status requests running against a table that reports keep growing:      *)
(* GET /applications/{id}/backup-status, GET /health/backups and the       *)
(* passes of the overdue watcher.  A request fixes "now" once and then     *)
(* runs two queries per application, the latest success and the latest     *)
(* run; at READ COMMITTED each sees the rows committed before it, and      *)
(* nothing keeps a report from being committed between them.               *)
(***************************************************************************)
EXTENDS BackupStatus, FiniteSets

CONSTANTS
  Reader,   \* the requests
  MaxRuns   \* bound: rows in the table

VARIABLES
  table,    \* backup_runs, the committed rows
  pc,       \* what each request does next
  now,      \* the reference time of each request
  todo,     \* the applications it has yet to look at
  app,      \* the application it is looking at
  success,  \* last_success, the result of the first query
  answer,   \* the statuses it found
  summary,  \* BackupHealth.status
  seen      \* history: what the status of an application was, at the time of
            \* the request, between its two queries

vars == <<table, pc, now, todo, app, success, answer, summary, seen>>

Init ==
  /\ table = {}
  /\ pc = [r \in Reader |-> "idle"]
  /\ now = [r \in Reader |-> 0]
  /\ todo = [r \in Reader |-> {}]
  /\ app = [r \in Reader |-> None]
  /\ success = [r \in Reader |-> None]
  /\ answer = [r \in Reader |-> [a \in App |-> None]]
  /\ summary = [r \in Reader |-> None]
  /\ seen = [r \in Reader |-> [a \in App |-> {}]]

\* A report is committed (the transaction itself is BackupApi's).
Append ==
  \E run \in Run :
    /\ Cardinality(table) < MaxRuns
    /\ table' = table \cup {run}
    /\ seen' = [r \in Reader |->
                  IF pc[r] = "latest"
                  THEN [seen[r] EXCEPT ![app[r]] =
                          @ \cup TrueStatus(table', app[r], now[r])]
                  ELSE seen[r]]
    /\ UNCHANGED <<pc, now, todo, app, success, answer, summary>>

\* utcnow() and the applications to look at: one, or list_active().
Begin(r) ==
  /\ pc[r] = "idle"
  /\ \E t \in Time, apps \in {App} \cup {{a} : a \in App} :
        /\ now' = [now EXCEPT ![r] = t]
        /\ todo' = [todo EXCEPT ![r] = apps]
  /\ pc' = [pc EXCEPT ![r] = "success"]
  /\ answer' = [answer EXCEPT ![r] = [a \in App |-> None]]
  /\ seen' = [seen EXCEPT ![r] = [a \in App |-> {}]]
  /\ UNCHANGED <<table, app, success, summary>>

\* Mutant of QuerySuccess: a success found earlier is good enough.
QuerySuccessCached(r) ==
  /\ pc[r] = "success"
  /\ \E a \in todo[r] :
        /\ app' = [app EXCEPT ![r] = a]
        /\ \E s \in LatestSuccess(table, a) :
              success' = [success EXCEPT ![r] = IF @ = None THEN s ELSE @]
        /\ seen' = [seen EXCEPT ![r][a] = TrueStatus(table, a, now[r])]
  /\ pc' = [pc EXCEPT ![r] = "latest"]
  /\ UNCHANGED <<table, now, todo, answer, summary>>

\* latest_success, the first query of application_status.
QuerySuccess(r) ==
  /\ pc[r] = "success"
  /\ \E a \in todo[r] :
        /\ app' = [app EXCEPT ![r] = a]
        /\ \E s \in LatestSuccess(table, a) : success' = [success EXCEPT ![r] = s]
        /\ seen' = [seen EXCEPT ![r][a] = TrueStatus(table, a, now[r])]
  /\ pc' = [pc EXCEPT ![r] = "latest"]
  /\ UNCHANGED <<table, now, todo, answer, summary>>

\* latest_run, the second, and the status that follows from both.
QueryLatest(r) ==
  /\ pc[r] = "latest"
  /\ \E l \in LatestRun(table, app[r]) :
        answer' = [answer EXCEPT ![r][app[r]] =
                     StatusFrom(app[r], success[r], l, now[r])]
  /\ todo' = [todo EXCEPT ![r] = @ \ {app[r]}]
  /\ pc' = [pc EXCEPT ![r] = "success"]
  /\ UNCHANGED <<table, now, app, success, summary, seen>>

Respond(r) ==
  /\ pc[r] = "success"
  /\ todo[r] = {}
  /\ summary' = [summary EXCEPT ![r] = Health(answer[r])]
  /\ pc' = [pc EXCEPT ![r] = "idle"]
  /\ UNCHANGED <<table, now, todo, app, success, answer, seen>>

Next ==
  \/ Append
  \/ \E r \in Reader : Begin(r) \/ QuerySuccess(r) \/ QueryLatest(r) \/ Respond(r)

Spec == Init /\ [][Next]_vars

-----------------------------------------------------------------------------
TypeOK ==
  /\ table \subseteq Run
  /\ pc \in [Reader -> {"idle", "success", "latest"}]
  /\ now \in [Reader -> Nat]
  /\ todo \in [Reader -> SUBSET App]
  /\ app \in [Reader -> {None} \cup App]
  /\ success \in [Reader -> {None} \cup Run]
  /\ summary \in [Reader -> {None, "degraded", "unknown", "healthy"}]
  /\ answer \in [Reader -> [App -> Status \cup {None}]]
  /\ seen \in [Reader -> [App -> SUBSET Status]]

\* No success on record is dated before the registration.
InOrder(a) == \A s \in SuccessesOf(table, a) : ~Early(a, s)

\* A status request is linearizable although it reads twice: of an application
\* whose successes all started after its registration it says a status that was
\* the true one at a single instant between its two queries.  It is the order of
\* the queries in application_status that makes this so
\* (app/services/backup_run_service.py:102-103), and the condition is needed: a
\* first success dated before the registration, committed between the queries,
\* can make an application overdue that the request then calls SUCCESS.
StatusLinearizable ==
  \A r \in Reader, a \in App :
    answer[r][a] # None /\ InOrder(a) => answer[r][a] \in seen[r][a]

\* /health/backups says "degraded" only when some application was failed or
\* overdue at some instant of the request, and "healthy" only when each one of
\* those was, at some instant, neither, but for those with a success dated before
\* their registration (app/services/backup_health_service.py:42-52).
HealthDeserved ==
  \A r \in Reader : pc[r] = "idle" /\ (\A a \in App : answer[r][a] # None) =>
    /\ summary[r] = "degraded" => \E a \in App : seen[r][a] \cap Alarming # {}
    /\ summary[r] = "healthy" =>
         \A a \in App : InOrder(a) => seen[r][a] \ Alarming # {}

\* The first query settles the answer when the application is overdue by it;
\* otherwise the second does.
Settled(r, a) == pc[r] = "latest" /\ app[r] = a /\ IsOverdue(a, success[r], now[r])

Answer == [r \in Reader |-> [a \in App |->
             IF Settled(r, a) THEN "OVERDUE" ELSE answer[r][a]]]
Unread == [r \in Reader |-> {a \in todo[r] : ~Settled(r, a)}]

\* What one read of the table may say: the status by that table; and where the
\* newest success is an early one, also the status with no success at all, for
\* the request may have asked for the success before it was on record.
Reading(rows, a, t) ==
  TrueStatus(rows, a, t) \cup
    {StatusFrom(a, None, l, t) :
       l \in {l \in LatestRun(rows, a) : \E s \in LatestSuccess(rows, a) : Early(a, s)}}

\* Two queries with commits between them do what one would: a request could as
\* well have read each application in a single step, and whoever builds on the
\* status (the health summary, the watcher) may take it for that.
Atomic == INSTANCE AtomicStatus
  WITH busy <- [r \in Reader |-> pc[r] # "idle"], todo <- Unread, answer <- Answer
ReadsAreAtomic == Atomic!Spec
=============================================================================
