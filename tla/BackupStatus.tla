---------------------------- MODULE BackupStatus ----------------------------
(***************************************************************************)
(* How the API derives an application's status from the rows of            *)
(* backup_runs: the two "latest" queries of BackupRunRepository, is_overdue *)
(* and BackupRunService.application_status, as pure operators.             *)
(***************************************************************************)
EXTENDS Integers

CONSTANTS
  App,       \* the registered applications
  Created,   \* created_at of each
  Interval,  \* schedule_interval_seconds of each
  Time,      \* the instants a run can start at and a request can ask about
  None       \* no such row

ASSUME AppAssumption ==
  /\ Created \in [App -> Nat]
  /\ Interval \in [App -> Nat]
  /\ Time \subseteq Nat

RunStatus == {"SUCCESS", "FAILED", "RUNNING"}
Status == RunStatus \cup {"OVERDUE", "NO_BACKUP"}
Alarming == {"OVERDUE", "FAILED"}

\* A row, reduced to what the status depends on.  started_at is what the report
\* says: before the registration (tests/test_backups.py:98-110 has such a row) or
\* later than "now", whatever the clock of the agent.
Run == [app : App, status : RunStatus, started : Time]

ASSUME NoneAssumption ==
  /\ None \notin Status \cup {"healthy", "degraded"}
  /\ \A r \in Run : r # None

-----------------------------------------------------------------------------
RunsOf(table, a) == {r \in table : r.app = a}
SuccessesOf(table, a) == {r \in RunsOf(table, a) : r.status = "SUCCESS"}

\* ORDER BY started_at DESC LIMIT 1 and .first(): any of the rows that started
\* last, there being no second sort key, or None.
Newest(rows) == {r \in rows : \A q \in rows : q.started <= r.started}
First(rows) == IF rows = {} THEN {None} ELSE Newest(rows)

LatestRun(table, a) == First(RunsOf(table, a))
LatestSuccess(table, a) == First(SuccessesOf(table, a))

\* The two comparisons differ: >= for an application that never succeeded.
IsOverdue(a, success, now) ==
  IF success = None
  THEN now - Created[a] >= Interval[a]
  ELSE now - success.started > Interval[a]

\* A success dated before its application was registered.  The two comparisons
\* part company over it: with no success the delay counts from the registration,
\* with this one from an earlier instant.
Early(a, success) == success # None /\ success.started < Created[a]

\* application_status, from the results of its two queries.
StatusFrom(a, success, latest, now) ==
  IF IsOverdue(a, success, now) THEN "OVERDUE"
  ELSE IF latest = None THEN "NO_BACKUP"
  ELSE latest.status

\* What both queries would give against one state of the table.
TrueStatus(table, a, now) ==
  {StatusFrom(a, s, l, now) : s \in LatestSuccess(table, a), l \in LatestRun(table, a)}

\* Mutants of Health: one bad application is not enough to be degraded; a label
\* the schema of the answer does not have.
HealthIfAllBad(statusOf) ==
  CASE App # {} /\ \A a \in App : statusOf[a] \in Alarming -> "degraded"
    [] App = {} -> "unknown"
    [] OTHER -> "healthy"

HealthMislabelled(statusOf) ==
  CASE \E a \in App : statusOf[a] \in Alarming -> "FAILED"
    [] App = {} -> "unknown"
    [] OTHER -> "healthy"

\* BackupHealthService.compute, from the status of each application.
Health(statusOf) ==
  CASE \E a \in App : statusOf[a] \in Alarming -> "degraded"
    [] App = {} -> "unknown"
    [] OTHER -> "healthy"
=============================================================================
