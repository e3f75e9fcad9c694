-------------------------- MODULE BackwatchSystem --------------------------
(***************************************************************************)
(* The parts together, against the clock: systemd starts the agents of a   *)
(* host on their calendars, a run ends with a row in the API's table, with *)
(* no trace, or never, the host goes down and comes back, and the watcher  *)
(* looks at the statuses of BackupStatus at every instant.                 *)
(*                                                                         *)
(* An instant is one period of the watcher's timer.  BackupAgent shows how *)
(* a run comes to end without a row, BackupApi what happens to its report, *)
(* OverdueWatcher what a pass does step by step; here each is one step.    *)
(***************************************************************************)
EXTENDS BackupStatus

CONSTANTS
  Day,       \* the period of the calendars
  Calendar,  \* of each application: the hours its timer elapses at
  Horizon,   \* bound: the last instant
  MaxOutage, \* bound: how often the host goes down
  MaxDeaf    \* bound: a pass is completed at least once in so many instants

ASSUME SystemAssumption ==
  /\ Day \in Nat \ {0} /\ Calendar \in [App -> SUBSET (0..Day - 1)]
  /\ Horizon \in Nat /\ MaxOutage \in Nat /\ MaxDeaf \in Nat
  /\ Time = 0..Horizon
  \* The agents are installed as soon as their applications are registered.
  /\ \A a \in App : Created[a] = 0

VARIABLES
  clock,   \* now
  up,      \* the host of the agents runs
  outages, \* how often it went down
  timer,   \* whether the timer of each application is active
  fired,   \* the last instant each timer elapsed at, None before
  job,     \* the start of the run each unit is busy with, or None
  table,   \* backup_runs
  noted,   \* history: when the last row of each application was recorded
  looked,  \* the last instant the watcher's timer elapsed at
  heard,   \* history: the last instant a pass of it was completed
  file,    \* its state file
  rung,    \* history: the statuses alerted since a pass saw none to alert
  told,    \* history: the statuses ever alerted
  since,   \* history: the statuses alerted since the last row was recorded
  stood,   \* history: what the state file held when it was
  lost     \* history: the start of the last run that ended without a row

host == <<up, outages, timer, fired, job, lost>>
api == <<table, noted, stood>>
watcher == <<looked, heard, file, rung, told, since>>
vars == <<clock, host, api, watcher>>

\* OnCalendar.  install.sh gives --schedule to the timer in a drop-in, which
\* adds an hour to the midnight of the template instead of replacing it.
Due(a, t) == t % Day \in Calendar[a]

\* install.sh enables the timer, which starts the service it Requires.
Init ==
  /\ clock = 0 /\ up = TRUE /\ outages = 0
  /\ timer = [a \in App |-> TRUE]
  /\ fired = [a \in App |-> 0] /\ job = fired
  /\ table = {} /\ noted = fired
  /\ looked = 0 /\ heard = 0
  /\ file = [a \in App |-> None]
  /\ rung = [a \in App |-> {}] /\ told = rung /\ since = rung
  /\ stood = file /\ lost = file

-----------------------------------------------------------------------------
\* The timer elapses.  A unit that is still active is not started again, and
\* the event is gone.
Elapse(a) ==
  /\ up /\ timer[a] /\ Due(a, clock) /\ fired[a] # clock
  /\ fired' = [fired EXCEPT ![a] = clock]
  /\ job' = [job EXCEPT ![a] = IF @ = None THEN clock ELSE @]
  /\ UNCHANGED <<clock, up, outages, timer, lost, api, watcher>>

\* The run reports what became of it (agents report SUCCESS or FAILED only).
Report(a) ==
  /\ job[a] # None
  /\ \E s \in {"SUCCESS", "FAILED"} :
        table' = table \cup {[app |-> a, status |-> s, started |-> job[a]]}
  /\ noted' = [noted EXCEPT ![a] = clock]
  /\ stood' = [stood EXCEPT ![a] = file[a]]
  /\ since' = [since EXCEPT ![a] = {}]
  /\ job' = [job EXCEPT ![a] = None]
  /\ UNCHANGED <<clock, up, outages, timer, fired, lost, looked, heard, file, rung, told>>

\* It is killed, dies of an exception, or its one report is refused (a negative
\* duration) or lost.  A run that hangs takes neither step, for the unit has no
\* timeout.
Vanish(a) ==
  /\ job[a] # None
  /\ job' = [job EXCEPT ![a] = None] /\ lost' = [lost EXCEPT ![a] = job[a]]
  /\ UNCHANGED <<clock, up, outages, timer, fired, api, watcher>>

\* Somebody stops a unit that hangs; systemd stops the timer that Requires it.
Stop(a) ==
  /\ job[a] # None
  /\ job' = [job EXCEPT ![a] = None] /\ lost' = [lost EXCEPT ![a] = job[a]]
  /\ timer' = [timer EXCEPT ![a] = FALSE]
  /\ UNCHANGED <<clock, up, outages, fired, api, watcher>>

PowerLoss ==
  /\ up /\ outages < MaxOutage
  /\ up' = FALSE /\ outages' = outages + 1
  /\ job' = [a \in App |-> None]
  /\ lost' = [a \in App |-> IF job[a] = None THEN lost[a] ELSE job[a]]
  /\ UNCHANGED <<clock, timer, fired, api, watcher>>

\* Every enabled timer comes up and starts the service it Requires; what
\* Persistent= would catch up is that very start.
Boot ==
  /\ ~up /\ up' = TRUE
  /\ timer' = [a \in App |-> TRUE]
  /\ fired' = [a \in App |-> clock] /\ job' = fired'
  /\ UNCHANGED <<clock, outages, lost, api, watcher>>

-----------------------------------------------------------------------------
\* Mutants of Rings: any alert before silences this one; only OVERDUE is told;
\* every change is told, recoveries as well.
RingsFromHealthy(a, s) == s \in Alarming /\ file[a] \notin Alarming
RingsOverdueOnly(a, s) == s = "OVERDUE" /\ file[a] # s
RingsOnEveryChange(a, s) == file[a] # s

Rings(a, s) == s \in Alarming /\ file[a] # s

\* What it then posts.
Alert(a, s) == IF Rings(a, s) THEN {s} ELSE {}

\* A pass of the watcher, from its queries to its state file.
Pass ==
  /\ looked # clock /\ looked' = clock /\ heard' = clock
  /\ \E statusOf \in [App -> Status] :
       /\ \A a \in App : statusOf[a] \in TrueStatus(table, a, clock)
       /\ file' = statusOf
       /\ told' = [a \in App |-> told[a] \cup Alert(a, statusOf[a])]
       /\ since' = [a \in App |-> since[a] \cup Alert(a, statusOf[a])]
       /\ rung' = [a \in App |->
            IF statusOf[a] \in Alarming THEN rung[a] \cup Alert(a, statusOf[a]) ELSE {}]
  /\ UNCHANGED <<clock, host, api>>

\* The pass ends early, or the container it runs in is down.
PassLost ==
  /\ looked # clock /\ clock - heard < MaxDeaf
  /\ looked' = clock
  /\ UNCHANGED <<clock, host, api, heard, file, rung, told, since>>

\* Time goes on when every timer that elapses at this instant has.
Tick ==
  /\ clock < Horizon /\ clock' = clock + 1
  /\ looked = clock
  /\ \A a \in App : up /\ timer[a] /\ Due(a, clock) => fired[a] = clock
  /\ UNCHANGED <<host, api, watcher>>

Next ==
  \/ \E a \in App : Elapse(a) \/ Report(a) \/ Vanish(a) \/ Stop(a)
  \/ PowerLoss \/ Boot
  \/ Pass \/ PassLost \/ Tick

Spec == Init /\ [][Next]_vars

-----------------------------------------------------------------------------
TypeOK ==
  /\ clock \in Time /\ up \in BOOLEAN /\ outages \in 0..MaxOutage
  /\ timer \in [App -> BOOLEAN]
  /\ fired \in [App -> Time] /\ job \in [App -> Time \cup {None}]
  /\ \A a \in App : job[a] # None => up /\ job[a] <= clock
  /\ table \subseteq Run /\ noted \in [App -> 0..clock]
  /\ looked \in 0..clock /\ heard \in 0..looked
  /\ file \in [App -> Status \cup {None}]
  /\ rung \in [App -> SUBSET Alarming] /\ told \in [App -> SUBSET Alarming]
  /\ since \in [App -> SUBSET Alarming] /\ stood \in [App -> Status \cup {None}]
  /\ lost \in [App -> Time \cup {None}]

\* PRD section 20, "No Silent Failure", as far as the parts keep it: of a
\* scheduled backup there is a row of it or of a later run, or the OVERDUE
\* alert has gone out by the first pass that is completed one interval after
\* it, whether the run vanished, hung, was never started or its host was down.
EveryRunAccounted ==
  \A a \in App : \A d \in Time :
    Due(a, d) /\ d + Interval[a] < heard =>
      \/ \E r \in RunsOf(table, a) : r.started >= d
      \/ "OVERDUE" \in rung[a]

\* "A backup failure must be detected within at most 15 minutes" (PRD section
\* 20), as far as the watcher keeps it: once a pass is completed after the
\* report of a failure, and no later run has been reported, an alert has gone
\* out since that report, or the file already held, when it came, the very alarm
\* the last pass saw.
FailureDetected ==
  \A a \in App :
    /\ RunsOf(table, a) # {} /\ noted[a] < heard
    /\ \A r \in Newest(RunsOf(table, a)) : r.status = "FAILED"
    => \/ since[a] # {}
       \/ file[a] \in Alarming /\ stood[a] = file[a]

\* The failed run r follows a success: it is a new incident.
NewIncident(a, r) ==
  /\ r.status = "FAILED"
  /\ \E q \in Newest(RunsOf(table, a) \ {r}) :
        q.status = "SUCCESS" /\ q.started < r.started

\* "Alerts once per new FAILED/OVERDUE incident" (README.md:245): a failure that
\* follows a success has an alert of its own once a pass is completed after it.
IncidentAlerted ==
  \A a \in App : \A r \in Newest(RunsOf(table, a)) :
    NewIncident(a, r) /\ noted[a] < heard => since[a] # {}

\* The next instant of the calendar.
NextDue(a, d) == CHOOSE t \in d + 1..d + Day : Due(a, t) /\ \A u \in d + 1..t - 1 : ~Due(a, u)

\* "Every scheduled backup must result in one of: SUCCESS, FAILED, OVERDUE",
\* never "nothing happened" (PRD section 20): the run of that time has a row,
\* or the application has been OVERDUE at least once by the time its interval
\* is over.
NotSilent(a, d) ==
  Due(a, d) /\ NextDue(a, d) + Interval[a] < heard =>
    \/ \E r \in RunsOf(table, a) : r.started \in d..NextDue(a, d) - 1
    \/ "OVERDUE" \in told[a]

=============================================================================
