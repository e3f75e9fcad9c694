--------------------------- MODULE OverdueWatcher ---------------------------
(***************************************************************************)
(* scripts/overdue_watcher.py: a pass every 15 minutes reads the status of *)
(* every active application, sends an alert for each one that is FAILED or *)
(* OVERDUE and was not so in the state file, and rewrites the state file.  *)
(* The statuses change under its hands, the webhook, the database and the  *)
(* disk fail, and the pass is killed with its container at any point.      *)
(*                                                                         *)
(* A status is read with two queries; StatusReads shows that the outcome   *)
(* is the status at one instant, so here a read is one step.               *)
(***************************************************************************)
EXTENDS Naturals

CONSTANTS
  App,       \* the active applications
  Faults,    \* what may fail: "webhook", "db", "save", "crash", "reset"
  MaxFaults, \* bound: how often it may
  MaxChange, \* bound: how often the status of an application changes
  None

Alertable == {"FAILED", "OVERDUE"}
\* SUCCESS stands for every status that is not alerted.
Status == {"SUCCESS"} \cup Alertable

ASSUME WatcherAssumption ==
  /\ Faults \subseteq {"webhook", "db", "save", "crash", "reset"}
  /\ MaxFaults \in Nat /\ MaxChange \in Nat
  /\ None \notin Status

VARIABLES
  truth,  \* the status of each application, by the database and the clock
  spell,  \* history: how often it has changed; it numbers the incidents
  file,   \* the state file as _load_state reads it: absent, torn or {} is None
  pc,     \* where the pass is
  prev,   \* what it loaded
  seen,   \* the status it read of each application, None before
  during, \* history: the spell that status belongs to
  left,   \* the applications its loop has still to treat
  sent,   \* history: how many alerts of each spell arrived
  raised, \* history: the statuses alerted since the file last said otherwise
  refused, \* history: those among them whose alert the webhook did not take
  cuts,   \* history: how many passes were cut short, or their file lost
  faults  \* how often something failed

pass == <<prev, seen, during, left>>
world == <<truth, spell>>
told == <<sent, raised, refused>>
vars == <<world, file, pc, pass, told, cuts, faults>>

Nothing == [a \in App |-> None]

Init ==
  /\ truth = [a \in App |-> "SUCCESS"]
  /\ spell = [a \in App |-> 0]
  /\ file = Nothing
  /\ pc = "idle" /\ prev = Nothing /\ seen = Nothing
  /\ during = spell
  /\ left = {}
  /\ sent = [a \in App |-> [i \in 0..MaxChange |-> 0]]
  /\ raised = [a \in App |-> {}] /\ refused = raised
  /\ cuts = 0 /\ faults = 0

\* A run is recorded, or time passes and the schedule is missed.
Change(a) ==
  /\ spell[a] < MaxChange
  /\ \E s \in Status \ {truth[a]} : truth' = [truth EXCEPT ![a] = s]
  /\ spell' = [spell EXCEPT ![a] = @ + 1]
  /\ UNCHANGED <<file, pc, pass, told, cuts, faults>>

-----------------------------------------------------------------------------
\* The timer: run_once loads the state file.
Start ==
  /\ pc = "idle" /\ pc' = "read"
  /\ prev' = file
  /\ seen' = Nothing /\ left' = App
  /\ UNCHANGED <<world, file, during, told, cuts, faults>>

\* all_statuses: one application after the other, all of them before the
\* first alert.  (refresh_overdue_metrics reads them once more, for the gauge.)
Read(a) ==
  /\ pc = "read" /\ seen[a] = None
  /\ seen' = [seen EXCEPT ![a] = truth[a]]
  /\ during' = [during EXCEPT ![a] = spell[a]]
  /\ pc' = IF \A b \in App \ {a} : seen[b] # None THEN "alert" ELSE "read"
  /\ UNCHANGED <<world, file, prev, left, told, cuts, faults>>

\* Mutant of Incident: any alert before silences this one.
IncidentFromHealthy(a) == seen[a] \in Alertable /\ prev[a] \notin Alertable

Incident(a) == seen[a] \in Alertable /\ prev[a] # seen[a]

\* Mutant of Treat: the loop ends with its first application.
TreatFirst(a) ==
  /\ pc = "alert" /\ a \in left
  /\ left' = left \ {a}
  /\ pc' = "save"
  /\ UNCHANGED <<world, file, prev, seen, during, cuts>>

Treat(a) ==
  /\ pc = "alert" /\ a \in left
  /\ left' = left \ {a}
  /\ pc' = IF left' = {} THEN "save" ELSE "alert"
  /\ UNCHANGED <<world, file, prev, seen, during, cuts>>

Pass(a) == ~Incident(a) /\ Treat(a) /\ UNCHANGED <<told, faults>>

\* The webhook took the alert.
Arrives(a) ==
  /\ sent' = [sent EXCEPT ![a][during[a]] = @ + 1]
  /\ raised' = [raised EXCEPT ![a] = @ \cup {seen[a]}]
  /\ UNCHANGED refused

\* It did not.
Refused(a) ==
  /\ refused' = [refused EXCEPT ![a] = @ \cup {seen[a]}]
  /\ UNCHANGED <<sent, raised>>

Alert(a) == Incident(a) /\ Treat(a) /\ Arrives(a) /\ UNCHANGED faults

Fault(kind) == kind \in Faults /\ faults < MaxFaults /\ faults' = faults + 1

\* notify returned False (an error, a timeout after the alert got through, an
\* answer of 300 and up); _alert_incident only logs it.
WebhookFails(a) ==
  /\ Fault("webhook") /\ Incident(a)
  /\ Treat(a)
  /\ Arrives(a) \/ Refused(a)

\* _save_state: write_text empties the file, then writes.
Truncate ==
  /\ pc = "save" /\ pc' = "write"
  /\ file' = Nothing
  /\ UNCHANGED <<world, pass, told, cuts, faults>>

\* What the file will say is what still counts as told.
Settle ==
  /\ raised' = [a \in App |-> raised[a] \cap {seen[a]}]
  /\ refused' = [a \in App |-> refused[a] \cap {seen[a]}]

\* Mutant of Write: the map that was loaded is saved, not the one just built.
WritePrevious ==
  /\ pc = "write" /\ pc' = "idle"
  /\ file' = prev
  /\ Settle
  /\ UNCHANGED <<world, pass, sent, cuts, faults>>

Write ==
  /\ pc = "write" /\ pc' = "idle"
  /\ file' = seen
  /\ Settle
  /\ UNCHANGED <<world, pass, sent, cuts, faults>>

-----------------------------------------------------------------------------
\* A fault that keeps a pass from telling the next one what it did.
CutShort(kind) == Fault(kind) /\ cuts' = cuts + 1

\* Mutant of QueryFails: the except clause does not return before the save.
QueryFailsThenSaves ==
  /\ CutShort("db") /\ pc \in {"read", "alert"}
  /\ pc' = "save"
  /\ UNCHANGED <<world, file, pass, told>>

\* A query raised: run_once returns 1 before _save_state.
QueryFails ==
  /\ CutShort("db") /\ pc \in {"read", "alert"}
  /\ pc' = "idle"
  /\ UNCHANGED <<world, file, pass, told>>

\* _save_state raised: the file could not be opened, or not be written.
SaveFails ==
  /\ CutShort("save") /\ pc \in {"save", "write"}
  /\ pc' = "idle"
  /\ UNCHANGED <<world, file, pass, told>>

\* The container is restarted under the pass.
Killed ==
  /\ CutShort("crash") /\ pc # "idle"
  /\ pc' = "idle"
  /\ UNCHANGED <<world, file, pass, told>>

\* The container is made anew and its file system is lost (deploy/README:132).
Recreated ==
  /\ CutShort("reset")
  /\ pc' = "idle" /\ file' = Nothing
  /\ UNCHANGED <<world, pass, told>>

\* What a pass does when left alone.
Work ==
  \/ \E a \in App : Read(a) \/ Pass(a) \/ Alert(a)
  \/ Truncate \/ Write

Next ==
  \/ \E a \in App : Change(a) \/ WebhookFails(a)
  \/ Start \/ Work
  \/ QueryFails \/ SaveFails \/ Killed \/ Recreated

\* The timer keeps firing and a pass that is not killed goes on.
Spec == Init /\ [][Next]_vars /\ WF_vars(Start) /\ WF_vars(Work)

-----------------------------------------------------------------------------
TypeOK ==
  /\ truth \in [App -> Status]
  /\ spell \in [App -> 0..MaxChange] /\ during \in [App -> 0..MaxChange]
  /\ file \in [App -> Status \cup {None}] /\ prev \in [App -> Status \cup {None}]
  /\ seen \in [App -> Status \cup {None}]
  /\ pc \in {"idle", "read", "alert", "save", "write"}
  /\ pc \in {"alert", "save", "write"} => \A a \in App : seen[a] # None
  /\ left \subseteq App /\ (pc \in {"save", "write"} => left = {})
  /\ sent \in [App -> [0..MaxChange -> Nat]]
  /\ raised \in [App -> SUBSET Alertable] /\ refused \in [App -> SUBSET Alertable]
  /\ faults \in 0..MaxFaults /\ cuts \in Nat

\* "emits failure/overdue alerts once per incident" (scripts/overdue_watcher.py:3):
\* nobody is alerted twice of one incident, however its status moved between
\* the read and the alert and between two passes, except once more for each
\* pass that could not write down what it had sent.
OncePerIncident == \A a \in App : \A i \in 0..MaxChange : sent[a][i] <= 1 + cuts

\* A status that the state file holds, and for which the next pass would
\* therefore stay silent, is one whose alert arrived since the file last said
\* something else: no failure is marked as told that was not.
SilenceIsEarned ==
  \A a \in App : file[a] \in Alertable => file[a] \in raised[a]

\* The same, up to the answer of the webhook, which nobody reads: through
\* crashes, failed queries, torn and lost files no failure is marked as told
\* that no pass has tried to tell.
SilenceIsTried ==
  \A a \in App : file[a] \in Alertable => file[a] \in raised[a] \cup refused[a]

\* PRD section 20, "No Silent Failure": while an application is FAILED or
\* OVERDUE an alert of it goes out (if none did since the file last said
\* something else), whatever passes were cut short before.
BadNewsArrives ==
  \A a \in App : \A s \in Alertable :
    truth[a] = s ~> s \in raised[a] \cup refused[a] \/ truth[a] # s
=============================================================================
