----------------------------- MODULE AtomicStatus -----------------------------
(***************************************************************************)
(* What a status request promises whoever makes it, the endpoint, the      *)
(* health summary or the watcher: of each application it is asked about it *)
(* says what the table gives at one instant of the request, as if it read  *)
(* the table once; the summary is that of these statuses.                  *)
(***************************************************************************)
CONSTANTS
  App, Reader, Time, Run, None,  \* as in BackupStatus and StatusReads
  Reading(_, _, _),              \* what a table may give for an application
  Health(_)                      \* the summary of all

VARIABLES
  table,    \* the rows
  busy,     \* whether each request is going on
  now,      \* the instant it asks about
  todo,     \* the applications it has yet to read
  answer,   \* the statuses it read
  summary

vars == <<table, busy, now, todo, answer, summary>>

Init ==
  /\ table = {}
  /\ busy = [r \in Reader |-> FALSE]
  /\ now = [r \in Reader |-> 0]
  /\ todo = [r \in Reader |-> {}]
  /\ answer = [r \in Reader |-> [a \in App |-> None]]
  /\ summary = [r \in Reader |-> None]

Commit ==
  /\ \E run \in Run : table' = table \cup {run}
  /\ UNCHANGED <<busy, now, todo, answer, summary>>

Ask(r) ==
  /\ ~busy[r] /\ busy' = [busy EXCEPT ![r] = TRUE]
  /\ \E t \in Time : now' = [now EXCEPT ![r] = t]
  /\ \E apps \in SUBSET App : todo' = [todo EXCEPT ![r] = apps]
  /\ answer' = [answer EXCEPT ![r] = [a \in App |-> None]]
  /\ UNCHANGED <<table, summary>>

Read(r, a) ==
  /\ busy[r] /\ a \in todo[r]
  /\ \E s \in Reading(table, a, now[r]) : answer' = [answer EXCEPT ![r][a] = s]
  /\ todo' = [todo EXCEPT ![r] = @ \ {a}]
  /\ UNCHANGED <<table, busy, now, summary>>

Respond(r) ==
  /\ busy[r] /\ todo[r] = {}
  /\ busy' = [busy EXCEPT ![r] = FALSE]
  /\ summary' = [summary EXCEPT ![r] = Health(answer[r])]
  /\ UNCHANGED <<table, now, todo, answer>>

Next ==
  \/ Commit
  \/ \E r \in Reader : Ask(r) \/ Respond(r) \/ \E a \in App : Read(r, a)

Spec == Init /\ [][Next]_vars
=============================================================================
