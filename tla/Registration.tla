---------------------------- MODULE Registration ----------------------------
(***************************************************************************)
(* Registering applications: POST /api/v1/applications of operators, and   *)
(* runs of scripts/seed_applications.py, on one applications table.  Both  *)
(* look for the name first and insert afterwards, each in a transaction of *)
(* its own; the unique index of the name (not of the key) decides.         *)
(***************************************************************************)
EXTENDS Sequences, FiniteSets, Naturals

CONSTANTS
  Client,    \* the POST requests
  Seeder,    \* the runs of the seed script
  Seeded,    \* APPLICATIONS: the names it registers, in their order
  Name,      \* names of applications
  OwnKey,    \* keys operators choose; nothing keeps them from using one twice
  MaxFaults, \* bound: queries that fail and processes that are killed
  CommitFirst, \* does a request's session commit before its response is sent?
  None

Process == Client \cup Seeder
\* secrets.token_urlsafe draws another key every time.
Drawn == Seeder \X Name
Entry == [name : Name, key : OwnKey \cup Drawn]

ASSUME RegistrationAssumption ==
  /\ Client \cap Seeder = {} /\ OwnKey \cap Drawn = {}
  /\ Seeded \in Seq(Name)
  /\ \A i, j \in DOMAIN Seeded : i # j => Seeded[i] # Seeded[j]
  /\ CommitFirst \in BOOLEAN
  /\ MaxFaults \in Nat /\ None \notin Entry /\ None # "201" /\ None # "409"

VARIABLES
  table,  \* applications, the committed rows: name and key digest
  pc,     \* where each process is
  entry,  \* what it is registering
  left,   \* of each seeder: the names it has not come to
  answer, \* of each request: its status code, None if there never was one
  shown,  \* the entries the seeders printed
  faults  \* how often something failed

vars == <<table, pc, entry, left, answer, shown, faults>>

Init ==
  /\ table = {} /\ shown = {} /\ faults = 0
  /\ pc = [p \in Process |-> "idle"]
  /\ entry = [p \in Process |-> None]
  /\ left = [s \in Seeder |-> Seeded]
  /\ answer = [c \in Client |-> None]

Goto(p, from, to) == pc[p] = from /\ pc' = [pc EXCEPT ![p] = to]

\* A response, where one is waited for and none is out yet.
Answer(p, code) ==
  answer' = [c \in Client |-> IF c = p /\ answer[c] = None THEN code ELSE answer[c]]

Taken(name) == \E r \in table : r.name = name

(***************************************************************************)
(* The seed commits, then prints.  Of a request, get_db commits after its  *)
(* yield: before the response with FastAPI 0.106 to 0.117, after it from   *)
(* 0.118 on, and requirements.txt:1 accepts both (see BackupApi).          *)
(***************************************************************************)
BeforeCommit(p) == IF CommitFirst \/ p \in Seeder THEN "inserted" ELSE "answered"
AfterCommit(p) ==
  IF p \in Seeder THEN "print" ELSE IF CommitFirst THEN "respond" ELSE "done"

\* The places of a transaction that has inserted its row and is not over.
Uncommitted == {"inserted", "answered"}

-----------------------------------------------------------------------------
Post(c) ==
  /\ Goto(c, "idle", "check")
  /\ \E n \in Name, k \in OwnKey : entry' = [entry EXCEPT ![c] = [name |-> n, key |-> k]]
  /\ UNCHANGED <<table, left, answer, shown, faults>>

\* The next application of the list, and the key that is drawn for it.
NextItem(s) ==
  /\ Goto(s, "idle", "check") /\ left[s] # <<>>
  /\ entry' = [entry EXCEPT ![s] = [name |-> Head(left[s]), key |-> <<s, Head(left[s])>>]]
  /\ left' = [left EXCEPT ![s] = Tail(@)]
  /\ UNCHANGED <<table, answer, shown, faults>>

\* get_by_name finds nothing.
Free(p) ==
  /\ Goto(p, "check", "insert") /\ ~Taken(entry[p].name)
  /\ UNCHANGED <<table, entry, left, answer, shown, faults>>

Conflict(c) ==
  /\ Goto(c, "check", "done") /\ Taken(entry[c].name)
  /\ Answer(c, "409")
  /\ UNCHANGED <<table, entry, left, shown, faults>>

\* "already exists, skipping"
Skip(s) ==
  /\ Goto(s, "check", "idle") /\ Taken(entry[s].name)
  /\ UNCHANGED <<table, entry, left, answer, shown, faults>>

\* Mutant of Insert: the name has no unique index.
InsertUnindexed(p) ==
  /\ Goto(p, "insert", "inserted")
  /\ UNCHANGED <<table, entry, left, answer, shown, faults>>

\* Mutant of Insert: the seed prints before it commits.
InsertPrints(p) ==
  /\ Goto(p, "insert", "inserted") /\ ~Taken(entry[p].name)
  /\ \A o \in Process : pc[o] \in Uncommitted => entry[o].name # entry[p].name
  /\ shown' = shown \cup IF p \in Seeder THEN {entry[p]} ELSE {}
  /\ UNCHANGED <<table, entry, left, answer, faults>>

\* The flush of the INSERT.  The index makes it wait for a transaction that has
\* inserted the same name and is not over.
Insert(p) ==
  /\ Goto(p, "insert", "inserted") /\ ~Taken(entry[p].name)
  /\ \A o \in Process : pc[o] \in Uncommitted => entry[o].name # entry[p].name
  /\ UNCHANGED <<table, entry, left, answer, shown, faults>>

\* Mutant of InsertRaises: the error is taken for success, as the row is there.
InsertFindsRow(p) ==
  /\ Goto(p, "insert", "done") /\ Taken(entry[p].name)
  /\ Answer(p, "201")
  /\ UNCHANGED <<table, entry, left, shown, faults>>

\* IntegrityError: somebody has committed the name since it was looked for.  A
\* 500 for a request; the seed ends, with the rest of its list undone.
InsertRaises(p) ==
  /\ Goto(p, "insert", "done") /\ Taken(entry[p].name)
  /\ Answer(p, "500")
  /\ UNCHANGED <<table, entry, left, shown, faults>>

\* Mutant of Commit: it is forgotten, the session ends.
CommitForgotten(p) ==
  /\ Goto(p, BeforeCommit(p), AfterCommit(p))
  /\ UNCHANGED <<table, entry, left, answer, shown, faults>>

Commit(p) ==
  /\ Goto(p, BeforeCommit(p), AfterCommit(p))
  /\ table' = table \cup {entry[p]}
  /\ UNCHANGED <<entry, left, answer, shown, faults>>

Respond(c) ==
  /\ IF CommitFirst THEN Goto(c, "respond", "done") ELSE Goto(c, "inserted", "answered")
  /\ Answer(c, "201")
  /\ UNCHANGED <<table, entry, left, shown, faults>>

\* Mutant of Show: the keys are to be printed after the loop.
ShowLast(s) ==
  /\ Goto(s, "print", "idle")
  /\ shown' = shown \cup IF left[s] = <<>> THEN {entry[s]} ELSE {}
  /\ UNCHANGED <<table, entry, left, answer, faults>>

\* The one time the key is seen.
Show(s) ==
  /\ Goto(s, "print", "idle") /\ shown' = shown \cup {entry[s]}
  /\ UNCHANGED <<table, entry, left, answer, faults>>

\* A transaction that breaks at its COMMIT may have been committed.
Broken(p) ==
  /\ faults < MaxFaults /\ faults' = faults + 1
  /\ \/ table' = table
     \/ pc[p] = BeforeCommit(p) /\ table' = table \cup {entry[p]}
  /\ UNCHANGED <<entry, left, shown>>

\* Mutant of QueryFails: get_db rolls back and does not raise again.
QueryErrorSwallowed(p) ==
  /\ pc[p] \in {"check", "insert"} \cup Uncommitted
  /\ Goto(p, pc[p], "done")
  /\ Broken(p) /\ Answer(p, "201")

\* A query or the commit raises: get_db rolls back, the seed ends.  A 500 for a
\* request, if its response is not out already.
QueryFails(p) ==
  /\ pc[p] \in {"check", "insert"} \cup Uncommitted
  /\ Goto(p, pc[p], "done")
  /\ Broken(p) /\ Answer(p, "500")

\* The API container or the seed is killed.
Killed(p) ==
  /\ pc[p] \notin {"idle", "done"} /\ Goto(p, pc[p], "done")
  /\ Broken(p) /\ UNCHANGED answer

Next ==
  \/ \E c \in Client : Post(c) \/ Conflict(c) \/ Respond(c)
  \/ \E s \in Seeder : NextItem(s) \/ Skip(s) \/ Show(s)
  \/ \E p \in Process : \/ Free(p) \/ Insert(p) \/ InsertRaises(p) \/ Commit(p)
                        \/ QueryFails(p) \/ Killed(p)

Spec == Init /\ [][Next]_vars

-----------------------------------------------------------------------------
\* What is about to be printed is committed, and so is what is about to be
\* answered where the commit comes first.
TypeOK ==
  /\ table \subseteq Entry /\ shown \subseteq Entry
  /\ pc \in [Process -> {"idle", "check", "insert", "respond", "print", "done"} \cup Uncommitted]
  /\ entry \in [Process -> Entry \cup {None}]
  /\ left \in [Seeder -> Seq(Name)]
  /\ answer \in [Client -> {None, "201", "409", "500"}]
  /\ faults \in 0..MaxFaults
  /\ \A p \in Process : pc[p] \notin {"idle", "done"} => entry[p] \in Entry
  /\ \A p \in Process : pc[p] \in {"respond", "print"} => entry[p] \in table
  /\ \A p \in Process : pc[p] = "print" => p \in Seeder
  /\ \A p \in Process : pc[p] \in {"respond", "answered"} =>
       p \in Client /\ (CommitFirst <=> pc[p] = "respond")

\* "Unique application slug" (app/models/application.py:18), however many
\* registrations find the name free at the same time.
NameOnce == \A r, o \in table : r.name = o.name => r = o

\* Where the commit comes first: an operator who got a 201 has registered what
\* was asked for, and one who got a 409 finds the name registered, whatever
\* fails or is undone elsewhere.
AnswerIsTrue ==
  \A c \in Client :
    /\ answer[c] = "201" => entry[c] \in table
    /\ answer[c] = "409" => Taken(entry[c].name)

\* find_by_api_key_hash takes the first of these.
Finds(key) == {r \in table : r.key = key}

\* The key the seed prints for an application is the key of that application,
\* and of no other, whoever registers the name at the same time and wherever
\* the seed dies.
PrintedKeyWorks == \A e \in shown : Finds(e.key) = {e}

\* A seed that dies between commit and print leaves an application nobody has
\* the key of, which the next seed skips; that is the only way, so keys are
\* lost to faults, at most one to each.
KeysLost ==
  Cardinality({r \in table : /\ r.key \in Drawn /\ r \notin shown
                             /\ \A s \in Seeder : pc[s] = "print" => entry[s] # r}) <= faults

\* Where the commit comes first: two queries and a commit, between which anybody
\* else may register, are one step to whoever registers.  Nobody is told that a
\* name is taken which was not when it was looked for, and a 201 or a printed
\* key goes to the one process whose row is in.
PhaseOf(place) ==
  IF place \in {"check", "insert"} \cup Uncommitted THEN "open"
  ELSE IF place \in {"respond", "print"} THEN "won" ELSE "closed"
Phase == [p \in Process |-> PhaseOf(pc[p])]
Registry == INSTANCE NameRegistry WITH phase <- Phase
ImplementsRegistry == Registry!Spec
=============================================================================
