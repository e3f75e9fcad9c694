------------------------- MODULE Registration_proofs -------------------------
(***************************************************************************)
(* Proofs about Registration, for any requests, seeds, names and keys: the *)
(* types, the uniqueness of names, the truth of answers and printed keys,  *)
(* that each lost key is the work of a fault, and that registering is the  *)
(* one step NameRegistry has for it.                                       *)
(***************************************************************************)
EXTENDS Registration, FiniteSetTheorems, TLAPS

LEMMA NoneIsNoEntry == None \notin Entry
BY RegistrationAssumption

\* The state keeps its types, whichever of commit and answer comes first; what
\* is about to be printed is committed, and so is what is about to be answered
\* where the commit comes first.
THEOREM RegistrationTypeCorrect == Spec => []TypeOK
<1>1. Init => TypeOK
  BY RegistrationAssumption DEF Init, TypeOK
<1>2. TypeOK /\ [Next]_vars => TypeOK'
  <2> SUFFICES ASSUME TypeOK, [Next]_vars PROVE TypeOK'
    OBVIOUS
  <2> USE DEF TypeOK, Uncommitted
  <2>1. ASSUME NEW c \in Client, Post(c) PROVE TypeOK'
    BY <2>1 DEF Post, Goto, Entry, Process
  <2>2. ASSUME NEW c \in Client, Conflict(c) PROVE TypeOK'
    BY <2>2 DEF Conflict, Goto, Answer, Process
  <2>3. ASSUME NEW c \in Client, Respond(c) PROVE TypeOK'
    BY <2>3, RegistrationAssumption DEF Respond, Goto, Answer, Process
  <2>4. ASSUME NEW s \in Seeder, NextItem(s) PROVE TypeOK'
    <3>1. Head(left[s]) \in Name /\ Tail(left[s]) \in Seq(Name)
      BY <2>4 DEF NextItem
    <3>2. [name |-> Head(left[s]), key |-> <<s, Head(left[s])>>] \in Entry
      BY <3>1 DEF Entry, Drawn
    <3> QED BY <2>4, <3>1, <3>2 DEF NextItem, Goto, Process
  <2>5. ASSUME NEW s \in Seeder, Skip(s) PROVE TypeOK'
    BY <2>5 DEF Skip, Goto, Process
  <2>6. ASSUME NEW s \in Seeder, Show(s) PROVE TypeOK'
    BY <2>6 DEF Show, Goto, Process
  <2>7. ASSUME NEW p \in Process, Free(p) PROVE TypeOK'
    BY <2>7 DEF Free, Goto
  <2>8. ASSUME NEW p \in Process, Insert(p) PROVE TypeOK'
    BY <2>8 DEF Insert, Goto
  <2>9. ASSUME NEW p \in Process, InsertRaises(p) PROVE TypeOK'
    BY <2>9 DEF InsertRaises, Goto, Answer
  <2>10. ASSUME NEW p \in Process, Commit(p) PROVE TypeOK'
    BY <2>10, RegistrationAssumption DEF Commit, Goto, BeforeCommit, AfterCommit, Process
  <2>11. ASSUME NEW p \in Process, Broken(p), Goto(p, pc[p], "done"),
                answer' \in [Client -> {None, "201", "409", "500"}],
                pc[p] \in Uncommitted => entry[p] \in Entry
         PROVE  TypeOK'
    <3>1. table \subseteq table' /\ table' \subseteq Entry
      BY <2>11 DEF Broken, BeforeCommit
    <3>2. faults' \in 0..MaxFaults
      BY <2>11, RegistrationAssumption DEF Broken
    <3> QED BY <2>11, <3>1, <3>2 DEF Broken, Goto
  <2>12. ASSUME NEW p \in Process, QueryFails(p) PROVE TypeOK'
    BY <2>11, <2>12 DEF QueryFails, Answer
  <2>13. ASSUME NEW p \in Process, Killed(p) PROVE TypeOK'
    BY <2>11, <2>13 DEF Killed
  <2>14. CASE UNCHANGED vars
    BY <2>14 DEF vars
  <2> QED
    BY <2>1, <2>2, <2>3, <2>4, <2>5, <2>6, <2>7, <2>8, <2>9, <2>10, <2>12,
       <2>13, <2>14
    DEF Next
<1> QED BY <1>1, <1>2, PTL DEF Spec

-----------------------------------------------------------------------------
\* Every step adds at most the entry of one process that has inserted it to the
\* table, and takes nothing away.
LEMMA TableGrows ==
  ASSUME [Next]_vars
  PROVE  \/ table' = table
         \/ \E p \in Process : pc[p] = BeforeCommit(p) /\ table' = table \cup {entry[p]}
<1>1. ASSUME NEW p \in Process, Broken(p)
      PROVE  \/ table' = table
             \/ pc[p] = BeforeCommit(p) /\ table' = table \cup {entry[p]}
  BY <1>1 DEF Broken
<1>2. ASSUME NEW p \in Process, Commit(p)
      PROVE  pc[p] = BeforeCommit(p) /\ table' = table \cup {entry[p]}
  BY <1>2 DEF Commit, Goto
<1> QED
  BY <1>1, <1>2
  DEF Next, vars, Post, Conflict, Respond, NextItem, Skip, Show, Free, Insert, InsertRaises,
      QueryFails, Killed

\* The unique index at work: of the processes that have inserted a name, there is
\* one, and the name is not in the table.
Locked ==
  \A p \in Process : pc[p] \in Uncommitted =>
    /\ ~Taken(entry[p].name)
    /\ \A o \in Process : pc[o] \in Uncommitted /\ entry[o].name = entry[p].name => o = p

Unique == Locked /\ NameOnce

LEMMA AlwaysUnique == Spec => []Unique
<1>1. Init => Unique
  BY DEF Init, Unique, Locked, NameOnce, Uncommitted
<1>2. TypeOK /\ Unique /\ [Next]_vars => Unique'
  <2> SUFFICES ASSUME TypeOK, Unique, [Next]_vars PROVE Unique'
    OBVIOUS
  <2> USE DEF Unique, Locked, NameOnce, Taken, TypeOK, Uncommitted
  <2>1. ASSUME NEW c \in Client, Post(c) PROVE Unique'
    BY <2>1 DEF Post, Goto, Process
  <2>2. ASSUME NEW c \in Client, Conflict(c) PROVE Unique'
    BY <2>2 DEF Conflict, Goto, Process
  <2>3. ASSUME NEW c \in Client, Respond(c) PROVE Unique'
    BY <2>3 DEF Respond, Goto, Process
  <2>4. ASSUME NEW s \in Seeder, NextItem(s) PROVE Unique'
    BY <2>4 DEF NextItem, Goto, Process
  <2>5. ASSUME NEW s \in Seeder, Skip(s) PROVE Unique'
    BY <2>5 DEF Skip, Goto, Process
  <2>6. ASSUME NEW s \in Seeder, Show(s) PROVE Unique'
    BY <2>6 DEF Show, Goto, Process
  <2>7. ASSUME NEW p \in Process, Free(p) PROVE Unique'
    BY <2>7 DEF Free, Goto
  <2>8. ASSUME NEW p \in Process, Insert(p) PROVE Unique'
    BY <2>8 DEF Insert, Goto
  <2>9. ASSUME NEW p \in Process, InsertRaises(p) PROVE Unique'
    BY <2>9 DEF InsertRaises, Goto
  <2>10. ASSUME NEW p \in Process, Commit(p) PROVE Unique'
    BY <2>10 DEF Commit, Goto, BeforeCommit, AfterCommit
  <2>11. ASSUME NEW p \in Process, Broken(p), Goto(p, pc[p], "done") PROVE Unique'
    BY <2>11 DEF Broken, Goto, BeforeCommit
  <2>12. ASSUME NEW p \in Process, QueryFails(p) \/ Killed(p) PROVE Unique'
    BY <2>11, <2>12 DEF QueryFails, Killed
  <2>13. CASE UNCHANGED vars
    BY <2>13 DEF vars
  <2> QED
    BY <2>1, <2>2, <2>3, <2>4, <2>5, <2>6, <2>7, <2>8, <2>9, <2>10, <2>12, <2>13
    DEF Next
<1> QED BY <1>1, <1>2, RegistrationTypeCorrect, PTL DEF Spec

\* NameOnce, for any number of registrations at a time.
THEOREM NamesAreUnique == Spec => []NameOnce
BY AlwaysUnique, PTL DEF Unique

-----------------------------------------------------------------------------
\* A request is answered last, so what it was answered for stays its entry.
AnsweredLast == \A c \in Client : answer[c] # None => pc[c] = "done"

Told == AnsweredLast /\ AnswerIsTrue

LEMMA AlwaysTold ==
  ASSUME CommitFirst
  PROVE  Spec => []Told
<1>1. Init => Told
  BY RegistrationAssumption DEF Init, Told, AnsweredLast, AnswerIsTrue
<1>2. TypeOK /\ Told /\ [Next]_vars => Told'
  <2> SUFFICES ASSUME TypeOK, Told, [Next]_vars PROVE Told'
    OBVIOUS
  <2>t. table \subseteq table'
    BY TableGrows
  <2> USE <2>t, RegistrationAssumption DEF Told, AnsweredLast, AnswerIsTrue, Taken, TypeOK, Uncommitted
  <2>1. ASSUME NEW c \in Client, Post(c) PROVE Told'
    BY <2>1 DEF Post, Goto, Process
  <2>2. ASSUME NEW c \in Client, Conflict(c) PROVE Told'
    BY <2>2 DEF Conflict, Goto, Answer, Process
  <2>3. ASSUME NEW c \in Client, Respond(c) PROVE Told'
    BY <2>3 DEF Respond, Goto, Answer, Process
  <2>4. ASSUME NEW s \in Seeder, NextItem(s) PROVE Told'
    BY <2>4 DEF NextItem, Goto, Process
  <2>5. ASSUME NEW s \in Seeder, Skip(s) PROVE Told'
    BY <2>5 DEF Skip, Goto, Process
  <2>6. ASSUME NEW s \in Seeder, Show(s) PROVE Told'
    BY <2>6 DEF Show, Goto, Process
  <2>7. ASSUME NEW p \in Process, Free(p) PROVE Told'
    BY <2>7 DEF Free, Goto
  <2>8. ASSUME NEW p \in Process, Insert(p) PROVE Told'
    BY <2>8 DEF Insert, Goto
  <2>9. ASSUME NEW p \in Process, InsertRaises(p) PROVE Told'
    BY <2>9 DEF InsertRaises, Goto, Answer
  <2>10. ASSUME NEW p \in Process, Commit(p) PROVE Told'
    BY <2>10 DEF Commit, Goto, BeforeCommit, AfterCommit
  <2>11. ASSUME NEW p \in Process, QueryFails(p) PROVE Told'
    BY <2>11 DEF QueryFails, Broken, Goto, Answer
  <2>12. ASSUME NEW p \in Process, Killed(p) PROVE Told'
    BY <2>12 DEF Killed, Broken, Goto
  <2>13. CASE UNCHANGED vars
    BY <2>13 DEF vars
  <2> QED
    BY <2>1, <2>2, <2>3, <2>4, <2>5, <2>6, <2>7, <2>8, <2>9, <2>10, <2>11, <2>12, <2>13
    DEF Next
<1> QED BY <1>1, <1>2, RegistrationTypeCorrect, PTL DEF Spec

\* AnswerIsTrue, where the session commits before the response is sent (FastAPI
\* 0.106 to 0.117): nothing that was answered is undone, for a row is answered
\* for after its commit and rows stay.
THEOREM AnswersAreTrue ==
  ASSUME CommitFirst
  PROVE  Spec => []AnswerIsTrue
BY AlwaysTold, PTL DEF Told

-----------------------------------------------------------------------------
\* A drawn key is in the hands of the seed that drew it and goes with the name
\* it was drawn for; what was printed has been committed.
KeysOwned ==
  /\ \A p \in Process : entry[p] # None /\ entry[p].key \in Drawn =>
       entry[p].key[2] = entry[p].name
  /\ \A r \in table : r.key \in Drawn => r.key[2] = r.name
  /\ \A s \in Seeder : entry[s] # None => entry[s].key \in Drawn
  /\ \A e \in shown : e \in table /\ e.key \in Drawn

\* PrintedKeyWorks: the keys the seeds print open what they were printed for.
THEOREM PrintedKeysWork == Spec => []PrintedKeyWorks
<1>1. Init => KeysOwned
  BY DEF Init, KeysOwned, Process
<1>2. TypeOK /\ KeysOwned /\ [Next]_vars => KeysOwned'
  <2> SUFFICES ASSUME TypeOK, KeysOwned, [Next]_vars PROVE KeysOwned'
    OBVIOUS
  <2>t. table \subseteq table'
    BY TableGrows
  <2>u. \A r \in table' : r.key \in Drawn => r.key[2] = r.name
    BY TableGrows, NoneIsNoEntry DEF KeysOwned, TypeOK, BeforeCommit
  <2>1. ASSUME NEW c \in Client, Post(c) PROVE KeysOwned'
    <3>1. c \notin Seeder /\ c \in Process
      BY RegistrationAssumption DEF Process
    <3>2. PICK n \in Name, k \in OwnKey :
            entry' = [entry EXCEPT ![c] = [name |-> n, key |-> k]]
      BY <2>1 DEF Post
    <3>3. k \notin Drawn
      BY RegistrationAssumption
    <3> QED BY <2>1, <3>1, <3>2, <3>3 DEF Post, KeysOwned, TypeOK, Process
  <2>2. ASSUME NEW s \in Seeder, NextItem(s) PROVE KeysOwned'
    <3>1. Head(left[s]) \in Name
      BY <2>2 DEF NextItem, TypeOK
    <3>2. PICK n \in Name : entry' = [entry EXCEPT ![s] = [name |-> n, key |-> <<s, n>>]]
      BY <2>2, <3>1 DEF NextItem
    <3>3. s \in Process /\ <<s, n>> \in Drawn
      BY DEF Drawn, Process
    <3>4. /\ entry'[s].name = n /\ entry'[s].key = <<s, n>>
          /\ \A p \in Process : p # s => entry'[p] = entry[p]
      BY <3>2, <3>3 DEF TypeOK
    <3>5. \A p \in Process : entry'[p] # None /\ entry'[p].key \in Drawn =>
                             entry'[p].key[2] = entry'[p].name
      BY <3>4 DEF KeysOwned
    <3>6. \A o \in Seeder : entry'[o] # None => entry'[o].key \in Drawn
      BY <3>3, <3>4 DEF KeysOwned, Process
    <3> QED BY <2>2, <3>5, <3>6 DEF NextItem, KeysOwned
  <2>3. ASSUME NEW s \in Seeder, Show(s) PROVE KeysOwned'
    <3>1. entry[s] \in table /\ entry[s] # None
      BY <2>3, NoneIsNoEntry DEF Show, Goto, TypeOK, Process
    <3> QED BY <2>3, <3>1 DEF Show, KeysOwned
  <2>4. CASE UNCHANGED <<entry, shown>>
    BY <2>4, <2>t, <2>u DEF KeysOwned
  <2> QED
    BY <2>1, <2>2, <2>3, <2>4
    DEF Next, vars, Conflict, Respond, Skip, Free, Insert, InsertRaises, Commit,
        QueryFails, Killed, Broken
<1>3. TypeOK /\ KeysOwned => PrintedKeyWorks
  <2> SUFFICES ASSUME TypeOK, KeysOwned, NEW e \in shown, NEW r \in table, r.key = e.key
               PROVE  r = e
    BY DEF PrintedKeyWorks, Finds, KeysOwned
  <2>1. r \in Entry /\ e \in Entry /\ e \in table /\ e.key \in Drawn
    BY DEF TypeOK, KeysOwned
  <2>2. r.name = e.name
    BY <2>1 DEF KeysOwned
  <2> QED BY <2>1, <2>2 DEF Entry
<1> QED BY <1>1, <1>2, <1>3, RegistrationTypeCorrect, PTL DEF Spec

-----------------------------------------------------------------------------
\* The applications nobody has the key of: drawn, committed, not printed and
\* not about to be.
Lost == {r \in table : /\ r.key \in Drawn /\ r \notin shown
                       /\ \A s \in Seeder : pc[s] = "print" => entry[s] # r}

\* An operator's request brings a key of the operator's.
Own == \A c \in Client : entry[c] # None => entry[c].key \in OwnKey

FewLost == IsFiniteSet(Lost) /\ Cardinality(Lost) <= faults

LEMMA OwnStep ==
  ASSUME TypeOK, Own, [Next]_vars
  PROVE  Own'
<1>1. ASSUME NEW c \in Client, Post(c) PROVE Own'
  BY <1>1, NoneIsNoEntry DEF Post, Own, TypeOK, Process
<1>2. ASSUME NEW s \in Seeder, NextItem(s) PROVE Own'
  BY <1>2, RegistrationAssumption DEF NextItem, Own, TypeOK, Process
<1>3. CASE UNCHANGED entry
  BY <1>3 DEF Own
<1> QED
  BY <1>1, <1>2, <1>3
  DEF Next, vars, Conflict, Respond, Skip, Show, Free, Insert, InsertRaises, Commit,
      QueryFails, Killed, Broken

\* A set no larger than before, or by one element where its bound is one more.
LEMMA OneMore ==
  ASSUME NEW S, NEW T, NEW x, NEW n \in Nat,
         IsFiniteSet(S), Cardinality(S) <= n, T \subseteq S \cup {x}
  PROVE  /\ IsFiniteSet(T) /\ Cardinality(T) <= n + 1
         /\ T \subseteq S => Cardinality(T) <= n
<1>0. Cardinality(S) \in Nat
  BY FS_CardinalityType
<1>1. /\ IsFiniteSet(S \cup {x})
      /\ Cardinality(S \cup {x}) \in {Cardinality(S), Cardinality(S) + 1}
  BY FS_AddElement, Zenon
<1>2. IsFiniteSet(T) /\ Cardinality(T) <= Cardinality(S \cup {x})
  BY <1>1, FS_Subset
<1>3. T \subseteq S => Cardinality(T) <= Cardinality(S)
  BY FS_Subset
<1>4. Cardinality(T) \in Nat /\ Cardinality(S \cup {x}) \in Nat
  BY <1>1, <1>2, FS_CardinalityType
<1> QED  BY <1>0, <1>1, <1>2, <1>3, <1>4

\* Only a fault loses a key, and only the one in hand.
LEMMA LostStep ==
  ASSUME TypeOK, Own, [Next]_vars
  PROVE  \/ Lost' \subseteq Lost /\ faults' = faults
         \/ /\ faults' = faults + 1
            /\ \E p \in Process : Lost' \subseteq Lost \cup {entry[p]}
<1> DEFINE Kept == Lost' \subseteq Lost /\ faults' = faults
<1>1. ASSUME UNCHANGED <<table, shown, faults>>,
             \A s \in Seeder : pc[s] = "print" => pc'[s] = "print" /\ entry'[s] = entry[s]
      PROVE  Kept
  BY <1>1 DEF Lost
<1>2. ASSUME NEW c \in Client, Post(c) \/ Conflict(c) \/ Respond(c) PROVE Kept
  BY <1>1, <1>2, RegistrationAssumption
  DEF Post, Conflict, Respond, Goto, TypeOK, Process
<1>3. ASSUME NEW s \in Seeder, NextItem(s) \/ Skip(s) PROVE Kept
  BY <1>1, <1>3 DEF NextItem, Skip, Goto, TypeOK, Process
<1>4. ASSUME NEW p \in Process, Free(p) \/ Insert(p) \/ InsertRaises(p) PROVE Kept
  BY <1>1, <1>4 DEF Free, Insert, InsertRaises, Goto, TypeOK, Process
<1>5. ASSUME NEW s \in Seeder, Show(s) PROVE Kept
  BY <1>5 DEF Show, Goto, Lost, TypeOK, Process
<1>6. ASSUME NEW p \in Process, Commit(p) PROVE Kept
  <2>1. /\ pc[p] = BeforeCommit(p) /\ table' = table \cup {entry[p]}
        /\ pc' = [pc EXCEPT ![p] = AfterCommit(p)]
        /\ UNCHANGED <<entry, shown, faults>>
    BY <1>6 DEF Commit, Goto
  <2>2. entry[p] \notin Lost'
    <3>1. CASE p \in Client
      BY <2>1, <3>1, NoneIsNoEntry, RegistrationAssumption
      DEF Lost, Own, TypeOK, Process, BeforeCommit
    <3>2. CASE p \notin Client
      BY <2>1, <3>2 DEF Lost, TypeOK, Process, AfterCommit
    <3> QED  BY <3>1, <3>2
  <2>3. \A s \in Seeder : pc[s] = "print" => pc'[s] = "print"
    BY <2>1 DEF TypeOK, Process, BeforeCommit, AfterCommit
  <2> QED  BY <2>1, <2>2, <2>3 DEF Lost
<1>7. ASSUME NEW p \in Process, QueryFails(p) \/ Killed(p)
      PROVE  faults' = faults + 1 /\ Lost' \subseteq Lost \cup {entry[p]}
  <2>1. /\ faults' = faults + 1 /\ pc' = [pc EXCEPT ![p] = "done"]
        /\ table' \subseteq table \cup {entry[p]} /\ UNCHANGED <<entry, shown>>
    BY <1>7 DEF QueryFails, Killed, Broken, Goto
  <2>2. \A s \in Seeder : s # p => pc'[s] = pc[s]
    BY <2>1 DEF TypeOK, Process
  <2> QED  BY <2>1, <2>2 DEF Lost
<1>8. CASE UNCHANGED vars
  BY <1>1, <1>8 DEF vars
<1> QED
  BY <1>2, <1>3, <1>4, <1>5, <1>6, <1>7, <1>8 DEF Next

\* KeysLost: at most one key is lost to each fault, and none otherwise.
THEOREM KeysAreLostToFaults == Spec => []KeysLost
<1>1. Init => Own /\ FewLost
  <2> SUFFICES ASSUME Init PROVE Own /\ FewLost
    OBVIOUS
  <2>1. Own
    BY DEF Init, Own, Process
  <2>2. Lost = {} /\ faults = 0
    BY DEF Init, Lost
  <2> QED  BY <2>1, <2>2, FS_EmptySet DEF FewLost
<1>2. TypeOK /\ Own /\ FewLost /\ [Next]_vars => Own' /\ FewLost'
  <2> SUFFICES ASSUME TypeOK, Own, FewLost, [Next]_vars PROVE Own' /\ FewLost'
    OBVIOUS
  <2>1. faults \in Nat
    BY RegistrationAssumption DEF TypeOK
  <2>2. CASE Lost' \subseteq Lost /\ faults' = faults
    <3>1. IsFiniteSet(Lost') /\ Cardinality(Lost') <= faults
      BY <2>1, <2>2, OneMore DEF FewLost
    <3> QED  BY <2>2, <3>1, OwnStep DEF FewLost
  <2>3. ASSUME faults' = faults + 1, NEW p \in Process, Lost' \subseteq Lost \cup {entry[p]}
        PROVE  Own' /\ FewLost'
    <3>1. IsFiniteSet(Lost') /\ Cardinality(Lost') <= faults + 1
      BY <2>1, <2>3, OneMore DEF FewLost
    <3> QED  BY <2>3, <3>1, OwnStep DEF FewLost
  <2> QED  BY <2>2, <2>3, LostStep
<1>3. FewLost => KeysLost
  BY DEF FewLost, KeysLost, Lost
<1> QED  BY <1>1, <1>2, <1>3, RegistrationTypeCorrect, PTL DEF Spec

-----------------------------------------------------------------------------
(***************************************************************************)
(* Registering implements one step of a name registry: the commit is that  *)
(* step, and the index sees to it that the name is still free then.        *)
(***************************************************************************)
LEMMA PhaseMoves ==
  ASSUME TypeOK, NEW p \in Process, NEW from, NEW to, Goto(p, from, to)
  PROVE  /\ Phase[p] = PhaseOf(from)
         /\ Phase' = [Phase EXCEPT ![p] = PhaseOf(to)]
  BY DEF Phase, Goto, TypeOK

LEMMA SameAnswer ==
  ASSUME TypeOK, NEW s \in Seeder, NEW code
  PROVE  [c \in Client |-> IF c = s THEN code ELSE answer[c]] = answer
  BY RegistrationAssumption DEF TypeOK

\* A request that is not over has not been answered.
LEMMA FirstAnswer ==
  ASSUME TypeOK, Told, NEW p \in Process, pc[p] # "done", NEW code, Answer(p, code)
  PROVE  Registry!Hear(p, code)
  BY DEF Told, AnsweredLast, Answer, TypeOK, Registry!Hear

\* The commit of a row that was inserted takes a free name.
LEMMA FreeAtCommit ==
  ASSUME Unique, NEW p \in Process, pc[p] = BeforeCommit(p), table' = table \cup {entry[p]}
  PROVE  Registry!Take(p)
  BY DEF Unique, Locked, Taken, BeforeCommit, Uncommitted, Registry!Take, Registry!Taken

LEMMA RegistryStep ==
  ASSUME CommitFirst, TypeOK, Unique, Told, [Next]_vars
  PROVE  [Registry!Next]_(Registry!vars)
<1> USE DEF Registry!Process, Process, PhaseOf, Uncommitted, BeforeCommit, AfterCommit
<1>1. ASSUME NEW c \in Client, Post(c) PROVE Registry!Open(c)
  <2>1. PICK n \in Name, k \in OwnKey : entry' = [entry EXCEPT ![c] = [name |-> n, key |-> k]]
    BY <1>1 DEF Post
  <2>2. [name |-> n, key |-> k] \in Entry
    BY DEF Entry
  <2>3. Registry!Goto(c, "closed", "open")
    BY <1>1, PhaseMoves DEF Post, Registry!Goto
  <2> QED  BY <1>1, <2>1, <2>2, <2>3 DEF Post, Registry!Open
<1>2. ASSUME NEW s \in Seeder, NextItem(s) PROVE Registry!Open(s)
  <2> DEFINE e == [name |-> Head(left[s]), key |-> <<s, Head(left[s])>>]
  <2>1. entry' = [entry EXCEPT ![s] = e] /\ Head(left[s]) \in Name
    BY <1>2 DEF NextItem, TypeOK
  <2>2. e \in Entry
    BY <2>1 DEF Entry, Drawn
  <2> HIDE DEF e
  <2>3. Registry!Goto(s, "closed", "open")
    BY <1>2, PhaseMoves DEF NextItem, Registry!Goto
  <2> QED  BY <1>2, <2>1, <2>2, <2>3 DEF NextItem, Registry!Open
<1>3. ASSUME NEW p \in Process, Free(p) \/ Insert(p) PROVE UNCHANGED Registry!vars
  <2>1. Phase[p] = "open" /\ Phase' = [Phase EXCEPT ![p] = "open"]
    BY <1>3, PhaseMoves DEF Free, Insert
  <2>2. Phase' = Phase
    BY <2>1 DEF Phase
  <2> QED  BY <1>3, <2>2 DEF Free, Insert, Registry!vars
<1>4. ASSUME NEW p \in Process, Commit(p) PROVE Registry!Win(p)
  <2>1. Registry!Goto(p, "open", "won")
    BY <1>4, PhaseMoves DEF Commit, Registry!Goto
  <2>2. Registry!Take(p)
    BY <1>4, FreeAtCommit DEF Commit, Goto
  <2> QED  BY <1>4, <2>1, <2>2 DEF Commit, Registry!Win
<1>5. ASSUME NEW c \in Client, Conflict(c) PROVE Registry!Lose(c)
  BY <1>5, PhaseMoves, FirstAnswer
  DEF Conflict, Goto, Taken, Registry!Lose, Registry!Goto, Registry!Taken
<1>6. ASSUME NEW s \in Seeder, Skip(s) PROVE Registry!Lose(s)
  BY <1>6, PhaseMoves, SameAnswer
  DEF Skip, Taken, Registry!Lose, Registry!Goto, Registry!Hear, Registry!Taken
<1>7. ASSUME NEW c \in Client, Respond(c) PROVE Registry!Tell(c)
  <2>1. c \notin Seeder
    BY RegistrationAssumption
  <2> QED  BY <1>7, <2>1, PhaseMoves, FirstAnswer
           DEF Respond, Goto, Registry!Tell, Registry!Goto
<1>8. ASSUME NEW s \in Seeder, Show(s) PROVE Registry!Tell(s)
  BY <1>8, PhaseMoves, SameAnswer DEF Show, Registry!Tell, Registry!Goto, Registry!Hear
<1>9. ASSUME NEW p \in Process, InsertRaises(p) PROVE Registry!Break(p)
  BY <1>9, PhaseMoves, FirstAnswer DEF InsertRaises, Goto, Registry!Break, Registry!Goto
<1>10. ASSUME NEW p \in Process, QueryFails(p) \/ Killed(p) PROVE Registry!Break(p)
  <2>1. \/ Registry!Goto(p, "open", "closed")
        \/ pc[p] # "inserted" /\ Registry!Goto(p, "won", "closed")
    BY <1>10, PhaseMoves DEF QueryFails, Killed, Registry!Goto, TypeOK
  <2>2. table' = table \/ (pc[p] = "inserted" /\ Registry!Take(p))
    BY <1>10, FreeAtCommit DEF QueryFails, Killed, Broken
  <2>3. answer' = answer \/ Registry!Hear(p, "500")
    BY <1>10, FirstAnswer DEF QueryFails, Killed
  <2> QED  BY <1>10, <2>1, <2>2, <2>3 DEF QueryFails, Killed, Broken, Registry!Break
<1>11. CASE UNCHANGED vars
  BY <1>11 DEF vars, Phase, Registry!vars
<1> QED
  BY <1>1, <1>2, <1>3, <1>4, <1>5, <1>6, <1>7, <1>8, <1>9, <1>10, <1>11 DEF Next, Registry!Next

\* ImplementsRegistry, where the session commits before the response is sent:
\* look-up, insert and commit, with anybody registering in between and anything
\* failing, are one step of an abstract registry.
THEOREM RegisteringIsAtomic ==
  ASSUME CommitFirst
  PROVE  Spec => ImplementsRegistry
<1>1. Init => Registry!Init
  BY DEF Init, Registry!Init, Registry!Process, Phase, PhaseOf, Process, Uncommitted
<1>2. TypeOK /\ Unique /\ Told /\ [Next]_vars => [Registry!Next]_(Registry!vars)
  BY RegistryStep
<1> QED  BY <1>1, <1>2, RegistrationTypeCorrect, AlwaysUnique, AlwaysTold, PTL
         DEF Spec, ImplementsRegistry, Registry!Spec
=============================================================================
