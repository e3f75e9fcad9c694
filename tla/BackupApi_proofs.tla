-------------------------- MODULE BackupApi_proofs --------------------------
(***************************************************************************)
(* What is proved of BackupApi for every set of requests, applications and *)
(* keys: the types, that the counters do not lag behind the table, and,    *)
(* wherever the session commits before the response is sent, that a 201    *)
(* means a committed row and that the endpoint implements ReportLedger.    *)
(***************************************************************************)
EXTENDS BackupApi, FiniteSetTheorems, TLAPS

\* The row of a request is fixed from the moment its report is.
LEMMA RowStays ==
  ASSUME NEW q \in Req, report'[q] = report[q]
  PROVE  Row(q)' = Row(q)
  BY DEF Row

\* Rows of requests that are not at their COMMIT any more stay in place.
LEMMA TableStays ==
  ASSUME TypeOK, table' = table,
         \A q \in Req : pc[q] \in {"committed", "done"} =>
                         /\ pc'[q] \in {"committed", "done"}
                         /\ report'[q] = report[q]
  PROVE  TableOK'
  BY RowStays DEF TypeOK, TableOK

\* A COMMIT adds rows of requests that were at it.
LEMMA TableGrows ==
  ASSUME TypeOK, UNCHANGED report,
         NEW got \in SUBSET {q \in Req : pc[q] = BeforeCommit},
         table' = table \cup {Row(q) : q \in got},
         \A q \in got : pc'[q] \in {"committed", "done"},
         \A q \in Req : pc[q] \in {"committed", "done"} =>
                         pc'[q] \in {"committed", "done"}
  PROVE  TableOK'
<1>1. \A q \in Req : Row(q)' = Row(q)
  BY RowStays
<1>2. ASSUME NEW q \in got
      PROVE  Row(q).req = q /\ Row(q).app \in App
  BY DEF Row, TypeOK, PayloadsOK, BeforeCommit, Authenticated, OnServer
<1>3. ASSUME NEW r \in table'
      PROVE  /\ r.req \in Req /\ r = Row(r.req)' /\ r.app \in App
             /\ pc'[r.req] \in {"committed", "done"}
  <2>1. CASE r \in table
    BY <2>1, <1>1 DEF TypeOK, TableOK
  <2>2. CASE r \notin table
    <3>1. PICK q \in got : r = Row(q)
      BY <1>3, <2>2
    <3>2. r.req = q /\ r.app \in App /\ q \in Req
      BY <3>1, <1>2
    <3> QED BY <3>1, <3>2, <1>1
  <2> QED BY <2>1, <2>2
<1> QED BY <1>3 DEF TableOK

LEMMA TypeInit == Init => TypeOK
  BY DEF Init, TypeOK, GaugesOK, PayloadsOK, TableOK, OnServer, Authenticated

LEMMA TypeStep == TypeOK /\ [Next]_vars => TypeOK'
<1> SUFFICES ASSUME TypeOK, [Next]_vars PROVE TypeOK' OBVIOUS
<1> DEFINE Shape == /\ pc \in [Req -> {"unsent", "done"} \cup OnServer]
                    /\ report \in [Req -> {None} \cup Report]
                    /\ answer \in [Req -> {None, "201", "401", "422", "500", "gave up"}]
                    /\ successes \in [App -> Nat] /\ failures \in [App -> Nat]
                    /\ lastSuccess \in [App -> {None} \cup Int]
                    /\ GaugesOK
                    /\ atBoot \subseteq table
<1> USE DEF OnServer, Authenticated, metrics
<1>1. ASSUME NEW q \in Req, Post(q) PROVE TypeOK'
  <2>1. Shape'
    BY <1>1 DEF TypeOK, Post, Goto, GaugesOK
  <2>2. PayloadsOK'
    BY <1>1 DEF TypeOK, PayloadsOK, Post, Goto
  <2>3. TableOK'
    BY <1>1, TableStays DEF TypeOK, Post, Goto
  <2> QED BY <2>1, <2>2, <2>3 DEF TypeOK
<1>2. ASSUME NEW q \in Req, GiveUp(q) PROVE TypeOK'
  <2>1. Shape'
    BY <1>2 DEF TypeOK, GiveUp, GaugesOK
  <2>2. PayloadsOK'
    BY <1>2 DEF TypeOK, PayloadsOK, GiveUp
  <2>3. TableOK'
    BY <1>2, TableStays DEF TypeOK, GiveUp
  <2> QED BY <2>1, <2>2, <2>3 DEF TypeOK
<1>3. ASSUME NEW q \in Req, Authenticate(q) PROVE TypeOK'
  <2>1. Shape'
    BY <1>3 DEF TypeOK, Authenticate, Goto, GaugesOK
  <2>2. PayloadsOK'
    BY <1>3, ApiAssumption DEF TypeOK, PayloadsOK, Authenticate, Goto, Report, ApiAssumption
  <2>3. TableOK'
    BY <1>3, TableStays DEF TypeOK, Authenticate, Goto
  <2> QED BY <2>1, <2>2, <2>3 DEF TypeOK
<1>4. ASSUME NEW q \in Req, Refuse(q) PROVE TypeOK'
  <2>1. Shape'
    BY <1>4 DEF TypeOK, Refuse, Goto, Answer, GaugesOK
  <2>2. PayloadsOK'
    BY <1>4 DEF TypeOK, PayloadsOK, Refuse, Goto, Answer
  <2>3. TableOK'
    BY <1>4, TableStays DEF TypeOK, Refuse, Goto, Answer
  <2> QED BY <2>1, <2>2, <2>3 DEF TypeOK
<1>5. ASSUME NEW q \in Req, QueryFails(q) PROVE TypeOK'
  <2>1. Shape'
    BY <1>5 DEF TypeOK, QueryFails, Goto, Answer, GaugesOK
  <2>2. PayloadsOK'
    BY <1>5 DEF TypeOK, PayloadsOK, QueryFails, Goto, Answer
  <2>3. TableOK'
    BY <1>5, TableStays DEF TypeOK, QueryFails, Goto, Answer
  <2> QED BY <2>1, <2>2, <2>3 DEF TypeOK
<1>6. ASSUME NEW q \in Req, Record(q) PROVE TypeOK'
  <2>1. report[q] \in Report /\ KeyOwner[report[q].key] \in App
    BY <1>6 DEF TypeOK, PayloadsOK, Record, Goto
  <2>2. Row(q).finished \in Int
    <3>1. report[q].started \in Time /\ report[q].elapsed \in Elapsed
      BY <2>1 DEF Report
    <3>2. Time \subseteq Int /\ Elapsed \subseteq Int
      BY ApiAssumption DEF ApiAssumption
    <3>3. report[q].started \in Int /\ report[q].elapsed \in Int
      BY <3>1, <3>2
    <3> QED BY <3>3 DEF Row
  <2>3. Shape'
    <3> DEFINE a == KeyOwner[report[q].key]
    <3>0. \A n \in Nat : n + 1 \in Nat
      OBVIOUS
    <3>1. successes' \in [App -> Nat] /\ failures' \in [App -> Nat]
      <4>1. successes \in [App -> Nat] /\ failures \in [App -> Nat]
        BY DEF TypeOK
      <4>2. successes' = successes \/ successes' = [successes EXCEPT ![a] = @ + 1]
        BY <1>6 DEF Record
      <4>3. failures' = failures \/ failures' = [failures EXCEPT ![a] = @ + 1]
        BY <1>6 DEF Record
      <4>4. a \in App
        BY <2>1
      <4> HIDE DEF a
      <4> QED BY <4>1, <4>2, <4>3, <4>4, <3>0
    <3>2. lastSuccess' \in [App -> {None} \cup Int]
      BY <1>6, <2>2 DEF TypeOK, Record
    <3>3. pc' \in [Req -> {"unsent", "done"} \cup OnServer]
      BY <1>6 DEF TypeOK, Record, Goto
    <3>4. GaugesOK'
      <4>1. CASE UNCHANGED <<successes, lastSuccess>>
        BY <4>1 DEF TypeOK, GaugesOK
      <4>2. CASE /\ successes' = [successes EXCEPT ![a] = @ + 1]
                 /\ lastSuccess' = [lastSuccess EXCEPT ![a] = Row(q).finished]
        <5>1. Row(q).finished # None
          BY <2>2, ApiAssumption
        <5>2. \A n \in Nat : n + 1 # 0
          OBVIOUS
        <5>3. a \in App
          BY <2>1
        <5> HIDE DEF a
        <5> QED BY <4>2, <5>1, <5>2, <5>3 DEF TypeOK, GaugesOK
      <4> QED BY <1>6, <4>1, <4>2 DEF Record
    <3> QED BY <1>6, <3>1, <3>2, <3>3, <3>4 DEF TypeOK, Record
  <2>4. PayloadsOK'
    BY <1>6 DEF TypeOK, PayloadsOK, Record, Goto
  <2>5. TableOK'
    BY <1>6, TableStays DEF TypeOK, Record, Goto
  <2> QED BY <2>3, <2>4, <2>5 DEF TypeOK
<1>7. ASSUME NEW q \in Req, Commit(q) PROVE TypeOK'
  <2>1. Shape'
    BY <1>7 DEF TypeOK, Commit, Goto, BeforeCommit, AfterCommit, GaugesOK
  <2>2. PayloadsOK'
    BY <1>7 DEF TypeOK, PayloadsOK, Commit, Goto, BeforeCommit, AfterCommit
  <2>3. TableOK'
    <3>1. table' = table \cup {Row(x) : x \in {q}}
      BY <1>7 DEF Commit
    <3>2. pc[q] = BeforeCommit /\ pc' = [pc EXCEPT ![q] = AfterCommit]
      BY <1>7 DEF Commit, Goto
    <3>3. /\ pc'[q] \in {"committed", "done"}
          /\ \A x \in Req : pc[x] \in {"committed", "done"} => pc'[x] \in {"committed", "done"}
      BY <3>2 DEF TypeOK, AfterCommit
    <3>4. {q} \in SUBSET {x \in Req : pc[x] = BeforeCommit} /\ UNCHANGED report
      BY <1>7, <3>2 DEF Commit
    <3> QED BY <3>1, <3>3, <3>4, TableGrows
  <2> QED BY <2>1, <2>2, <2>3 DEF TypeOK
<1>8. ASSUME NEW q \in Req, CommitFails(q) PROVE TypeOK'
  <2>1. Shape'
    BY <1>8 DEF TypeOK, CommitFails, Goto, Answer, BeforeCommit, AfterCommit, GaugesOK
  <2>2. PayloadsOK'
    BY <1>8 DEF TypeOK, PayloadsOK, CommitFails, Goto, Answer, BeforeCommit, AfterCommit
  <2>3. TableOK'
    <3>1. CASE table' = table
      BY <1>8, <3>1, TableStays DEF TypeOK, CommitFails, Goto, Answer, BeforeCommit, AfterCommit
    <3>2. CASE table' = table \cup {Row(q)}
      <4>1. table' = table \cup {Row(x) : x \in {q}}
        BY <3>2
      <4>2. pc[q] = BeforeCommit /\ pc' = [pc EXCEPT ![q] = "done"]
        BY <1>8 DEF CommitFails, Goto
      <4>3. /\ pc'[q] \in {"committed", "done"}
            /\ \A x \in Req : pc[x] \in {"committed", "done"} => pc'[x] \in {"committed", "done"}
        BY <4>2 DEF TypeOK
      <4>4. {q} \in SUBSET {x \in Req : pc[x] = BeforeCommit} /\ UNCHANGED report
        BY <1>8, <4>2 DEF CommitFails
      <4> QED BY <4>1, <4>3, <4>4, TableGrows
    <3> QED BY <1>8, <3>1, <3>2 DEF CommitFails
  <2> QED BY <2>1, <2>2, <2>3 DEF TypeOK
<1>9. ASSUME NEW q \in Req, Respond(q) PROVE TypeOK'
  <2>1. Shape'
    BY <1>9 DEF TypeOK, Respond, Goto, Answer, GaugesOK
  <2>2. PayloadsOK'
    BY <1>9 DEF TypeOK, PayloadsOK, Respond, Goto, Answer
  <2>3. TableOK'
    BY <1>9, TableStays DEF TypeOK, Respond, Goto, Answer
  <2> QED BY <2>1, <2>2, <2>3 DEF TypeOK
<1>10. ASSUME Restart PROVE TypeOK'
  <2>1. PICK got \in SUBSET {q \in Req : pc[q] = BeforeCommit} :
             table' = table \cup {Row(q) : q \in got}
    BY <1>10 DEF Restart
  <2>2. Shape'
    BY <1>10 DEF TypeOK, Restart, GaugesOK
  <2>3. PayloadsOK'
    BY <1>10 DEF TypeOK, PayloadsOK, Restart
  <2>4. TableOK'
    BY <1>10, <2>1, TableGrows DEF TypeOK, Restart, BeforeCommit
  <2> QED BY <2>2, <2>3, <2>4 DEF TypeOK
<1>11. ASSUME UNCHANGED vars PROVE TypeOK'
  <2>1. TableOK'
    BY <1>11, TableStays DEF TypeOK, vars
  <2> QED BY <1>11, <2>1 DEF TypeOK, PayloadsOK, GaugesOK, vars
<1> QED BY <1>1, <1>2, <1>3, <1>4, <1>5, <1>6, <1>7, <1>8, <1>9, <1>10, <1>11 DEF Next, Serve

(***************************************************************************)
(* Every reachable state is well typed, and a row in the database is that  *)
(* of an authenticated request which reached its COMMIT.                   *)
(***************************************************************************)
THEOREM ApiTypeCorrect == Spec => []TypeOK
  BY TypeInit, TypeStep, PTL DEF Spec

-----------------------------------------------------------------------------
(***************************************************************************)
(* The strengthening of AckedIsOnRecord: a request past its COMMIT is on   *)
(* record, and one not sent yet has no answer, so that the choice of its   *)
(* payload makes no earlier answer untrue.                                 *)
(***************************************************************************)
Settled ==
  \A q \in Req : /\ pc[q] = "unsent" => answer[q] = None
                 /\ pc[q] = "committed" => Row(q) \in table

LEMMA AckInit == Init => Settled /\ AckedIsOnRecord
  BY ApiAssumption DEF Init, Settled, AckedIsOnRecord, ApiAssumption

LEMMA AckStep ==
  ASSUME CommitFirst, TypeOK, TypeOK', Settled, AckedIsOnRecord, [Next]_vars
  PROVE  Settled' /\ AckedIsOnRecord'
<1> USE DEF Settled, AckedIsOnRecord
<1>1. ASSUME NEW q \in Req, Post(q) PROVE Settled' /\ AckedIsOnRecord'
  <2>1. ASSUME NEW x \in Req, x # q
        PROVE  /\ Row(x)' = Row(x) /\ pc'[x] = pc[x] /\ answer'[x] = answer[x]
    BY <1>1, <2>1, RowStays DEF TypeOK, Post, Goto
  <2>2. pc'[q] = "auth" /\ answer'[q] = None
    BY <1>1 DEF TypeOK, Post, Goto
  <2>3. table' = table
    BY <1>1 DEF Post
  <2> QED BY <2>1, <2>2, <2>3, ApiAssumption DEF ApiAssumption
<1>2. ASSUME NEW q \in Req, GiveUp(q) PROVE Settled' /\ AckedIsOnRecord'
  <2>1. \A x \in Req : Row(x)' = Row(x)
    BY <1>2, RowStays DEF GiveUp
  <2> QED BY <1>2, <2>1 DEF TypeOK, GiveUp
<1>3. ASSUME NEW q \in Req, Authenticate(q) PROVE Settled' /\ AckedIsOnRecord'
  <2>1. \A x \in Req : Row(x)' = Row(x)
    BY <1>3, RowStays DEF Authenticate
  <2> QED BY <1>3, <2>1 DEF TypeOK, Authenticate, Goto
<1>4. ASSUME NEW q \in Req, Refuse(q) PROVE Settled' /\ AckedIsOnRecord'
  <2>1. \A x \in Req : Row(x)' = Row(x)
    BY <1>4, RowStays DEF Refuse
  <2> QED BY <1>4, <2>1 DEF TypeOK, Refuse, Goto, Answer
<1>5. ASSUME NEW q \in Req, QueryFails(q) PROVE Settled' /\ AckedIsOnRecord'
  <2>1. \A x \in Req : Row(x)' = Row(x)
    BY <1>5, RowStays DEF QueryFails
  <2> QED BY <1>5, <2>1 DEF TypeOK, QueryFails, Goto, Answer
<1>6. ASSUME NEW q \in Req, Record(q) PROVE Settled' /\ AckedIsOnRecord'
  <2>1. \A x \in Req : Row(x)' = Row(x)
    BY <1>6, RowStays DEF Record
  <2> QED BY <1>6, <2>1 DEF TypeOK, Record, Goto
<1>7. ASSUME NEW q \in Req, Commit(q) PROVE Settled' /\ AckedIsOnRecord'
  <2>1. \A x \in Req : Row(x)' = Row(x)
    BY <1>7, RowStays DEF Commit
  <2> QED BY <1>7, <2>1 DEF TypeOK, Commit, Goto, BeforeCommit, AfterCommit
<1>8. ASSUME NEW q \in Req, CommitFails(q) PROVE Settled' /\ AckedIsOnRecord'
  <2>1. \A x \in Req : Row(x)' = Row(x)
    BY <1>8, RowStays DEF CommitFails
  <2> QED BY <1>8, <2>1 DEF TypeOK, CommitFails, Goto, Answer, BeforeCommit, AfterCommit
<1>9. ASSUME NEW q \in Req, Respond(q) PROVE Settled' /\ AckedIsOnRecord'
  <2>1. \A x \in Req : Row(x)' = Row(x)
    BY <1>9, RowStays DEF Respond
  <2> QED BY <1>9, <2>1 DEF TypeOK, Respond, Goto, Answer
<1>10. ASSUME Restart PROVE Settled' /\ AckedIsOnRecord'
  <2>1. \A x \in Req : Row(x)' = Row(x)
    BY <1>10, RowStays DEF Restart
  <2>2. table \subseteq table'
    BY <1>10 DEF Restart
  <2>3. \A x \in Req : pc'[x] # "committed" /\ (pc'[x] = "unsent" => pc[x] = "unsent")
    BY <1>10 DEF Restart, TypeOK, OnServer
  <2>4. answer' = answer
    BY <1>10 DEF Restart
  <2> QED BY <2>1, <2>2, <2>3, <2>4
<1>11. ASSUME UNCHANGED vars PROVE Settled' /\ AckedIsOnRecord'
  <2>1. \A x \in Req : Row(x)' = Row(x)
    BY <1>11, RowStays DEF vars
  <2> QED BY <1>11, <2>1 DEF vars
<1> QED BY <1>1, <1>2, <1>3, <1>4, <1>5, <1>6, <1>7, <1>8, <1>9, <1>10, <1>11 DEF Next, Serve

(***************************************************************************)
(* Where the session commits before the response is sent, an agent that    *)
(* got its 201 has its row in the database, through failed queries and     *)
(* restarts of the process.                                                *)
(***************************************************************************)
THEOREM AnsweredIsRecorded ==
  ASSUME CommitFirst
  PROVE  Spec => []AckedIsOnRecord
<1>1. TypeOK /\ Settled /\ AckedIsOnRecord /\ [Next]_vars
        => (TypeOK /\ Settled /\ AckedIsOnRecord)'
  BY TypeStep, AckStep
<1> QED BY TypeInit, AckInit, <1>1, PTL DEF Spec

-----------------------------------------------------------------------------
(***************************************************************************)
(* The strengthening of CommittedIsCounted: the requests that are counted  *)
(* and not yet committed count too, so that their COMMIT adds nothing.     *)
(***************************************************************************)
Pending(s, a) ==
  {q \in Req : /\ pc[q] \in {"inserted", "answered"}
               /\ report[q].status = s /\ KeyOwner[report[q].key] = a}

Counted(s, a) == Rows(s, a) \cup {Row(q) : q \in Pending(s, a)}

Counter(s) == IF s = "SUCCESS" THEN successes ELSE failures

CountedInv ==
  \A s \in {"SUCCESS", "FAILED"} : \A a \in App :
    IsFiniteSet(Counted(s, a)) /\ Cardinality(Counted(s, a)) <= Counter(s)[a]

\* A set that grows by at most one element where its bound grows by one.
LEMMA BoundedGrowth ==
  ASSUME NEW S, NEW T, NEW x, NEW n \in Nat,
         IsFiniteSet(S), Cardinality(S) <= n
  PROVE  /\ T \subseteq S => IsFiniteSet(T) /\ Cardinality(T) <= n
         /\ T \subseteq S \cup {x} => IsFiniteSet(T) /\ Cardinality(T) <= n + 1
<1>1. Cardinality(S) \in Nat
  BY FS_CardinalityType
<1>2. ASSUME T \subseteq S PROVE IsFiniteSet(T) /\ Cardinality(T) <= n
  <2>1. IsFiniteSet(T) /\ Cardinality(T) <= Cardinality(S)
    BY <1>2, FS_Subset
  <2>2. Cardinality(T) \in Nat
    BY <2>1, FS_CardinalityType
  <2> QED BY <1>1, <2>1, <2>2
<1>3. ASSUME T \subseteq S \cup {x} PROVE IsFiniteSet(T) /\ Cardinality(T) <= n + 1
  <2>1. IsFiniteSet(S \cup {x}) /\ Cardinality(S \cup {x}) <= Cardinality(S) + 1
    BY <1>1, FS_AddElement
  <2>2. IsFiniteSet(T) /\ Cardinality(T) <= Cardinality(S \cup {x})
    BY <1>3, <2>1, FS_Subset
  <2>3. Cardinality(T) \in Nat /\ Cardinality(S \cup {x}) \in Nat
    BY <2>1, <2>2, FS_CardinalityType
  <2> QED BY <1>1, <2>1, <2>2, <2>3
<1> QED BY <1>2, <1>3

\* What is counted stays or is forgotten, except for the request of a Record.
LEMMA CountedStays ==
  ASSUME TypeOK, NEW s, NEW a \in App,
         NEW got \in SUBSET {q \in Req : pc[q] = BeforeCommit},
         table' = table \cup {Row(q) : q \in got},
         atBoot' = atBoot, UNCHANGED report,
         \A q \in Req : pc'[q] \in {"inserted", "answered"} =>
                         pc[q] \in {"inserted", "answered"}
  PROVE  Counted(s, a)' \subseteq Counted(s, a)
<1>1. \A q \in Req : Row(q)' = Row(q)
  BY RowStays
<1>2. Pending(s, a)' \subseteq Pending(s, a)
  BY DEF Pending
<1>3. ASSUME NEW r \in Rows(s, a)' PROVE r \in Counted(s, a)
  <2>1. CASE r \in table
    BY <1>3, <2>1 DEF Rows, Counted
  <2>2. CASE r \notin table
    <3>1. PICK q \in got : r = Row(q)
      BY <1>3, <2>2 DEF Rows
    <3>2. q \in Pending(s, a)
      BY <1>3, <3>1 DEF Rows, Row, Pending, BeforeCommit
    <3> QED BY <3>1, <3>2 DEF Counted
  <2> QED BY <2>1, <2>2
<1>4. ASSUME NEW q \in Pending(s, a)' PROVE Row(q)' \in Counted(s, a)
  BY <1>1, <1>2, <1>4 DEF Counted, Pending
<1> QED BY <1>3, <1>4 DEF Counted

LEMMA CountStep ==
  ASSUME TypeOK, CountedInv, [Next]_vars,
         NEW s \in {"SUCCESS", "FAILED"}, NEW a \in App
  PROVE  IsFiniteSet(Counted(s, a)') /\ Cardinality(Counted(s, a)') <= Counter(s)'[a]
<1> DEFINE Goal == IsFiniteSet(Counted(s, a)') /\ Cardinality(Counted(s, a)') <= Counter(s)'[a]
<1>n. Counter(s)[a] \in Nat
  BY DEF Counter, TypeOK
<1>i. IsFiniteSet(Counted(s, a)) /\ Cardinality(Counted(s, a)) <= Counter(s)[a]
  BY DEF CountedInv
<1>s. ASSUME Counted(s, a)' \subseteq Counted(s, a), UNCHANGED metrics PROVE Goal
  <2>1. Counter(s)'[a] = Counter(s)[a]
    BY <1>s DEF Counter, metrics
  <2> QED BY <1>n, <1>i, <1>s, <2>1, BoundedGrowth
<1>e. {} \in SUBSET {q \in Req : pc[q] = BeforeCommit} /\ {Row(q) : q \in {}} = {}
  OBVIOUS
<1>1. ASSUME NEW q \in Req, Post(q) PROVE Goal
  <2>1. \A x \in Req : x # q => pc'[x] = pc[x] /\ report'[x] = report[x]
    BY <1>1 DEF Post, Goto, TypeOK
  <2>2. pc'[q] = "auth"
    BY <1>1 DEF Post, Goto, TypeOK
  <2>3. Pending(s, a)' \subseteq Pending(s, a)
    BY <2>1, <2>2 DEF Pending
  <2>4. \A x \in Pending(s, a)' : Row(x)' = Row(x)
    BY <2>1, <2>2, RowStays DEF Pending
  <2>5. Rows(s, a)' = Rows(s, a)
    BY <1>1 DEF Post, Rows
  <2>6. Counted(s, a)' \subseteq Counted(s, a)
    BY <2>3, <2>4, <2>5 DEF Counted
  <2> QED BY <1>1, <1>s, <2>6 DEF Post
<1>2. ASSUME NEW q \in Req, Record(q) PROVE Goal
  <2>1. /\ pc[q] = "insert" /\ pc' = [pc EXCEPT ![q] = "inserted"]
        /\ UNCHANGED <<report, answer, table, atBoot>>
    BY <1>2 DEF Record, Goto
  <2>2. \A x \in Req : Row(x)' = Row(x)
    BY <2>1, RowStays
  <2>3. Rows(s, a)' = Rows(s, a)
    BY <2>1 DEF Rows
  <2>4. CASE report[q].status = s /\ KeyOwner[report[q].key] = a
    <3>1. Pending(s, a)' \subseteq Pending(s, a) \cup {q}
      BY <2>1 DEF Pending, TypeOK
    <3>2. Counted(s, a)' \subseteq Counted(s, a) \cup {Row(q)}
      BY <2>2, <2>3, <3>1 DEF Counted, Pending
    <3>3. Counter(s)'[a] = Counter(s)[a] + 1
      BY <1>2, <2>4 DEF Record, Counter, TypeOK
    <3> QED BY <1>n, <1>i, <3>2, <3>3, BoundedGrowth
  <2>5. CASE ~(report[q].status = s /\ KeyOwner[report[q].key] = a)
    <3>1. Pending(s, a)' \subseteq Pending(s, a)
      BY <2>1, <2>5 DEF Pending, TypeOK
    <3>2. Counted(s, a)' \subseteq Counted(s, a)
      BY <2>2, <2>3, <3>1 DEF Counted, Pending
    <3>3. Counter(s)'[a] = Counter(s)[a]
      BY <1>2, <2>5 DEF Record, Counter, TypeOK, metrics
    <3> QED BY <1>n, <1>i, <3>2, <3>3, BoundedGrowth
  <2> QED BY <2>4, <2>5
<1>3. ASSUME NEW q \in Req, Commit(q) \/ CommitFails(q) PROVE Goal
  <2>1. PICK got \in SUBSET {x \in Req : pc[x] = BeforeCommit} :
          table' = table \cup {Row(x) : x \in got}
    <3>1. CASE table' = table
      BY <1>e, <3>1
    <3>2. CASE table' = table \cup {Row(q)}
      <4>1. {q} \in SUBSET {x \in Req : pc[x] = BeforeCommit}
        BY <1>3 DEF Commit, CommitFails, Goto
      <4>2. {Row(x) : x \in {q}} = {Row(q)}
        OBVIOUS
      <4> QED BY <3>2, <4>1, <4>2
    <3> QED BY <1>3, <3>1, <3>2 DEF Commit, CommitFails
  <2>2. \A x \in Req : pc'[x] \in {"inserted", "answered"} => pc[x] \in {"inserted", "answered"}
    BY <1>3 DEF Commit, CommitFails, Goto, AfterCommit, TypeOK
  <2>3. Counted(s, a)' \subseteq Counted(s, a)
    BY <1>3, <2>1, <2>2, CountedStays DEF Commit, CommitFails
  <2> QED BY <1>3, <1>s, <2>3 DEF Commit, CommitFails
<1>4. ASSUME Restart PROVE Goal
  <2>1. Rows(s, a)' = {} /\ Pending(s, a)' = {}
    BY <1>4 DEF Restart, Rows, Pending, OnServer
  <2>2. Counted(s, a)' = {}
    BY <2>1 DEF Counted
  <2>3. Counter(s)'[a] = 0
    BY <1>4 DEF Restart, Counter
  <2> QED BY <2>2, <2>3, FS_EmptySet
<1>5. ASSUME UNCHANGED <<report, table, metrics, atBoot>>,
             \A x \in Req : pc'[x] \in {"inserted", "answered"} => pc[x] \in {"inserted", "answered"}
      PROVE  Goal
  <2>1. table' = table \cup {Row(x) : x \in {}}
    BY <1>5, <1>e
  <2>2. Counted(s, a)' \subseteq Counted(s, a)
    BY <1>5, <1>e, <2>1, CountedStays
  <2> QED BY <1>5, <1>s, <2>2
<1>6. ASSUME NEW q \in Req,
             GiveUp(q) \/ Authenticate(q) \/ Refuse(q) \/ QueryFails(q) \/ Respond(q)
      PROVE  Goal
  <2>1. UNCHANGED <<report, table, metrics, atBoot>>
    BY <1>6 DEF GiveUp, Authenticate, Refuse, QueryFails, Respond
  <2>2. \A x \in Req : pc'[x] \in {"inserted", "answered"} => pc[x] \in {"inserted", "answered"}
    BY <1>6 DEF GiveUp, Authenticate, Refuse, QueryFails, Respond, Goto, TypeOK
  <2> QED BY <1>5, <2>1, <2>2
<1>7. CASE UNCHANGED vars
  BY <1>5, <1>7 DEF vars
<1> QED BY <1>1, <1>2, <1>3, <1>4, <1>6, <1>7 DEF Next, Serve

\* CommittedIsCounted, in either order of commit and answer: the counters of the
\* process never lag behind what it has committed, through failed commits,
\* commits nobody heard of and restarts.
THEOREM CommitsAreCounted == Spec => []CommittedIsCounted
<1>1. Init => CountedInv
  <2> SUFFICES ASSUME Init, NEW s \in {"SUCCESS", "FAILED"}, NEW a \in App
               PROVE  IsFiniteSet(Counted(s, a)) /\ Cardinality(Counted(s, a)) <= Counter(s)[a]
    BY DEF CountedInv
  <2>1. Counted(s, a) = {}
    BY DEF Init, Counted, Rows, Pending
  <2>2. Counter(s)[a] = 0
    BY DEF Init, Counter
  <2> QED BY <2>1, <2>2, FS_EmptySet
<1>2. TypeOK /\ CountedInv /\ [Next]_vars => CountedInv'
  BY CountStep DEF CountedInv
<1>3. TypeOK /\ CountedInv => CommittedIsCounted
  <2> SUFFICES ASSUME TypeOK, CountedInv, NEW a \in App, NEW s \in {"SUCCESS", "FAILED"}
               PROVE  Cardinality(Rows(s, a)) <= Counter(s)[a]
    BY DEF CommittedIsCounted, Counter
  <2>1. Rows(s, a) \subseteq Counted(s, a)
    BY DEF Counted
  <2>2. IsFiniteSet(Counted(s, a)) /\ Cardinality(Counted(s, a)) <= Counter(s)[a]
    BY DEF CountedInv
  <2>3. Counter(s)[a] \in Nat
    BY DEF Counter, TypeOK
  <2> QED BY <2>1, <2>2, <2>3, BoundedGrowth
<1> QED BY <1>1, <1>2, <1>3, ApiTypeCorrect, PTL DEF Spec

-----------------------------------------------------------------------------
(***************************************************************************)
(* The endpoint keeps its promise.  What is needed beside the types: a     *)
(* request past authentication is entitled to its row, and (Settled) one   *)
(* past its COMMIT has it.                                                 *)
(***************************************************************************)
Admitted == \A q \in Req : pc[q] \in Authenticated => Entitled(q)

Sound == TypeOK /\ Settled /\ AckedIsOnRecord /\ Admitted

LEMMA AdmittedStep ==
  ASSUME TypeOK, Admitted, [Next]_vars
  PROVE  Admitted'
<1> USE DEF TypeOK, Admitted, Entitled, Goto, Authenticated, OnServer
<1>1. ASSUME NEW q \in Req, Post(q) PROVE Admitted'
  BY <1>1 DEF Post
<1>2. ASSUME NEW q \in Req, Authenticate(q) PROVE Admitted'
  BY <1>2 DEF Authenticate, Valid
<1>3. ASSUME NEW q \in Req, Record(q) PROVE Admitted'
  BY <1>3 DEF Record, Valid
<1>4. ASSUME UNCHANGED report, \A q \in Req : pc'[q] \in Authenticated => pc[q] \in Authenticated
      PROVE  Admitted'
  BY <1>4 DEF Valid
<1>5. ASSUME NEW q \in Req,
             GiveUp(q) \/ Refuse(q) \/ QueryFails(q) \/ Commit(q) \/ CommitFails(q) \/ Respond(q)
      PROVE  Admitted'
  <2>1. UNCHANGED report /\ \A x \in Req : pc'[x] \in Authenticated => pc[x] \in Authenticated
    BY <1>5 DEF GiveUp, Refuse, QueryFails, Commit, CommitFails, Respond, BeforeCommit,
       AfterCommit
  <2> QED BY <1>4, <2>1
<1>6. ASSUME Restart PROVE Admitted'
  BY <1>4, <1>6 DEF Restart
<1>7. CASE UNCHANGED vars
  BY <1>4, <1>7 DEF vars
<1> QED BY <1>1, <1>2, <1>3, <1>5, <1>6, <1>7 DEF Next, Serve

\* The claims are settled by the reports.
LEMMA ClaimStays ==
  ASSUME UNCHANGED report, \A q \in Req : pc'[q] = "unsent" <=> pc[q] = "unsent"
  PROVE  Claim' = Claim
<1>1. \A q \in Req : Row(q)' = Row(q) /\ (Entitled(q)' <=> Entitled(q))
  BY RowStays DEF Entitled, Valid
<1> QED BY <1>1 DEF Claim

\* The step of one request moves its phase only.
LEMMA PhaseMoves ==
  ASSUME TypeOK, NEW q \in Req, NEW to, pc' = [pc EXCEPT ![q] = to]
  PROVE  Phase' = [Phase EXCEPT ![q] =
                     IF to \in {"committed", "answered", "done"} THEN "closed"
                     ELSE IF to = "unsent" THEN "unsent" ELSE "open"]
  BY DEF Phase, TypeOK

\* What an agent gets is told to one sender, if it still waits.
LEMMA AnswerHeard ==
  ASSUME TypeOK, NEW q \in Req, NEW code \in {"201", "401", "422", "500", "gave up"},
         Answer(q, code)
  PROVE  Heard' = [Heard EXCEPT ![q] =
                     IF @ = None THEN IF code = "201" THEN "yes" ELSE "no" ELSE @]
<1>1. None # "yes" /\ None # "no" /\ code # None
  BY ApiAssumption DEF ApiAssumption
<1>2. answer' = [answer EXCEPT ![q] = IF answer[q] = None THEN code ELSE answer[q]]
  BY DEF Answer
<1>3. DOMAIN answer = Req
  BY DEF TypeOK
<1>4. ASSUME NEW x \in Req
      PROVE  Heard'[x] = IF x = q /\ Heard[q] = None
                           THEN IF code = "201" THEN "yes" ELSE "no" ELSE Heard[x]
  BY <1>1, <1>2, <1>3 DEF Heard
<1>5. Heard' = [x \in Req |-> Heard'[x]] /\ DOMAIN Heard = Req
  BY DEF Heard
<1> QED BY <1>4, <1>5

LEMMA PromiseStep ==
  ASSUME CommitFirst, Sound, [Next]_vars
  PROVE  [Promise!Next]_(Promise!vars)
<1> USE DEF Goto, Promise!Next
<1>0. TypeOK /\ Settled /\ Admitted
  BY DEF Sound
<1>n. None # "201" /\ None # "yes" /\ None # "no"
  BY ApiAssumption DEF ApiAssumption
<1>b. BeforeCommit = "inserted" /\ AfterCommit = "committed"
  BY DEF BeforeCommit, AfterCommit
<1>k. ASSUME UNCHANGED <<report, table>>, Phase' = Phase, Heard' = Heard,
             \A q \in Req : pc'[q] = "unsent" <=> pc[q] = "unsent"
      PROVE  UNCHANGED Promise!vars
  <2>1. Claim' = Claim
    BY <1>k, ClaimStays
  <2> QED BY <1>k, <2>1 DEF Promise!vars
\* A request is closed with rows and an answer that Close allows.
<1>c. ASSUME NEW q \in Req, pc[q] \in {"auth", "insert", "inserted"},
             NEW to \in {"committed", "done"}, pc' = [pc EXCEPT ![q] = to],
             UNCHANGED report, table' \in {table, table \cup Claim[q]},
             Heard' \in {Heard, Promise!No(q)}
      PROVE  Promise!Next
  <2>1. Claim' = Claim
    BY <1>0, <1>c, ClaimStays DEF TypeOK
  <2>2. Promise!Move(q, "open", "closed")
    <3>1. Phase[q] = "open"
      BY <1>c DEF Phase
    <3>2. Phase' = [Phase EXCEPT ![q] = "closed"]
      BY <1>0, <1>c, PhaseMoves
    <3> QED BY <3>1, <3>2 DEF Promise!Move
  <2>3. Promise!Close(q)
    BY <1>c, <2>1, <2>2 DEF Promise!Close
  <2> QED BY <2>3
<1>d. ASSUME NEW q \in Req, NEW code \in {"401", "422", "500"}, Answer(q, code)
      PROVE  Heard' = Promise!No(q)
  BY <1>0, <1>d, AnswerHeard DEF Promise!No
<1>e. \A q \in Req : pc[q] = "inserted" => Claim[q] = {Row(q)}
  BY <1>0 DEF Claim, Admitted, Authenticated, OnServer
<1>1. ASSUME NEW q \in Req, Post(q) PROVE Promise!Next
  <2>1. Phase[q] = "unsent" /\ Phase' = [Phase EXCEPT ![q] = "open"]
    <3>1. pc[q] = "unsent" /\ pc' = [pc EXCEPT ![q] = "auth"]
      BY <1>1 DEF Post
    <3>2. Phase[q] = "unsent"
      BY <3>1 DEF Phase
    <3>3. Phase' = [Phase EXCEPT ![q] =
                      IF "auth" \in {"committed", "answered", "done"} THEN "closed"
                      ELSE IF "auth" = "unsent" THEN "unsent" ELSE "open"]
      BY <1>0, <3>1, PhaseMoves
    <3> QED BY <3>2, <3>3
  <2>2. ASSUME NEW p \in Req \ {q} PROVE Claim'[p] = Claim[p]
    <3>1. report'[p] = report[p] /\ pc'[p] = pc[p]
      BY <1>0, <1>1 DEF Post, TypeOK
    <3>2. Row(p)' = Row(p) /\ (Entitled(p)' <=> Entitled(p))
      BY <3>1, RowStays DEF Entitled, Valid
    <3> QED BY <3>1, <3>2 DEF Claim
  <2>3. Heard' = Heard /\ table' = table
    BY <1>1 DEF Post, Heard
  <2>4. Promise!Send(q)
    BY <2>1, <2>2, <2>3 DEF Promise!Send, Promise!Move
  <2> QED BY <2>4
<1>2. ASSUME NEW q \in Req, GiveUp(q) PROVE Promise!Next
  <2>1. Claim' = Claim /\ Phase' = Phase /\ table' = table
    BY <1>2, ClaimStays DEF GiveUp, Phase
  <2>2. Heard' = Promise!No(q)
    <3>1. Answer(q, "gave up")
      BY <1>2 DEF GiveUp, Answer
    <3> QED BY <1>0, <3>1, AnswerHeard DEF Promise!No
  <2>3. Phase[q] # "unsent"
    BY <1>2 DEF GiveUp, Phase
  <2>4. Promise!GiveUp(q)
    BY <2>1, <2>2, <2>3 DEF Promise!GiveUp
  <2> QED BY <2>4
<1>3. ASSUME NEW q \in Req, Authenticate(q) \/ Record(q) PROVE UNCHANGED Promise!vars
  <2>1. PICK to \in {"insert", "inserted"} :
          pc[q] \in {"auth", "insert"} /\ pc' = [pc EXCEPT ![q] = to]
    BY <1>3 DEF Authenticate, Record
  <2>2. Phase' = Phase
    BY <1>0, <2>1 DEF Phase, TypeOK
  <2>3. \A x \in Req : pc'[x] = "unsent" <=> pc[x] = "unsent"
    BY <1>0, <2>1 DEF TypeOK
  <2>4. UNCHANGED <<report, table>> /\ Heard' = Heard
    BY <1>3 DEF Authenticate, Record, Heard
  <2> QED BY <1>k, <2>2, <2>3, <2>4
<1>4. ASSUME NEW q \in Req, Refuse(q) \/ QueryFails(q) PROVE Promise!Next
  <2>1. PICK code \in {"401", "422", "500"} : Answer(q, code)
    BY <1>4 DEF Refuse, QueryFails
  <2>2. Heard' = Promise!No(q)
    BY <1>d, <2>1
  <2>3. /\ pc[q] \in {"auth", "insert", "inserted"} /\ pc' = [pc EXCEPT ![q] = "done"]
        /\ UNCHANGED <<report, table>>
    BY <1>4 DEF Refuse, QueryFails
  <2> QED BY <1>c, <2>2, <2>3
<1>5. ASSUME NEW q \in Req, Commit(q) PROVE Promise!Next
  <2>1. /\ pc[q] = "inserted" /\ pc' = [pc EXCEPT ![q] = "committed"]
        /\ table' = table \cup Claim[q] /\ UNCHANGED report /\ Heard' = Heard
    BY <1>5, <1>b, <1>e DEF Commit, Heard
  <2> QED BY <1>c, <2>1
<1>6. ASSUME NEW q \in Req, CommitFails(q) PROVE Promise!Next
  <2>1. /\ pc[q] = "inserted" /\ pc' = [pc EXCEPT ![q] = "done"]
        /\ table' \in {table, table \cup Claim[q]} /\ UNCHANGED report
    BY <1>6, <1>b, <1>e DEF CommitFails
  <2>2. Heard' = Promise!No(q)
    BY <1>6, <1>d DEF CommitFails
  <2> QED BY <1>c, <2>1, <2>2
<1>7. ASSUME NEW q \in Req, Respond(q) PROVE [Promise!Next]_(Promise!vars)
  <2>1. /\ pc[q] = "committed" /\ pc' = [pc EXCEPT ![q] = "done"]
        /\ Answer(q, "201") /\ UNCHANGED <<report, table>>
    BY <1>7 DEF Respond
  <2>2. Phase' = Phase /\ Phase[q] = "closed"
    BY <1>0, <2>1 DEF Phase, TypeOK
  <2>3. \A x \in Req : pc'[x] = "unsent" <=> pc[x] = "unsent"
    BY <1>0, <2>1 DEF TypeOK
  <2>4. Claim' = Claim
    BY <2>1, <2>3, ClaimStays
  <2>5. Heard' = [Heard EXCEPT ![q] = IF @ = None THEN "yes" ELSE @]
    BY <1>0, <2>1, AnswerHeard
  <2>6. CASE Heard[q] # None
    <3>1. Heard' = Heard
      BY <2>5, <2>6 DEF Heard
    <3> QED BY <1>k, <2>1, <2>2, <2>3, <3>1
  <2>7. CASE Heard[q] = None
    <3>1. Claim[q] = {Row(q)} /\ Row(q) \in table
      BY <1>0, <2>1 DEF Claim, Admitted, Authenticated, OnServer, Settled
    <3>2. Heard' = [Heard EXCEPT ![q] = "yes"]
      BY <2>5, <2>7
    <3>3. Promise!Confirm(q)
      BY <2>1, <2>2, <2>4, <2>7, <3>1, <3>2 DEF Promise!Confirm
    <3> QED BY <3>3
  <2> QED BY <2>6, <2>7
<1>8. ASSUME Restart PROVE Promise!Next
  <2>1. PICK got \in SUBSET {q \in Req : pc[q] = "inserted"} :
          table' = table \cup {Row(q) : q \in got}
    BY <1>8, <1>b DEF Restart
  <2>2. pc' = [q \in Req |-> IF pc[q] \in OnServer THEN "done" ELSE pc[q]]
    BY <1>8 DEF Restart
  <2>3. Claim' = Claim
    BY <1>0, <1>8, <2>2, ClaimStays DEF Restart, OnServer
  <2>4. Heard' = Heard
    BY <1>8 DEF Restart, Heard
  <2>5. Phase' = [q \in Req |-> IF Phase[q] = "open" THEN "closed" ELSE Phase[q]]
    BY <1>0, <2>2 DEF Phase, OnServer, TypeOK
  <2>6. got \in SUBSET {q \in Req : Phase[q] = "open"}
    BY <2>1 DEF Phase
  <2>7. {Row(q) : q \in got} = UNION {Claim[q] : q \in got}
    BY <1>e, <2>1
  <2>8. Promise!Crash
    BY <2>1, <2>3, <2>4, <2>5, <2>6, <2>7 DEF Promise!Crash
  <2> QED BY <2>8
<1>9. CASE UNCHANGED vars
  BY <1>9, <1>k DEF vars, Phase, Heard
<1> QED BY <1>1, <1>2, <1>3, <1>4, <1>5, <1>6, <1>7, <1>8, <1>9 DEF Next, Serve

(***************************************************************************)
(* Where the session commits before the response is sent, the endpoint     *)
(* implements ReportLedger, for any requests, keys and payloads: no row    *)
(* for a report without a right to one, none once its request is closed,   *)
(* none altered, and a 201 only for a row that is there; through failing   *)
(* queries, broken commits, agents that gave up and restarts.              *)
(***************************************************************************)
THEOREM EndpointKeepsPromise ==
  ASSUME CommitFirst
  PROVE  Spec => KeepsPromise
<1>1. Init => Sound /\ Promise!Init
  <2>1. Init => TypeOK /\ Settled /\ AckedIsOnRecord
    BY TypeInit, AckInit
  <2> QED BY <2>1 DEF Init, Sound, Admitted, Authenticated, OnServer, Promise!Init, Phase,
     Claim, Heard
<1>2. Sound /\ [Next]_vars => Sound'
  BY TypeStep, AckStep, AdmittedStep DEF Sound
<1>3. Sound /\ [Next]_vars => [Promise!Next]_(Promise!vars)
  BY PromiseStep
<1> QED BY <1>1, <1>2, <1>3, PTL DEF Spec, KeepsPromise, Promise!Spec
=============================================================================
