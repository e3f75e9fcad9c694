------------------------ MODULE StatusReads_proofs ------------------------
(***************************************************************************)
(* Proof that a status request is linearizable, for any applications,      *)
(* schedules, requests and rows, as far as successes dated before their    *)
(* application's registration let it be.  First facts about the two        *)
(* queries and a table that grows, then the invariant of a request, and    *)
(* from it that requests implement AtomicStatus, which reads an            *)
(* application in a step.                                                  *)
(***************************************************************************)
EXTENDS StatusReads, TLAPS

\* A set of rows is empty or has a newest row.  It holds of every table the
\* reports build, row by row, and needs no induction over finite sets.
HasNewest(rows) == rows = {} \/ Newest(rows) # {}

LEMMA FirstNonEmpty ==
  ASSUME NEW rows, HasNewest(rows)
  PROVE  First(rows) # {}
  BY DEF First, HasNewest

LEMMA NewestGrows ==
  ASSUME NEW rows \in SUBSET Run, HasNewest(rows), NEW run \in Run
  PROVE  HasNewest(rows \cup {run})
<1>1. run.started \in Nat /\ \A q \in rows : q.started \in Nat
  BY AppAssumption DEF Run
<1>2. CASE rows = {}
  BY <1>1, <1>2 DEF HasNewest, Newest
<1>3. CASE rows # {}
  <2>1. PICK m \in rows : \A q \in rows : q.started <= m.started
    BY <1>3 DEF HasNewest, Newest
  <2>2. CASE run.started <= m.started
    BY <1>1, <2>1, <2>2 DEF HasNewest, Newest
  <2>3. CASE m.started <= run.started
    <3>1. \A q \in rows \cup {run} : q.started <= run.started
      BY <1>1, <2>1, <2>3
    <3> QED  BY <3>1 DEF HasNewest, Newest
  <2> QED  BY <1>1, <2>1, <2>2, <2>3
<1> QED  BY <1>2, <1>3

\* One more row changes the rows of at most one application.
LEMMA RowsGrow ==
  ASSUME NEW t, NEW run \in Run, NEW a \in App
  PROVE  /\ RunsOf(t \cup {run}, a) \in {RunsOf(t, a), RunsOf(t, a) \cup {run}}
         /\ SuccessesOf(t \cup {run}, a) \in
               {SuccessesOf(t, a), SuccessesOf(t, a) \cup {run}}
         /\ SuccessesOf(t \cup {run}, a) # SuccessesOf(t, a) => run.app = a
<1>1. CASE run.app = a
  <2>1. RunsOf(t \cup {run}, a) = RunsOf(t, a) \cup {run}
    BY <1>1 DEF RunsOf
  <2>2. CASE run.status = "SUCCESS"
    <3>1. SuccessesOf(t \cup {run}, a) = SuccessesOf(t, a) \cup {run}
      BY <1>1, <2>2 DEF SuccessesOf, RunsOf
    <3> QED  BY <1>1, <2>1, <3>1
  <2>3. CASE run.status # "SUCCESS"
    <3>1. SuccessesOf(t \cup {run}, a) = SuccessesOf(t, a)
      BY <1>1, <2>3 DEF SuccessesOf, RunsOf
    <3> QED  BY <1>1, <2>1, <3>1
  <2> QED  BY <2>2, <2>3
<1>2. CASE run.app # a
  <2>1. RunsOf(t \cup {run}, a) = RunsOf(t, a)
    BY <1>2 DEF RunsOf
  <2> QED  BY <2>1 DEF SuccessesOf
<1> QED  BY <1>1, <1>2

\* A request found the application not overdue: no newest success since can
\* make it so, except one dated before a registration that is recent itself.
InTime(t, a, n) ==
  \A s \in LatestSuccess(t, a) :
    ~IsOverdue(a, s, n) \/ (Early(a, s) /\ ~IsOverdue(a, None, n))

\* What makes the order of the queries right: no later report changes that.
LEMMA NotOverdueStays ==
  ASSUME NEW t \in SUBSET Run, NEW run \in Run, NEW a \in App, NEW n \in Nat,
         HasNewest(SuccessesOf(t, a)), InTime(t, a, n)
  PROVE  InTime(t \cup {run}, a, n)
<1> SUFFICES ASSUME NEW s \in LatestSuccess(t \cup {run}, a)
             PROVE  ~IsOverdue(a, s, n) \/ (Early(a, s) /\ ~IsOverdue(a, None, n))
  BY DEF InTime
<1> DEFINE old == SuccessesOf(t, a)
           new == SuccessesOf(t \cup {run}, a)
<1>1. /\ \A q \in Run : q.started \in Nat /\ q # None
      /\ Created[a] \in Nat /\ Interval[a] \in Nat
  BY AppAssumption, NoneAssumption DEF Run
<1>2. old \subseteq Run /\ new \in {old, old \cup {run}}
  BY RowsGrow DEF SuccessesOf, RunsOf
<1>3. CASE new = old
  BY <1>3 DEF LatestSuccess, InTime
<1>4. CASE new # old
  <2>1. new = old \cup {run} /\ new # {}
    BY <1>2, <1>4
  <2>2. s \in Newest(new)
    BY <2>1 DEF LatestSuccess, First
  <2>3. s \in Run /\ run.started <= s.started /\ \A q \in old : q.started <= s.started
    BY <1>2, <2>1, <2>2 DEF Newest
  <2>4. CASE old = {}
    <3>1. ~IsOverdue(a, None, n)
      BY <2>4 DEF LatestSuccess, First, InTime, Early
    <3> QED  BY <1>1, <2>3, <3>1 DEF IsOverdue, Early
  <2>5. CASE old # {}
    <3>1. PICK m \in Newest(old) : TRUE
      BY <2>5 DEF HasNewest
    <3>2. /\ m \in Run /\ m \in old
          /\ ~IsOverdue(a, m, n) \/ (Early(a, m) /\ ~IsOverdue(a, None, n))
      BY <1>2, <2>5, <3>1 DEF LatestSuccess, First, Newest, InTime
    <3> QED  BY <1>1, <2>3, <3>2 DEF IsOverdue, Early
  <2> QED  BY <2>4, <2>5
<1> QED  BY <1>3, <1>4

-----------------------------------------------------------------------------
TableInv ==
  \A a \in App : HasNewest(RunsOf(table, a)) /\ HasNewest(SuccessesOf(table, a))

\* What the request may say of the application, by what it has been: the truth
\* while no success is dated before the registration, and an alarm only with
\* reason in any case.
Truthful(r, a, status) ==
  /\ InOrder(a) => status \in seen[r][a]
  /\ status \in Alarming => seen[r][a] \cap Alarming # {}

\* Between its two queries a request knows whether the application was overdue
\* at the first; if it was not, it is in time.
Between(r) ==
  LET a == app[r]
  IN /\ a \in todo[r]
     /\ TrueStatus(table, a, now[r]) \subseteq seen[r][a]
     /\ IF IsOverdue(a, success[r], now[r])
        THEN "OVERDUE" \in seen[r][a]
        ELSE InTime(table, a, now[r])

ReadInv(r) ==
  /\ pc[r] = "latest" => Between(r)
  /\ \A a \in App : answer[r][a] # None => Truthful(r, a, answer[r][a])
  /\ \A a \in todo[r] : pc[r] # "idle" => answer[r][a] = None
  /\ pc[r] = "idle" => summary[r] \in {None, Health(answer[r])}

Inv == TypeOK /\ TableInv /\ \A r \in Reader : ReadInv(r)

LEMMA StatusType ==
  ASSUME NEW a \in App, NEW s \in {None} \cup Run, NEW l \in {None} \cup Run, NEW n
  PROVE  StatusFrom(a, s, l, n) \in Status
  BY NoneAssumption DEF StatusFrom, Status, Run, RunStatus

LEMMA QueryType ==
  ASSUME NEW t \in SUBSET Run, NEW a \in App, NEW n
  PROVE  /\ LatestRun(t, a) \subseteq {None} \cup Run
         /\ LatestSuccess(t, a) \subseteq {None} \cup Run
         /\ TrueStatus(t, a, n) \subseteq Status
<1>1. /\ LatestRun(t, a) \subseteq {None} \cup Run
      /\ LatestSuccess(t, a) \subseteq {None} \cup Run
  BY DEF LatestRun, LatestSuccess, First, Newest, RunsOf, SuccessesOf
<1> QED  BY <1>1, StatusType DEF TrueStatus

\* The table: every commit keeps it a table with newest rows.
LEMMA TableStep ==
  ASSUME TableInv, table \subseteq Run, NEW run \in Run, table' = table \cup {run}
  PROVE  TableInv'
<1> SUFFICES ASSUME NEW a \in App
             PROVE  HasNewest(RunsOf(table', a)) /\ HasNewest(SuccessesOf(table', a))
  BY DEF TableInv
<1>1. HasNewest(RunsOf(table, a)) /\ HasNewest(SuccessesOf(table, a))
  BY DEF TableInv
<1>2. RunsOf(table, a) \in SUBSET Run /\ SuccessesOf(table, a) \in SUBSET Run
  BY DEF RunsOf, SuccessesOf
<1>3. HasNewest(RunsOf(table, a) \cup {run}) /\ HasNewest(SuccessesOf(table, a) \cup {run})
  BY <1>1, <1>2, NewestGrows
<1>4. /\ RunsOf(table', a) \in {RunsOf(table, a), RunsOf(table, a) \cup {run}}
      /\ SuccessesOf(table', a) \in {SuccessesOf(table, a), SuccessesOf(table, a) \cup {run}}
  BY RowsGrow
<1> QED  BY <1>1, <1>3, <1>4

\* What was said with reason still is, with more rows and more seen.
LEMMA TruthStays ==
  ASSUME NEW r \in Reader, NEW a \in App, NEW status, Truthful(r, a, status),
         table \subseteq table', seen[r][a] \subseteq seen'[r][a]
  PROVE  Truthful(r, a, status)'
<1>1. SuccessesOf(table, a) \subseteq SuccessesOf(table', a)
  BY DEF SuccessesOf, RunsOf
<1>2. InOrder(a)' => InOrder(a)
  BY <1>1 DEF InOrder
<1> QED  BY <1>2 DEF Truthful

\* Each step in turn.

LEMMA AppendStep ==
  ASSUME Inv, Append
  PROVE  Inv'
<1>1. PICK run \in Run :
        /\ table' = table \cup {run}
        /\ seen' = [r \in Reader |->
                      IF pc[r] = "latest"
                      THEN [seen[r] EXCEPT ![app[r]] =
                              @ \cup TrueStatus(table', app[r], now[r])]
                      ELSE seen[r]]
  BY DEF Append
<1>2. UNCHANGED <<pc, now, todo, app, success, answer, summary>>
  BY DEF Append
<1>3. table \subseteq Run /\ table' \subseteq Run
  BY <1>1 DEF Inv, TypeOK
<1>4. TableInv'
  BY <1>1, <1>3, TableStep DEF Inv
<1>5. ASSUME NEW r \in Reader, pc[r] = "latest"
      PROVE  /\ app[r] \in App /\ app[r] \in todo[r]
             /\ seen'[r] = [seen[r] EXCEPT ![app[r]] =
                              @ \cup TrueStatus(table', app[r], now[r])]
             /\ TrueStatus(table', app[r], now[r]) \subseteq Status
  <2>1. app[r] \in App /\ app[r] \in todo[r]
    BY <1>5 DEF Inv, TypeOK, ReadInv, Between
  <2> QED  BY <1>1, <1>3, <1>5, <2>1, QueryType
<1>6. ASSUME NEW r \in Reader
      PROVE  seen'[r] \in [App -> SUBSET Status] /\ \A a \in App : seen[r][a] \subseteq seen'[r][a]
  <2>1. seen[r] \in [App -> SUBSET Status]
    BY DEF Inv, TypeOK
  <2>2. CASE pc[r] = "latest"
    <3> DEFINE X == TrueStatus(table', app[r], now[r])
    <3>1. /\ app[r] \in App /\ X \subseteq Status
          /\ seen'[r] = [seen[r] EXCEPT ![app[r]] = @ \cup X]
      BY <1>5, <2>2
    <3> HIDE DEF X
    <3>2. \A a \in App : seen'[r][a] = IF a = app[r] THEN seen[r][a] \cup X ELSE seen[r][a]
      BY <2>1, <3>1
    <3> QED  BY <2>1, <3>1, <3>2
  <2>3. CASE pc[r] # "latest"
    BY <1>1, <2>1, <2>3
  <2> QED  BY <2>2, <2>3
<1>7. TypeOK'
  <2>1. seen' \in [Reader -> [App -> SUBSET Status]]
    BY <1>1, <1>6
  <2> QED  BY <1>2, <1>3, <2>1 DEF Inv, TypeOK
<1>8. ASSUME NEW r \in Reader
      PROVE  ReadInv(r)'
  <2>1. ASSUME pc[r] = "latest"
        PROVE  Between(r)'
    <3> DEFINE a == app[r]
    <3>1. a \in App /\ a \in todo[r] /\ now[r] \in Nat /\ success[r] \in {None} \cup Run
      BY <1>5, <2>1 DEF Inv, TypeOK
    <3>2. TrueStatus(table', a, now[r]) \subseteq seen'[r][a]
      <4>1. seen[r] \in [App -> SUBSET Status]
        BY DEF Inv, TypeOK
      <4>2. seen'[r] = [seen[r] EXCEPT ![a] = @ \cup TrueStatus(table', a, now[r])]
        BY <1>5, <2>1
      <4> QED  BY <3>1, <4>1, <4>2
    <3>3. CASE IsOverdue(a, success[r], now[r])
      <4>1. "OVERDUE" \in seen'[r][a]
        BY <1>6, <2>1, <3>1, <3>3 DEF Inv, ReadInv, Between
      <4> QED  BY <1>2, <3>1, <3>2, <3>3, <4>1 DEF Between
    <3>4. CASE ~IsOverdue(a, success[r], now[r])
      <4>1. InTime(table, a, now[r])
        BY <2>1, <3>4 DEF Inv, ReadInv, Between
      <4>2. HasNewest(SuccessesOf(table, a))
        BY <3>1 DEF Inv, TableInv
      <4>3. InTime(table', a, now[r])
        BY <1>1, <1>3, <3>1, <4>1, <4>2, NotOverdueStays
      <4> QED  BY <1>2, <3>1, <3>2, <3>4, <4>3 DEF Between
    <3> QED  BY <3>3, <3>4
  <2>2. \A a \in App : answer[r][a] # None => Truthful(r, a, answer[r][a])'
    BY <1>1, <1>2, <1>6, TruthStays DEF Inv, ReadInv
  <2> QED  BY <1>2, <2>1, <2>2 DEF Inv, ReadInv
<1> QED  BY <1>4, <1>7, <1>8 DEF Inv

LEMMA BeginStep ==
  ASSUME Inv, NEW r \in Reader, Begin(r)
  PROVE  Inv'
<1>1. TypeOK'
  BY AppAssumption DEF Inv, TypeOK, Begin
<1>2. TableInv'
  BY DEF Inv, TableInv, Begin
<1>3. ASSUME NEW q \in Reader
      PROVE  ReadInv(q)'
  <2>1. CASE q = r
    BY <2>1 DEF Inv, TypeOK, ReadInv, Begin
  <2>2. CASE q # r
    <3>1. /\ pc'[q] = pc[q] /\ now'[q] = now[q] /\ todo'[q] = todo[q]
          /\ answer'[q] = answer[q] /\ seen'[q] = seen[q]
          /\ UNCHANGED <<table, app, success, summary>>
      BY <2>2 DEF Inv, TypeOK, Begin
    <3> QED  BY <3>1 DEF Inv, ReadInv, Between, Truthful, InOrder
  <2> QED  BY <2>1, <2>2
<1> QED  BY <1>1, <1>2, <1>3 DEF Inv

LEMMA QuerySuccessStep ==
  ASSUME Inv, NEW r \in Reader, QuerySuccess(r)
  PROVE  Inv'
<1>0. PICK a \in todo[r] :
        /\ app' = [app EXCEPT ![r] = a]
        /\ \E s \in LatestSuccess(table, a) : success' = [success EXCEPT ![r] = s]
        /\ seen' = [seen EXCEPT ![r][a] = TrueStatus(table, a, now[r])]
  BY DEF QuerySuccess
<1>1. PICK s \in LatestSuccess(table, a) :
        /\ app' = [app EXCEPT ![r] = a]
        /\ success' = [success EXCEPT ![r] = s]
        /\ seen' = [seen EXCEPT ![r][a] = TrueStatus(table, a, now[r])]
  BY <1>0
<1>2. /\ pc[r] = "success" /\ pc' = [pc EXCEPT ![r] = "latest"]
      /\ UNCHANGED <<table, now, todo, answer, summary>>
  BY DEF QuerySuccess
<1>3. a \in App /\ s \in {None} \cup Run /\ TrueStatus(table, a, now[r]) \subseteq Status
  BY <1>1, QueryType DEF Inv, TypeOK
<1>4. TypeOK'
  BY <1>1, <1>2, <1>3 DEF Inv, TypeOK
<1>5. TableInv'
  BY <1>2 DEF Inv, TableInv
<1>6. Between(r)'
  <2>1. /\ app'[r] = a /\ success'[r] = s
        /\ seen'[r][a] = TrueStatus(table, a, now[r])
    BY <1>1, <1>3 DEF Inv, TypeOK
  <2>2. IsOverdue(a, s, now[r]) => "OVERDUE" \in TrueStatus(table, a, now[r])
    <3>1. PICK l \in LatestRun(table, a) : TRUE
      BY <1>3, FirstNonEmpty DEF Inv, TableInv, LatestRun
    <3> QED  BY <1>1, <3>1 DEF TrueStatus, StatusFrom
  <2>3. CASE ~IsOverdue(a, s, now[r])
    \* Rows that started at the same instant are overdue together.
    <3>1. InTime(table, a, now[r])
      <4>1. CASE SuccessesOf(table, a) = {}
        BY <1>1, <2>3, <4>1 DEF LatestSuccess, First, InTime
      <4>2. CASE SuccessesOf(table, a) # {}
        <5>1. ASSUME NEW q \in LatestSuccess(table, a)
              PROVE  q \in Run /\ s \in Run /\ q.started <= s.started /\ s.started <= q.started
          BY <1>1, <4>2 DEF LatestSuccess, First, Newest, SuccessesOf, RunsOf, Inv, TypeOK
        <5>2. \A q \in Run : q.started \in Nat /\ q # None
          BY AppAssumption, NoneAssumption DEF Run
        <5> QED  BY <2>3, <5>1, <5>2 DEF IsOverdue, InTime
      <4> QED  BY <4>1, <4>2
    <3> QED  BY <1>1, <1>2, <2>1, <2>3, <3>1 DEF Between
  <2>4. CASE IsOverdue(a, s, now[r])
    BY <1>1, <1>2, <2>1, <2>2, <2>4 DEF Between
  <2> QED  BY <2>3, <2>4
<1>7. ASSUME NEW q \in Reader
      PROVE  ReadInv(q)'
  <2>1. CASE q = r
    <3>1. \A b \in App : b # a => seen'[r][b] = seen[r][b]
      BY <1>1, <1>3 DEF Inv, TypeOK
    <3>2. answer[r][a] = None
      BY <1>1, <1>2 DEF Inv, ReadInv
    <3> QED  BY <1>2, <1>6, <2>1, <3>1, <3>2 DEF Inv, ReadInv, Truthful, InOrder
  <2>2. CASE q # r
    <3>1. /\ pc'[q] = pc[q] /\ app'[q] = app[q] /\ success'[q] = success[q]
          /\ seen'[q] = seen[q] /\ UNCHANGED <<table, now, todo, answer, summary>>
      BY <1>1, <1>2, <2>2 DEF Inv, TypeOK
    <3> QED  BY <3>1 DEF Inv, ReadInv, Between, Truthful, InOrder
  <2> QED  BY <2>1, <2>2
<1> QED  BY <1>4, <1>5, <1>7 DEF Inv

\* Whatever the latest success is by the second query, if the one of the first
\* was recent enough the status could as well have been read at once; and it is
\* the true one where that latest success was no early one.
LEMMA StatusOfBoth ==
  ASSUME Inv, NEW r \in Reader, pc[r] = "latest",
         ~IsOverdue(app[r], success[r], now[r]), NEW l \in LatestRun(table, app[r])
  PROVE  LET status == StatusFrom(app[r], success[r], l, now[r])
         IN /\ status \in Reading(table, app[r], now[r])
            /\ Truthful(r, app[r], status)
<1> DEFINE a == app[r]
           status == StatusFrom(a, success[r], l, now[r])
<1>1. Between(r) /\ a \in App /\ InTime(table, a, now[r])
  BY DEF Inv, TypeOK, ReadInv, Between
<1>2. PICK s \in LatestSuccess(table, a) : TRUE
  BY <1>1, FirstNonEmpty DEF Inv, TableInv, LatestSuccess
<1>3. ~IsOverdue(a, s, now[r]) => status \in TrueStatus(table, a, now[r])
  BY <1>2 DEF StatusFrom, TrueStatus
<1>4. IsOverdue(a, s, now[r]) => Early(a, s) /\ ~IsOverdue(a, None, now[r])
  BY <1>1, <1>2 DEF InTime
<1>5. status \in Reading(table, a, now[r])
  BY <1>2, <1>3, <1>4 DEF Reading, StatusFrom
<1>6. InOrder(a) => ~Early(a, s)
  BY <1>2 DEF InOrder, LatestSuccess, First, Newest, Early
<1>7. status \in Alarming => TrueStatus(table, a, now[r]) \cap Alarming # {}
  BY <1>2 DEF StatusFrom, TrueStatus, Alarming
<1> QED  BY <1>1, <1>3, <1>4, <1>5, <1>6, <1>7 DEF Truthful, Between

LEMMA QueryLatestStep ==
  ASSUME Inv, NEW r \in Reader, QueryLatest(r)
  PROVE  Inv'
<1> DEFINE a == app[r]
<1>1. PICK l \in LatestRun(table, a) :
        answer' = [answer EXCEPT ![r][a] = StatusFrom(a, success[r], l, now[r])]
  BY DEF QueryLatest
<1>2. /\ pc[r] = "latest" /\ pc' = [pc EXCEPT ![r] = "success"]
      /\ todo' = [todo EXCEPT ![r] = @ \ {a}]
      /\ UNCHANGED <<table, now, app, success, summary, seen>>
  BY DEF QueryLatest
<1>3. Between(r)
  BY <1>2 DEF Inv, ReadInv
<1>4. a \in App /\ l \in {None} \cup Run /\ success[r] \in {None} \cup Run
  BY <1>1, <1>3, QueryType DEF Between, Inv, TypeOK
<1>5. TypeOK'
  BY <1>1, <1>2, <1>4, StatusType DEF Inv, TypeOK
<1>6. TableInv'
  BY <1>2 DEF Inv, TableInv
<1>7. Truthful(r, a, StatusFrom(a, success[r], l, now[r]))
  <2>1. CASE IsOverdue(a, success[r], now[r])
    BY <1>3, <2>1 DEF Between, StatusFrom, Truthful, Alarming
  <2>2. CASE ~IsOverdue(a, success[r], now[r])
    BY <1>1, <1>2, <2>2, StatusOfBoth
  <2> QED  BY <2>1, <2>2
<1>8. ASSUME NEW q \in Reader
      PROVE  ReadInv(q)'
  <2>1. CASE q = r
    <3>1. \A b \in App : answer'[r][b] =
             IF b = a THEN StatusFrom(a, success[r], l, now[r]) ELSE answer[r][b]
      BY <1>1, <1>4 DEF Inv, TypeOK
    <3> QED  BY <1>2, <1>7, <2>1, <3>1 DEF Inv, TypeOK, ReadInv, Truthful, InOrder
  <2>2. CASE q # r
    <3>1. /\ pc'[q] = pc[q] /\ todo'[q] = todo[q] /\ answer'[q] = answer[q]
          /\ UNCHANGED <<table, now, app, success, seen, summary>>
      BY <1>1, <1>2, <2>2 DEF Inv, TypeOK
    <3> QED  BY <3>1 DEF Inv, ReadInv, Between, Truthful, InOrder
  <2> QED  BY <2>1, <2>2
<1> QED  BY <1>5, <1>6, <1>8 DEF Inv

LEMMA RespondStep ==
  ASSUME Inv, NEW r \in Reader, Respond(r)
  PROVE  Inv'
<1>1. TypeOK'
  BY DEF Inv, TypeOK, Respond, Health
<1>2. TableInv'
  BY DEF Inv, TableInv, Respond
<1>3. ASSUME NEW q \in Reader
      PROVE  ReadInv(q)'
  BY DEF Inv, TypeOK, ReadInv, Between, Respond, Truthful, InOrder
<1> QED  BY <1>1, <1>2, <1>3 DEF Inv

-----------------------------------------------------------------------------
LEMMA InvInit == Init => Inv
  BY AppAssumption, NoneAssumption
     DEF Init, Inv, TypeOK, TableInv, HasNewest, RunsOf, SuccessesOf, ReadInv

LEMMA InvStep == Inv /\ [Next]_vars => Inv'
<1> SUFFICES ASSUME Inv, [Next]_vars PROVE Inv'
  OBVIOUS
<1>1. CASE Append
  BY <1>1, AppendStep
<1>2. ASSUME NEW r \in Reader, Begin(r) \/ QuerySuccess(r) \/ QueryLatest(r) \/ Respond(r)
      PROVE  Inv'
  BY <1>2, BeginStep, QuerySuccessStep, QueryLatestStep, RespondStep
<1>3. CASE UNCHANGED vars
  BY <1>3 DEF vars, Inv, TypeOK, TableInv, ReadInv, Between, Truthful, InOrder
<1> QED  BY <1>1, <1>2, <1>3 DEF Next

\* The types of the requests.
THEOREM ReadsTypeCorrect == Spec => []TypeOK
<1>1. Inv => TypeOK
  BY DEF Inv
<1> QED  BY <1>1, InvInit, InvStep, PTL DEF Spec

\* A status computed from two queries, with reports committed in between, is
\* nevertheless the application's status at one instant between them, for any
\* table in which its successes are dated after its registration.
THEOREM StatusReadsAreLinearizable == Spec => []StatusLinearizable
<1>1. Inv => StatusLinearizable
  BY DEF Inv, ReadInv, Truthful, StatusLinearizable
<1> QED  BY <1>1, InvInit, InvStep, PTL DEF Spec

\* The summary of all applications is no worse than its parts, whatever the
\* table holds, and no better where their successes are dated after their
\* registrations.
THEOREM HealthIsDeserved == Spec => []HealthDeserved
<1>1. Inv => HealthDeserved
  <2> SUFFICES ASSUME Inv, NEW r \in Reader, pc[r] = "idle", \A a \in App : answer[r][a] # None
               PROVE  /\ summary[r] = "degraded" => \E a \in App : seen[r][a] \cap Alarming # {}
                      /\ summary[r] = "healthy" =>
                           \A a \in App : InOrder(a) => seen[r][a] \ Alarming # {}
    BY DEF HealthDeserved
  <2>1. \A a \in App : Truthful(r, a, answer[r][a])
    BY DEF Inv, ReadInv
  <2>2. CASE summary[r] = None
    BY <2>2, NoneAssumption
  <2>3. CASE summary[r] = Health(answer[r])
    BY <2>1, <2>3 DEF Health, Truthful
  <2> QED  BY <2>2, <2>3 DEF Inv, ReadInv
<1> QED  BY <1>1, InvInit, InvStep, PTL DEF Spec

-----------------------------------------------------------------------------
(***************************************************************************)
(* Two queries implement one read.  A request is ahead of the atomic one   *)
(* nowhere but between its queries, and there only if it is settled.       *)
(***************************************************************************)
\* What a request has read of an application is what its own state says.
LEMMA SameRequest ==
  ASSUME NEW r \in Reader,
         pc'[r] = pc[r], now'[r] = now[r], todo'[r] = todo[r], app'[r] = app[r],
         success'[r] = success[r], answer'[r] = answer[r]
  PROVE  /\ (pc'[r] # "idle") = (pc[r] # "idle")
         /\ Unread'[r] = Unread[r] /\ Answer'[r] = Answer[r]
  BY DEF Unread, Answer, Settled

LEMMA AtomicRead ==
  ASSUME Inv, NEW r \in Reader, NEW a \in todo[r], pc[r] # "idle", pc'[r] # "idle",
         a \in Unread[r], NEW s \in Reading(table, a, now[r]),
         Unread'[r] = Unread[r] \ {a},
         Answer'[r] = [Answer[r] EXCEPT ![a] = s],
         UNCHANGED <<table, now, summary>>,
         \A q \in Reader \ {r} : /\ (pc'[q] # "idle") = (pc[q] # "idle")
                                 /\ Unread'[q] = Unread[q] /\ Answer'[q] = Answer[q]
  PROVE  Atomic!Read(r, a)
<1>1. Answer' = [Answer EXCEPT ![r][a] = s]
  BY DEF Answer
<1>2. Unread' = [Unread EXCEPT ![r] = @ \ {a}]
  BY DEF Unread
<1>3. [q \in Reader |-> pc[q] # "idle"]' = [q \in Reader |-> pc[q] # "idle"]
  OBVIOUS
<1> QED  BY <1>1, <1>2, <1>3 DEF Atomic!Read

\* The same when nothing of it shows outside.
LEMMA AtomicStutter ==
  ASSUME UNCHANGED <<table, now, summary>>,
         \A q \in Reader : /\ (pc'[q] # "idle") = (pc[q] # "idle")
                           /\ Unread'[q] = Unread[q] /\ Answer'[q] = Answer[q]
  PROVE  UNCHANGED Atomic!vars
<1>1. UNCHANGED <<Unread, Answer, [q \in Reader |-> pc[q] # "idle"]>>
  BY DEF Unread, Answer
<1> QED  BY <1>1 DEF Atomic!vars

LEMMA SettledFirst ==
  ASSUME Inv, NEW r \in Reader, QuerySuccess(r)
  PROVE  Atomic!Next \/ UNCHANGED Atomic!vars
<1>1. PICK a \in todo[r] : /\ app' = [app EXCEPT ![r] = a]
                           /\ \E s \in LatestSuccess(table, a) : success' = [success EXCEPT ![r] = s]
  BY DEF QuerySuccess
<1>2. PICK s \in LatestSuccess(table, a) : success' = [success EXCEPT ![r] = s]
  BY <1>1
<1>3. /\ pc[r] = "success" /\ pc' = [pc EXCEPT ![r] = "latest"]
      /\ UNCHANGED <<table, now, todo, answer, summary>>
  BY DEF QuerySuccess
<1>4. a \in App /\ pc'[r] = "latest" /\ app'[r] = a /\ success'[r] = s
  BY <1>1, <1>2, <1>3 DEF Inv, TypeOK
<1>5. \A q \in Reader \ {r} : /\ (pc'[q] # "idle") = (pc[q] # "idle")
                              /\ Unread'[q] = Unread[q] /\ Answer'[q] = Answer[q]
  <2>1. ASSUME NEW q \in Reader \ {r}
        PROVE  pc'[q] = pc[q] /\ app'[q] = app[q] /\ success'[q] = success[q]
    BY <1>1, <1>2, <1>3 DEF Inv, TypeOK
  <2> QED  BY <1>3, <2>1, SameRequest
<1>6. Unread[r] = todo[r] /\ Answer[r] = [b \in App |-> answer[r][b]]
  BY <1>3 DEF Unread, Answer, Settled, Inv, TypeOK
<1>7. CASE IsOverdue(a, s, now[r])
  <2>1. "OVERDUE" \in Reading(table, a, now[r])
    <3>1. PICK l \in LatestRun(table, a) : TRUE
      BY <1>4, FirstNonEmpty DEF Inv, TableInv, LatestRun
    <3> QED  BY <1>2, <1>7, <3>1 DEF Reading, TrueStatus, StatusFrom
  <2>2. \A b \in App : Settled(r, b)' = (b = a)
    BY <1>3, <1>4, <1>7 DEF Settled
  <2>3. Unread'[r] = Unread[r] \ {a}
    BY <1>3, <1>6, <2>2 DEF Unread, Inv, TypeOK
  <2>4. Answer'[r] = [Answer[r] EXCEPT ![a] = "OVERDUE"]
    BY <1>3, <1>4, <1>6, <2>2 DEF Answer
  <2>5. Atomic!Read(r, a)
    BY <1>3, <1>4, <1>5, <1>6, <2>1, <2>3, <2>4, AtomicRead
  <2> QED  BY <1>4, <2>5 DEF Atomic!Next
<1>8. CASE ~IsOverdue(a, s, now[r])
  <2>1. \A b \in App : ~Settled(r, b)'
    BY <1>3, <1>4, <1>8 DEF Settled
  <2>2. Unread'[r] = Unread[r] /\ Answer'[r] = Answer[r]
    BY <1>3, <1>6, <2>1 DEF Unread, Answer, Inv, TypeOK
  <2> QED  BY <1>3, <1>4, <1>5, <2>2, AtomicStutter
<1> QED  BY <1>7, <1>8

LEMMA SettledSecond ==
  ASSUME Inv, NEW r \in Reader, QueryLatest(r)
  PROVE  Atomic!Next \/ UNCHANGED Atomic!vars
<1> DEFINE a == app[r]
<1>1. PICK l \in LatestRun(table, a) :
        answer' = [answer EXCEPT ![r][a] = StatusFrom(a, success[r], l, now[r])]
  BY DEF QueryLatest
<1>2. /\ pc[r] = "latest" /\ pc' = [pc EXCEPT ![r] = "success"]
      /\ todo' = [todo EXCEPT ![r] = @ \ {a}]
      /\ UNCHANGED <<table, now, app, success, summary>>
  BY DEF QueryLatest
<1>3. Between(r) /\ a \in todo[r] /\ a \in App
  BY <1>2 DEF Inv, TypeOK, ReadInv, Between
<1>4. \A q \in Reader \ {r} : /\ (pc'[q] # "idle") = (pc[q] # "idle")
                              /\ Unread'[q] = Unread[q] /\ Answer'[q] = Answer[q]
  <2>1. ASSUME NEW q \in Reader \ {r}
        PROVE  pc'[q] = pc[q] /\ todo'[q] = todo[q] /\ answer'[q] = answer[q]
    BY <1>1, <1>2 DEF Inv, TypeOK
  <2> QED  BY <1>2, <2>1, SameRequest
<1>5. pc'[r] = "success" /\ \A b \in App : ~Settled(r, b)'
  BY <1>2 DEF Settled, Inv, TypeOK
<1>6. /\ Unread'[r] = todo[r] \ {a}
      /\ Answer'[r] = [b \in App |-> IF b = a THEN StatusFrom(a, success[r], l, now[r])
                                             ELSE answer[r][b]]
  BY <1>1, <1>2, <1>3, <1>5 DEF Unread, Answer, Inv, TypeOK
<1>7. CASE IsOverdue(a, success[r], now[r])
  <2>1. \A b \in App : Settled(r, b) = (b = a)
    BY <1>2, <1>7 DEF Settled
  <2>2. StatusFrom(a, success[r], l, now[r]) = "OVERDUE"
    BY <1>7 DEF StatusFrom
  <2>3. Unread'[r] = Unread[r]
    <3>1. todo[r] \subseteq App /\ Unread[r] = {b \in todo[r] : ~Settled(r, b)}
      BY DEF Unread, Inv, TypeOK
    <3> QED  BY <1>6, <2>1, <3>1
  <2>4. Answer'[r] = Answer[r]
    BY <1>6, <2>1, <2>2 DEF Answer
  <2> QED  BY <1>2, <1>4, <1>5, <2>3, <2>4, AtomicStutter
<1>8. CASE ~IsOverdue(a, success[r], now[r])
  <2>1. \A b \in App : ~Settled(r, b)
    BY <1>8 DEF Settled
  <2>2. Unread[r] = todo[r] /\ Answer[r] = [b \in App |-> answer[r][b]]
    BY <2>1 DEF Unread, Answer, Inv, TypeOK
  <2>3. StatusFrom(a, success[r], l, now[r]) \in Reading(table, a, now[r])
    BY <1>2, <1>8, StatusOfBoth
  <2>4. Answer'[r] = [Answer[r] EXCEPT ![a] = StatusFrom(a, success[r], l, now[r])]
    BY <1>6, <2>2
  <2>5. Atomic!Read(r, a)
    BY <1>2, <1>3, <1>4, <1>5, <1>6, <2>2, <2>3, <2>4, AtomicRead
  <2> QED  BY <1>3, <2>5 DEF Atomic!Next
<1> QED  BY <1>7, <1>8

LEMMA AtomicStep ==
  ASSUME Inv, [Next]_vars
  PROVE  [Atomic!Next]_(Atomic!vars)
<1>1. CASE Append
  <2>1. \A q \in Reader : Unread'[q] = Unread[q] /\ Answer'[q] = Answer[q]
    BY <1>1, SameRequest DEF Append
  <2>2. UNCHANGED <<Unread, Answer>>
    BY <2>1 DEF Unread, Answer
  <2>3. Atomic!Commit
    BY <1>1, <2>2 DEF Append, Atomic!Commit
  <2> QED  BY <2>3 DEF Atomic!Next
<1>2. ASSUME NEW r \in Reader, Begin(r) PROVE Atomic!Ask(r)
  <2>1. PICK t \in Time, apps \in {App} \cup {{a} : a \in App} :
          now' = [now EXCEPT ![r] = t] /\ todo' = [todo EXCEPT ![r] = apps]
    BY <1>2 DEF Begin
  <2>2. /\ pc[r] = "idle" /\ pc' = [pc EXCEPT ![r] = "success"]
        /\ answer' = [answer EXCEPT ![r] = [a \in App |-> None]]
        /\ UNCHANGED <<table, app, success, summary>>
    BY <1>2 DEF Begin
  <2>3. ASSUME NEW q \in Reader \ {r}
        PROVE  Unread'[q] = Unread[q] /\ Answer'[q] = Answer[q]
    BY <2>1, <2>2, SameRequest DEF Inv, TypeOK
  <2>4. \A a \in App : ~Settled(r, a)'
    BY <2>2 DEF Settled, Inv, TypeOK
  <2>5. Unread'[r] = apps /\ Answer'[r] = [a \in App |-> None]
    BY <2>1, <2>2, <2>4 DEF Unread, Answer, Inv, TypeOK
  <2>6. /\ Unread' = [Unread EXCEPT ![r] = apps]
        /\ Answer' = [Answer EXCEPT ![r] = [a \in App |-> None]]
    BY <2>3, <2>5 DEF Unread, Answer
  <2>7. [q \in Reader |-> pc[q] # "idle"]' = [[q \in Reader |-> pc[q] # "idle"] EXCEPT ![r] = TRUE]
    BY <2>2 DEF Inv, TypeOK
  <2> QED  BY <2>1, <2>2, <2>6, <2>7 DEF Atomic!Ask
<1>3. ASSUME NEW r \in Reader, Respond(r) PROVE Atomic!Respond(r)
  <2>1. /\ pc[r] = "success" /\ todo[r] = {} /\ pc' = [pc EXCEPT ![r] = "idle"]
        /\ summary' = [summary EXCEPT ![r] = Health(answer[r])]
        /\ UNCHANGED <<table, now, todo, app, success, answer>>
    BY <1>3 DEF Respond
  <2>2. \A q \in Reader, a \in App : Settled(q, a)' = Settled(q, a)
    BY <2>1 DEF Settled, Inv, TypeOK
  <2>3. UNCHANGED <<Unread, Answer>>
    BY <2>1, <2>2 DEF Unread, Answer, Inv, TypeOK
  <2>4. Answer[r] = answer[r] /\ Unread[r] = {}
    BY <2>1 DEF Answer, Unread, Settled, Inv, TypeOK
  <2>5. [q \in Reader |-> pc[q] # "idle"]' = [[q \in Reader |-> pc[q] # "idle"] EXCEPT ![r] = FALSE]
    BY <2>1 DEF Inv, TypeOK
  <2> QED  BY <2>1, <2>3, <2>4, <2>5 DEF Atomic!Respond
<1>4. CASE UNCHANGED vars
  BY <1>4, SameRequest, AtomicStutter DEF vars
<1> QED
  BY <1>1, <1>2, <1>3, <1>4, SettledFirst, SettledSecond DEF Next, Atomic!Next

\* ReadsAreAtomic: a request that queries twice, while reports are committed,
\* implements one that reads once, for any table: by Reading an early success
\* may or may not count yet.
THEOREM StatusReadsAreAtomic == Spec => ReadsAreAtomic
<1>1. Init => Atomic!Init
  BY NoneAssumption DEF Init, Atomic!Init, Unread, Answer, Settled
<1>2. Inv /\ [Next]_vars => [Atomic!Next]_(Atomic!vars)
  BY AtomicStep
<1> QED  BY <1>1, <1>2, InvInit, InvStep, PTL DEF Spec, ReadsAreAtomic, Atomic!Spec
=============================================================================
