----------------------- MODULE BackwatchSystem_proofs -----------------------
(***************************************************************************)
(* What is proved of the parts together, for any applications, calendars,  *)
(* intervals and outages: the types; that a scheduled backup without a row *)
(* of its time or a later one has its application OVERDUE, and told so, by *)
(* the first pass completed an interval later; and that a reported failure *)
(* is told by the next completed pass or the file held its alarm before.   *)
(* What carries them is that the state file holds no alarm that was not    *)
(* raised, nor one that is newer than the last row and not told since.     *)
(* The last part is about calendars of one hour, where no run of the       *)
(* calendar is silent.                                                     *)
(***************************************************************************)
EXTENDS BackwatchSystem, TLAPS

LEMMA Facts ==
  /\ Time \subseteq Nat /\ 0 \in Time /\ Horizon \in Nat
  /\ \A t \in Nat : t \in Time <=> t <= Horizon
  /\ App = DOMAIN Interval /\ \A a \in App : Interval[a] \in Nat /\ Created[a] = 0
  BY AppAssumption, SystemAssumption

LEMMA NoneIsNoAlarm == None \notin Alarming
  BY NoneAssumption DEF Status, RunStatus, Alarming

LEMMA TypeInit == Init => TypeOK
  BY Facts, SystemAssumption DEF Init, TypeOK

LEMMA TypeStep == TypeOK /\ [Next]_vars => TypeOK'
<1> SUFFICES ASSUME TypeOK, [Next]_vars PROVE TypeOK' OBVIOUS
<1> USE Facts
<1>0. clock \in Nat /\ clock \in Time /\ looked \in Nat /\ heard \in Nat
  BY DEF TypeOK
<1>1. ASSUME NEW a \in App, Elapse(a) PROVE TypeOK'
  <2>1. UNCHANGED <<clock, up, outages, timer, lost, api, watcher>>
    BY <1>1 DEF Elapse
  <2>2. up /\ fired' \in [App -> Time] /\ job' \in [App -> Time \cup {None}]
    BY <1>1, <1>0 DEF Elapse, TypeOK
  <2>3. \A b \in App : job'[b] # None => up /\ job'[b] <= clock
    BY <1>1, <1>0, <2>2 DEF Elapse, TypeOK
  <2> QED BY <2>1, <2>2, <2>3 DEF TypeOK, api, watcher
<1>2. ASSUME NEW a \in App, Report(a) PROVE TypeOK'
  <2>1. UNCHANGED <<clock, up, outages, timer, fired, lost, looked, heard, file, rung, told>>
    BY <1>2 DEF Report
  <2>2. PICK s \in {"SUCCESS", "FAILED"} :
          table' = table \cup {[app |-> a, status |-> s, started |-> job[a]]}
    BY <1>2 DEF Report
  <2>3. [app |-> a, status |-> s, started |-> job[a]] \in Run
    <3>1. job[a] \in Time /\ job[a] \in Nat /\ Created[a] = 0
      BY <1>2 DEF Report, TypeOK
    <3> QED BY <3>1 DEF Run, RunStatus
  <2>4. table' \subseteq Run /\ noted' \in [App -> 0..clock] /\ job' \in [App -> Time \cup {None}]
    BY <1>2, <1>0, <2>2, <2>3 DEF Report, TypeOK
  <2>5. \A b \in App : job'[b] # None => up /\ job'[b] <= clock
    BY <1>2 DEF Report, TypeOK
  <2>6. /\ stood' \in [App -> Status \cup {None}]
        /\ since' \in [App -> SUBSET Alarming]
    BY <1>2 DEF Report, TypeOK
  <2> QED BY <2>1, <2>4, <2>5, <2>6 DEF TypeOK
<1>3. ASSUME NEW a \in App, Vanish(a) PROVE TypeOK'
  BY <1>3 DEF Vanish, TypeOK, api, watcher
<1>4. ASSUME NEW a \in App, Stop(a) PROVE TypeOK'
  BY <1>4 DEF Stop, TypeOK, api, watcher
<1>5. ASSUME PowerLoss PROVE TypeOK'
  <2>1. outages' \in 0..MaxOutage
    BY <1>5, SystemAssumption DEF PowerLoss, TypeOK
  <2>2. lost' \in [App -> Time \cup {None}]
    BY <1>5 DEF PowerLoss, TypeOK
  <2> QED BY <1>5, <2>1, <2>2 DEF PowerLoss, TypeOK, api, watcher
<1>6. ASSUME Boot PROVE TypeOK'
  BY <1>6, <1>0 DEF Boot, TypeOK, api, watcher
<1>7. ASSUME Pass PROVE TypeOK'
  <2>1. UNCHANGED <<clock, host, api>>
    BY <1>7 DEF Pass
  <2>2. looked' \in 0..clock /\ heard' \in 0..looked'
    BY <1>7, <1>0 DEF Pass
  <2>3. PICK statusOf \in [App -> Status] :
          /\ file' = statusOf
          /\ told' = [a \in App |-> told[a] \cup Alert(a, statusOf[a])]
          /\ since' = [a \in App |-> since[a] \cup Alert(a, statusOf[a])]
          /\ rung' = [a \in App |->
               IF statusOf[a] \in Alarming THEN rung[a] \cup Alert(a, statusOf[a]) ELSE {}]
    BY <1>7 DEF Pass
  <2>4. file' \in [App -> Status \cup {None}]
    BY <2>3
  <2>5. /\ rung' \in [App -> SUBSET Alarming] /\ told' \in [App -> SUBSET Alarming]
        /\ since' \in [App -> SUBSET Alarming]
    BY <2>3 DEF TypeOK, Rings, Alert
  <2> QED BY <2>1, <2>2, <2>4, <2>5 DEF TypeOK, host, api
<1>8. ASSUME PassLost PROVE TypeOK'
  BY <1>8, <1>0 DEF PassLost, TypeOK, host, api
<1>9. ASSUME Tick PROVE TypeOK'
  <2>1. UNCHANGED <<host, api, watcher>>
    BY <1>9 DEF Tick
  <2>2. clock' = clock + 1 /\ clock' \in Time /\ looked \in 0..clock'
    BY <1>9, <1>0 DEF Tick, TypeOK
  <2>3. noted \in [App -> 0..clock']
    <3>1. noted \in [App -> 0..clock]
      BY DEF TypeOK
    <3>2. \A n \in 0..clock : n \in 0..clock'
      BY <1>0, <2>2
    <3>3. \A a \in App : noted[a] \in 0..clock'
      BY <3>1, <3>2
    <3> QED BY <3>1, <3>3
  <2>4. \A a \in App : job[a] # None => up /\ job[a] <= clock'
    <3>1. ASSUME NEW a \in App, job[a] # None PROVE job[a] \in Nat /\ job[a] <= clock
      BY <3>1 DEF TypeOK
    <3>2. ASSUME NEW a \in App, job[a] # None PROVE up
      BY <3>2 DEF TypeOK
    <3>3. \A a \in App : job[a] # None => job[a] <= clock'
      BY <3>1, <1>0, <2>2
    <3> QED BY <3>2, <3>3
  <2> QED BY <2>1, <2>2, <2>3, <2>4 DEF TypeOK, host, api, watcher
<1>10. CASE UNCHANGED vars
  BY <1>10 DEF vars, host, api, watcher, TypeOK
<1> QED BY <1>1, <1>2, <1>3, <1>4, <1>5, <1>6, <1>7, <1>8, <1>9, <1>10 DEF Next

(***************************************************************************)
(* Every reachable state is well typed; no unit is busy on a host that is  *)
(* down.                                                                   *)
(***************************************************************************)
THEOREM SystemTypeCorrect == Spec => []TypeOK
  BY TypeInit, TypeStep, PTL DEF Spec

-----------------------------------------------------------------------------
\* The state file holds no alarm that was not raised in this spell.
FileRang == \A a \in App : file[a] \in Alarming => file[a] \in rung[a]

\* A pass sees OVERDUE where no run has started for longer than the interval.
LEMMA OverdueSeen ==
  ASSUME TypeOK, NEW a \in App, NEW d \in Nat, d + Interval[a] < clock,
         \A r \in RunsOf(table, a) : ~(r.started >= d),
         NEW s \in TrueStatus(table, a, clock)
  PROVE  s = "OVERDUE"
<1>1. PICK success \in LatestSuccess(table, a), latest \in LatestRun(table, a) :
        s = StatusFrom(a, success, latest, clock)
  BY DEF TrueStatus
<1>2. clock \in Nat /\ Interval[a] \in Nat /\ Created[a] = 0
  BY Facts DEF TypeOK
<1>3. IsOverdue(a, success, clock)
  <2>1. CASE success = None
    BY <1>2, <2>1 DEF IsOverdue
  <2>2. CASE success # None
    <3>1. success \in RunsOf(table, a) /\ success \in Run
      BY <1>1, <2>2 DEF LatestSuccess, First, Newest, SuccessesOf, RunsOf, TypeOK
    <3>2. success.started \in Nat /\ ~(success.started >= d)
      BY <3>1, Facts DEF Run
    <3> QED BY <1>2, <2>2, <3>2 DEF IsOverdue
  <2> QED BY <2>1, <2>2
<1> QED BY <1>1, <1>3 DEF StatusFrom

\* A pass sees an alarm where the run that started last has failed.
LEMMA FailureSeen ==
  ASSUME NEW a \in App, RunsOf(table, a) # {},
         \A r \in Newest(RunsOf(table, a)) : r.status = "FAILED",
         NEW s \in TrueStatus(table, a, clock), TypeOK
  PROVE  s \in Alarming
<1>1. PICK success \in LatestSuccess(table, a), latest \in LatestRun(table, a) :
        s = StatusFrom(a, success, latest, clock)
  BY DEF TrueStatus
<1>2. latest \in Newest(RunsOf(table, a)) /\ latest \in Run
  BY <1>1 DEF LatestRun, First, Newest, RunsOf, TypeOK
<1>3. latest.status = "FAILED" /\ latest # None
  BY <1>2, NoneAssumption
<1>4. s = "OVERDUE" \/ s = latest.status
  BY <1>1, <1>3 DEF StatusFrom
<1> QED BY <1>3, <1>4 DEF Alarming

\* What a pass sees alarming has been told in this spell when it ends; what it
\* does not tell now is what the file said already.
LEMMA PassTells ==
  ASSUME TypeOK, FileRang, Pass
  PROVE  \E statusOf \in [App -> Status] : \A a \in App :
           /\ statusOf[a] \in TrueStatus(table, a, clock)
           /\ file'[a] = statusOf[a]
           /\ statusOf[a] \in Alarming => statusOf[a] \in rung'[a]
           /\ since[a] \subseteq since'[a]
           /\ statusOf[a] \in Alarming /\ since'[a] = {} => file[a] = statusOf[a]
<1>1. PICK statusOf \in [App -> Status] :
        /\ \A a \in App : statusOf[a] \in TrueStatus(table, a, clock)
        /\ file' = statusOf
        /\ since' = [a \in App |-> since[a] \cup Alert(a, statusOf[a])]
        /\ rung' = [a \in App |->
             IF statusOf[a] \in Alarming THEN rung[a] \cup Alert(a, statusOf[a]) ELSE {}]
  BY DEF Pass
<1>2. ASSUME NEW a \in App, statusOf[a] \in Alarming
      PROVE  statusOf[a] \in rung'[a]
  <2>1. CASE file[a] = statusOf[a]
    BY <1>1, <1>2, <2>1 DEF FileRang
  <2>2. CASE file[a] # statusOf[a]
    BY <1>1, <1>2, <2>2 DEF Rings, Alert
  <2> QED BY <2>1, <2>2
<1>3. ASSUME NEW a \in App
      PROVE  /\ since[a] \subseteq since'[a]
             /\ statusOf[a] \in Alarming /\ since'[a] = {} => file[a] = statusOf[a]
  <2>1. since'[a] = since[a] \cup Alert(a, statusOf[a])
    BY <1>1
  <2> QED BY <2>1 DEF Rings, Alert
<1> QED BY <1>1, <1>2, <1>3

\* With no alert since the last row, an alarm in the file stood before it; and
\* after a pass an application that failed last has an alarm in the file.
FileStood == \A a \in App : since[a] = {} /\ file[a] \in Alarming => stood[a] = file[a]

FailureSaved ==
  \A a \in App :
    /\ RunsOf(table, a) # {} /\ noted[a] < heard
    /\ \A r \in Newest(RunsOf(table, a)) : r.status = "FAILED"
    => file[a] \in Alarming

Promises == FileRang /\ EveryRunAccounted /\ FileStood /\ FailureSaved

LEMMA PromisesInit == Init => Promises
<1> SUFFICES ASSUME Init PROVE Promises OBVIOUS
<1>1. FileRang /\ FileStood
  BY NoneIsNoAlarm DEF Init, FileRang, FileStood
<1>2. EveryRunAccounted /\ FailureSaved
  BY Facts DEF Init, EveryRunAccounted, FailureSaved, RunsOf
<1> QED BY <1>1, <1>2 DEF Promises

\* A step that is no pass leaves what was told and saved, and rows only come to
\* be.
LEMMA PromisesKept ==
  ASSUME Promises, UNCHANGED <<heard, file, rung>>, table \subseteq table',
         \A a \in App : \/ /\ noted'[a] = noted[a] /\ RunsOf(table, a)' = RunsOf(table, a)
                           /\ stood'[a] = stood[a] /\ since'[a] = since[a]
                        \/ ~(noted'[a] < heard) /\ stood'[a] = file[a]
  PROVE  Promises'
<1>1. FileRang' /\ FileStood'
  BY DEF Promises, FileRang, FileStood
<1>2. EveryRunAccounted'
  <2>1. \A a \in App : RunsOf(table, a) \subseteq RunsOf(table', a)
    BY DEF RunsOf
  <2> QED BY <2>1 DEF Promises, EveryRunAccounted, RunsOf, Due
<1>3. FailureSaved'
  BY DEF Promises, FailureSaved
<1> QED BY <1>1, <1>2, <1>3 DEF Promises

LEMMA PromisesStep ==
  ASSUME TypeOK, TypeOK', Promises, [Next]_vars
  PROVE  Promises'
<1>1. ASSUME Pass PROVE Promises'
  <2>1. heard' = clock /\ UNCHANGED <<clock, table, noted, stood>> /\ clock \in Nat
    BY <1>1, Facts DEF Pass, api, TypeOK
  <2>2. PICK statusOf \in [App -> Status] : \A a \in App :
           /\ statusOf[a] \in TrueStatus(table, a, clock)
           /\ file'[a] = statusOf[a]
           /\ statusOf[a] \in Alarming => statusOf[a] \in rung'[a]
           /\ since[a] \subseteq since'[a]
           /\ statusOf[a] \in Alarming /\ since'[a] = {} => file[a] = statusOf[a]
    BY <1>1, PassTells DEF Promises
  <2>3. FileRang'
    BY <2>2 DEF FileRang
  <2>4. ASSUME NEW a \in App, NEW d \in Time, d + Interval[a] < clock,
               \A r \in RunsOf(table, a) : ~(r.started >= d)
        PROVE  "OVERDUE" \in rung'[a]
    <3>1. statusOf[a] = "OVERDUE"
      BY <2>2, <2>4, OverdueSeen, Facts
    <3> QED BY <3>1, <2>2 DEF Alarming
  <2>5. EveryRunAccounted'
    <3>1. \A a \in App : RunsOf(table', a) = RunsOf(table, a)
      BY <2>1
    <3> QED BY <2>1, <2>4, <3>1 DEF EveryRunAccounted, RunsOf
  <2>6. FileStood'
    <3>1. ASSUME NEW a \in App, since'[a] = {}, file'[a] \in Alarming
          PROVE  stood'[a] = file'[a]
      <4>1. since[a] = {} /\ file[a] = file'[a]
        BY <2>2, <3>1
      <4> QED BY <2>1, <3>1, <4>1 DEF Promises, FileStood
    <3> QED BY <3>1 DEF FileStood
  <2>7. ASSUME NEW a \in App, RunsOf(table, a) # {},
               \A r \in Newest(RunsOf(table, a)) : r.status = "FAILED"
        PROVE  file'[a] \in Alarming
    BY <2>2, <2>7, FailureSeen
  <2>8. FailureSaved'
    BY <2>1, <2>7 DEF FailureSaved, RunsOf, Newest
  <2> QED BY <2>3, <2>5, <2>6, <2>8 DEF Promises
<1>2. ASSUME NEW a \in App, Report(a) PROVE Promises'
  <2>1. /\ UNCHANGED <<clock, heard, file, rung>> /\ table \subseteq table'
        /\ noted' = [noted EXCEPT ![a] = clock]
        /\ stood' = [stood EXCEPT ![a] = file[a]] /\ since' = [since EXCEPT ![a] = {}]
    BY <1>2 DEF Report
  <2>2. clock \in Nat /\ heard <= clock /\ heard \in Nat
    BY Facts DEF TypeOK
  <2>3. ~(noted'[a] < heard) /\ stood'[a] = file[a]
    BY <2>1, <2>2 DEF TypeOK
  <2>4. ASSUME NEW b \in App, b # a
        PROVE  /\ noted'[b] = noted[b] /\ RunsOf(table, b)' = RunsOf(table, b)
               /\ stood'[b] = stood[b] /\ since'[b] = since[b]
    <3>1. PICK s \in {"SUCCESS", "FAILED"} :
            table' = table \cup {[app |-> a, status |-> s, started |-> job[a]]}
      BY <1>2 DEF Report
    <3> QED BY <2>1, <2>4, <3>1 DEF RunsOf, TypeOK
  <2> QED BY <2>1, <2>3, <2>4, PromisesKept
<1>3. ASSUME UNCHANGED <<table, noted, stood, heard, file, rung, since>> PROVE Promises'
  BY <1>3, PromisesKept DEF RunsOf
<1>4. ASSUME NEW a \in App, Elapse(a) \/ Vanish(a) \/ Stop(a)
      PROVE  UNCHANGED <<table, noted, stood, heard, file, rung, since>>
  BY <1>4 DEF Elapse, Vanish, Stop, api, watcher
<1>5. ASSUME PowerLoss \/ Boot \/ PassLost \/ Tick \/ UNCHANGED vars
      PROVE  UNCHANGED <<table, noted, stood, heard, file, rung, since>>
  BY <1>5 DEF PowerLoss, Boot, PassLost, Tick, vars, api, watcher
<1> QED BY <1>1, <1>2, <1>3, <1>4, <1>5 DEF Next

(***************************************************************************)
(* A scheduled backup that left no row of its time or a later one has its  *)
(* application OVERDUE, and told so, by the first pass completed more than *)
(* one interval later.                                                     *)
(***************************************************************************)
THEOREM RunsAreAccounted == Spec => []EveryRunAccounted
<1>1. TypeOK /\ Promises /\ [Next]_vars => (TypeOK /\ Promises)'
  BY TypeStep, PromisesStep
<1>2. Promises => EveryRunAccounted
  BY DEF Promises
<1> QED BY TypeInit, PromisesInit, <1>1, <1>2, PTL DEF Spec

(***************************************************************************)
(* By the next completed pass a reported failure is told, unless the file  *)
(* already held, when the report came, the alarm that pass sees: then      *)
(* nothing new goes out, although a success may have come in between.      *)
(***************************************************************************)
THEOREM FailuresAreDetected == Spec => []FailureDetected
<1>1. TypeOK /\ Promises /\ [Next]_vars => (TypeOK /\ Promises)'
  BY TypeStep, PromisesStep
<1>2. Promises => FailureDetected
  BY DEF Promises, FileStood, FailureSaved, FailureDetected
<1> QED BY TypeInit, PromisesInit, <1>1, <1>2, PTL DEF Spec

-----------------------------------------------------------------------------
\* The installation of deploy/README.md: --schedule "*-*-* 00:00:00", where
\* template and drop-in agree on one hour, on a host that stays up and beside a
\* watcher that completes a pass every day at least.
OncePerDay ==
  /\ MaxOutage = 0 /\ 1 < Day /\ MaxDeaf < Day
  /\ \A a \in App : Interval[a] = Day /\ \E h \in 0..Day - 1 : Calendar[a] = {h}

LEMMA DayApart ==
  ASSUME NEW t \in Nat, NEW d \in Nat, t % Day = d % Day, t < d
  PROVE  t + Day <= d
<1>1. Day \in Nat /\ Day > 0
  BY SystemAssumption
<1> DEFINE p == t \div Day
           q == d \div Day
           h == d % Day
<1>2. p \in Nat /\ q \in Nat /\ h \in Nat /\ t = Day * p + h /\ d = Day * q + h
  BY <1>1
<1> HIDE DEF p, q, h
<1>3. p < q
  <2>1. SUFFICES ASSUME q <= p PROVE FALSE
    BY <1>2
  <2>2. Day * q <= Day * p
    BY <1>1, <1>2, <2>1
  <2> QED BY <1>1, <1>2, <2>2
<1>4. Day * (p + 1) <= Day * q
  BY <1>1, <1>2, <1>3
<1>5. Day * (p + 1) = Day * p + Day
  BY <1>1, <1>2
<1> QED BY <1>1, <1>2, <1>4, <1>5

LEMMA DayLater == ASSUME NEW d \in Nat PROVE (d + Day) % Day = d % Day
<1>1. Day \in Nat /\ Day > 0 /\ d + Day \in Nat
  BY SystemAssumption
<1> DEFINE p == d \div Day
           g == d % Day
           q == (d + Day) \div Day
           h == (d + Day) % Day
<1>2. /\ p \in Nat /\ g \in Nat /\ g < Day /\ d = Day * p + g
      /\ q \in Nat /\ h \in Nat /\ h < Day /\ d + Day = Day * q + h
  BY <1>1
<1> HIDE DEF p, g, q, h
<1>3. Day * q + h = Day * (p + 1) + g
  BY <1>1, <1>2
<1>4. ~(q < p + 1)
  <2>1. SUFFICES ASSUME q + 1 <= p + 1 PROVE FALSE
    BY <1>2
  <2>2. Day * (q + 1) <= Day * (p + 1) /\ Day * (q + 1) = Day * q + Day
    BY <1>1, <1>2, <2>1
  <2> QED BY <1>1, <1>2, <1>3, <2>2
<1>5. ~(p + 1 < q)
  <2>1. SUFFICES ASSUME p + 2 <= q PROVE FALSE
    BY <1>2
  <2>2. Day * (p + 2) <= Day * q /\ Day * (p + 2) = Day * (p + 1) + Day
    BY <1>1, <1>2, <2>1
  <2> QED BY <1>1, <1>2, <1>3, <2>2
<1>6. q = p + 1
  BY <1>2, <1>4, <1>5
<1> QED BY <1>1, <1>2, <1>3, <1>6 DEF g, h

LEMMA NextDay ==
  ASSUME OncePerDay, NEW a \in App, NEW d \in Nat, Due(a, d)
  PROVE  NextDue(a, d) = d + Day
<1>1. PICK h \in 0..Day - 1 : Calendar[a] = {h}
  BY DEF OncePerDay
<1>2. Day \in Nat /\ Day > 0
  BY SystemAssumption
<1>3. Due(a, d + Day)
  BY <1>1, DayLater DEF Due
<1>4. \A u \in d + 1..d + Day - 1 : ~Due(a, u)
  <2>1. SUFFICES ASSUME NEW u \in d + 1..d + Day - 1, Due(a, u) PROVE FALSE
    OBVIOUS
  <2>2. u \in Nat /\ d < u /\ u < d + Day
    BY <1>2
  <2>3. d % Day = u % Day
    BY <1>1, <2>1 DEF Due
  <2> QED BY <1>2, <2>2, <2>3, DayApart
<1>5. ASSUME NEW t \in d + 1..d + Day, Due(a, t) PROVE t = d + Day
  BY <1>2, <1>4, <1>5
<1> DEFINE Soon(t) == Due(a, t) /\ \A u \in d + 1..t - 1 : ~Due(a, u)
<1>6. d + Day \in d + 1..d + Day /\ Soon(d + Day)
  BY <1>2, <1>3, <1>4
<1>7. \A t \in d + 1..d + Day : Soon(t) => t = d + Day
  BY <1>5
<1>8. NextDue(a, d) = CHOOSE t \in d + 1..d + Day : Soon(t)
  BY DEF NextDue
<1> HIDE DEF Soon
<1> QED BY <1>6, <1>7, <1>8

\* Runs start when the timer comes up and at the hour of the calendar, ...
Start(a, t) == t = 0 \/ Due(a, t)

OnTime ==
  /\ \A a \in App : job[a] # None => Start(a, job[a])
  /\ \A r \in table : Start(r.app, r.started) /\ r.started <= clock

\* ... a completed pass is never a day old, ...
Prompt ==
  /\ up /\ clock - heard < Day
  /\ looked = clock => clock + 1 - heard < Day

\* ... the state file holds no alarm that was never told, ...
FileTold == \A a \in App : file[a] \in Alarming => file[a] \in told[a]

\* ... and the first pass completed after a run was due settles it.
Known(a, d) ==
  \/ \E r \in RunsOf(table, a) : r.started \in d..d + Day - 1
  \/ "OVERDUE" \in told[a]

AllKnown == \A a \in App : \A d \in Time : Due(a, d) /\ Day <= d /\ d < heard => Known(a, d)

Watched == OnTime /\ Prompt /\ FileTold /\ AllKnown

LEMMA WatchedInit == OncePerDay /\ Init => Watched
<1> SUFFICES ASSUME OncePerDay, Init PROVE Watched OBVIOUS
<1>1. OnTime
  BY DEF Init, OnTime, Start
<1>2. Prompt
  BY SystemAssumption DEF Init, Prompt, OncePerDay
<1>3. FileTold
  BY NoneIsNoAlarm DEF Init, FileTold
<1>4. AllKnown
  BY Facts DEF Init, AllKnown
<1> QED BY <1>1, <1>2, <1>3, <1>4 DEF Watched

\* Where no run has started since it was due, the latest success is a day older
\* than that, and the next pass sees OVERDUE.
LEMMA MissedIsSeen ==
  ASSUME OncePerDay, TypeOK, OnTime, NEW a \in App, NEW d \in Nat,
         Due(a, d), Day <= d, d < clock,
         \A r \in RunsOf(table, a) : ~(r.started >= d),
         NEW s \in TrueStatus(table, a, clock)
  PROVE  s = "OVERDUE"
<1>1. Interval[a] = Day /\ Day \in Nat /\ d - Day \in Nat /\ Day > 0 /\ clock \in Nat
  BY SystemAssumption, Facts DEF OncePerDay, TypeOK
<1>2. ASSUME NEW r \in RunsOf(table, a) PROVE r.started \in Nat /\ r.started + Day <= d
  <2>1. r \in table /\ r \in Run /\ r.app = a /\ ~(r.started >= d)
    BY <1>2 DEF RunsOf, TypeOK
  <2>2. r.started \in Nat /\ r.started < d
    <3>1. r.started \in Nat
      BY <2>1, Facts DEF Run
    <3> QED BY <2>1, <3>1
  <2>3. CASE r.started = 0
    BY <1>1, <2>3
  <2>4. CASE Due(a, r.started)
    <3>1. r.started % Day = d % Day
      BY <2>4 DEF Due, OncePerDay
    <3> QED BY <2>2, <3>1, DayApart
  <2> QED BY <2>1, <2>2, <2>3, <2>4 DEF OnTime, Start
<1>3. CASE d - Day + Interval[a] < clock /\ \A r \in RunsOf(table, a) : ~(r.started >= d - Day + 1)
  <2>1. PICK success \in LatestSuccess(table, a), latest \in LatestRun(table, a) :
          s = StatusFrom(a, success, latest, clock)
    BY DEF TrueStatus
  <2>2. IsOverdue(a, success, clock)
    <3>1. CASE success = None
      BY <1>1, <3>1, Facts DEF IsOverdue
    <3>2. CASE success # None
      <4>1. success \in RunsOf(table, a)
        BY <2>1, <3>2 DEF LatestSuccess, First, Newest, SuccessesOf, RunsOf
      <4> QED BY <1>1, <1>2, <3>2, <4>1 DEF IsOverdue
    <3> QED BY <3>1, <3>2
  <2> QED BY <2>1, <2>2 DEF StatusFrom
<1> QED BY <1>1, <1>2, <1>3

LEMMA WatchedStep ==
  ASSUME OncePerDay, TypeOK, TypeOK', Watched, [Next]_vars
  PROVE  Watched'
<1> USE DEF Watched
<1>0. Day \in Nat /\ Day > 1 /\ MaxDeaf \in Nat /\ MaxDeaf < Day /\ MaxOutage = 0
  BY SystemAssumption DEF OncePerDay
<1>1. clock \in Nat /\ looked \in Nat /\ heard \in Nat /\ heard <= clock /\ looked <= clock
  BY Facts DEF TypeOK
\* Most steps leave the watcher alone, and rows only come to be.
<1>2. ASSUME UNCHANGED <<up, clock, looked, heard, file, told>>, OnTime', table \subseteq table' PROVE Watched'
  <2>1. Prompt' /\ FileTold'
    BY <1>2 DEF Prompt, FileTold
  <2>2. AllKnown'
    BY <1>2 DEF AllKnown, Known, RunsOf, Due
  <2> QED BY <1>2, <2>1, <2>2
<1>3. ASSUME UNCHANGED <<clock, table>>, \A a \in App : job'[a] \in {job[a], None} PROVE OnTime'
  BY <1>3 DEF OnTime, Start, Due
<1>4. ASSUME NEW a \in App, Elapse(a) PROVE Watched'
  <2>1. UNCHANGED <<up, clock, table, looked, heard, file, told>>
    BY <1>4 DEF Elapse, api, watcher
  <2>2. \A b \in App : job'[b] = job[b] \/ (b = a /\ job'[b] = clock /\ Due(b, clock))
    BY <1>4 DEF Elapse, TypeOK
  <2>3. OnTime'
    BY <2>1, <2>2 DEF OnTime, Start, Due
  <2> QED BY <1>2, <2>1, <2>3
<1>5. ASSUME NEW a \in App, Report(a) PROVE Watched'
  <2>1. /\ UNCHANGED <<up, clock, looked, heard, file, told>> /\ table \subseteq table'
        /\ job[a] # None
    BY <1>5 DEF Report
  <2>2. \A r \in table' : r \in table \/ (r.app = a /\ r.started = job[a])
    BY <1>5 DEF Report
  <2>3. \A b \in App : job'[b] \in {job[b], None}
    BY <1>5 DEF Report, TypeOK
  <2>4. Start(a, job[a]) /\ job[a] <= clock
    BY <2>1 DEF OnTime, TypeOK
  <2>5. OnTime'
    BY <2>1, <2>2, <2>3, <2>4 DEF OnTime, Start, Due
  <2> QED BY <1>2, <2>1, <2>5
<1>6. ASSUME NEW a \in App, Vanish(a) \/ Stop(a) PROVE Watched'
  <2>1. /\ UNCHANGED <<up, clock, table, looked, heard, file, told>>
        /\ \A b \in App : job'[b] \in {job[b], None}
    BY <1>6 DEF Vanish, Stop, api, watcher, TypeOK
  <2> QED BY <1>2, <1>3, <2>1
<1>7. ASSUME PowerLoss \/ Boot PROVE FALSE
  BY <1>0, <1>7 DEF PowerLoss, Boot, Prompt, TypeOK
<1>8. ASSUME PassLost PROVE Watched'
  <2>1. UNCHANGED <<up, clock, job, table, heard, file, told>> /\ clock - heard < MaxDeaf
    BY <1>8 DEF PassLost, host, api
  <2>2. Prompt'
    BY <1>0, <1>1, <2>1 DEF Prompt
  <2> QED BY <2>1, <2>2 DEF OnTime, Start, FileTold, AllKnown, Known, RunsOf, Due
<1>9. ASSUME Tick PROVE Watched'
  <2>1. UNCHANGED <<up, job, table, looked, heard, file, told>> /\ clock' = clock + 1 /\ looked = clock
    BY <1>9 DEF Tick, host, api, watcher
  <2>2. Prompt'
    BY <1>0, <1>1, <2>1 DEF Prompt
  <2>3. OnTime'
    <3>1. ASSUME NEW r \in table PROVE r.started \in Nat
      BY <3>1, Facts DEF TypeOK, Run
    <3> QED BY <1>1, <2>1, <3>1 DEF OnTime, Start, Due
  <2> QED BY <2>1, <2>2, <2>3 DEF FileTold, AllKnown, Known, RunsOf, Due
<1>10. ASSUME Pass PROVE Watched'
  <2>1. UNCHANGED <<up, clock, job, table>> /\ heard' = clock /\ looked' = clock
    BY <1>10 DEF Pass, host, api
  <2>2. PICK statusOf \in [App -> Status] :
          /\ \A a \in App : statusOf[a] \in TrueStatus(table, a, clock)
          /\ file' = statusOf
          /\ told' = [a \in App |-> told[a] \cup Alert(a, statusOf[a])]
    BY <1>10 DEF Pass
  <2>3. Prompt'
    BY <1>0, <1>1, <2>1 DEF Prompt
  <2>4. OnTime'
    BY <2>1 DEF OnTime, Start, Due
  <2>5. ASSUME NEW a \in App, statusOf[a] \in Alarming PROVE statusOf[a] \in told'[a]
    <3>1. CASE file[a] = statusOf[a]
      BY <2>2, <2>5, <3>1 DEF FileTold
    <3>2. CASE file[a] # statusOf[a]
      BY <2>2, <2>5, <3>2 DEF Rings, Alert
    <3> QED BY <3>1, <3>2
  <2>6. FileTold'
    BY <2>2, <2>5 DEF FileTold
  <2>7. ASSUME NEW a \in App, NEW d \in Time, Due(a, d), Day <= d, d < clock PROVE Known(a, d)'
    <3>1. d \in Nat
      BY Facts
    \* A run that was due before an earlier pass is settled already.
    <3>2. CASE d < heard
      <4>1. Known(a, d)
        BY <2>7, <3>2 DEF AllKnown
      <4> QED BY <2>1, <2>2, <4>1 DEF Known, RunsOf
    \* Of the others none is a day ago, so that what has started since is it.
    <3>3. CASE heard <= d /\ \E r \in RunsOf(table, a) : r.started >= d
      <4>1. PICK r \in RunsOf(table, a) : r.started >= d
        BY <3>3
      <4>2. r \in table /\ r \in Run /\ r.started <= clock
        BY <4>1 DEF RunsOf, OnTime, TypeOK
      <4>3. r.started \in Nat /\ clock < d + Day
        BY <1>0, <1>1, <3>1, <3>3, <4>2, Facts DEF Prompt, Run
      <4>4. r.started \in d..d + Day - 1
        BY <1>0, <1>1, <3>1, <4>1, <4>2, <4>3
      <4> QED BY <2>1, <4>1, <4>4 DEF Known, RunsOf
    <3>4. CASE ~\E r \in RunsOf(table, a) : r.started >= d
      <4>1. statusOf[a] = "OVERDUE"
        BY <2>2, <2>7, <3>1, <3>4, MissedIsSeen
      <4> QED BY <2>5, <4>1 DEF Known, Alarming
    <3> QED BY <1>1, <3>1, <3>2, <3>3, <3>4
  <2>8. AllKnown'
    BY <2>1, <2>7 DEF AllKnown, Due
  <2> QED BY <2>3, <2>4, <2>6, <2>8
<1>11. ASSUME UNCHANGED vars PROVE Watched'
  <2>1. UNCHANGED <<up, clock, job, table, looked, heard, file, told>>
    BY <1>11 DEF vars, host, api, watcher
  <2> QED BY <1>2, <1>3, <2>1
<1> QED BY <1>4, <1>5, <1>6, <1>7, <1>8, <1>9, <1>10, <1>11 DEF Next

(***************************************************************************)
(* Where the calendar has one hour, the interval is a day, the host stays  *)
(* up and the watcher is never deaf for a day, no scheduled backup from    *)
(* the second day on is silent: each has a row of its own time or an       *)
(* OVERDUE alert, as PRD section 20 demands.                               *)
(***************************************************************************)
THEOREM OncePerDayIsNeverSilent ==
  ASSUME OncePerDay
  PROVE  Spec => [](\A a \in App : \A d \in Time \ 0..Day - 1 : NotSilent(a, d))
<1>1. TypeOK /\ Watched /\ [Next]_vars => (TypeOK /\ Watched)'
  BY TypeStep, WatchedStep
<1>2. TypeOK /\ Watched => \A a \in App : \A d \in Time \ 0..Day - 1 : NotSilent(a, d)
  <2> SUFFICES ASSUME TypeOK, Watched, NEW a \in App, NEW d \in Time \ 0..Day - 1
               PROVE  NotSilent(a, d)
    OBVIOUS
  <2>1. SUFFICES ASSUME Due(a, d), NextDue(a, d) + Interval[a] < heard
                 PROVE  NotSilent(a, d)
    BY DEF NotSilent
  <2>2. /\ d \in Nat /\ Day \in Nat /\ Day <= d /\ heard \in Nat
        /\ Interval[a] = Day /\ Due(a, d) /\ NextDue(a, d) + Interval[a] < heard
    <3>1. d \in Nat /\ d \notin 0..Day - 1 /\ Day \in Nat
      BY Facts, SystemAssumption
    <3>2. heard \in Nat
      BY Facts DEF TypeOK
    <3> QED BY <2>1, <3>1, <3>2 DEF OncePerDay
  <2>3. NextDue(a, d) = d + Day
    BY <2>1, <2>2, NextDay
  <2>4. d < heard
    BY <2>1, <2>2, <2>3
  <2>5. Known(a, d)
    BY <2>1, <2>2, <2>4 DEF Watched, AllKnown
  <2>6. d..NextDue(a, d) - 1 = d..d + Day - 1
    BY <2>2, <2>3
  <2> QED BY <2>5, <2>6 DEF Known, NotSilent
<1> QED BY TypeInit, WatchedInit, <1>1, <1>2, PTL DEF Spec
=============================================================================
