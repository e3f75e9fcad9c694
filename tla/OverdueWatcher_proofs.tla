------------------------ MODULE OverdueWatcher_proofs ------------------------
(***************************************************************************)
(* What is proved of the watcher for every set of applications, any number *)
(* of status changes and every pattern of faults: the types; that the      *)
(* state file never silences a status which no pass has tried to tell; and *)
(* that nobody is alerted of one incident more often than once, and once   *)
(* more for each pass that was cut short.  Two theorems say what each of   *)
(* the last two comes to where its fault is absent, and two more are the   *)
(* safety half of BadNewsArrives: what a completed pass has told, and that *)
(* a pass has an end.                                                      *)
(***************************************************************************)
EXTENDS OverdueWatcher, FiniteSetTheorems, TLAPS

LEMMA TypeInit == Init => TypeOK
  BY WatcherAssumption DEF Init, TypeOK, Nothing, Status, WatcherAssumption

\* An alert, taken or refused, keeps the records of it well formed.
LEMMA ToldType ==
  ASSUME TypeOK, NEW a \in App, seen[a] \in Alertable, Arrives(a) \/ Refused(a)
  PROVE  /\ sent' \in [App -> [0..MaxChange -> Nat]]
         /\ raised' \in [App -> SUBSET Alertable]
         /\ refused' \in [App -> SUBSET Alertable]
<1>1. during[a] \in 0..MaxChange /\ sent[a] \in [0..MaxChange -> Nat]
  BY DEF TypeOK
<1>2. CASE Arrives(a)
  <2>0. sent[a][during[a]] \in Nat
    BY <1>1
  <2>1. [sent[a] EXCEPT ![during[a]] = @ + 1] \in [0..MaxChange -> Nat]
    BY <1>1, <2>0
  <2>2. sent' = [sent EXCEPT ![a] = [sent[a] EXCEPT ![during[a]] = @ + 1]]
    BY <1>2 DEF Arrives, TypeOK
  <2> QED BY <1>2, <2>1, <2>2 DEF Arrives, TypeOK
<1>3. CASE Refused(a)
  BY <1>3 DEF Refused, TypeOK
<1> QED BY <1>2, <1>3

LEMMA TypeStep == TypeOK /\ [Next]_vars => TypeOK'
<1> SUFFICES ASSUME TypeOK, [Next]_vars PROVE TypeOK' OBVIOUS
<1> USE WatcherAssumption DEF WatcherAssumption
<1>1. ASSUME NEW a \in App, Change(a) PROVE TypeOK'
  <2>1. spell[a] + 1 \in 0..MaxChange
    BY <1>1 DEF Change, TypeOK
  <2>2. PICK s \in Status : truth' = [truth EXCEPT ![a] = s]
    BY <1>1 DEF Change
  <2> QED BY <1>1, <2>1, <2>2 DEF TypeOK, Change, pass, told
<1>2. ASSUME Start PROVE TypeOK'
  BY <1>2 DEF TypeOK, Start, Nothing, world, pass, told
<1>3. ASSUME NEW a \in App, Read(a) PROVE TypeOK'
  <2>1. truth[a] \in Status /\ spell[a] \in 0..MaxChange
    BY DEF TypeOK
  <2>2. ASSUME pc' # "read" PROVE \A b \in App : seen'[b] # None
    BY <1>3, <2>1, <2>2 DEF Read, TypeOK
  <2> QED BY <1>3, <2>1, <2>2 DEF TypeOK, Read, world, pass, told
<1>4. ASSUME NEW a \in App, Pass(a) PROVE TypeOK'
  BY <1>4 DEF TypeOK, Pass, Treat, world, pass, told
<1>5. ASSUME NEW a \in App, Alert(a) PROVE TypeOK'
  <2>1. seen[a] \in Alertable
    BY <1>5 DEF Alert, Incident
  <2>2. /\ sent' \in [App -> [0..MaxChange -> Nat]]
        /\ raised' \in [App -> SUBSET Alertable] /\ refused' \in [App -> SUBSET Alertable]
    BY <1>5, <2>1, ToldType DEF Alert
  <2> QED BY <1>5, <2>2 DEF TypeOK, Alert, Treat, Incident, world, pass, told
<1>6. ASSUME NEW a \in App, WebhookFails(a) PROVE TypeOK'
  <2>1. seen[a] \in Alertable
    BY <1>6 DEF WebhookFails, Incident
  <2>2. /\ sent' \in [App -> [0..MaxChange -> Nat]]
        /\ raised' \in [App -> SUBSET Alertable] /\ refused' \in [App -> SUBSET Alertable]
    BY <1>6, <2>1, ToldType DEF WebhookFails
  <2>3. /\ UNCHANGED <<truth, spell, file, prev, seen, during, cuts>>
        /\ pc = "alert" /\ left' = left \ {a} /\ pc' = IF left' = {} THEN "save" ELSE "alert"
    BY <1>6 DEF WebhookFails, Treat, world
  <2>4. faults' \in 0..MaxFaults
    BY <1>6 DEF WebhookFails, Fault, TypeOK
  <2> QED BY <2>2, <2>3, <2>4 DEF TypeOK
<1>7. ASSUME Truncate PROVE TypeOK'
  BY <1>7 DEF TypeOK, Truncate, Nothing, world, pass, told
<1>8. ASSUME Write PROVE TypeOK'
  BY <1>8 DEF TypeOK, Write, Settle, world, pass, Status
<1>9. ASSUME QueryFails PROVE TypeOK'
  BY <1>9 DEF TypeOK, QueryFails, CutShort, Fault, world, pass, told
<1>10. ASSUME SaveFails PROVE TypeOK'
  BY <1>10 DEF TypeOK, SaveFails, CutShort, Fault, world, pass, told
<1>11. ASSUME Killed PROVE TypeOK'
  BY <1>11 DEF TypeOK, Killed, CutShort, Fault, world, pass, told
<1>12. ASSUME Recreated PROVE TypeOK'
  BY <1>12 DEF TypeOK, Recreated, CutShort, Fault, Nothing, world, pass, told
<1>13. ASSUME UNCHANGED vars PROVE TypeOK'
  BY <1>13 DEF TypeOK, vars, world, pass, told
<1> QED BY <1>1, <1>2, <1>3, <1>4, <1>5, <1>6, <1>7, <1>8, <1>9, <1>10, <1>11, <1>12, <1>13 DEF Next, Work

(***************************************************************************)
(* Every reachable state is well typed.                                    *)
(***************************************************************************)
THEOREM WatcherTypeCorrect == Spec => []TypeOK
  BY TypeInit, TypeStep, PTL DEF Spec

-----------------------------------------------------------------------------
(***************************************************************************)
(* SilenceIsTried needs to know why the alerts a pass leaves out were     *)
(* left out: what it loaded had been told, or the webhook had refused it,  *)
(* and so has by now every bad status it has dealt with.                   *)
(***************************************************************************)
Bad(a, status) == status[a] \in Alertable => status[a] \in raised[a] \cup refused[a]

Tried ==
  /\ pc = "read" => left = App
  /\ \A a \in App :
    /\ Bad(a, file)
    /\ pc # "idle" => Bad(a, prev)
    /\ pc \in {"alert", "save", "write"} /\ a \notin left => Bad(a, seen)

LEMMA TriedInit == Init => Tried
  BY WatcherAssumption DEF Init, Tried, Bad, Nothing, Status, Alertable, WatcherAssumption

LEMMA TriedStep ==
  ASSUME TypeOK, TypeOK', Tried, [Next]_vars
  PROVE  Tried'
<1> USE DEF Tried, Bad
<1>0. None \notin Alertable
  BY WatcherAssumption DEF WatcherAssumption, Status
<1>1. ASSUME NEW a \in App, Change(a) PROVE Tried'
  BY <1>1 DEF Change, world, pass, told
<1>2. ASSUME Start PROVE Tried'
  BY <1>2, <1>0 DEF Start, Nothing, world, pass, told
<1>3. ASSUME NEW a \in App, Read(a) PROVE Tried'
  <2>1. left' = App /\ pc = "read" /\ pc' # "idle" /\ UNCHANGED <<file, prev, raised, refused>>
    BY <1>3 DEF Read, told
  <2> QED BY <2>1
<1>4. ASSUME NEW a \in App, Pass(a) PROVE Tried'
  <2>1. seen[a] \in Alertable => seen[a] = prev[a]
    BY <1>4 DEF Pass, Incident
  <2>2. /\ file' = file /\ prev' = prev /\ seen' = seen /\ UNCHANGED <<raised, refused>>
        /\ left' = left \ {a} /\ pc = "alert" /\ pc' # "read"
    BY <1>4 DEF Pass, Treat, told
  <2>3. \A b \in App : /\ Bad(b, file) /\ Bad(b, prev)
                        /\ (b \notin left => Bad(b, seen))
    BY <2>2
  <2>4. Bad(a, seen)
    BY <2>1, <2>3
  <2>5. \A b \in App : b \notin left' => Bad(b, seen)
    BY <2>2, <2>3, <2>4
  <2> QED BY <2>2, <2>3, <2>5
<1>5. ASSUME NEW a \in App, Treat(a), Arrives(a) \/ Refused(a) PROVE Tried'
  <2>1. /\ seen[a] \in raised'[a] \cup refused'[a]
        /\ \A b \in App : raised[b] \subseteq raised'[b] /\ refused[b] \subseteq refused'[b]
    <3>1. CASE Arrives(a)
      BY <3>1 DEF Arrives, TypeOK
    <3>2. CASE Refused(a)
      BY <3>2 DEF Refused, TypeOK
    <3> QED BY <1>5, <3>1, <3>2
  <2>2. /\ file' = file /\ prev' = prev /\ seen' = seen
        /\ left' = left \ {a} /\ pc = "alert" /\ pc' # "read"
    BY <1>5 DEF Treat
  <2>3. \A b \in App : /\ Bad(b, file) /\ Bad(b, prev)
                       /\ (b \notin left => Bad(b, seen))
    BY <2>2
  <2> QED BY <2>1, <2>2, <2>3
<1>6. ASSUME NEW a \in App, Alert(a) \/ WebhookFails(a) PROVE Tried'
  BY <1>5, <1>6 DEF Alert, WebhookFails
<1>7. ASSUME Truncate PROVE Tried'
  BY <1>7, <1>0 DEF Truncate, Nothing, world, pass, told
<1>8. ASSUME Write PROVE Tried'
  <2>1. \A b \in App : /\ raised'[b] = raised[b] \cap {seen[b]}
                       /\ refused'[b] = refused[b] \cap {seen[b]}
    BY <1>8 DEF Write, Settle
  <2>2. left = {} /\ pc = "write" /\ pc' = "idle" /\ file' = seen
    BY <1>8 DEF Write, TypeOK
  <2> QED BY <2>1, <2>2
<1>9. ASSUME QueryFails PROVE Tried'
  BY <1>9 DEF QueryFails, CutShort, Fault, world, pass, told
<1>10. ASSUME SaveFails PROVE Tried'
  BY <1>10 DEF SaveFails, CutShort, Fault, world, pass, told
<1>11. ASSUME Killed PROVE Tried'
  BY <1>11 DEF Killed, CutShort, Fault, world, pass, told
<1>12. ASSUME Recreated PROVE Tried'
  BY <1>12, <1>0 DEF Recreated, CutShort, Fault, Nothing, world, pass, told
<1>13. ASSUME UNCHANGED vars PROVE Tried'
  BY <1>13 DEF vars, pass, told
<1> QED BY <1>1, <1>2, <1>3, <1>4, <1>6, <1>7, <1>8, <1>9, <1>10, <1>11, <1>12, <1>13 DEF Next, Work

(***************************************************************************)
(* A status for which the next pass would stay silent is one that some     *)
(* pass has told, or tried to tell a webhook that did not listen, through  *)
(* crashes, failed queries, torn and lost state files.                     *)
(***************************************************************************)
THEOREM SilenceTried == Spec => []SilenceIsTried
<1>1. TypeOK /\ Tried /\ [Next]_vars => (TypeOK /\ Tried)'
  BY TypeStep, TriedStep
<1>2. Tried => SilenceIsTried
  BY DEF Tried, Bad, SilenceIsTried
<1> QED BY TypeInit, TriedInit, <1>1, <1>2, PTL DEF Spec

NoneRefused == \A a \in App : refused[a] = {}

\* SilenceIsEarned fails for one reason only, an alert that the webhook did not
\* take: where it takes every alert, no pattern of crashes, failed queries and
\* torn or lost files silences a status nobody was told of.
THEOREM TakenAlertsEarnSilence ==
  ASSUME "webhook" \notin Faults
  PROVE  Spec => []SilenceIsEarned
<1>1. Init => NoneRefused
  BY DEF Init, NoneRefused
<1>2. NoneRefused /\ [Next]_vars => NoneRefused'
  <2> SUFFICES ASSUME NoneRefused, [Next]_vars PROVE NoneRefused'
    OBVIOUS
  <2>1. ASSUME NEW a \in App PROVE ~WebhookFails(a)
    BY DEF WebhookFails, Fault
  <2>2. CASE Write
    BY <2>2 DEF Write, Settle, NoneRefused
  <2>3. CASE refused' = refused
    BY <2>3 DEF NoneRefused
  <2> QED
    BY <2>1, <2>2, <2>3
    DEF Next, Work, vars, told, Change, Start, Read, Pass, Alert, Arrives, Truncate, QueryFails,
        SaveFails, Killed, Recreated
<1>3. NoneRefused /\ SilenceIsTried => SilenceIsEarned
  BY DEF NoneRefused, SilenceIsTried, SilenceIsEarned
<1> QED BY <1>1, <1>2, <1>3, SilenceTried, PTL DEF Spec

-----------------------------------------------------------------------------
(***************************************************************************)
(* OncePerIncident needs the link between the spell that was read last and *)
(* what is remembered of it: while that spell lasts, the remembered status *)
(* is the true one, so that an alert already sent silences the next pass.  *)
(* A pass that is cut short loses that link, and allows one more.          *)
(***************************************************************************)
Fresh(a) == (pc = "read" /\ seen[a] # None) \/ (pc = "alert" /\ a \in left)

Later(a) == during[a] <= spell[a] /\ \A i \in 0..MaxChange : i > during[a] => sent[a][i] = 0

Ongoing(a) == during[a] = spell[a]
\* An alert of this spell went out, and no cut since allows another.
Told(a) == sent[a][during[a]] > 0 /\ ~(sent[a][during[a]] <= cuts)

Remembered(a) ==
  /\ Told(a) /\ Ongoing(a) /\ pc = "idle" => file[a] = truth[a]
  /\ Told(a) /\ Ongoing(a) /\ pc = "read" /\ seen[a] = None => prev[a] = truth[a]
  /\ Told(a) /\ Fresh(a) => prev[a] = seen[a]
  /\ Ongoing(a) /\ (Fresh(a) \/ pc \in {"alert", "save", "write"}) => seen[a] = truth[a]

Once == OncePerIncident /\ \A a \in App : Later(a) /\ Remembered(a)

LEMMA OnceInit == Init => Once
<1> SUFFICES ASSUME Init PROVE Once OBVIOUS
<1>1. \A a \in App : during[a] = 0 /\ spell[a] = 0 /\ \A i \in 0..MaxChange : sent[a][i] = 0
  BY DEF Init
<1>2. 0 \in 0..MaxChange /\ pc = "idle" /\ cuts = 0
  BY WatcherAssumption DEF WatcherAssumption, Init
<1> QED BY <1>1, <1>2 DEF Once, OncePerIncident, Later, Remembered, Told, Fresh

\* An incident that is alerted was not told before, or a cut allows it again.
LEMMA AlertOnce ==
  ASSUME TypeOK, TypeOK', Once, NEW a \in App,
         pc = "alert", a \in left, left' = left \ {a}, pc' \in {"alert", "save"},
         Incident(a), Arrives(a), UNCHANGED <<world, file, prev, seen, during, cuts>>
  PROVE  Once'
<1>1. sent[a][during[a]] <= cuts
  <2>1. ~Told(a)
    BY DEF Once, Remembered, Fresh, Incident
  <2>2. during[a] \in 0..MaxChange /\ sent[a] \in [0..MaxChange -> Nat] /\ cuts \in Nat
    BY DEF TypeOK
  <2>3. sent[a][during[a]] \in Nat
    BY <2>2
  <2> QED BY <2>1, <2>2, <2>3 DEF Told
<1>2. /\ sent'[a] = [sent[a] EXCEPT ![during[a]] = @ + 1]
      /\ \A b \in App \ {a} : sent'[b] = sent[b]
  BY DEF Arrives, TypeOK
<1>3. /\ during[a] \in 0..MaxChange /\ sent[a] \in [0..MaxChange -> Nat]
      /\ cuts \in Nat /\ cuts' = cuts
  BY DEF TypeOK
<1>4. \A i \in 0..MaxChange :
        sent'[a][i] = IF i = during[a] THEN sent[a][i] + 1 ELSE sent[a][i]
  BY <1>2, <1>3
<1>5. UNCHANGED <<truth, spell, file, prev, seen, during>>
  BY DEF world
<1>6. OncePerIncident'
  <2>1. ASSUME NEW b \in App, NEW i \in 0..MaxChange PROVE sent'[b][i] <= 1 + cuts'
    <3>1. sent[b][i] <= 1 + cuts
      BY DEF Once, OncePerIncident
    <3>2. CASE b = a
      <4>1. sent[a][i] \in Nat
        BY <1>3
      <4>2. CASE i = during[a]
        BY <4>1, <4>2, <3>2, <1>1, <1>3, <1>4
      <4>3. CASE i # during[a]
        BY <4>3, <3>1, <3>2, <1>3, <1>4
      <4> QED BY <4>2, <4>3
    <3>3. CASE b # a
      BY <3>1, <3>3, <1>2, <1>3
    <3> QED BY <3>2, <3>3
  <2> QED BY <2>1 DEF OncePerIncident
<1>7. ASSUME NEW b \in App PROVE Later(b)' /\ Remembered(b)'
  <2>1. Later(b)'
    <3>1. CASE b = a
      <4>1. during[a] <= spell[a] /\ \A i \in 0..MaxChange : i > during[a] => sent[a][i] = 0
        BY DEF Once, Later
      <4>2. ASSUME NEW i \in 0..MaxChange, i > during[a] PROVE sent'[a][i] = 0
        <5>1. i # during[a]
          BY <1>3, <4>2
        <5> QED BY <5>1, <4>1, <4>2, <1>4
      <4> QED BY <3>1, <4>1, <4>2, <1>5 DEF Later
    <3>2. CASE b # a
      BY <3>2, <1>2, <1>5 DEF Once, Later
    <3> QED BY <3>1, <3>2
  <2>2. Remembered(b)'
    <3>1. CASE b = a
      BY <3>1, <1>5 DEF Once, Remembered, Fresh, Ongoing
    <3>2. CASE b # a
      BY <3>2, <1>2, <1>3, <1>5 DEF Once, Remembered, Fresh, Ongoing, Told
    <3> QED BY <3>1, <3>2
  <2> QED BY <2>1, <2>2
<1> QED BY <1>6, <1>7 DEF Once

\* A step that sends nothing and reads nothing has only the links to keep.
LEMMA QuietOnce ==
  ASSUME Once, UNCHANGED <<sent, during, spell, cuts>>, \A a \in App : Remembered(a)'
  PROVE  Once'
  BY DEF Once, OncePerIncident, Later

LEMMA OnceStep ==
  ASSUME TypeOK, TypeOK', Once, [Next]_vars
  PROVE  Once'
<1>1. ASSUME NEW a \in App, Change(a) PROVE Once'
  <2>1. UNCHANGED <<file, pc, prev, seen, during, left, sent, cuts>>
    BY <1>1 DEF Change, pass, told
  <2>2. spell'[a] = spell[a] + 1 /\ \A b \in App \ {a} : spell'[b] = spell[b] /\ truth'[b] = truth[b]
    BY <1>1 DEF Change, TypeOK
  <2>3. ASSUME NEW b \in App PROVE Later(b)' /\ Remembered(b)'
    <3>1. spell[b] \in Nat /\ during[b] \in Nat /\ during[b] <= spell[b] /\ Later(b) /\ Remembered(b)
      BY DEF Once, TypeOK, Later
    <3>2. CASE b = a
      <4>1. Later(b)' /\ during'[b] # spell'[b]
        BY <3>1, <3>2, <2>1, <2>2 DEF Later
      <4> QED BY <4>1, <3>1, <2>1 DEF Remembered, Ongoing, Told, Fresh
    <3>3. CASE b # a
      BY <3>3, <3>1, <2>1, <2>2 DEF Later, Remembered, Ongoing, Told, Fresh
    <3> QED BY <3>2, <3>3
  <2>4. OncePerIncident'
    BY <2>1 DEF Once, OncePerIncident
  <2> QED BY <2>3, <2>4 DEF Once
<1>2. ASSUME Start PROVE Once'
  <2>1. UNCHANGED <<truth, spell, during, sent, cuts>> /\ pc = "idle" /\ pc' = "read" /\ prev' = file
    BY <1>2 DEF Start, world, told
  <2>2. \A a \in App : seen'[a] = None
    BY <1>2 DEF Start, Nothing
  <2>3. ASSUME NEW a \in App PROVE Remembered(a)'
    BY <2>1, <2>2 DEF Once, Remembered, Fresh, Ongoing, Told
  <2> QED BY <2>1, <2>3, QuietOnce
<1>3. ASSUME NEW a \in App, Read(a) PROVE Once'
  <2>1. UNCHANGED <<truth, spell, prev, left, sent, cuts>> /\ pc = "read" /\ seen[a] = None /\ pc' \in {"read", "alert"}
    BY <1>3 DEF Read, world, told
  <2>2. /\ seen'[a] = truth[a] /\ during'[a] = spell[a]
        /\ \A b \in App \ {a} : seen'[b] = seen[b] /\ during'[b] = during[b]
    BY <1>3 DEF Read, TypeOK
  <2>3. ASSUME NEW b \in App PROVE Later(b)' /\ Remembered(b)'
    <3>1. spell[b] \in 0..MaxChange /\ during[b] \in 0..MaxChange /\ Later(b) /\ Remembered(b)
      BY DEF Once, TypeOK
    <3>2. CASE b = a
      <4>1. Later(b)'
        BY <3>1, <3>2, <2>1, <2>2, WatcherAssumption DEF Later, WatcherAssumption
      <4>2. sent[b][spell[b]] > 0 => during[b] = spell[b]
        BY <3>1, WatcherAssumption DEF Later, WatcherAssumption
      <4>3. sent[b][spell[b]] > 0 /\ ~(sent[b][spell[b]] <= cuts) => prev[b] = truth[b]
        BY <4>2, <3>1, <3>2, <2>1 DEF Remembered, Told, Ongoing
      <4>4. truth[b] # None
        BY WatcherAssumption DEF WatcherAssumption, TypeOK
      <4> QED BY <4>1, <4>3, <4>4, <3>2, <2>1, <2>2 DEF Remembered, Told, Ongoing, Fresh
    <3>3. CASE b # a
      <4>1. pc' = "alert" => seen[b] # None
        BY <3>3, <1>3 DEF Read
      <4>2. seen'[b] = seen[b] /\ during'[b] = during[b]
        BY <3>3, <2>2
      <4>3. Later(b)'
        BY <3>1, <4>2, <2>1 DEF Later
      <4>4. Remembered(b)'
        <5>1. /\ truth'[b] = truth[b] /\ spell'[b] = spell[b] /\ prev'[b] = prev[b]
              /\ sent'[b] = sent[b]
          BY <2>1
        <5>2. (Told(b)' <=> Told(b)) /\ (Ongoing(b)' <=> Ongoing(b)) /\ (Fresh(b)' => Fresh(b))
          BY <5>1, <4>1, <4>2, <2>1 DEF Told, Ongoing, Fresh
        <5>3. pc' = "alert" => Fresh(b)
          BY <4>1, <2>1 DEF Fresh
        <5> QED BY <5>1, <5>2, <5>3, <4>2, <3>1, <2>1 DEF Remembered
      <4> QED BY <4>3, <4>4
    <3> QED BY <3>2, <3>3
  <2>4. OncePerIncident'
    BY <2>1 DEF Once, OncePerIncident
  <2> QED BY <2>3, <2>4 DEF Once
<1>4. ASSUME NEW a \in App, Pass(a) PROVE Once'
  <2>1. /\ UNCHANGED <<truth, spell, file, prev, seen, during, sent, cuts>>
        /\ pc = "alert" /\ pc' \in {"alert", "save"} /\ left' = left \ {a}
    BY <1>4 DEF Pass, Treat, world, told
  <2>2. ASSUME NEW b \in App PROVE Remembered(b)'
    BY <2>1 DEF Once, Remembered, Fresh, Ongoing, Told
  <2> QED BY <2>1, <2>2, QuietOnce
<1>5. ASSUME NEW a \in App, Alert(a) PROVE Once'
  BY <1>5, AlertOnce DEF Alert, Treat
<1>6. ASSUME NEW a \in App, WebhookFails(a) PROVE Once'
  <2>1. CASE Arrives(a)
    BY <1>6, <2>1, AlertOnce DEF WebhookFails, Treat
  <2>2. CASE Refused(a)
    <3>1. /\ UNCHANGED <<truth, spell, file, prev, seen, during, sent, cuts>>
          /\ pc = "alert" /\ pc' \in {"alert", "save"} /\ left' = left \ {a}
      BY <1>6, <2>2 DEF WebhookFails, Refused, Treat, world
    <3>2. ASSUME NEW b \in App PROVE Remembered(b)'
      BY <3>1 DEF Once, Remembered, Fresh, Ongoing, Told
    <3> QED BY <3>1, <3>2, QuietOnce
  <2> QED BY <1>6, <2>1, <2>2 DEF WebhookFails
<1>7. ASSUME Truncate PROVE Once'
  <2>1. UNCHANGED <<truth, spell, prev, seen, during, sent, cuts>> /\ pc = "save" /\ pc' = "write"
    BY <1>7 DEF Truncate, world, pass, told
  <2>2. ASSUME NEW a \in App PROVE Remembered(a)'
    BY <2>1 DEF Once, Remembered, Fresh, Ongoing, Told
  <2> QED BY <2>1, <2>2, QuietOnce
<1>8. ASSUME Write PROVE Once'
  <2>1. UNCHANGED <<truth, spell, seen, during, sent, cuts>> /\ pc = "write" /\ pc' = "idle" /\ file' = seen
    BY <1>8 DEF Write, world, pass, told
  <2>2. ASSUME NEW a \in App PROVE Remembered(a)'
    BY <2>1 DEF Once, Remembered, Fresh, Ongoing, Told
  <2> QED BY <2>1, <2>2, QuietOnce
<1>9. ASSUME QueryFails \/ SaveFails \/ Killed \/ Recreated PROVE Once'
  <2>1. /\ UNCHANGED <<truth, spell, seen, during, sent>>
        /\ pc' = "idle" /\ cuts' = cuts + 1 /\ cuts \in Nat
    <3>1. CASE QueryFails
      BY <3>1 DEF QueryFails, CutShort, world, pass, told, TypeOK
    <3>2. CASE SaveFails
      BY <3>2 DEF SaveFails, CutShort, world, pass, told, TypeOK
    <3>3. CASE Killed
      BY <3>3 DEF Killed, CutShort, world, pass, told, TypeOK
    <3>4. CASE Recreated
      BY <3>4 DEF Recreated, CutShort, world, pass, told, TypeOK
    <3> QED BY <1>9, <3>1, <3>2, <3>3, <3>4
  <2>2. \A b \in App, i \in 0..MaxChange : sent[b][i] \in Nat /\ sent[b][i] <= 1 + cuts
    <3>1. ASSUME NEW b \in App, NEW i \in 0..MaxChange PROVE sent[b][i] \in Nat
      <4>1. sent[b] \in [0..MaxChange -> Nat]
        BY DEF TypeOK
      <4> QED BY <4>1
    <3> QED BY <3>1 DEF Once, OncePerIncident
  <2>3. OncePerIncident'
    BY <2>1, <2>2 DEF OncePerIncident
  <2>4. ASSUME NEW a \in App PROVE Later(a)' /\ Remembered(a)'
    <3>1. ~Told(a)'
      BY <2>1, <2>2 DEF Told, TypeOK
    <3> QED BY <3>1, <2>1 DEF Once, Later, Remembered, Fresh
  <2> QED BY <2>3, <2>4 DEF Once
<1>10. ASSUME UNCHANGED vars PROVE Once'
  <2>1. UNCHANGED <<truth, spell, file, pc, prev, seen, during, left, sent, cuts>>
    BY <1>10 DEF vars, world, pass, told
  <2>2. ASSUME NEW a \in App PROVE Remembered(a)'
    BY <2>1 DEF Once, Remembered, Fresh, Ongoing, Told
  <2> QED BY <2>1, <2>2, QuietOnce
<1> QED BY <1>1, <1>2, <1>3, <1>4, <1>5, <1>6, <1>7, <1>8, <1>9, <1>10 DEF Next, Work

(***************************************************************************)
(* Nobody is alerted of one incident more often than once, and once more   *)
(* for each pass that was cut short: whatever the webhook does, and        *)
(* however the status moves between the read, the alert and the file.      *)
(***************************************************************************)
THEOREM AlertedOnce == Spec => []OncePerIncident
<1>1. TypeOK /\ Once /\ [Next]_vars => (TypeOK /\ Once)'
  BY TypeStep, OnceStep
<1>2. Once => OncePerIncident
  BY DEF Once
<1> QED BY TypeInit, OnceInit, <1>1, <1>2, PTL DEF Spec

(***************************************************************************)
(* "One alert per incident" (overdue_watcher.py) is exact as long as every *)
(* pass gets to its end: nobody is alerted twice of one incident, however  *)
(* the webhook fails and whenever the status changes.                      *)
(***************************************************************************)
THEOREM WholePassesAlertOnce ==
  ASSUME Faults \subseteq {"webhook"}
  PROVE  Spec => [](\A a \in App : \A i \in 0..MaxChange : sent[a][i] <= 1)
<1>1. Init => cuts = 0
  BY DEF Init
<1>2. cuts = 0 /\ [Next]_vars => (cuts = 0)'
  <2> SUFFICES ASSUME cuts = 0, [Next]_vars PROVE cuts' = 0
    OBVIOUS
  <2>1. ~QueryFails /\ ~SaveFails /\ ~Killed /\ ~Recreated
    BY DEF QueryFails, SaveFails, Killed, Recreated, CutShort, Fault
  <2> QED
    BY <2>1 DEF Next, Work, vars, Change, Start, Read, Pass, Alert, WebhookFails, Treat,
                Truncate, Write
<1>3. cuts = 0 /\ OncePerIncident => \A a \in App : \A i \in 0..MaxChange : sent[a][i] <= 1
  BY DEF OncePerIncident
<1> QED BY <1>1, <1>2, <1>3, AlertedOnce, PTL DEF Spec

-----------------------------------------------------------------------------
(***************************************************************************)
(* The safety half of BadNewsArrives: what a pass that gets to its end has *)
(* done, and that it gets there if it goes on.                             *)
(***************************************************************************)
TellsWhatLasts ==
  Write => \A a \in App : truth[a] \in Alertable /\ during[a] = spell[a] =>
                            truth[a] \in raised'[a] \cup refused'[a]

\* A pass that is completed has sent, or tried to send, an alert of every
\* application that is FAILED or OVERDUE since it was read, or found it told
\* already: nothing that faults of earlier passes left behind makes it stay
\* silent on a failure that lasts (scripts/overdue_watcher.py:99-109).
THEOREM CompletedPassesTell == Spec => [][TellsWhatLasts]_vars
<1>1. TypeOK /\ Tried /\ Once /\ [Next]_vars => (TypeOK /\ Tried /\ Once)'
  BY TypeStep, TriedStep, OnceStep
<1>2. TypeOK /\ Tried /\ Once => TellsWhatLasts
  <2> SUFFICES ASSUME TypeOK, Tried, Once, Write, NEW a \in App,
                      truth[a] \in Alertable, during[a] = spell[a]
               PROVE  truth[a] \in raised'[a] \cup refused'[a]
    BY DEF TellsWhatLasts
  <2>1. pc = "write" /\ left = {}
    BY DEF Write, TypeOK
  <2>2. seen[a] = truth[a]
    BY <2>1 DEF Once, Remembered, Ongoing
  <2>3. seen[a] \in raised[a] \cup refused[a]
    BY <2>1, <2>2 DEF Tried, Bad
  <2>4. raised'[a] = raised[a] \cap {seen[a]} /\ refused'[a] = refused[a] \cap {seen[a]}
    BY DEF Write, Settle
  <2> QED BY <2>2, <2>3, <2>4
<1> QED BY TypeInit, TriedInit, OnceInit, <1>1, <1>2, PTL DEF Spec

\* What a pass has before itself: applications to read, applications to treat,
\* and the two steps of the save.
Unread == {a \in App : seen[a] = None}
Rank ==
  IF pc = "idle" THEN 0
  ELSE Cardinality(Unread) + Cardinality(left) + IF pc = "write" THEN 1 ELSE 2

LEMMA RankType ==
  ASSUME TypeOK, IsFiniteSet(App)
  PROVE  /\ IsFiniteSet(Unread) /\ Cardinality(Unread) \in 0..Cardinality(App)
         /\ IsFiniteSet(left) /\ Cardinality(left) \in 0..Cardinality(App)
         /\ Cardinality(App) \in Nat
         /\ Rank \in 0..2 * Cardinality(App) + 2
<1>1. Unread \subseteq App /\ left \subseteq App
  BY DEF Unread, TypeOK
<1>2. /\ IsFiniteSet(Unread) /\ Cardinality(Unread) <= Cardinality(App)
      /\ IsFiniteSet(left) /\ Cardinality(left) <= Cardinality(App)
  BY <1>1, FS_Subset
<1>3. Cardinality(Unread) \in Nat /\ Cardinality(left) \in Nat /\ Cardinality(App) \in Nat
  BY <1>2, FS_CardinalityType
<1> QED BY <1>2, <1>3 DEF Rank

PassGoesOn == Work \/ \E a \in App : WebhookFails(a)

LEMMA TreatRank ==
  ASSUME TypeOK, IsFiniteSet(App), NEW a \in App, Treat(a)
  PROVE  Rank' < Rank
<1>1. /\ pc = "alert" /\ a \in left /\ left' = left \ {a} /\ seen' = seen
      /\ pc' \in {"alert", "save"}
  BY DEF Treat
<1>2. Cardinality(left') = Cardinality(left) - 1
  BY <1>1, RankType, FS_RemoveElement
<1>3. Unread' = Unread
  BY <1>1 DEF Unread
<1> QED BY <1>1, <1>2, <1>3, RankType DEF Rank

LEMMA GoesOnRank ==
  ASSUME TypeOK, IsFiniteSet(App), PassGoesOn
  PROVE  Rank' < Rank
<1>0. Cardinality(Unread) \in Nat /\ Cardinality(left) \in Nat
  BY RankType
<1>1. ASSUME NEW a \in App, Read(a) PROVE Rank' < Rank
  <2>1. /\ pc = "read" /\ a \in Unread /\ left' = left /\ pc' \in {"read", "alert"}
        /\ seen' = [seen EXCEPT ![a] = truth[a]]
    BY <1>1 DEF Read, Unread
  <2>2. Unread' = Unread \ {a}
    <3>1. truth[a] # None
      BY WatcherAssumption DEF WatcherAssumption, TypeOK
    <3> QED BY <2>1, <3>1 DEF Unread, TypeOK
  <2>3. Cardinality(Unread') = Cardinality(Unread) - 1
    BY <2>1, <2>2, RankType, FS_RemoveElement
  <2> QED BY <1>0, <2>1, <2>3 DEF Rank
<1>2. ASSUME NEW a \in App, Pass(a) \/ Alert(a) \/ WebhookFails(a) PROVE Rank' < Rank
  BY <1>2, TreatRank DEF Pass, Alert, WebhookFails
<1>3. ASSUME Truncate \/ Write PROVE Rank' < Rank
  <2>1. Unread' = Unread /\ left' = left
    BY <1>3 DEF Truncate, Write, pass, Unread
  <2>2. (pc = "save" /\ pc' = "write") \/ (pc = "write" /\ pc' = "idle")
    BY <1>3 DEF Truncate, Write
  <2> QED BY <1>0, <2>1, <2>2 DEF Rank
<1> QED BY <1>1, <1>2, <1>3 DEF PassGoesOn, Work

\* Nothing else sets a pass back: only Start raises the rank, from nothing.
LEMMA OtherRank ==
  ASSUME TypeOK, [Next]_vars, ~PassGoesOn, ~Start, IsFiniteSet(App)
  PROVE  Rank' = Rank \/ Rank' = 0
<1>1. ASSUME QueryFails \/ SaveFails \/ Killed \/ Recreated PROVE Rank' = 0
  BY <1>1 DEF QueryFails, SaveFails, Killed, Recreated, Rank
<1>2. ASSUME (\E a \in App : Change(a)) \/ UNCHANGED vars PROVE Rank' = Rank
  <2>1. UNCHANGED <<pc, seen, left>>
    BY <1>2 DEF Change, pass, vars
  <2> QED BY <2>1 DEF Rank, Unread
<1> QED BY <1>1, <1>2 DEF Next, PassGoesOn

PassesAreShort ==
  /\ Rank \in 0..2 * Cardinality(App) + 2
  /\ PassGoesOn => Rank' < Rank
  /\ Rank' > Rank => Start

\* A pass takes no more than two steps per application and two for the file,
\* whatever the statuses, the webhook and the faults do meanwhile: it never
\* reads or treats an application twice, and it is over or starts anew.
THEOREM PassesEnd ==
  ASSUME IsFiniteSet(App)
  PROVE  Spec => [][PassesAreShort]_vars
<1>1. TypeOK /\ [Next]_vars => PassesAreShort
  <2> SUFFICES ASSUME TypeOK, [Next]_vars PROVE PassesAreShort
    OBVIOUS
  <2>1. Rank \in 0..2 * Cardinality(App) + 2 /\ Cardinality(App) \in Nat
    BY RankType
  <2>2. PassGoesOn => Rank' < Rank
    BY GoesOnRank
  <2>3. TypeOK'
    BY TypeStep
  <2>4. Rank' \in Nat
    <3>1. IsFiniteSet(Unread') /\ IsFiniteSet(left')
      <4>1. Unread' \subseteq App /\ left' \subseteq App
        BY <2>3 DEF Unread, TypeOK
      <4> QED BY <4>1, FS_Subset
    <3>2. Cardinality(Unread') \in Nat /\ Cardinality(left') \in Nat
      BY <3>1, FS_CardinalityType
    <3> QED BY <3>2 DEF Rank
  <2>5. Rank' > Rank => Start
    BY <2>1, <2>2, <2>4, OtherRank
  <2> QED BY <2>1, <2>2, <2>5 DEF PassesAreShort
<1> QED BY <1>1, WatcherTypeCorrect, PTL DEF Spec
=============================================================================
