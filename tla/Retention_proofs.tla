-------------------------- MODULE Retention_proofs --------------------------
(***************************************************************************)
(* Proofs about Retention, for any applications and windows.               *)
(***************************************************************************)
EXTENDS Retention, TLAPS

\* A window is a length of time.
LEMMA WindowType == \A a \in App : Window[a] \in Nat /\ Window[a] * Day \in Nat
BY RetentionAssumption

\* Cutoffs are integers, and no later than now.
LEMMA CutoffType ==
  ASSUME clock \in Time, NEW a \in App
  PROVE  Cutoff(a) \in Int /\ Cutoff(a) <= clock
BY WindowType, RetentionAssumption DEF Cutoff, Time

LEMMA NoneIsNoFile == None \notin File
BY RetentionAssumption DEF File, Time

\* The state keeps its types.
THEOREM RetentionTypeCorrect == Spec => []TypeOK
<1>1. Init => TypeOK
  BY CutoffType, RetentionAssumption DEF Init, TypeOK, Time, File, Cutoff
<1>2. TypeOK /\ [Next]_vars => TypeOK'
  <2> SUFFICES ASSUME TypeOK, [Next]_vars PROVE TypeOK'
    OBVIOUS
  <2> USE RetentionAssumption DEF TypeOK
  <2>1. ASSUME NEW a \in App, Store(a) PROVE TypeOK'
    BY <2>1 DEF Store, prune, File, Time
  <2>2. ASSUME NEW a \in App, Begin(a) PROVE TypeOK'
    <3>1. Cutoff(a) \in Int
      BY CutoffType
    <3> QED BY <2>2, <3>1 DEF Begin, Time
  <2>3. ASSUME NEW a \in App, Look(a) PROVE TypeOK'
    <3>1. PICK f \in todo[a] :
            /\ todo' = [todo EXCEPT ![a] = @ \ {f}]
            /\ IF f \in disk THEN Goto(a, "stat", f) ELSE Goto(a, "walk", None)
      BY <2>3 DEF Look
    <3>2. f \in stored /\ f # None
      BY <3>1, NoneIsNoFile
    <3> QED BY <2>3, <3>1, <3>2 DEF Look, Goto
  <2>4. ASSUME NEW a \in App, Stat(a) PROVE TypeOK'
    BY <2>4 DEF Stat, Goto
  <2>5. ASSUME NEW a \in App, StatRaises(a) PROVE TypeOK'
    BY <2>5 DEF StatRaises, Goto
  <2>6. ASSUME NEW a \in App, Unlink(a) PROVE TypeOK'
    BY <2>6 DEF Unlink, Goto
  <2>7. ASSUME NEW a \in App, Finish(a) PROVE TypeOK'
    BY <2>7 DEF Finish, Goto
  <2>8. ASSUME Reboot PROVE TypeOK'
    <3>1. \A a \in App : Cutoff(a) \in Int
      BY CutoffType
    <3> QED BY <2>8, <3>1 DEF Reboot, Time
  <2>9. ASSUME Tick PROVE TypeOK'
    BY <2>9 DEF Tick, prune, Time
  <2>10. CASE UNCHANGED vars
    BY <2>10 DEF vars, prune
  <2> QED BY <2>1, <2>2, <2>3, <2>4, <2>5, <2>6, <2>7, <2>8, <2>9, <2>10 DEF Next
<1> QED BY <1>1, <1>2, PTL DEF Spec
-----------------------------------------------------------------------------
(***************************************************************************)
(* What the prunes keep to beside their types: a cutoff is a window before *)
(* the beginning of its prune, and a prune at work still has every file of *)
(* the disk before it that is too old for it.                              *)
(***************************************************************************)
CutoffHolds == \A a \in App : cutoff[a] = began[a] - Window[a] * Day

Covered ==
  \A a \in App :
    /\ at[a] \in {"idle", "walk"} => path[a] = None
    /\ at[a] # "idle" =>
         \A f \in disk : f.mtime < cutoff[a] => f \in todo[a] \/ f = path[a]

Walk == TypeOK /\ CutoffHolds /\ Covered

LEMMA WalkHolds == Spec => []Walk
<1>1. Init => CutoffHolds /\ Covered
  BY WindowType DEF Init, CutoffHolds, Covered, Cutoff
<1>2. TypeOK /\ CutoffHolds /\ Covered /\ [Next]_vars => (CutoffHolds /\ Covered)'
  <2> SUFFICES ASSUME TypeOK, CutoffHolds, Covered, [Next]_vars
               PROVE (CutoffHolds /\ Covered)'
    OBVIOUS
  <2>a. \A f \in disk : f # None
    BY NoneIsNoFile DEF TypeOK
  <2>1. ASSUME NEW a \in App, Store(a) PROVE (CutoffHolds /\ Covered)'
    <3>1. CutoffHolds'
      BY <2>1 DEF Store, prune, CutoffHolds
    <3>2. \A b \in App : clock >= cutoff[b]
      BY WindowType, RetentionAssumption DEF CutoffHolds, TypeOK, Time
    <3>3. Covered'
      BY <2>1, <3>2, RetentionAssumption DEF Store, prune, Covered, TypeOK, Time
    <3> QED BY <3>1, <3>3
  <2>2. ASSUME NEW a \in App, Begin(a) PROVE (CutoffHolds /\ Covered)'
    <3>1. CutoffHolds'
      BY <2>2 DEF Begin, Cutoff, CutoffHolds, TypeOK
    <3>2. Covered'
      BY <2>2 DEF Begin, Covered, TypeOK
    <3> QED BY <3>1, <3>2
  <2>3. ASSUME NEW a \in App, Look(a) PROVE (CutoffHolds /\ Covered)'
    <3>1. CutoffHolds'
      BY <2>3 DEF Look, CutoffHolds
    <3>2. PICK f \in todo[a] :
            /\ todo' = [todo EXCEPT ![a] = @ \ {f}]
            /\ IF f \in disk THEN Goto(a, "stat", f) ELSE Goto(a, "walk", None)
      BY <2>3 DEF Look
    <3>3. Covered'
      BY <2>3, <2>a, <3>2 DEF Look, Goto, Covered, TypeOK
    <3> QED BY <3>1, <3>3
  <2>4. ASSUME NEW a \in App, Stat(a) PROVE (CutoffHolds /\ Covered)'
    BY <2>4, <2>a DEF Stat, Goto, CutoffHolds, Covered, TypeOK
  <2>5. ASSUME NEW a \in App, StatRaises(a) PROVE (CutoffHolds /\ Covered)'
    BY <2>5 DEF StatRaises, Goto, CutoffHolds, Covered, TypeOK
  <2>6. ASSUME NEW a \in App, Unlink(a) PROVE (CutoffHolds /\ Covered)'
    BY <2>6 DEF Unlink, Goto, CutoffHolds, Covered, TypeOK
  <2>7. ASSUME NEW a \in App, Finish(a) PROVE (CutoffHolds /\ Covered)'
    BY <2>7 DEF Finish, Goto, CutoffHolds, Covered, TypeOK
  <2>8. ASSUME Reboot PROVE (CutoffHolds /\ Covered)'
    BY <2>8 DEF Reboot, Cutoff, CutoffHolds, Covered
  <2>9. ASSUME Tick PROVE (CutoffHolds /\ Covered)'
    BY <2>9 DEF Tick, prune, CutoffHolds, Covered
  <2>10. CASE UNCHANGED vars
    BY <2>10 DEF vars, prune, CutoffHolds, Covered
  <2> QED BY <2>1, <2>2, <2>3, <2>4, <2>5, <2>6, <2>7, <2>8, <2>9, <2>10 DEF Next
<1> QED BY <1>1, <1>2, RetentionTypeCorrect, PTL DEF Spec, Walk

-----------------------------------------------------------------------------
\* RecentIsOnDisk, for any windows: a file about to be unlinked is past the
\* window of the prune that unlinks it, so it is not younger than every window.
THEOREM RecentOnDisk == Spec => []RecentIsOnDisk
<1>1. Init => RecentIsOnDisk
  BY DEF Init, RecentIsOnDisk
<1>2. Walk /\ RecentIsOnDisk /\ [Next]_vars => RecentIsOnDisk'
  <2> SUFFICES ASSUME Walk, RecentIsOnDisk, [Next]_vars PROVE RecentIsOnDisk'
    OBVIOUS
  <2>1. ASSUME NEW a \in App, Store(a) PROVE RecentIsOnDisk'
    BY <2>1 DEF Store, RecentIsOnDisk, Young
  <2>2. ASSUME NEW a \in App, Unlink(a) PROVE RecentIsOnDisk'
    <3>1. path[a] \in stored
      BY <2>2 DEF Unlink, Walk, TypeOK
    <3>2. path[a].mtime \in Nat /\ path[a].mtime < cutoff[a]
      BY <2>2, <3>1 DEF Unlink, Walk, TypeOK, File, Time
    <3>3. cutoff[a] <= clock - Window[a] * Day /\ cutoff[a] \in Int /\ clock \in Nat
      BY WindowType, RetentionAssumption DEF Walk, TypeOK, CutoffHolds, Time
    <3>4. ~Young(path[a], clock)
      BY <3>2, <3>3, WindowType DEF Young
    <3> QED BY <2>2, <3>4 DEF Unlink, RecentIsOnDisk, Young
  <2>3. ASSUME Tick PROVE RecentIsOnDisk'
    <3>1. ASSUME NEW f \in stored, Young(f, clock') PROVE Young(f, clock)
      <4>1. f.mtime \in Nat /\ clock \in Nat /\ clock' = clock + 1
        BY <2>3, RetentionAssumption DEF Tick, Walk, TypeOK, File, Time
      <4> QED BY <3>1, <4>1, WindowType DEF Young
    <3> QED BY <2>3, <3>1 DEF Tick, RecentIsOnDisk, Young
  <2>4. CASE UNCHANGED <<clock, stored, disk>>
    BY <2>4 DEF RecentIsOnDisk, Young
  <2> QED
    BY <2>1, <2>2, <2>3, <2>4
    DEF Next, Begin, Look, Stat, StatRaises, Finish, Reboot, vars
<1> QED BY <1>1, <1>2, WalkHolds, PTL DEF Spec

-----------------------------------------------------------------------------
(***************************************************************************)
(* Of the prunes of night n, one can still be hoped for: it is to begin, or *)
(* it is at work and its next step is no exception, or it has cleared the  *)
(* disk of what was too old for it.  A removal gives this to the prune that *)
(* removes, so an exception, which follows a removal, never takes the last *)
(* hope.                                                                   *)
(***************************************************************************)
Hope(a, n) ==
  \/ began[a] # n
  \/ at[a] # "idle" /\ (at[a] = "stat" => path[a] \in disk)
  \/ \A f \in disk : f.mtime >= cutoff[a]

SomeHope == App # {} => \A n \in Time : \E a \in App : Hope(a, n)

LEMMA HopeRemains == Spec => []SomeHope
<1>1. Init => SomeHope
  BY DEF Init, SomeHope, Hope
<1>2. Walk /\ SomeHope /\ [Next]_vars => SomeHope'
  <2> SUFFICES ASSUME Walk, SomeHope, [Next]_vars, NEW c \in App, NEW n \in Time
               PROVE \E a \in App : Hope(a, n)'
    BY DEF SomeHope, Time
  <2>h. PICK h \in App : Hope(h, n)
    BY DEF SomeHope
  <2>1. ASSUME NEW a \in App, Store(a) PROVE Hope(h, n)'
    <3>1. clock >= cutoff[h]
      BY WindowType, RetentionAssumption DEF Walk, CutoffHolds, TypeOK, Time
    <3> QED BY <2>1, <2>h, <3>1 DEF Store, prune, Hope
  <2>2. ASSUME NEW a \in App, Begin(a) PROVE Hope(h, n)'
    BY <2>2, <2>h DEF Begin, Hope, Walk, TypeOK
  <2>3. ASSUME NEW a \in App, Look(a) PROVE Hope(a, n)'
    BY <2>3 DEF Look, Goto, Hope, Walk, TypeOK
  <2>4. ASSUME NEW a \in App, Stat(a) PROVE Hope(a, n)'
    BY <2>4 DEF Stat, Goto, Hope, Walk, TypeOK
  <2>5. ASSUME NEW a \in App, StatRaises(a) PROVE Hope(h, n)'
    BY <2>5, <2>h DEF StatRaises, Goto, Hope, Walk, TypeOK
  <2>6. ASSUME NEW a \in App, Unlink(a) PROVE Hope(a, n)'
    BY <2>6 DEF Unlink, Goto, Hope, Walk, TypeOK
  <2>7. ASSUME NEW a \in App, Finish(a) PROVE Hope(h, n)'
    <3>1. CASE h # a
      BY <2>7, <2>h, <3>1 DEF Finish, Goto, Hope, Walk, TypeOK
    <3>2. CASE h = a
      <4>1. \A f \in disk : f # None /\ f.mtime \in Nat
        BY NoneIsNoFile DEF Walk, TypeOK, File, Time
      <4>2. \A f \in disk : f.mtime >= cutoff[a]
        BY <2>7, <4>1 DEF Finish, Walk, Covered, TypeOK
      <4> QED BY <2>7, <3>2, <4>2 DEF Finish, Hope
    <3> QED BY <3>1, <3>2
  <2>8. ASSUME Reboot PROVE Hope(c, n)'
    BY <2>8 DEF Reboot, Hope
  <2>9. CASE Tick \/ UNCHANGED vars
    BY <2>9, <2>h DEF Tick, vars, prune, Hope
  <2> QED BY <2>1, <2>2, <2>3, <2>4, <2>5, <2>6, <2>7, <2>8, <2>9 DEF Next
<1> QED BY <1>1, <1>2, WalkHolds, PTL DEF Spec

\* NightClears, for any number of applications: the prunes of a night cannot all
\* stop each other, so what is past every window is gone when they are over.
THEOREM NightsClear == Spec => []NightClears
<1>1. Walk /\ SomeHope => NightClears
  <2> SUFFICES ASSUME Walk, SomeHope, NEW n \in Time,
                      \A a \in App : at[a] = "idle" /\ began[a] = n,
                      NEW f \in disk
               PROVE  ~Overdue(f, n)
    BY DEF NightClears
  <2>1. f \in File
    BY DEF Walk, TypeOK
  <2>2. PICK a \in App : Hope(a, n)
    BY <2>1 DEF SomeHope, File
  <2>3. f.mtime >= cutoff[a] /\ cutoff[a] = n - Window[a] * Day
    BY <2>2 DEF Hope, Walk, CutoffHolds
  <2>4. f.mtime \in Nat /\ n \in Nat
    BY <2>1, RetentionAssumption DEF File, Time
  <2> QED BY <2>3, <2>4, WindowType DEF Overdue
<1> QED BY <1>1, WalkHolds, HopeRemains, PTL
=============================================================================
