------------------------------ MODULE Retention ------------------------------
(***************************************************************************)
(* backup-agent prune.  Every application of a host has a prune timer and  *)
(* a window (RETENTION_DAYS) of its own, but all of them walk the one      *)
(* STORAGE_BASE_DIR, from the same minute of the night, while uploads go   *)
(* on: each prune deletes what is older than its window, whoever's it is.  *)
(* A file is looked at three times (is_file, stat, unlink), and may be     *)
(* gone each time.                                                         *)
(***************************************************************************)
EXTENDS Integers, FiniteSets

CONSTANTS
  App,       \* the applications of the host that store locally
  Window,    \* of each: RETENTION_DAYS
  Day,       \* the instants of a day; the timers elapse at its first
  Horizon,   \* bound: the last instant
  MaxFiles,  \* bound: the number of backups
  MaxReboot, \* bound: how often the host is restarted
  None

ASSUME RetentionAssumption ==
  /\ Window \in [App -> Nat] /\ Day \in Nat \ {0}
  /\ Horizon \in Nat /\ MaxFiles \in Nat /\ MaxReboot \in Nat
  /\ None \notin [app : App, mtime : Nat]

Time == 0..Horizon
File == [app : App, mtime : Time]

VARIABLES
  clock,   \* now
  stored,  \* history: all backups ever stored
  disk,    \* the files below STORAGE_BASE_DIR
  reboots, \* how often the host was restarted
  at,      \* what the prune of each application is doing
  began,   \* when its last prune began
  cutoff,  \* local of prune
  todo,    \* the part of rglob's listing it has not visited
  path     \* the file it is looking at

prune == <<at, began, cutoff, todo, path>>
vars == <<clock, stored, disk, reboots, prune>>

\* Mutant of Cutoff: a day too late.
CutoffLate(a) == clock - (Window[a] - 1) * Day

Cutoff(a) == clock - Window[a] * Day

\* install.sh enables the timer, which starts the service it Requires.
Init ==
  /\ clock = 0 /\ reboots = 0
  /\ stored = {} /\ disk = {}
  /\ at = [a \in App |-> "walk"]
  /\ began = [a \in App |-> 0]
  /\ cutoff = [a \in App |-> Cutoff(a)]
  /\ todo = [a \in App |-> {}]
  /\ path = [a \in App |-> None]

\* LocalStorage.upload: the rename keeps the mtime the dump has from its last
\* write, a moment ago.
Store(a) ==
  LET f == [app |-> a, mtime |-> clock]
  IN /\ f \notin stored /\ Cardinality(stored) < MaxFiles
     /\ stored' = stored \cup {f} /\ disk' = disk \cup {f}
     /\ UNCHANGED <<clock, reboots, prune>>

\* 02:30.  A prune that is still active is not started again.
Begin(a) ==
  /\ clock % Day = 0 /\ began[a] # clock /\ at[a] = "idle"
  /\ at' = [at EXCEPT ![a] = "walk"]
  /\ began' = [began EXCEPT ![a] = clock]
  /\ cutoff' = [cutoff EXCEPT ![a] = Cutoff(a)]
  /\ todo' = [todo EXCEPT ![a] = disk]
  /\ UNCHANGED <<clock, stored, disk, reboots, path>>

Goto(a, place, f) ==
  at' = [at EXCEPT ![a] = place] /\ path' = [path EXCEPT ![a] = f]

\* rglob yields the next path; one that is no file any more is passed over.
Look(a) ==
  /\ at[a] = "walk"
  /\ \E f \in todo[a] :
       /\ todo' = [todo EXCEPT ![a] = @ \ {f}]
       /\ IF f \in disk
          THEN Goto(a, "stat", f)
          ELSE Goto(a, "walk", None)
  /\ UNCHANGED <<clock, stored, disk, reboots, began, cutoff>>

\* Mutant of Stat: the age is not looked at.
StatAnyAge(a) ==
  /\ at[a] = "stat" /\ path[a] \in disk
  /\ Goto(a, "unlink", path[a])
  /\ UNCHANGED <<clock, stored, disk, reboots, began, cutoff, todo>>

Stat(a) ==
  /\ at[a] = "stat" /\ path[a] \in disk
  /\ IF path[a].mtime < cutoff[a]
     THEN Goto(a, "unlink", path[a])
     ELSE Goto(a, "walk", None)
  /\ UNCHANGED <<clock, stored, disk, reboots, began, cutoff, todo>>

\* The file was removed since is_file: FileNotFoundError, outside the try.  The
\* prune is over, the rest of the listing unvisited.
StatRaises(a) ==
  /\ at[a] = "stat" /\ path[a] \notin disk
  /\ Goto(a, "idle", None)
  /\ todo' = [todo EXCEPT ![a] = {}]
  /\ UNCHANGED <<clock, stored, disk, reboots, began, cutoff>>

\* Mutant of Unlink: the loop ends with the first file that is removed.
UnlinkFirst(a) ==
  /\ at[a] = "unlink"
  /\ disk' = disk \ {path[a]}
  /\ Goto(a, "idle", None)
  /\ todo' = [todo EXCEPT ![a] = {}]
  /\ UNCHANGED <<clock, stored, reboots, began, cutoff>>

\* An OSError, of a file that is gone too, is passed over here.
Unlink(a) ==
  /\ at[a] = "unlink"
  /\ disk' = disk \ {path[a]}
  /\ Goto(a, "walk", None)
  /\ UNCHANGED <<clock, stored, reboots, began, cutoff, todo>>

Finish(a) ==
  /\ at[a] = "walk" /\ todo[a] = {}
  /\ Goto(a, "idle", None)
  /\ UNCHANGED <<clock, stored, disk, reboots, began, cutoff, todo>>

\* The prunes are gone with the host; its boot starts every prune, for the
\* timers Require the services.
Reboot ==
  /\ reboots < MaxReboot /\ reboots' = reboots + 1
  /\ at' = [a \in App |-> "walk"]
  /\ began' = [a \in App |-> clock]
  /\ cutoff' = [a \in App |-> Cutoff(a)]
  /\ todo' = [a \in App |-> disk]
  /\ path' = [a \in App |-> None]
  /\ UNCHANGED <<clock, stored, disk>>

\* A prune may take long (the walk is over any number of files), also beyond
\* the next night, which it then misses.
Tick ==
  /\ clock < Horizon /\ clock' = clock + 1
  /\ clock % Day = 0 => \A a \in App : at[a] # "idle" \/ began[a] = clock
  /\ UNCHANGED <<stored, disk, reboots, prune>>

Next ==
  \/ \E a \in App : \/ Store(a) \/ Begin(a) \/ Look(a) \/ Stat(a)
                    \/ StatRaises(a) \/ Unlink(a) \/ Finish(a)
  \/ Reboot \/ Tick

Spec == Init /\ [][Next]_vars

-----------------------------------------------------------------------------
\* A prune looks at a file it has listed; one it is about to unlink was too old.
TypeOK ==
  /\ clock \in Time /\ reboots \in 0..MaxReboot
  /\ stored \subseteq File /\ disk \subseteq stored
  /\ at \in [App -> {"idle", "walk", "stat", "unlink"}]
  /\ began \in [App -> 0..clock]
  /\ cutoff \in [App -> Int]
  /\ todo \in [App -> SUBSET stored]
  /\ path \in [App -> stored \cup {None}]
  /\ \A a \in App : /\ at[a] \in {"stat", "unlink"} => path[a] # None
                    /\ at[a] = "unlink" => path[a].mtime < cutoff[a]

\* Younger than every window of the host at instant t.  The window of its own
\* application does not protect a file from the prunes of the others.
Young(f, t) == \A b \in App : f.mtime >= t - Window[b] * Day

\* A backup that is younger than every window of its host can be restored, at
\* whatever file the prunes are, from whatever listing and cutoff, and whether
\* the host was restarted since (prune, agent/backup.py:225).
RecentIsOnDisk == \A f \in stored : Young(f, clock) => f \in disk

\* Past every window of the host at instant t.
Overdue(f, t) == \A b \in App : f.mtime < t - Window[b] * Day

\* "Older backups will be deleted automatically" (PRD section 13): when all
\* prunes of one night are over, no file is left that was past every window
\* when they began, although a prune ends where it stumbles over a removal by
\* another: they cannot all stop each other.
NightClears ==
  \A n \in Time : (\A a \in App : at[a] = "idle" /\ began[a] = n)
                    => \A f \in disk : ~Overdue(f, n)
=============================================================================
