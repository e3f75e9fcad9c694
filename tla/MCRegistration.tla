--------------------------- MODULE MCRegistration ---------------------------
(***************************************************************************)
(* Instances of Registration and Schedule for TLC, explored in one run: a  *)
(* behaviour registers applications, or it reads a schedule.               *)
(***************************************************************************)
EXTENDS Registration, Schedule, SequencesExt

CONSTANTS c1, c2, s1, s2, cakra, talenta, ownKey

\* Two operators, and the seed run twice, both for the same two names.
TwoClients == {c1, c2}
TwoSeeders == {s1, s2}
SeedList == <<talenta, cakra>>
Names == {cakra, talenta}
OneKey == {ownKey}
\* A digit and zero, the two units, another letter, a digit int() does not read.
Telling == {"1", "0", "h", "m", "x", "superscript"}
Characters == Telling \cup UNION {ToSet(name) : name \in DOMAIN ScheduleIntervals}

\* Of the strings with the letters of the names, these: a name as far as it goes,
\* and whatever one character makes of that.
Explored(s) ==
  \/ ToSet(s) \subseteq Telling
  \/ \E name \in DOMAIN ScheduleIntervals : IsPrefix(Front(s), name)

EitherInit == Init /\ ParseInit
EitherNext ==
  \/ ParseInit /\ Next /\ UNCHANGED parser
  \/ Init /\ ParseNext /\ Explored(text') /\ UNCHANGED vars
EitherSpec == EitherInit /\ [][EitherNext]_<<vars, parser>>
=============================================================================
