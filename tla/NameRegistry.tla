----------------------------- MODULE NameRegistry -----------------------------
(***************************************************************************)
(* What registering an application promises, where a session commits       *)
(* before the response is sent: it is one step, which takes the name if it *)
(* is free at that instant, whoever else registers.  Who took it is told   *)
(* so, or learns nothing; who is told that it is taken came when it was;   *)
(* and a registration that breaks has taken the name or has left           *)
(* everything as it was.                                                   *)
(***************************************************************************)
CONSTANTS
  Client, Seeder, Entry, None  \* as in Registration

VARIABLES
  table,  \* the registered names with their keys
  phase,  \* of each process: "closed", "open" (it registers) or "won"
  entry,  \* what it registers
  answer, \* what each client was told
  shown   \* what was printed

vars == <<table, phase, entry, answer, shown>>

Process == Client \cup Seeder

Taken(name) == \E r \in table : r.name = name

Init ==
  /\ table = {} /\ shown = {}
  /\ phase = [p \in Process |-> "closed"]
  /\ entry = [p \in Process |-> None]
  /\ answer = [c \in Client |-> None]

Goto(p, from, to) == phase[p] = from /\ phase' = [phase EXCEPT ![p] = to]

Hear(p, code) == answer' = [c \in Client |-> IF c = p THEN code ELSE answer[c]]

Open(p) ==
  /\ Goto(p, "closed", "open")
  /\ \E e \in Entry : entry' = [entry EXCEPT ![p] = e]
  /\ UNCHANGED <<table, answer, shown>>

Take(p) == ~Taken(entry[p].name) /\ table' = table \cup {entry[p]}

Win(p) ==
  /\ Goto(p, "open", "won") /\ Take(p)
  /\ UNCHANGED <<entry, answer, shown>>

Lose(p) ==
  /\ Goto(p, "open", "closed") /\ Taken(entry[p].name)
  /\ Hear(p, "409")
  /\ UNCHANGED <<table, entry, shown>>

Tell(p) ==
  /\ Goto(p, "won", "closed") /\ Hear(p, "201")
  /\ shown' = shown \cup IF p \in Seeder THEN {entry[p]} ELSE {}
  /\ UNCHANGED <<table, entry>>

Break(p) ==
  /\ \/ Goto(p, "won", "closed") /\ table' = table
     \/ Goto(p, "open", "closed") /\ (table' = table \/ Take(p))
  /\ answer' = answer \/ Hear(p, "500")
  /\ UNCHANGED <<entry, shown>>

Next == \E p \in Process : Open(p) \/ Win(p) \/ Lose(p) \/ Tell(p) \/ Break(p)

Spec == Init /\ [][Next]_vars
=============================================================================
