--------------------------- MODULE ReportLedger ---------------------------
(***************************************************************************)
(* What POST /api/v1/backups promises the sender of a report.  A report    *)
(* may be put on record as long as its request is open, also after the     *)
(* sender gave up or its connection broke, and never once the request is   *)
(* closed; a report that is not entitled to a row (a bad key, a bad body)  *)
(* gets none; "yes" means a row, and a row stays as it was entered.  After *)
(* "no" the sender does not know.                                          *)
(***************************************************************************)
CONSTANTS Req, None

VARIABLES
  phase,  \* each request: "unsent", "open", "closed"
  claim,  \* the row it is entitled to, as a set of at most one
  rows,   \* the rows on record
  heard   \* what its sender was told: "yes", "no", or None yet

vars == <<phase, claim, rows, heard>>

Init ==
  /\ phase = [q \in Req |-> "unsent"]
  /\ claim = [q \in Req |-> {}]
  /\ rows = {}
  /\ heard = [q \in Req |-> None]

Move(q, from, to) == phase[q] = from /\ phase' = [phase EXCEPT ![q] = to]

No(q) == [heard EXCEPT ![q] = IF @ = None THEN "no" ELSE @]

\* What a report claims is settled when it is sent.
Send(q) ==
  /\ Move(q, "unsent", "open")
  /\ \A p \in Req \ {q} : claim'[p] = claim[p]
  /\ UNCHANGED <<rows, heard>>

Close(q) ==
  /\ Move(q, "open", "closed")
  /\ rows' \in {rows, rows \cup claim[q]}
  /\ heard' \in {heard, No(q)}
  /\ UNCHANGED claim

Confirm(q) ==
  /\ phase[q] = "closed" /\ heard[q] = None
  /\ claim[q] # {} /\ claim[q] \subseteq rows
  /\ heard' = [heard EXCEPT ![q] = "yes"]
  /\ UNCHANGED <<phase, claim, rows>>

GiveUp(q) ==
  /\ phase[q] # "unsent" /\ heard' = No(q)
  /\ UNCHANGED <<phase, claim, rows>>

\* The server stops: every open request is closed, with its row or without.
Crash ==
  /\ \E got \in SUBSET {q \in Req : phase[q] = "open"} :
        rows' = rows \cup UNION {claim[q] : q \in got}
  /\ phase' = [q \in Req |-> IF phase[q] = "open" THEN "closed" ELSE phase[q]]
  /\ UNCHANGED <<claim, heard>>

Next == (\E q \in Req : Send(q) \/ Close(q) \/ Confirm(q) \/ GiveUp(q)) \/ Crash

Spec == Init /\ [][Next]_vars
=============================================================================
