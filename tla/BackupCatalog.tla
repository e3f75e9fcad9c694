--------------------------- MODULE BackupCatalog ---------------------------
(***************************************************************************)
(* What the agents, the object store and the API's table promise together  *)
(* to whoever restores a backup: an object may be rewritten or damaged     *)
(* until a SUCCESS row names it; the row is only entered for an object     *)
(* that holds the complete dump of the reporting run and has the checksum  *)
(* of the row; and from then on neither the object nor the row changes.    *)
(***************************************************************************)
CONSTANTS Job, Key, None

VARIABLES
  vault,    \* the content under each key: a set of jobs (see BackupAgent)
  catalog   \* the rows

vars == <<vault, catalog>>

Catalogued(k) == \E r \in catalog : r.status = "SUCCESS" /\ r.path = k

Recorded(j) == \E r \in catalog : r.job = j

Init ==
  /\ vault = [k \in Key |-> None]
  /\ catalog = {}

\* The store changes, but never under a key that was promised.
Change ==
  /\ \A k \in Key : Catalogued(k) => vault'[k] = vault[k]
  /\ UNCHANGED catalog

Entry(j, path, sum, status) ==
  [job |-> j, status |-> status, path |-> path, checksum |-> sum]

EnterSuccess(j) ==
  \E k \in Key :
    /\ ~Recorded(j)
    /\ vault[k] = {j}
    /\ catalog' = catalog \cup {Entry(j, k, {j}, "SUCCESS")}
    /\ UNCHANGED vault

EnterFailure(j) ==
  \E path \in Key \cup {None} :
    /\ ~Recorded(j)
    /\ catalog' = catalog \cup {Entry(j, path, None, "FAILED")}
    /\ UNCHANGED vault

Next == Change \/ \E j \in Job : EnterSuccess(j) \/ EnterFailure(j)

Spec == Init /\ [][Next]_vars
=============================================================================
