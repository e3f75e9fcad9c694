--------------------------- MODULE MCStatusReads ---------------------------
(***************************************************************************)
(* Instances of StatusReads for TLC.                                       *)
(***************************************************************************)
EXTENDS StatusReads, TLC

CONSTANTS crm, erp, r1

OneApp == {crm}
TwoApps == {crm, erp}
OneReader == {r1}
Instants == 0..3
\* crm is registered in the middle of the horizon, so that some of its runs are
\* dated before and some after; the schedules are shorter than the horizon.
CreatedAt == [a \in App |-> IF a = crm THEN 2 ELSE 0]
Every == [a \in App |-> IF a = crm THEN 1 ELSE 2]
=============================================================================
