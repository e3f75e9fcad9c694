---------------------------- MODULE MCBackupApi ----------------------------
(***************************************************************************)
(* Instances of BackupApi for TLC.                                         *)
(***************************************************************************)
EXTENDS BackupApi, TLC

CONSTANTS crm, crmKey, oldKey, q1, q2

OneApp == {crm}
Keys == {crmKey, oldKey}
\* oldKey was replaced: it finds no active application.
Owner == (crmKey :> crm) @@ (oldKey :> None)
TwoReqs == {q1, q2}
Instants == 0..1
\* -1: the agent's clock was set back during the backup.
Spans == {-1, 1}
=============================================================================
