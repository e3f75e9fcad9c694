--------------------------- MODULE MCBackupAgent ---------------------------
(***************************************************************************)
(* Instances of BackupAgent for TLC.                                       *)
(***************************************************************************)
EXTENDS BackupAgent, TLC

CONSTANTS pg, my, own, t1, t2, k1, k2, k3

\* pg: a PostgreSQL database stored locally; my: a MySQL one stored in S3, of
\* the same name and dumped in the same second; own: one with a name of its own.
ThreeJobs == {pg, my, own}
TwoJobs == {pg, my}
S3Jobs == {my}
NoJobs == {}
Temps == {t1, t2}
Keys == {k1, k2, k3}
OneTemp == [j \in Job |-> t1]
TempShared == [j \in Job |-> IF j = own THEN t2 ELSE t1]
OwnKey == (pg :> k1) @@ (my :> k2)
ThreeKeys == OwnKey @@ (own :> k3)
=============================================================================
