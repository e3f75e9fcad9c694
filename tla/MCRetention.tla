----------------------------- MODULE MCRetention -----------------------------
(***************************************************************************)
(* Instances of Retention for TLC.                                         *)
(***************************************************************************)
EXTENDS Retention, TLC

CONSTANTS crm, erp

\* Two applications of one host, one of them with a longer window.
TwoApps == {crm, erp}
Windows == (crm :> 1) @@ (erp :> 2)
=============================================================================
