-------------------------- MODULE MCOverdueWatcher --------------------------
(***************************************************************************)
(* Instances of OverdueWatcher for TLC.                                    *)
(***************************************************************************)
EXTENDS OverdueWatcher

CONSTANTS crm, erp

OneApp == {crm}
TwoApps == {crm, erp}
OnlyWebhook == {"webhook"}
AllFaults == {"webhook", "db", "save", "crash", "reset"}
=============================================================================
