------------------------- MODULE MCBackwatchSystem -------------------------
(***************************************************************************)
(* Instances of BackwatchSystem for TLC.                                   *)
(***************************************************************************)
EXTENDS BackwatchSystem, TLC

CONSTANT erp

\* erp was installed with --schedule: it backs up at midnight and at the hour it
\* asked for, and is registered as daily.
OneApp == {erp}
TwiceDaily == [a \in App |-> {0, Day - 1}]
AtZero == [a \in App |-> 0]
Daily == [a \in App |-> Day]
Instants == 0..Horizon
=============================================================================
