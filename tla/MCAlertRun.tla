------------------------------ MODULE MCAlertRun ------------------------------
(***************************************************************************)
(* Two objects, two levels and values that have none, and a notification   *)
(* of each sort: on a change, on a level, on both, always.                 *)
(***************************************************************************)
EXTENDS AlertRun

CONSTANTS o1, o2

Row(a, b) == [o \in Objects |-> IF o = o1 THEN a ELSE b]
MCResults == {Row(1, 1), Row(2, 1), Row(Null, 2), Row(3, NoRow)}
MCThresholds == <<1, 2>>
MCNotifications ==
  <<[level |-> 0, change |-> TRUE], [level |-> 2, change |-> FALSE],
    [level |-> 2, change |-> TRUE], [level |-> 0, change |-> FALSE]>>
MCFaults == FaultKinds
=============================================================================
