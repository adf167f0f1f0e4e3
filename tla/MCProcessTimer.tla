----------------------------- MODULE MCProcessTimer -----------------------------
(* A small calendar for ProcessTimer: half seconds, days of three seconds, weeks of
   two days. *)
EXTENDS ProcessTimer

Frequency(period, start) == [kind |-> "frequency", period |-> period, start |-> start]
Weekly(day, at) == [kind |-> "weekly", day |-> day, at |-> at]

\* Every two seconds; every three from an hour on; two that do not fit into an int, which
\* becomes negative or a second; on a day at an hour; on a day that is none for Timer and one that
\* is none for boost; on request.
MCSchedules ==
  {Frequency(2, Never), Frequency(3, 1), Frequency(14, Never), Frequency(21, Never),
   Weekly(1, 4), Weekly(0, 4), Weekly(2, 4), [kind |-> "manual"]}
=============================================================================
