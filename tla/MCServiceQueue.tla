--------------------------- MODULE MCServiceQueue ---------------------------
(* Small instances of ServiceQueue. *)
EXTENDS ServiceQueue, TLC

CONSTANTS p1, p2, w1, w2

\* p1 is scheduled, p2 reprocesses historical data: two dates a request.
TwoDates == p2 :> 2
\* Both processes are scheduled.
NoDates == [p \in {} |-> 0]

WorkerSymmetry == Permutations(Workers)
=============================================================================
