-------------------------- MODULE ProcessScheduler --------------------------
(***************************************************************************)
(* What a service promises to the processes it schedules, without threads, *)
(* locks or queues between threads: the executions of a process happen one *)
(* at a time and in the order they were asked for.                         *)
(*                                                                         *)
(* An execution may be lost (a stop, an edit of its process, a failure),   *)
(* never repeated, overtaken or run beside another one of its process.     *)
(***************************************************************************)
EXTENDS Naturals, Sequences

CONSTANTS Processes, Packages

\* The requests are ordered: register, then position among the dates.
Before(k, m) == k.reg < m.reg \/ (k.reg = m.reg /\ k.date < m.date)

VARIABLES
  current,  \* current[p]: the package of p being processed, in a set of at most one
  backlog   \* backlog[p]: packages of p that wait

vars == <<current, backlog>>

Init ==
  /\ current = [p \in Processes |-> {}]
  /\ backlog = [p \in Processes |-> <<>>]

PackagesOf(p) == {k \in Packages : k.proc = p}

\* Package k is newer than everything its process already has.
Newest(p, k) ==
  /\ \A m \in current[p] : Before(m, k)
  /\ \A i \in DOMAIN backlog[p] : Before(backlog[p][i], k)

\* The process is at rest: its new package is processed at once.
Accept(p, k) ==
  /\ k.proc = p
  /\ current[p] = {} /\ backlog[p] = <<>>
  /\ current' = [current EXCEPT ![p] = {k}]
  /\ UNCHANGED backlog

\* The new package waits.
Postpone(p, k) ==
  /\ k.proc = p
  /\ Newest(p, k)
  /\ backlog' = [backlog EXCEPT ![p] = Append(@, k)]
  /\ UNCHANGED current

\* The oldest waiting package follows.
Advance(p) ==
  /\ current[p] = {} /\ backlog[p] # <<>>
  /\ current' = [current EXCEPT ![p] = {Head(backlog[p])}]
  /\ backlog' = [backlog EXCEPT ![p] = Tail(@)]

\* The package is done with: executed and handled, or lost.
Leave(p) ==
  /\ current[p] # {}
  /\ current' = [current EXCEPT ![p] = {}]
  /\ UNCHANGED backlog

\* An edit of the process forgets what waits, and what is not yet a task.
Forget(p) ==
  /\ backlog' = [backlog EXCEPT ![p] = <<>>]
  /\ \/ UNCHANGED current
     \/ current' = [current EXCEPT ![p] = {}]

Next ==
  \E p \in Processes :
    \/ \E k \in Packages : Accept(p, k) \/ Postpone(p, k)
    \/ Advance(p) \/ Leave(p) \/ Forget(p)

Spec == Init /\ [][Next]_vars
=============================================================================
