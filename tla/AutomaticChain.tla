----------------------------- MODULE AutomaticChain -----------------------------
(***************************************************************************)
(* Processes that start each other: a process that has finished reports it *)
(* to the web application, which starts the processes that wait for its    *)
(* data, and the alert of a view that was generated.  This module composes *)
(* the services, their connections and the handlers of the web application.*)
(*                                                                         *)
(* Each service runs all processes of one kind.  A run is known by its     *)
(* number in `runs'.  PROCESS_FINISHED travels in three units: the start   *)
(* of its header, the rest of the header with the size, and the text; the  *)
(* web application cuts the messages out of the portions that arrive.  Of  *)
(* the messages that a service finds together it reads the first (see      *)
(* ServiceMessages).  The queues are those of ServiceQueue for one process *)
(* at a time: what is started is executed in turn.                         *)
(***************************************************************************)
EXTENDS Naturals, Sequences, FiniteSets

CONSTANTS
  Collectors, Interpolators, Analyses, Views, Alerts, \* the processes
  Inputs,     \* pairs <<p, q>>: q is started when p, whose data it reads, has finished
  Watches,    \* pairs <<v, l>>: v is the view of alert l
  Timed,      \* processes with a schedule of their own; if an alert has a view, the view has it
  Asked,      \* processes that the user runs
  Edited,     \* processes that the user makes active and inactive
  Faults,     \* what may fail: see FaultKinds
  MaxStarts,  \* bound: starts by timers and by the user
  MaxClock,   \* bound: instants
  MaxFaults   \* bound: faults

Processes == Collectors \cup Interpolators \cup Analyses \cup Views \cup Alerts

\* "crash": a service dies; "cut": a connection breaks; "restart": the web application
\* dies; "split": a portion ends within the first bytes of a header; "together": a
\* service is busy until more than one message has arrived; "database": a query fails
FaultKinds == {"crash", "cut", "restart", "split", "together", "database"}

ASSUME AutomaticChainAssumption ==
  /\ Collectors \cap Interpolators = {} /\ (Collectors \cup Interpolators) \cap Analyses = {}
  /\ Views \cap (Collectors \cup Interpolators \cup Analyses) = {}
  /\ Alerts \cap (Collectors \cup Interpolators \cup Analyses \cup Views) = {}
  /\ Inputs \subseteq (Processes \ Alerts) \X Processes
  /\ Watches \subseteq Views \X Alerts
  /\ \A w1, w2 \in Watches : w1[1] = w2[1] \/ w1[2] = w2[2] => w1 = w2
  /\ Timed \subseteq Processes /\ \A w \in Watches : w[2] \notin Timed
  /\ Asked \subseteq Processes /\ Edited \subseteq Processes
  /\ Faults \subseteq FaultKinds
  /\ MaxStarts \in Nat /\ MaxClock \in Nat /\ MaxFaults \in Nat

VARIABLES
  active,    \* processes that are active in the database of the web application
  handlers,  \* calls of onProcessFinished that are not over
  link,      \* connection with each service: "told"; "closed", while it has its data;
             \* "open", when it has none yet; "dead", when it has neither
  inbox,     \* messages on their way to each service
  wire,      \* units on their way from each service
  buffer,    \* tempBuffer of each connection
  queue,     \* starts of each process that were not executed yet
  runs,      \* history: the executions that have ended
  owed,      \* history: pairs <<n, q>>: q has to follow run n
  started,   \* history: those that were started
  excused,   \* history: those that were not, for a reason the code names or a fault
  clock,     \* the present instant
  starts,    \* number of starts by timers and by the user
  faults     \* number of faults

web == <<active, handlers>>
network == <<link, inbox, wire, buffer>>
account == <<owed, started, excused>>
bounds == <<clock, starts, faults>>
chainVars == <<web, network, queue, runs, account, bounds>>

Host(p) ==
  CASE p \in Collectors -> "collector"
    [] p \in Interpolators -> "interpolator"
    [] p \in Analyses -> "analysis"
    [] p \in Views -> "view"
    [] p \in Alerts -> "alert"

Services == {Host(p) : p \in Processes}

-----------------------------------------------------------------------------
(* Messages *)

StartMessage(q, date, n) == [signal |-> "START", to |-> q, date |-> date, from |-> n]
Log == [signal |-> "LOG"]

Units(n) == [k \in 1..3 |-> [run |-> n, part |-> k - 1]]

\* What follows a process whose end is reported as a success of the automatic kind.
\* The switch of ProcessFinished.handle has no case for an interpolator.
Followers(p) ==
  IF p \in Interpolators \cup Alerts THEN {}
  ELSE IF p \in Views THEN {q \in Alerts : <<p, q>> \in Watches}
  ELSE {q \in Processes : <<p, q>> \in Inputs}

Pairs(n) == {n} \X Followers(runs[n].process)

\* The pairs of messages.
OfUnits(units) ==
  UNION {Pairs(u.run) : u \in {v \in {units[k] : k \in DOMAIN units} :
                                 v.part = 0 /\ runs[v.run].result /\ runs[v.run].automatic}}
OfMessages(messages) ==
  {<<m.from, m.to>> : m \in {n \in {messages[k] : k \in DOMAIN messages} :
                               n.signal = "START" /\ n.from # 0}}

OnConnection(s) == OfUnits(buffer[s] \o wire[s]) \cup OfMessages(inbox[s])

\* Bound: MaxFaults.
Fault(kind) == kind \in Faults /\ faults < MaxFaults /\ faults' = faults + 1

\* Is there a connection with service s?  Does it have its data?
Connected(s) == link[s] \in {"open", "told"}
HasData(s) == link[s] \in {"closed", "told"}

\* Messages are written to a connection and lost if there is none.
Send(s, messages) ==
  IF Connected(s)
  THEN inbox' = [inbox EXCEPT ![s] = @ \o messages] /\ UNCHANGED excused
  ELSE excused' = excused \cup OfMessages(messages) /\ UNCHANGED inbox

\* The connection with service s ends and what is on it is lost.
Close(s, rest) ==
  /\ link' = [link EXCEPT ![s] = rest]
  /\ inbox' = [inbox EXCEPT ![s] = <<>>]
  /\ wire' = [wire EXCEPT ![s] = <<>>]
  /\ buffer' = [buffer EXCEPT ![s] = <<>>]
  /\ excused' = excused \cup OnConnection(s)

-----------------------------------------------------------------------------
(* Starts that nothing else has caused *)

\* Time passes.
Tick ==
  /\ clock < MaxClock
  /\ clock' = clock + 1
  /\ UNCHANGED <<web, network, queue, runs, account, starts, faults>>

\* A timer of the service.  (Bound: MaxStarts.)
Timer(p) ==
  /\ p \in Timed /\ p \in active
  /\ HasData(Host(p))
  /\ starts < MaxStarts
  /\ starts' = starts + 1
  /\ queue' = [queue EXCEPT ![p] = Append(@, [date |-> clock, from |-> 0])]
  /\ UNCHANGED <<web, network, runs, account, clock, faults>>

\* Mutant: the alert itself is run.
RunForAlert(p) == p

\* What is run for p: an alert that has a view is run by running the view.
RunFor(p) ==
  IF \E v \in Views : <<v, p>> \in Watches
  THEN CHOOSE v \in Views : <<v, p>> \in Watches
  ELSE p

\* The user runs a process.
UserRun(p) ==
  /\ p \in Asked
  /\ starts < MaxStarts
  /\ starts' = starts + 1
  /\ Send(Host(RunFor(p)), <<StartMessage(RunFor(p), clock, 0), Log>>)
  /\ UNCHANGED <<web, link, wire, buffer, queue, runs, owed, started, clock, faults>>

\* The user makes a process active or inactive.
Edit(p) ==
  /\ p \in Edited
  /\ active' = IF p \in active THEN active \ {p} ELSE active \cup {p}
  /\ UNCHANGED <<handlers, network, queue, runs, account, bounds>>

-----------------------------------------------------------------------------
(* A service *)

\* It dies; its queue is gone.
Dies(s) ==
  /\ Close(s, "dead")
  /\ queue' = [p \in Processes |-> IF Host(p) = s THEN <<>> ELSE queue[p]]
  /\ UNCHANGED <<web, runs, owed, started, clock, starts>>

Crash(s) == link[s] # "dead" /\ Fault("crash") /\ Dies(s)

Cut(s) ==
  /\ Connected(s)
  /\ Fault("cut")
  /\ Close(s, IF HasData(s) THEN "closed" ELSE "dead")
  /\ UNCHANGED <<web, queue, runs, owed, started, clock, starts>>

\* It reads the first of k messages that have arrived together and drops the others.
Reads(s, k) ==
  /\ k \in 1..Len(inbox[s])
  /\ IF k = 1 THEN UNCHANGED faults ELSE Fault("together")
  /\ inbox' = [inbox EXCEPT ![s] = SubSeq(@, k + 1, Len(@))]

Dropped(s, k) == OfMessages(SubSeq(inbox[s], 2, k))

ReadLog(s, k) ==
  /\ Reads(s, k)
  /\ Head(inbox[s]) = Log
  /\ excused' = excused \cup Dropped(s, k)
  /\ UNCHANGED <<web, link, wire, buffer, queue, runs, owed, started, clock, starts>>

ReadStart(s, k) ==
  /\ Reads(s, k)
  /\ link[s] = "told"
  /\ LET m == Head(inbox[s]) IN
       /\ m.signal = "START"
       /\ queue' = [queue EXCEPT ![m.to] = Append(@, [date |-> m.date, from |-> m.from])]
       /\ started' = started \cup OfMessages(<<m>>)
  /\ excused' = excused \cup Dropped(s, k)
  /\ UNCHANGED <<web, link, wire, buffer, runs, owed, clock, starts>>

\* A service that is not loaded drops START.
ReadTooEarly(s, k) ==
  /\ Reads(s, k)
  /\ link[s] = "open" /\ Head(inbox[s]) # Log
  /\ excused' = excused \cup Dropped(s, k) \cup OfMessages(<<Head(inbox[s])>>)
  /\ UNCHANGED <<web, link, wire, buffer, queue, runs, owed, started, clock, starts>>

\* One that is loaded but has no data yet dies of it: startProcess lets the exception
\* out although it is noexcept.
ReadDeadly(s) ==
  /\ inbox[s] # <<>>
  /\ link[s] = "open" /\ Head(inbox[s]) # Log
  /\ Dies(s)
  /\ UNCHANGED faults

\* How an execution may end: with a report of success, after which others are
\* started or not, or without success.  Only a collector or an interpolator
\* reports that nothing is to follow.
Outcomes(p) ==
  {[result |-> TRUE, automatic |-> TRUE], [result |-> FALSE, automatic |-> TRUE]} \cup
  IF p \in Collectors \cup Interpolators THEN {[result |-> TRUE, automatic |-> FALSE]} ELSE {}

\* The oldest start of p is executed and its end reported, if there is a connection.
Execute(p) ==
  /\ queue[p] # <<>>
  /\ queue' = [queue EXCEPT ![p] = Tail(@)]
  /\ \E o \in Outcomes(p) :
       LET n == Len(runs) + 1
           pairs == IF o.result /\ o.automatic THEN {n} \X Followers(p) ELSE {}
       IN /\ runs' = Append(runs, [process |-> p, date |-> Head(queue[p]).date,
                                   result |-> o.result, automatic |-> o.automatic])
          /\ owed' = owed \cup pairs
          /\ IF Connected(Host(p))
             THEN wire' = [wire EXCEPT ![Host(p)] = @ \o Units(n)] /\ UNCHANGED excused
             ELSE excused' = excused \cup pairs /\ UNCHANGED wire
  /\ UNCHANGED <<web, link, inbox, buffer, started, bounds>>

-----------------------------------------------------------------------------
(* The web application *)

\* It connects; a service that has no data is sent them (see ServiceMessages).
Connect(s) ==
  /\ \/ link[s] = "closed" /\ link' = [link EXCEPT ![s] = "told"]
     \/ link[s] = "dead" /\ link' = [link EXCEPT ![s] = "open"]
     \/ link[s] = "open" /\ inbox[s] = <<>> /\ link' = [link EXCEPT ![s] = "told"]
  /\ UNCHANGED <<web, inbox, wire, buffer, queue, runs, account, bounds>>

Has(units, n, part) == \E k \in DOMAIN units : units[k] = [run |-> n, part |-> part]

\* Mutant: what follows the first message is thrown away.
WholeFirst(units) ==
  {n \in 1..Len(runs) : Has(units, n, 0) /\ Has(units, n, 2) /\ \A m \in 1..(n - 1) : ~Has(units, m, 0)}

\* The runs whose whole message is among the units.
Whole(units) == {n \in 1..Len(runs) : Has(units, n, 0) /\ Has(units, n, 2)}

\* What stays in tempBuffer: a header whose text is yet to come.  A start of a header
\* raises an error and goes, as does a rest that has lost its start.
Rest(units) ==
  LET last == units[Len(units)]
  IN IF last.part = 1 /\ Has(units, last.run, 0) THEN SubSeq(units, Len(units) - 1, Len(units)) ELSE <<>>

\* The first k units arrive.  For each PROCESS_FINISHED in them the log is asked for and
\* a handler begins.
Deliver(s, k) ==
  /\ k \in 1..Len(wire[s])
  /\ wire' = [wire EXCEPT ![s] = SubSeq(@, k + 1, Len(@))]
  /\ LET units == buffer[s] \o SubSeq(wire[s], 1, k)
         whole == Whole(units)
         last == units[Len(units)]
     IN /\ IF last.part = 0 THEN Fault("split") ELSE UNCHANGED faults
        /\ buffer' = [buffer EXCEPT ![s] = Rest(units)]
        /\ handlers' = handlers \cup
             {[run |-> n, stage |-> "lookup", todo |-> {}] : n \in whole}
        /\ inbox' = [inbox EXCEPT ![s] = @ \o [i \in 1..Cardinality(whole) |-> Log]]
        /\ excused' = excused \cup IF last.part = 0 THEN OfUnits(<<last>>) ELSE {}
  /\ UNCHANGED <<active, link, queue, runs, owed, started, clock, starts>>

\* Mutant: one process is found.
FollowersFoundOne(n) ==
  IF runs[n].result /\ runs[n].automatic /\ Followers(runs[n].process) # {}
  THEN {CHOOSE q \in Followers(runs[n].process) : TRUE}
  ELSE {}

\* ProcessFinished.handle finds the processes that wait for the data of run n.
FollowersFound(n) ==
  IF runs[n].result /\ runs[n].automatic THEN Followers(runs[n].process) ELSE {}

\* The pairs of a handler, and all that are on their way.
OfHandler(h) == {h.run} \X (IF h.stage = "lookup" THEN FollowersFound(h.run) ELSE h.todo)

InFlight ==
  (UNION {OnConnection(s) : s \in Services}) \cup (UNION {OfHandler(h) : h \in handlers})

\* The handler queries the database.  Whoever is inactive is not started, except the
\* alert of a view.
Lookup(h) ==
  /\ h.stage = "lookup"
  /\ LET found == FollowersFound(h.run)
         wanted == {q \in found : q \in active \/ runs[h.run].process \in Views}
     IN \/ /\ handlers' = (handlers \ {h}) \cup
                IF wanted = {} THEN {} ELSE {[run |-> h.run, stage |-> "start", todo |-> wanted]}
           /\ excused' = excused \cup {h.run} \X (found \ wanted)
           /\ UNCHANGED faults
        \/ /\ Fault("database")
           /\ handlers' = handlers \ {h}
           /\ excused' = excused \cup {h.run} \X found
  /\ UNCHANGED <<active, network, queue, runs, owed, started, clock, starts>>

\* A process is started on the date of the run it follows.
StartNext(h) ==
  /\ h.stage = "start" /\ runs[h.run].process \notin Views
  /\ \E q \in h.todo :
       /\ Send(Host(q), <<StartMessage(q, runs[h.run].date, h.run)>>)
       /\ handlers' = (handlers \ {h}) \cup
            IF h.todo = {q} THEN {} ELSE {[h EXCEPT !.todo = @ \ {q}]}
  /\ UNCHANGED <<active, link, wire, buffer, queue, runs, owed, started, bounds>>

\* The alert of a view is started on the present date.
StartAlert(h) ==
  /\ h.stage = "start" /\ runs[h.run].process \in Views
  /\ \E q \in h.todo :
       /\ Send(Host(q), <<StartMessage(q, clock, h.run), Log>>)
       /\ handlers' = handlers \ {h}
  /\ UNCHANGED <<active, link, wire, buffer, queue, runs, owed, started, bounds>>

\* The web application dies: its handlers and its connections are gone.
Restart ==
  /\ Fault("restart")
  /\ handlers' = {}
  /\ link' = [s \in Services |-> IF HasData(s) THEN "closed" ELSE "dead"]
  /\ inbox' = [s \in Services |-> <<>>]
  /\ wire' = [s \in Services |-> <<>>]
  /\ buffer' = [s \in Services |-> <<>>]
  /\ excused' = excused \cup InFlight
  /\ UNCHANGED <<active, queue, runs, owed, started, clock, starts>>

-----------------------------------------------------------------------------

ChainInit ==
  /\ active = Processes /\ handlers = {}
  /\ link = [s \in Services |-> "told"]
  /\ inbox = [s \in Services |-> <<>>]
  /\ wire = [s \in Services |-> <<>>]
  /\ buffer = [s \in Services |-> <<>>]
  /\ queue = [p \in Processes |-> <<>>]
  /\ runs = <<>>
  /\ owed = {} /\ started = {} /\ excused = {}
  /\ clock = 0 /\ starts = 0 /\ faults = 0

Read(s, k) == ReadLog(s, k) \/ ReadStart(s, k) \/ ReadTooEarly(s, k)
Handle(h) == Lookup(h) \/ StartNext(h) \/ StartAlert(h)

ChainNext ==
  \/ \E p \in Processes : Timer(p) \/ UserRun(p) \/ Edit(p) \/ Execute(p)
  \/ \E s \in Services :
       \/ Crash(s) \/ Cut(s) \/ Connect(s) \/ ReadDeadly(s)
       \/ \E k \in 1..Len(inbox[s]) : Read(s, k)
       \/ \E k \in 1..Len(wire[s]) : Deliver(s, k)
  \/ \E h \in handlers : Handle(h)
  \/ Restart \/ Tick

ChainSpec == ChainInit /\ [][ChainNext]_chainVars

\* Messages arrive and are read, handlers go on.
ChainFairness ==
  /\ WF_chainVars(\E s \in Services : \E k \in 1..Len(inbox[s]) : Read(s, k))
  /\ WF_chainVars(\E s \in Services : \E k \in 1..Len(wire[s]) : Deliver(s, k))
  /\ WF_chainVars(\E h \in handlers : Handle(h))

ChainFairSpec == ChainSpec /\ ChainFairness

-----------------------------------------------------------------------------
(* Properties *)

\* Every variable has its type; tempBuffer holds nothing or a header that waits for its
\* text.
ChainTypeOK ==
  /\ active \subseteq Processes
  /\ link \in [Services -> {"told", "closed", "open", "dead"}]
  /\ \A h \in handlers :
       /\ h.run \in 1..Len(runs)
       /\ h.stage = "start" => h.todo # {} /\ h.todo \subseteq Followers(runs[h.run].process)
  /\ \A s \in Services :
       /\ buffer[s] \in {<<>>} \cup {SubSeq(Units(n), 1, 2) : n \in 1..Len(runs)}
       /\ ~Connected(s) => inbox[s] = <<>> /\ wire[s] = <<>> /\ buffer[s] = <<>>
  /\ clock \in 0..MaxClock /\ starts \in 0..MaxStarts /\ faults \in 0..MaxFaults
  /\ owed \cup started \cup excused \subseteq (1..Len(runs)) \X Processes

\* Every variable has its type, and each process that has to follow a run was started
\* or excused or is on its way, and nothing else is: no start is lost on the way, none
\* is doubled and none made up.
\* Without a fault only what the user has made inactive is excused.
Accounted ==
  /\ ChainTypeOK
  /\ owed \ (started \cup excused) = InFlight
  /\ started \cup excused \subseteq owed
  /\ started \cap excused = {}
  /\ faults = 0 => \A e \in excused : e[2] \in Edited

\* What waits to be executed because another process has finished follows a run of an
\* input of its that was a success, on the date of that run; the alert of a view
\* follows its view, also when the user asks for it, and not on an earlier date.
OnlyAfterSuccess ==
  \A q \in Processes : \A k \in DOMAIN queue[q] :
    LET r == queue[q][k]
        cause == runs[r.from]
    IN /\ r.from = 0 => \A v \in Views : <<v, q>> \notin Watches
       /\ r.from # 0 =>
            /\ cause.result /\ cause.automatic
            /\ \/ <<cause.process, q>> \in Inputs /\ r.date = cause.date
               \/ <<cause.process, q>> \in Watches /\ r.date >= cause.date

\* Whatever has to follow a run is started in the end, or excused.
Followed == []<>(owed = started \cup excused)
=============================================================================
