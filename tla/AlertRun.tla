-------------------------------- MODULE AlertRun --------------------------------
(***************************************************************************)
(* An alert on the results of an analysis of monitored objects: the dates  *)
(* that the analysis stores, one after the other or again, and the         *)
(* executions of the alert that follow each of them.  An execution reads   *)
(* the newest dates that it finds, not those of its execution date,        *)
(* computes the level of each object and whether it has changed, and sends *)
(* its notifications one by one.                                           *)
(*                                                                         *)
(* Executions follow each other as ServiceQueue has it, and each storage   *)
(* starts one, unless AutomaticChain loses it.  A date is a number, a      *)
(* value a number that the legend maps to a level.                         *)
(***************************************************************************)
EXTENDS Naturals, Sequences, FiniteSets

CONSTANTS
  Objects,     \* the monitored objects
  Null, NoRow, \* no value; no row for an object
  Results,     \* what the analysis may store for a date: a value for each object
  Thresholds,  \* the values of the levels of the legend, ascending
  Notifications, \* sequence of [level, change]: notify_on_legend_level, notify_on_change
  LastValues,  \* number of dates that are read
  Faults,      \* what may fail: see FaultKinds
  MaxDates,    \* bound: dates
  MaxRedone,   \* bound: dates that are stored again
  MaxFaults    \* bound: faults

\* "data": the legend is not registered or the data cannot be read
\* "config": no mail server or a bad attachment, a NotifierException
\* "server": the mail server cannot be reached, which is no NotifierException
FaultKinds == {"data", "config", "server"}

ASSUME AlertRunAssumption ==
  /\ Null \notin Nat /\ NoRow \notin Nat \cup {Null}
  /\ \A row \in Results : /\ row \in [Objects -> Nat \cup {Null, NoRow}]
                          /\ \E o \in Objects : row[o] # NoRow
  /\ Thresholds \in Seq(Nat)
  /\ Notifications \in Seq([level : Nat, change : BOOLEAN])
  /\ LastValues \in Nat \ {0}
  /\ Faults \subseteq FaultKinds
  /\ MaxDates \in Nat /\ MaxRedone \in Nat /\ MaxFaults \in Nat

VARIABLES
  table,     \* what is stored for each date: a function of the objects, or Nothing
  newest,    \* the newest date that was ever stored
  erased,    \* dates that are being computed again
  queue,     \* execution dates of the starts of the alert
  stage,     \* "idle", "read" or "notify"
  date,      \* executionDate of the execution
  report,    \* what it has made of what it has read
  next,      \* the next of the notifications
  tried,     \* the notifications it has tried to send: notify is tried # {}
  signal,    \* alertFinished of the last execution: "none", "failed", "done" or "notify"
  told,      \* history: pairs <<k, d>>: notification k was sent when d was the newest date
  astray,    \* history: execution dates for which another date was the newest
  unsent,    \* history: dates for which something failed
  redone,    \* history: the dates that were erased
  faults     \* number of faults

data == <<table, newest, erased, redone>>
execution == <<stage, date, report, next, tried, signal>>
history == <<told, astray, unsent, faults>>
vars == <<data, queue, execution, history>>

Dates == 1..MaxDates
Nothing == [o \in {} |-> NoRow]
Stored == {d \in Dates : table[d] # Nothing}

\* std::numeric_limits<uint32_t>::max() as the level of what has none.
Default == Len(Thresholds) + 1

-----------------------------------------------------------------------------
(* The analysis *)

\* It stores its next date; the alert is started.
Store(row) ==
  /\ newest < MaxDates
  /\ newest' = newest + 1
  /\ table' = [table EXCEPT ![newest + 1] = row]
  /\ queue' = Append(queue, newest + 1)
  /\ UNCHANGED <<erased, redone, execution, history>>

\* It is executed again for a date: the result of that date is erased.
Erase(d) ==
  /\ d \in Stored \ redone
  /\ Cardinality(redone) < MaxRedone
  /\ redone' = redone \cup {d}
  /\ erased' = erased \cup {d}
  /\ table' = [table EXCEPT ![d] = Nothing]
  /\ UNCHANGED <<newest, queue, execution, history>>

StoreAgain(d, row) ==
  /\ d \in erased
  /\ erased' = erased \ {d}
  /\ table' = [table EXCEPT ![d] = row]
  /\ queue' = Append(queue, d)
  /\ UNCHANGED <<newest, redone, execution, history>>

-----------------------------------------------------------------------------
(* What an execution makes of its data *)

MaxOf(S) == CHOOSE n \in S : \A m \in S : m <= n

\* The newest dates.
ReadDates ==
  {d \in Stored : Cardinality({e \in Stored : e > d}) < LastValues}

\* Mutant: the first level that is above the value.
LevelAbove(value) ==
  LET above == {k \in DOMAIN Thresholds : value # Null /\ Thresholds[k] > value}
  IN IF above = {} THEN Default ELSE CHOOSE k \in above : \A j \in above : k <= j

\* riskLevel: the first level that is not below the value; a null value is above all.
Level(value) ==
  LET above == {k \in DOMAIN Thresholds : value # Null /\ Thresholds[k] >= value}
  IN IF above = {} THEN Default ELSE CHOOSE k \in above : \A j \in above : k <= j

\* Mutant: an object that had no level is compared, too.
ComparesAny(current, past) ==
  /\ current # NoRow /\ past # NoRow
  /\ Level(current) # Default
  /\ Level(current) # Level(past)

\* Does the comparison of an object with the date before say lower or higher?
Compares(current, past) ==
  /\ current # NoRow /\ past # NoRow
  /\ Level(current) # Default /\ Level(past) # Default
  /\ Level(current) # Level(past)

Levels(row) == {Level(row[o]) : o \in {p \in Objects : row[p] # NoRow}} \ {Default}

\* maxRisk_ of the report: the greatest level at the last date, 0 if there is none.
MaxRisk(S) ==
  LET levels == Levels(table[MaxOf(S)])
  IN IF levels = {} THEN 0 ELSE MaxOf(levels)

\* riskChanged_ of the report.
RiskChanged(S) ==
  /\ Cardinality(S) > 1
  /\ LET last == MaxOf(S)
         previous == MaxOf(S \ {last})
     IN \E o \in Objects : Compares(table[last][o], table[previous][o])

-----------------------------------------------------------------------------
(* An execution *)

NoReport == [date |-> 0, changed |-> FALSE, max |-> 0]

Begin ==
  /\ stage = "idle" /\ queue # <<>>
  /\ stage' = "read"
  /\ date' = Head(queue)
  /\ queue' = Tail(queue)
  /\ UNCHANGED <<data, report, next, tried, signal, history>>

Ends(how) ==
  /\ stage' = "idle" /\ signal' = how
  /\ date' = 0 /\ report' = NoReport /\ next' = 1 /\ tried' = {}

\* The data is read and the report made.
Read ==
  /\ stage = "read"
  /\ ReadDates # {}
  /\ stage' = "notify"
  /\ LET last == MaxOf(ReadDates)
     IN /\ report' = [date |-> last, changed |-> RiskChanged(ReadDates), max |-> MaxRisk(ReadDates)]
        /\ astray' = IF last = date THEN astray ELSE astray \cup {date}
  /\ UNCHANGED <<data, queue, date, next, tried, signal, told, unsent, faults>>

\* Bound: MaxFaults.
Fails(kind, d) ==
  /\ kind \in Faults /\ faults < MaxFaults
  /\ faults' = faults + 1
  /\ unsent' = unsent \cup {d}
  /\ UNCHANGED told

ReadFails ==
  /\ stage = "read"
  /\ Fails("data", date)
  /\ Ends("failed")
  /\ UNCHANGED <<data, queue, astray>>

\* There is none.
ReadNothing ==
  /\ stage = "read"
  /\ ReadDates = {}
  /\ Ends("failed")
  /\ UNCHANGED <<data, queue, history>>

\* The conditions of a notification: on a level, on a change, on both, or none.
Wanted(n) ==
  \/ n.level > 0 /\ n.level <= report.max /\ (n.change => report.changed)
  \/ n.level = 0 /\ n.change /\ report.changed
  \/ n.level = 0 /\ ~n.change

More == stage = "notify" /\ next <= Len(Notifications)

Skip ==
  /\ More
  /\ ~Wanted(Notifications[next])
  /\ next' = next + 1
  /\ UNCHANGED <<data, queue, stage, date, report, tried, signal, history>>

Tries == More /\ Wanted(Notifications[next])

GoesOn ==
  /\ next' = next + 1
  /\ tried' = tried \cup {next}
  /\ UNCHANGED <<data, queue, stage, date, report, signal, astray>>

Notify ==
  /\ Tries
  /\ told' = told \cup {<<next, report.date>>}
  /\ GoesOn
  /\ UNCHANGED <<unsent, faults>>

\* A NotifierException is logged and the next notification is turned to.
NotifyFails == Tries /\ Fails("config", report.date) /\ GoesOn

\* Any other exception ends the execution, whatever was sent before.
NotifyThrows ==
  /\ Tries
  /\ Fails("server", report.date)
  /\ Ends("failed")
  /\ UNCHANGED <<data, queue, astray>>

\* Mutant: the last notification is left out.
FinishEarly ==
  /\ stage = "notify" /\ next >= Len(Notifications)
  /\ Ends(IF tried # {} THEN "notify" ELSE "done")
  /\ UNCHANGED <<data, queue, history>>

Finish ==
  /\ stage = "notify" /\ next > Len(Notifications)
  /\ Ends(IF tried # {} THEN "notify" ELSE "done")
  /\ UNCHANGED <<data, queue, history>>

-----------------------------------------------------------------------------

Init ==
  /\ table = [d \in Dates |-> Nothing] /\ newest = 0 /\ erased = {} /\ redone = {}
  /\ queue = <<>>
  /\ stage = "idle" /\ date = 0 /\ report = NoReport /\ next = 1 /\ tried = {} /\ signal = "none"
  /\ told = {} /\ astray = {} /\ unsent = {} /\ faults = 0

Execution == Begin \/ Read \/ ReadFails \/ ReadNothing \/ Skip \/ Notify \/ NotifyFails \/ NotifyThrows \/ Finish

Next ==
  \/ \E row \in Results : Store(row)
  \/ \E d \in Dates : Erase(d) \/ \E row \in Results : StoreAgain(d, row)
  \/ Execution

Spec == Init /\ [][Next]_vars

-----------------------------------------------------------------------------
(* Properties *)

TypeOK ==
  /\ table \in [Dates -> Results \cup {Nothing}]
  /\ newest \in 0..MaxDates
  /\ erased \subseteq redone /\ redone \subseteq 1..newest
  /\ queue \in Seq(1..newest)
  /\ stage \in {"idle", "read", "notify"} /\ date \in 0..newest
  /\ report \in [date : 0..newest, changed : BOOLEAN, max : 0..Len(Thresholds)]
  /\ next \in 1..(Len(Notifications) + 1) /\ tried \subseteq 1..(next - 1)
  /\ signal \in {"none", "failed", "done", "notify"}
  /\ told \subseteq (DOMAIN Notifications) \X (1..newest)
  /\ astray \subseteq 1..newest /\ unsent \subseteq 1..newest
  /\ faults \in 0..MaxFaults

\* What the table says, by the thresholds alone: a value has a level if one is
\* not below it, and two have the same level if no threshold parts them.
HasLevel(value) == value \notin {Null, NoRow} /\ \E k \in DOMAIN Thresholds : value <= Thresholds[k]
Reaches(d, level) ==
  \E o \in Objects : /\ HasLevel(table[d][o])
                     /\ level > 1 => Thresholds[level - 1] < table[d][o]
Changes(d) ==
  /\ d > 1
  /\ \E o \in Objects :
       /\ HasLevel(table[d][o]) /\ HasLevel(table[d - 1][o])
       /\ \E k \in DOMAIN Thresholds : (table[d][o] <= Thresholds[k]) # (table[d - 1][o] <= Thresholds[k])
Due(n, d) == (n.level > 0 => Reaches(d, n.level)) /\ (n.change => Changes(d))

\* Nothing is under way and what the dates have is what they had.
Settled(d) == stage = "idle" /\ queue = <<>> /\ d <= newest /\ {d - 1, d} \cap redone = {}

\* Every date whose results reach the level, or change a level, that a
\* notification asks about is told, unless the execution of that date read
\* another date or sending failed: runAlert, Report and the filter of the last
\* dates agree with the legend.
EachDateTold ==
  \A d \in Dates, k \in DOMAIN Notifications :
    (Settled(d) /\ Due(Notifications[k], d) /\ d \notin astray \cup unsent) => <<k, d>> \in told

\* What notification n asks about at date d is what it was when d was told: the
\* date was not computed again nor, for a change, the date before.
Stands(n, d) == d \notin redone /\ (n.change => d - 1 \notin redone)

\* No target is told of a date that does not have what it asks about, not even
\* by an execution that read another date than its own.  While a date is
\* computed again it is missing, and a report on the next one finds the change
\* since the date before it: of what was computed again nothing is said.
\* Every variable has its type.
NothingElseTold ==
  /\ TypeOK
  /\ \A d \in Dates, k \in DOMAIN Notifications :
       (<<k, d>> \in told /\ Stands(Notifications[k], d)) => Due(Notifications[k], d)

\* An execution that ends as done has tried every notification that its report
\* calls for, though one of them could not be sent.
DoneMeansTried ==
  [][(stage = "notify" /\ signal' # "failed" /\ stage' = "idle") =>
       \A k \in DOMAIN Notifications :
         LET n == Notifications[k]
         IN ((n.change => report.changed) /\ n.level <= report.max) => k \in tried]_vars
=============================================================================
