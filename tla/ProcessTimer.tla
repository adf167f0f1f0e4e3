------------------------------ MODULE ProcessTimer ------------------------------
(***************************************************************************)
(* When a scheduled process is executed: the Timer of one process, which   *)
(* asks for an execution and computes the next one from its schedule, and  *)
(* the service that makes the timer anew after a restart or an edit, from  *)
(* the last execution that the log has.                                    *)
(*                                                                         *)
(* Time is counted in ticks, a whole number of them in a second, since the *)
(* code cuts what it computes to seconds and its clock does not.  Tick 0   *)
(* is a midnight (UTC) of weekday 0.                                       *)
(***************************************************************************)
EXTENDS Integers

CONSTANTS
  Second,     \* ticks
  Day,        \* ticks: 24 hours
  Week,       \* days: 7
  IntLimit,   \* 2^31 milliseconds, in ticks: what does not fit into an int
  Schedules,  \* schedules that the user gives to the process
  Never,      \* no instant
  MaxEarly,   \* how early a QTimer may be, in ticks: less than a second
  MaxLate,    \* bound: how long the main thread may keep a timer waiting, in ticks
  MaxTime     \* bound: the last tick

\* "frequency": every period seconds, for the first time at start, a time of the day
\*   in ticks, if there is one
\* "weekly": on a day of the week at a time of the day
\* "manual": only when asked for, as is a process that is not active
Schedule ==
  [kind : {"frequency"}, period : Nat \ {0}, start : 0..(Day - 1) \cup {Never}]
    \cup [kind : {"weekly"}, day : Nat, at : 0..(Day - 1)]
    \cup [kind : {"manual"}]

ASSUME ProcessTimerAssumption ==
  /\ Second \in Nat \ {0} /\ Day \in Nat \ {0} /\ Week \in Nat \ {0}
  /\ IntLimit \in Nat /\ (Week + 1) * Day < IntLimit /\ Second < IntLimit
  /\ Never \notin Int
  /\ Schedules \subseteq Schedule
  /\ MaxEarly \in 0..(Second - 1)
  /\ MaxLate \in Nat /\ MaxTime \in Nat

VARIABLES
  now,       \* the clock
  up,        \* the service runs
  logUp,     \* so does the database of the log
  schedule,  \* Process::schedule
  timer,     \* when timer_ comes, Never if there is no timer or it does not run
  lastEmit,  \* Timer::lastEmit_
  logged,    \* MAX(last_process_timestamp) of the process
  busy,      \* an execution has begun and may still write to the log
  request,   \* history: when the timer last asked for an execution and got it
  armed      \* history: when timer_ was last started

vars == <<now, up, logUp, schedule, timer, lastEmit, logged, busy, request, armed>>

-----------------------------------------------------------------------------
(* The arithmetic of Timer and TimeUtils *)

\* The difference of two TimeInstantTZ is in whole seconds.
Whole(ticks) == ticks \div Second

Midnight(t) == t - (t % Day)
WeekDay(t) == (t \div Day) % Week

\* Mutant: an hour that has passed is not put off until tomorrow.
FrequencySecondsPast(s, last, t) ==
  IF last # Never \/ s.start = Never
  THEN LET since == IF last = Never THEN 0 ELSE Whole(t - last)
       IN  IF since > s.period THEN 0 ELSE s.period - since
  ELSE Whole(Midnight(t) + s.start - t)

\* The seconds from t to the next emission of a frequency; last is the one before.
FrequencySeconds(s, last, t) ==
  IF last # Never \/ s.start = Never
  THEN LET since == IF last = Never THEN 0 ELSE Whole(t - last)
       IN  IF since > s.period THEN 0 ELSE s.period - since
  ELSE LET first == Midnight(t) + s.start
       IN  Whole((IF first < t THEN first + Day ELSE first) - t)

\* The days from t to the weekday d, in 0..Week-1: boost's next_weekday.
DaysUntil(d, t) == (d - WeekDay(t)) % Week

\* Mutant: the emission of today may follow at once.
ScheduleSecondsToday(s, t) ==
  LET next == Midnight(t) + DaysUntil(s.day, t) * Day + s.at
  IN  IF next < t THEN 0 ELSE Whole(next - t)

\* Mutant: the week is always added.
ScheduleSecondsNextWeek(s, t) ==
  Whole(Midnight(t) + (DaysUntil(s.day, t) + Week) * Day + s.at - t)

\* The seconds from t to the weekday and time of the schedule, not today.
ScheduleSeconds(s, t) ==
  LET days == DaysUntil(s.day, t)
  IN  Whole(Midnight(t) + (IF days = 0 THEN Week ELSE days) * Day + s.at - t)

SecondsToStart(s, last, t) ==
  IF s.kind = "frequency" THEN FrequencySeconds(s, last, t) ELSE ScheduleSeconds(s, t)

\* The conversion of a number of milliseconds to int.
AsInt(ticks) == ((ticks + IntLimit) % (2 * IntLimit)) - IntLimit

\* When timer_ may come if it is started at t: not at all with a negative interval.
Deadlines(t, seconds) ==
  LET interval == AsInt(IF seconds > 0 THEN seconds * Second ELSE Second)
  IN  IF interval < 0 THEN {Never} ELSE {t + interval - e : e \in 0..MaxEarly} \cap Nat

\* prepareTimer throws without a frequency and a schedule, which is a weekday and not 0,
\* and boost with a wrong weekday.
Valid(s) == s.kind = "frequency" \/ (s.kind = "weekly" /\ s.day \in 1..(Week - 1))

-----------------------------------------------------------------------------

\* Mutant: prepareTimer is called before the emission is remembered.
PrepareLate(s, last, t) ==
  /\ timer' \in Deadlines(t, SecondsToStart(s, lastEmit, t))
  /\ armed' = t

\* prepareTimer
PrepareTimer(s, last, t) ==
  /\ timer' \in Deadlines(t, SecondsToStart(s, last, t))
  /\ armed' = t

\* Mutant: the new timer knows of no emission.
NewTimerForgets(s) ==
  /\ schedule' = s
  /\ \/ /\ Valid(s) /\ logUp
        /\ lastEmit' = Never
        /\ PrepareTimer(s, Never, now)
     \/ /\ ~(Valid(s) /\ logUp)
        /\ timer' = Never /\ lastEmit' = Never
        /\ UNCHANGED armed

\* addProcessToSchedule: without the log there is no timer.
NewTimer(s) ==
  /\ schedule' = s
  /\ \/ /\ Valid(s) /\ logUp
        /\ lastEmit' = logged
        /\ PrepareTimer(s, logged, now)
     \/ /\ ~(Valid(s) /\ logUp)
        /\ timer' = Never /\ lastEmit' = Never
        /\ UNCHANGED armed

\* timeoutSlot: addToQueue writes the start of the execution to the log or gives up.
Timeout ==
  /\ up /\ timer # Never /\ timer <= now
  /\ \/ /\ logUp
        /\ request' = now /\ logged' = now /\ busy' = TRUE
     \/ /\ ~logUp
        /\ UNCHANGED <<request, logged, busy>>
  /\ lastEmit' = now
  /\ PrepareTimer(schedule, now, now)
  /\ UNCHANGED <<now, up, logUp, schedule>>

\* START_PROCESS: addToQueue without the timer.
StartProcess ==
  /\ up /\ logUp
  /\ logged' = now /\ busy' = TRUE
  /\ UNCHANGED <<now, up, logUp, schedule, timer, lastEmit, request, armed>>

\* An execution writes its status and the time to its register; it may be the last one.
Result ==
  /\ up /\ busy
  /\ logged' = (IF logUp THEN now ELSE logged)
  /\ busy' \in BOOLEAN
  /\ UNCHANGED <<now, up, logUp, schedule, timer, lastEmit, request, armed>>

\* The process is added, edited or removed: the old timer goes.
Edit(s) ==
  /\ up
  /\ NewTimer(s)
  /\ UNCHANGED <<now, up, logUp, logged, busy, request>>

Crash ==
  /\ up
  /\ up' = FALSE /\ timer' = Never /\ lastEmit' = Never /\ busy' = FALSE
  /\ UNCHANGED <<now, logUp, schedule, logged, request, armed>>

\* The service is told its processes again.
Restart ==
  /\ ~up
  /\ up' = TRUE
  /\ NewTimer(schedule)
  /\ UNCHANGED <<now, logUp, logged, busy, request>>

LogChanges ==
  /\ logUp' = ~logUp
  /\ UNCHANGED <<now, up, schedule, timer, lastEmit, logged, busy, request, armed>>

Tick ==
  /\ now < MaxTime
  /\ timer # Never => now < timer + MaxLate
  /\ now' = now + 1
  /\ UNCHANGED <<up, logUp, schedule, timer, lastEmit, logged, busy, request, armed>>

Init ==
  /\ now = 0 /\ up = TRUE /\ logUp = TRUE
  /\ schedule \in Schedules
  /\ IF Valid(schedule) THEN timer \in Deadlines(0, SecondsToStart(schedule, Never, 0)) ELSE timer = Never
  /\ lastEmit = Never /\ logged = Never /\ busy = FALSE /\ request = Never /\ armed = 0

Next ==
  \/ Timeout \/ StartProcess \/ Result
  \/ \E s \in Schedules : Edit(s)
  \/ Crash \/ Restart \/ LogChanges \/ Tick

Spec == Init /\ [][Next]_vars

-----------------------------------------------------------------------------
(* Properties *)

Instants == Nat \cup {Never}

\* Every variable has its type.
TypeOK ==
  /\ now \in Nat /\ up \in BOOLEAN /\ logUp \in BOOLEAN /\ busy \in BOOLEAN
  /\ schedule \in Schedules
  /\ timer \in Instants /\ lastEmit \in Instants
  /\ logged \in Instants /\ request \in Instants /\ armed \in Nat

\* The milliseconds of the period fit into an int; Timer.cpp:168 does not ask.
Fits(s) == s.kind = "frequency" /\ s.period * Second < IntLimit

\* Cutting to seconds and an early QTimer leave the hour of a weekly schedule on its day.
Inside(s) == s.kind = "weekly" /\ s.at >= 2 * Second /\ s.at + MaxLate < Day

Requested == request' # request

\* Two executions that the timer of a frequency asks for are a period apart (but for the
\* second that a QTimer may be early), also when the service has crashed or the process
\* was edited in between.
Spaced ==
  [][Requested /\ request # Never /\ Fits(schedule) =>
       request' - request > (schedule.period - 1) * Second]_vars

\* No longer than the period does the timer of a frequency wait after the last execution,
\* whether it or the log remembers it, and one that is late is made up for in a second.
NoLater ==
  timer # Never /\ Fits(schedule) /\ lastEmit # Never =>
    timer <= lastEmit + schedule.period * Second + Second \/ timer <= armed + Second

\* The timer comes for the first time at the hour that the user gave: at most a second
\* after it, and before it by less than the second that is cut off and what a QTimer may
\* be early, together less than two seconds.
FirstAtItsHour ==
  timer # Never /\ schedule.kind = "frequency" /\ lastEmit = Never /\ schedule.start # Never =>
    LET due == IF armed % Day > schedule.start THEN Midnight(armed) + Day + schedule.start
                                               ELSE Midnight(armed) + schedule.start
    IN  timer <= due + Second /\ timer + MaxEarly + Second > due

\* A weekly process is asked for on its day and less than two seconds before its hour at
\* the earliest, on no day twice, whatever crashes and edits there were.
OnItsDay ==
  [][Requested /\ Inside(schedule) =>
       /\ WeekDay(request') = schedule.day
       /\ request' % Day > schedule.at - 2 * Second
       /\ request # Never => Midnight(request) < Midnight(request')]_vars

\* No such day after the one when the timer was started passes without an execution.
NoWeekMissed ==
  timer # Never /\ Inside(schedule) =>
    \A d \in (armed \div Day + 1)..(timer \div Day) :
      d % Week = schedule.day => d * Day + schedule.at >= timer
=============================================================================
