--------------------------- MODULE ProcessTimerProofs ---------------------------
(***************************************************************************)
(* What holds of the timer of a process for every calendar, every set of   *)
(* schedules and every bound: its variables have their types; the          *)
(* executions that a frequency asks for are a period apart, no later, and  *)
(* the first of them is at the hour that the user gave; a weekly process   *)
(* is asked for on its day and no such day is missed.                      *)
(***************************************************************************)
EXTENDS ProcessTimer, TLAPS

-----------------------------------------------------------------------------
(* Arithmetic *)

\* What the whole seconds of a difference say of the difference.
LEMMA WholeBounds ==
  ASSUME NEW d \in Nat
  PROVE  /\ Whole(d) \in Nat
         /\ Whole(d) * Second <= d
         /\ d < Whole(d) * Second + Second
BY ProcessTimerAssumption, SMT DEF Whole

\* What fits into an int is left as it is.
LEMMA AsIntFits ==
  ASSUME NEW x \in Nat, x < IntLimit
  PROVE  AsInt(x) = x
<1>1. IntLimit \in Nat \ {0}
  BY ProcessTimerAssumption
<1>2. x + IntLimit \in Nat /\ x + IntLimit < 2 * IntLimit
  BY <1>1
<1>3. (x + IntLimit) % (2 * IntLimit) = x + IntLimit
  BY <1>1, <1>2, SMT
<1>. QED BY <1>1, <1>3 DEF AsInt

\* A timer is not started or comes at some tick.
LEMMA DeadlinesType ==
  ASSUME NEW t, NEW seconds
  PROVE  Deadlines(t, seconds) \subseteq Instants
BY DEF Deadlines, Instants

\* A schedule that fits has a period.
LEMMA PeriodType ==
  ASSUME NEW s \in Schedules, Fits(s)
  PROVE  s.period \in Nat /\ s.period # 0 /\ s.period * Second \in Nat
<1>1. s \in Schedule /\ s.kind = "frequency"
  BY ProcessTimerAssumption DEF Fits
<1>2. s.period \in Nat \ {0}
  BY <1>1 DEF Schedule
<1>. QED BY <1>2, ProcessTimerAssumption

\* When a timer comes that is started at t, after the execution at last.
LEMMA DeadlineBounds ==
  ASSUME NEW s \in Schedules, Fits(s),
         NEW last \in Nat, NEW t \in Nat, last <= t,
         NEW d \in Deadlines(t, FrequencySeconds(s, last, t))
  PROVE  /\ d \in Nat
         /\ d > last + (s.period - 1) * Second
         /\ d <= last + s.period * Second + Second \/ d <= t + Second
<1>. DEFINE q == Whole(t - last)
            p == s.period
<1>1. Second \in Nat \ {0} /\ Second < IntLimit /\ IntLimit \in Nat /\ MaxEarly \in 0..(Second - 1)
  BY ProcessTimerAssumption
<1>2. p \in Nat /\ p * Second \in Nat /\ p * Second < IntLimit
  BY PeriodType DEF Fits
<1>3. q \in Nat /\ q * Second \in Nat /\ q * Second <= t - last /\ t - last < q * Second + Second
  <2>1. t - last \in Nat
    OBVIOUS
  <2>. QED BY <2>1, WholeBounds, <1>1
<1>4. (p - 1) * Second = p * Second - Second
  BY <1>1, <1>2
<1>5. last # Never
  BY ProcessTimerAssumption
<1>6. FrequencySeconds(s, last, t) = IF q > p THEN 0 ELSE p - q
  BY <1>5 DEF FrequencySeconds
<1>7. CASE q >= p
  <2>1. q * Second >= p * Second
    BY <1>1, <1>2, <1>3, <1>7
  <2>2. FrequencySeconds(s, last, t) = 0
    BY <1>2, <1>3, <1>6, <1>7
  <2>3. AsInt(Second) = Second
    BY <1>1, AsIntFits
  <2>4. d \in {t + Second - e : e \in 0..MaxEarly} \cap Nat
    BY <2>2, <2>3, <1>1 DEF Deadlines
  <2>5. PICK e \in 0..MaxEarly : d = t + Second - e
    BY <2>4
  <2>. QED BY <2>1, <2>4, <2>5, <1>1, <1>2, <1>3, <1>4
<1>8. CASE q < p
  <2>. DEFINE w == (p - q) * Second
  <2>1. w = p * Second - q * Second
    BY <1>1, <1>2, <1>3
  <2>2. p - q \in Nat /\ p - q > 0 /\ FrequencySeconds(s, last, t) = p - q
    BY <1>2, <1>3, <1>6, <1>8
  <2>3. w \in Nat /\ w < IntLimit
    <3>1. w \in Nat
      BY <2>2, <1>1
    <3>. QED BY <3>1, <2>1, <1>1, <1>2, <1>3
  <2>4. AsInt(w) = w
    BY <2>3, AsIntFits
  <2>5. d \in {t + w - e : e \in 0..MaxEarly} \cap Nat
    BY <2>2, <2>3, <2>4 DEF Deadlines
  <2>6. PICK e \in 0..MaxEarly : d = t + w - e
    BY <2>5
  <2>. HIDE DEF w
  <2>. QED BY <2>1, <2>3, <2>5, <2>6, <1>1, <1>2, <1>3, <1>4
<1>. QED BY <1>2, <1>3, <1>7, <1>8

-----------------------------------------------------------------------------
(* Types *)

LEMMA PrepareTimerType ==
  ASSUME NEW s, NEW last, NEW t \in Nat, PrepareTimer(s, last, t)
  PROVE  timer' \in Instants /\ armed' \in Nat
BY DeadlinesType DEF PrepareTimer

LEMMA NewTimerType ==
  ASSUME TypeOK, NEW s \in Schedules, NewTimer(s)
  PROVE  schedule' \in Schedules /\ timer' \in Instants /\ lastEmit' \in Instants /\ armed' \in Nat
<1>1. now \in Nat /\ logged \in Instants /\ armed \in Nat /\ Never \in Instants
  BY DEF TypeOK, Instants
<1>2. CASE Valid(s) /\ logUp
  BY <1>1, <1>2, PrepareTimerType DEF NewTimer
<1>3. CASE ~(Valid(s) /\ logUp)
  BY <1>1, <1>3 DEF NewTimer
<1>. QED BY <1>2, <1>3

LEMMA TypeInit == Init => TypeOK
<1>. SUFFICES ASSUME Init PROVE TypeOK
  OBVIOUS
<1>1. timer \in Instants
  BY DeadlinesType DEF Init, Instants
<1>. QED BY <1>1 DEF Init, TypeOK, Instants

LEMMA TypeNext == TypeOK /\ [Next]_vars => TypeOK'
<1>. SUFFICES ASSUME TypeOK, [Next]_vars PROVE TypeOK'
  OBVIOUS
<1>0. now \in Nat /\ now \in Instants /\ Never \in Instants /\ logged \in Instants
  BY DEF TypeOK, Instants
<1>1. CASE Timeout
  <2>1. timer' \in Instants /\ armed' \in Nat
    BY <1>0, <1>1, PrepareTimerType DEF Timeout
  <2>2. /\ request' \in Instants /\ logged' \in Instants /\ busy' \in BOOLEAN
        /\ lastEmit' \in Instants
    BY <1>0, <1>1 DEF Timeout, TypeOK
  <2>. QED BY <1>1, <2>1, <2>2 DEF Timeout, TypeOK
<1>2. CASE StartProcess
  BY <1>0, <1>2 DEF StartProcess, TypeOK
<1>3. CASE Result
  BY <1>0, <1>3 DEF Result, TypeOK
<1>4. ASSUME NEW s \in Schedules, Edit(s) PROVE TypeOK'
  BY <1>4, NewTimerType DEF Edit, TypeOK
<1>5. CASE Crash
  BY <1>0, <1>5 DEF Crash, TypeOK
<1>6. CASE Restart
  <2>1. schedule \in Schedules /\ NewTimer(schedule)
    BY <1>6 DEF Restart, TypeOK
  <2>2. /\ schedule' \in Schedules /\ timer' \in Instants /\ lastEmit' \in Instants
        /\ armed' \in Nat
    BY <2>1, NewTimerType
  <2>. QED BY <1>6, <2>2 DEF Restart, TypeOK
<1>7. CASE LogChanges
  BY <1>7 DEF LogChanges, TypeOK
<1>8. CASE Tick
  BY <1>0, <1>8 DEF Tick, TypeOK
<1>9. CASE UNCHANGED vars
  BY <1>9 DEF vars, TypeOK
<1>. QED BY <1>1, <1>2, <1>3, <1>4, <1>5, <1>6, <1>7, <1>8, <1>9 DEF Next

\* The clock, the timer, the log and the schedule of a process keep their types.
THEOREM TimerTypeCorrect == Spec => []TypeOK
BY TypeInit, TypeNext, PTL DEF Spec

-----------------------------------------------------------------------------
(* Executions a period apart *)

\* The clock is ahead of all that the timer and the log remember.
Past ==
  /\ lastEmit # Never => lastEmit <= now
  /\ logged # Never => logged <= now
  /\ armed <= now

\* What the timer has asked for is remembered by the log and by every timer.
Remembered ==
  request # Never =>
    /\ logged # Never /\ request <= logged
    /\ timer # Never => lastEmit # Never /\ request <= lastEmit

\* The timer that runs keeps its distance to what it remembers, on both sides.
Distance ==
  timer # Never /\ Fits(schedule) /\ lastEmit # Never =>
    /\ timer > lastEmit + (schedule.period - 1) * Second
    /\ timer <= lastEmit + schedule.period * Second + Second \/ timer <= armed + Second

SpacedInv == TypeOK /\ Past /\ Remembered /\ Distance

LEMMA PrepareTimerDistance ==
  ASSUME NEW s \in Schedules, NEW last \in Nat, NEW t \in Nat, last <= t,
         Fits(s), PrepareTimer(s, last, t)
  PROVE  /\ timer' > last + (s.period - 1) * Second
         /\ timer' <= last + s.period * Second + Second \/ timer' <= armed' + Second
<1>1. SecondsToStart(s, last, t) = FrequencySeconds(s, last, t)
  BY DEF SecondsToStart, Fits
<1>2. timer' \in Deadlines(t, FrequencySeconds(s, last, t)) /\ armed' = t
  BY <1>1 DEF PrepareTimer
<1>. QED BY <1>2, DeadlineBounds

LEMMA NewTimerKeeps ==
  ASSUME SpacedInv, NEW s \in Schedules, NewTimer(s), UNCHANGED <<now, logged, request>>
  PROVE  Past' /\ Remembered' /\ Distance'
<1>. USE DEF SpacedInv
<1>1. now \in Nat /\ logged \in Instants /\ request \in Instants /\ Never \notin Nat
  BY ProcessTimerAssumption DEF TypeOK
<1>2. CASE Valid(s) /\ logUp
  <2>1. schedule' = s /\ lastEmit' = logged /\ PrepareTimer(s, logged, now)
    BY <1>2 DEF NewTimer
  <2>2. Past'
    BY <1>1, <2>1 DEF Past, PrepareTimer
  <2>3. Remembered'
    BY <2>1 DEF Remembered
  <2>4. Distance'
    <3>1. SUFFICES ASSUME Fits(s), logged # Never
                   PROVE  /\ timer' > logged + (s.period - 1) * Second
                          /\ \/ timer' <= logged + s.period * Second + Second
                             \/ timer' <= armed' + Second
      BY <2>1 DEF Distance, Fits
    <3>2. logged \in Nat /\ logged <= now
      BY <1>1, <3>1 DEF Instants, Past
    <3>. QED BY <1>1, <2>1, <3>1, <3>2, PrepareTimerDistance
  <2>. QED BY <2>2, <2>3, <2>4
<1>3. CASE ~(Valid(s) /\ logUp)
  <2>1. timer' = Never /\ lastEmit' = Never /\ armed' = armed
    BY <1>3 DEF NewTimer
  <2>. QED BY <2>1 DEF Past, Remembered, Distance
<1>. QED BY <1>2, <1>3

LEMMA SpacedInit == Init => SpacedInv
<1>. SUFFICES ASSUME Init PROVE SpacedInv
  OBVIOUS
<1>1. TypeOK
  BY TypeInit
<1>2. Past /\ Remembered /\ Distance
  BY DEF Init, Past, Remembered, Distance
<1>. QED BY <1>1, <1>2 DEF SpacedInv

LEMMA SpacedNext == SpacedInv /\ [Next]_vars => SpacedInv'
<1>. SUFFICES ASSUME SpacedInv, [Next]_vars PROVE Past' /\ Remembered' /\ Distance'
  BY TypeNext DEF SpacedInv
<1>. USE DEF SpacedInv
<1>0. now \in Nat /\ Never \notin Nat /\ logged \in Instants /\ schedule \in Schedules
  BY ProcessTimerAssumption DEF TypeOK
<1>1. CASE Timeout
  <2>1. lastEmit' = now /\ now' = now /\ schedule' = schedule /\ PrepareTimer(schedule, now, now)
    BY <1>1 DEF Timeout
  <2>2. Past'
    BY <1>0, <1>1, <2>1 DEF Timeout, Past, PrepareTimer
  <2>3. request \in Instants /\ lastEmit \in Instants
    BY DEF TypeOK
  <2>4. Remembered'
    BY <1>0, <1>1, <2>1, <2>3 DEF Timeout, Remembered, Past, Instants
  <2>5. Distance'
    <3>1. SUFFICES ASSUME Fits(schedule)
                   PROVE  /\ timer' > now + (schedule.period - 1) * Second
                          /\ \/ timer' <= now + schedule.period * Second + Second
                             \/ timer' <= armed' + Second
      BY <2>1 DEF Distance, Fits
    <3>. QED BY <1>0, <2>1, <3>1, PrepareTimerDistance
  <2>. QED BY <2>2, <2>4, <2>5
<1>2. CASE StartProcess \/ Result
  <2>1. /\ logged' \in {now, logged}
        /\ UNCHANGED <<now, schedule, timer, lastEmit, request, armed>>
    BY <1>2 DEF StartProcess, Result
  <2>2. request \in Instants
    BY DEF TypeOK
  <2>. QED BY <1>0, <2>1, <2>2 DEF Past, Remembered, Distance, Fits, Instants
<1>3. ASSUME NEW s \in Schedules, Edit(s) PROVE Past' /\ Remembered' /\ Distance'
  BY <1>3, NewTimerKeeps DEF Edit
<1>4. CASE Crash
  BY <1>4 DEF Crash, Past, Remembered, Distance
<1>5. CASE Restart
  BY <1>0, <1>5, NewTimerKeeps DEF Restart
<1>6. CASE LogChanges \/ UNCHANGED vars
  <2>1. UNCHANGED <<now, schedule, timer, lastEmit, logged, request, armed>>
    BY <1>6 DEF LogChanges, vars
  <2>. QED BY <2>1 DEF Past, Remembered, Distance, Fits
<1>7. CASE Tick
  <2>1. now' = now + 1 /\ UNCHANGED <<schedule, timer, lastEmit, logged, request, armed>>
    BY <1>7 DEF Tick
  <2>2. lastEmit \in Instants /\ armed \in Nat
    BY DEF TypeOK
  <2>3. Past'
    BY <1>0, <2>1, <2>2 DEF Past, Instants
  <2>. QED BY <2>1, <2>3 DEF Remembered, Distance, Fits
<1>. QED BY <1>1, <1>2, <1>3, <1>4, <1>5, <1>6, <1>7 DEF Next

\* The step that asks for an execution is the timeout of a timer that has kept its distance.
LEMMA SpacedStep ==
  ASSUME SpacedInv, [Next]_vars, Requested, request # Never, Fits(schedule)
  PROVE  request' - request > (schedule.period - 1) * Second
<1>. USE DEF SpacedInv
<1>1. Timeout
  BY DEF Requested, Next, StartProcess, Result, Edit, Crash, Restart, LogChanges, Tick, vars
<1>2. request' = now /\ timer # Never /\ timer <= now
  BY <1>1 DEF Timeout, Requested
<1>3. lastEmit # Never /\ request <= lastEmit /\ timer > lastEmit + (schedule.period - 1) * Second
  BY <1>2 DEF Remembered, Distance
<1>4. now \in Nat /\ timer \in Nat /\ lastEmit \in Nat /\ request \in Nat
  BY <1>2, <1>3 DEF TypeOK, Instants
<1>5. (schedule.period - 1) * Second \in Int
  BY PeriodType, ProcessTimerAssumption DEF TypeOK
<1>. QED BY <1>2, <1>3, <1>4, <1>5

\* Two executions that the timer of a frequency asks for are a period apart, through
\* crashes, edits and failures of the log.
THEOREM SpacedCorrect == Spec => Spaced
<1>1. SpacedInv /\ [Next]_vars =>
        [Requested /\ request # Never /\ Fits(schedule) =>
           request' - request > (schedule.period - 1) * Second]_vars
  BY SpacedStep
<1>. QED BY <1>1, SpacedInit, SpacedNext, PTL DEF Spec, Spaced

\* The timer of a frequency waits no longer than the period after what it remembers.
THEOREM NoLaterCorrect == Spec => []NoLater
<1>1. SpacedInv => NoLater
  BY DEF SpacedInv, Distance, NoLater
<1>. QED BY <1>1, SpacedInit, SpacedNext, PTL DEF Spec
-----------------------------------------------------------------------------
(* The calendar *)

LEMMA Division ==
  ASSUME NEW a \in Int, NEW w \in Nat \ {0}
  PROVE  /\ a \div w \in Int /\ a % w \in 0..(w - 1)
         /\ a = w * (a \div w) + (a % w)
<1>1. a \div w \in Int /\ a % w \in Int
  OBVIOUS
<1>2. 0 <= a % w /\ a % w < w
  BY SMT
<1>3. a = w * (a \div w) + (a % w)
  BY SMT
<1>. QED BY <1>1, <1>2, <1>3

LEMMA MultipleBelow ==
  ASSUME NEW w \in Nat \ {0}, NEW x \in Int, 0 - w < w * x, w * x < w
  PROVE  x = 0
<1>1. CASE x >= 1
  <2>1. w * x = w + w * (x - 1) /\ w * (x - 1) >= 0
    BY <1>1, SMT
  <2>. QED BY <2>1
<1>2. CASE x <= 0 - 1
  <2>1. w * x = (0 - w) + w * (x + 1) /\ w * (x + 1) <= 0
    BY <1>2, SMT
  <2>. QED BY <2>1
<1>. QED BY <1>1, <1>2

\* A quotient and a remainder are known by what they make together.
LEMMA DivisionUnique ==
  ASSUME NEW a \in Int, NEW w \in Nat \ {0}, NEW q \in Int, NEW r \in 0..(w - 1), a = w * q + r
  PROVE  a \div w = q /\ a % w = r
<1>1. a \div w \in Int /\ a % w \in 0..(w - 1) /\ a = w * (a \div w) + (a % w)
  BY Division
<1>2. w * (q - (a \div w)) = (a % w) - r
  BY <1>1
<1>3. q - (a \div w) = 0
  BY <1>1, <1>2, MultipleBelow
<1>. QED BY <1>1, <1>2, <1>3

\* Two numbers with the same remainder are not closer than the divisor.
LEMMA SameRemainder ==
  ASSUME NEW a \in Int, NEW b \in Int, NEW w \in Nat \ {0}, a % w = b % w, a <= b, b - a < w
  PROVE  a = b
<1>1. /\ a \div w \in Int /\ a = w * (a \div w) + (a % w)
      /\ b \div w \in Int /\ b = w * (b \div w) + (b % w)
  BY Division
<1>2. a % w \in Int
  BY Division
<1>3. b - a = w * ((b \div w) - (a \div w))
  BY <1>1, <1>2
<1>4. (b \div w) - (a \div w) = 0
  BY <1>1, <1>3, MultipleBelow
<1>. QED BY <1>1, <1>2, <1>4

\* The days to the next weekday d after day n, not that day itself.
DaysTo(d, n) == LET k == (d - (n % Week)) % Week IN IF k = 0 THEN Week ELSE k

LEMMA NextWeekDay ==
  ASSUME NEW d \in Nat, d < Week, NEW n \in Nat
  PROVE  /\ DaysTo(d, n) \in 1..Week
         /\ (n + DaysTo(d, n)) % Week = d
         /\ \A j \in (n + 1)..(n + DaysTo(d, n)) : j % Week = d => j = n + DaysTo(d, n)
<1>. DEFINE r == n % Week
            k == (d - r) % Week
            m == n + DaysTo(d, n)
<1>0. Week \in Nat \ {0}
  BY ProcessTimerAssumption
<1>1. r \in 0..(Week - 1) /\ n \div Week \in Int /\ n = Week * (n \div Week) + r
  BY <1>0, Division
<1>2. d - r \in Int
  BY <1>1
<1>3. k \in 0..(Week - 1) /\ (d - r) \div Week \in Int /\ d - r = Week * ((d - r) \div Week) + k
  BY <1>0, <1>2, Division
<1>4. DaysTo(d, n) = IF k = 0 THEN Week ELSE k
  BY DEF DaysTo
<1>5. DaysTo(d, n) \in 1..Week
  BY <1>0, <1>3, <1>4
<1>. HIDE DEF k, r
<1>6. PICK x \in Int : m = Week * x + d
  <2>1. CASE k = 0
    <3>1. m = Week * ((n \div Week) - ((d - r) \div Week) + 1) + d
      BY <2>1, <1>0, <1>1, <1>3, <1>4
    <3>. QED BY <3>1, <1>1, <1>3
  <2>2. CASE k # 0
    <3>1. m = Week * ((n \div Week) - ((d - r) \div Week)) + d
      BY <2>2, <1>0, <1>1, <1>3, <1>4
    <3>. QED BY <3>1, <1>1, <1>3
  <2>. QED BY <2>1, <2>2
<1>7. m \in Int /\ d \in 0..(Week - 1)
  BY <1>0, <1>5
<1>8. m % Week = d
  BY <1>0, <1>6, <1>7, DivisionUnique
<1>9. ASSUME NEW j \in (n + 1)..m, j % Week = d PROVE j = m
  <2>1. j <= m /\ m - j < Week /\ j \in Int
    BY <1>0, <1>5
  <2>. HIDE DEF m
  <2>. QED BY <2>1, <1>0, <1>7, <1>8, <1>9, SameRemainder
<1>. QED BY <1>5, <1>8, <1>9

\* A tick and its day.
LEMMA DayOf ==
  ASSUME NEW t \in Nat
  PROVE  /\ t \div Day \in Nat /\ t % Day \in 0..(Day - 1)
         /\ t = (t \div Day) * Day + (t % Day)
         /\ Midnight(t) = (t \div Day) * Day
<1>1. Day \in Nat \ {0}
  BY ProcessTimerAssumption
<1>2. t \div Day \in Int /\ t % Day \in 0..(Day - 1) /\ t = Day * (t \div Day) + (t % Day)
  BY <1>1, Division
<1>3. t \div Day \in Nat
  BY <1>1, SMT
<1>. QED BY <1>1, <1>2, <1>3 DEF Midnight

LEMMA DayIs ==
  ASSUME NEW t \in Nat, NEW m \in Nat, m * Day <= t, t < m * Day + Day
  PROVE  t \div Day = m /\ t % Day = t - m * Day
<1>1. Day \in Nat \ {0}
  BY ProcessTimerAssumption
<1>2. t - m * Day \in 0..(Day - 1) /\ t = Day * m + (t - m * Day)
  BY <1>1
<1>. DEFINE r == t - m * Day
<1>3. r \in 0..(Day - 1) /\ t = Day * m + r /\ t \in Int /\ m \in Int
  BY <1>2
<1>. HIDE DEF r
<1>4. t \div Day = m /\ t % Day = r
  BY <1>1, <1>3, DivisionUnique
<1>. QED BY <1>4 DEF r

\* A later tick is not on an earlier day.
LEMMA DaysAscend ==
  ASSUME NEW t \in Nat, NEW u \in Nat, t <= u
  PROVE  t \div Day <= u \div Day
<1>1. Day \in Nat \ {0}
  BY ProcessTimerAssumption
<1>2. /\ t \div Day \in Nat /\ t % Day \in 0..(Day - 1) /\ t = (t \div Day) * Day + (t % Day)
      /\ u \div Day \in Nat /\ u % Day \in 0..(Day - 1) /\ u = (u \div Day) * Day + (u % Day)
  BY DayOf
<1>. DEFINE x == t \div Day
            y == u \div Day
<1>3. ASSUME x > y PROVE FALSE
  <2>1. x * Day = y * Day + Day + (x - y - 1) * Day
    BY <1>1, <1>2
  <2>2. (x - y - 1) * Day >= 0
    BY <1>1, <1>2, <1>3, SMT
  <2>. QED BY <2>1, <2>2, <1>1, <1>2
<1>. QED BY <1>2, <1>3

\* When a timer comes that is to come at tick goal and is started at t.
LEMMA DeadlineNear ==
  ASSUME NEW t \in Nat, NEW goal \in Nat, t <= goal, goal - t < IntLimit,
         NEW d \in Deadlines(t, Whole(goal - t))
  PROVE  /\ d \in Nat /\ d > t
         /\ d <= goal + Second /\ d + MaxEarly + Second > goal /\ d + 2 * Second > goal
         /\ goal - t >= Second => d <= goal
<1>. DEFINE q == Whole(goal - t)
<1>1. Second \in Nat \ {0} /\ Second < IntLimit /\ IntLimit \in Nat /\ MaxEarly \in 0..(Second - 1)
  BY ProcessTimerAssumption
<1>2. q \in Nat /\ q * Second \in Nat /\ q * Second <= goal - t /\ goal - t < q * Second + Second
  <2>1. goal - t \in Nat
    OBVIOUS
  <2>. QED BY <2>1, WholeBounds, <1>1
<1>. HIDE DEF q
<1>3. CASE q = 0
  <2>1. AsInt(Second) = Second
    BY <1>1, AsIntFits
  <2>2. d \in {t + Second - e : e \in 0..MaxEarly} \cap Nat
    BY <2>1, <1>1, <1>3 DEF Deadlines, q
  <2>3. PICK e \in 0..MaxEarly : d = t + Second - e
    BY <2>2
  <2>4. q * Second = 0
    BY <1>1, <1>3
  <2>. QED BY <2>2, <2>3, <2>4, <1>1, <1>2
<1>4. CASE q > 0
  <2>1. AsInt(q * Second) = q * Second
    BY <1>1, <1>2, AsIntFits
  <2>2. d \in {t + q * Second - e : e \in 0..MaxEarly} \cap Nat
    BY <2>1, <1>1, <1>2, <1>4 DEF Deadlines, q
  <2>3. PICK e \in 0..MaxEarly : d = t + q * Second - e
    BY <2>2
  <2>4. q * Second >= Second
    <3>1. q - 1 \in Nat
      BY <1>2, <1>4
    <3>2. (q - 1) * Second \in Nat
      BY <3>1, <1>1
    <3>3. q * Second = Second + (q - 1) * Second
      BY <1>1, <1>2
    <3>. HIDE DEF q
    <3>. QED BY <3>2, <3>3, <1>1, <1>2
  <2>. QED BY <2>2, <2>3, <2>4, <1>1, <1>2
<1>. QED BY <1>2, <1>3, <1>4
\* When the timer of a weekly schedule comes that is started at t: shortly before the hour
\* of the schedule, on the first of its weekdays after the day of t.
LEMMA WeeklyDeadline ==
  ASSUME NEW s \in Schedules, Inside(s), Valid(s), NEW t \in Nat,
         NEW d \in Deadlines(t, ScheduleSeconds(s, t))
  PROVE  /\ d \in Nat /\ d > t
         /\ \E m \in Nat :
              /\ m > t \div Day /\ m % Week = s.day
              /\ \A j \in (t \div Day + 1)..m : j % Week = s.day => j = m
              /\ d <= m * Day + s.at /\ m * Day + s.at < d + 2 * Second
<1>. DEFINE n == t \div Day
            k == DaysTo(s.day, n)
            m == n + k
            goal == m * Day + s.at
<1>1. Second \in Nat \ {0} /\ Day \in Nat \ {0} /\ Week \in Nat \ {0} /\ IntLimit \in Nat
      /\ (Week + 1) * Day < IntLimit
  BY ProcessTimerAssumption
<1>2. s \in Schedule /\ s.kind = "weekly"
  BY ProcessTimerAssumption DEF Inside
<1>3. s.day \in Nat /\ s.day < Week /\ s.at \in Nat /\ s.at < Day /\ s.at >= 2 * Second
  <2>1. s.day \in Nat /\ s.at \in 0..(Day - 1)
    BY <1>2 DEF Schedule
  <2>2. s.at >= 2 * Second
    BY DEF Inside
  <2>3. s.day < Week
    BY <1>1, <1>2 DEF Valid, Inside
  <2>. QED BY <1>1, <2>1, <2>2, <2>3
<1>4. /\ n \in Nat /\ t % Day \in 0..(Day - 1) /\ t = n * Day + (t % Day)
      /\ Midnight(t) = n * Day
  BY DayOf
<1>5. /\ k \in 1..Week /\ m % Week = s.day
      /\ \A j \in (n + 1)..m : j % Week = s.day => j = m
  BY <1>3, <1>4, NextWeekDay
<1>6. ScheduleSeconds(s, t) = Whole(Midnight(t) + k * Day + s.at - t)
  BY DEF ScheduleSeconds, DaysUntil, WeekDay, DaysTo
<1>. HIDE DEF n, k
<1>7. k * Day \in Nat /\ n * Day \in Nat /\ m * Day = n * Day + k * Day /\ m \in Nat /\ m > n
  BY <1>1, <1>4, <1>5
<1>8. k * Day >= Day /\ k * Day <= Week * Day
  <2>1. k - 1 \in Nat /\ Week - k \in Nat
    BY <1>1, <1>5
  <2>2. (k - 1) * Day \in Nat /\ (Week - k) * Day \in Nat
    BY <1>1, <2>1
  <2>3. k * Day = Day + (k - 1) * Day /\ Week * Day = k * Day + (Week - k) * Day
    BY <1>1, <1>5
  <2>. QED BY <1>1, <1>7, <2>2, <2>3
<1>9. Midnight(t) + k * Day + s.at - t = goal - t
  BY <1>3, <1>4, <1>7
<1>10. (Week + 1) * Day = Week * Day + Day /\ Week * Day \in Nat
  BY <1>1
<1>11. goal \in Nat /\ t <= goal /\ goal - t < IntLimit /\ goal - t >= Second
  <2>. DEFINE r == t % Day
              nd == n * Day
              kd == k * Day
              wd == Week * Day
  <2>1. goal = nd + kd + s.at /\ t = nd + r /\ r \in 0..(Day - 1)
    BY <1>4, <1>7
  <2>2. nd \in Nat /\ kd \in Nat /\ kd >= Day /\ kd <= wd /\ wd \in Nat /\ wd + Day < IntLimit
    BY <1>1, <1>7, <1>8, <1>10
  <2>. HIDE DEF r, nd, kd, wd, goal
  <2>. QED BY <1>1, <1>3, <2>1, <2>2
<1>12. d \in Deadlines(t, Whole(goal - t))
  BY <1>6, <1>9
<1>. HIDE DEF m
<1>13. d \in Nat /\ d > t /\ d <= goal /\ goal < d + 2 * Second
  <2>. HIDE DEF goal
  <2>1. d \in Nat /\ d > t /\ d <= goal + Second /\ d + 2 * Second > goal
        /\ (goal - t >= Second => d <= goal)
    BY <1>11, <1>12, DeadlineNear
  <2>. QED BY <1>1, <1>11, <2>1
<1>14. /\ m > n /\ m % Week = s.day
       /\ \A j \in (n + 1)..m : j % Week = s.day => j = m
       /\ d <= m * Day + s.at /\ m * Day + s.at < d + 2 * Second
  BY <1>5, <1>7, <1>13
<1>. QED BY <1>7, <1>13, <1>14 DEF n

\* When the timer of a frequency comes that is started at t and has not come before.
LEMMA FirstDeadline ==
  ASSUME NEW s \in Schedules, s.kind = "frequency", s.start # Never, NEW t \in Nat,
         NEW d \in Deadlines(t, FrequencySeconds(s, Never, t))
  PROVE  LET due == IF t % Day > s.start THEN Midnight(t) + Day + s.start
                                         ELSE Midnight(t) + s.start
         IN  d \in Nat /\ d <= due + Second /\ d + MaxEarly + Second > due
<1>. DEFINE first == Midnight(t) + s.start
            due == IF t % Day > s.start THEN Midnight(t) + Day + s.start
                                        ELSE Midnight(t) + s.start
<1>1. Second \in Nat \ {0} /\ Day \in Nat \ {0} /\ Week \in Nat \ {0} /\ IntLimit \in Nat
      /\ (Week + 1) * Day < IntLimit
  BY ProcessTimerAssumption
<1>2. s \in Schedule
  BY ProcessTimerAssumption
<1>3. s.start \in Nat /\ s.start < Day
  <2>1. s.start \in 0..(Day - 1)
    BY <1>2 DEF Schedule
  <2>. QED BY <1>1, <2>1
<1>4. /\ t \div Day \in Nat /\ t % Day \in 0..(Day - 1) /\ t = (t \div Day) * Day + (t % Day)
      /\ Midnight(t) = (t \div Day) * Day
  BY DayOf
<1>. DEFINE z == Midnight(t)
            r == t % Day
<1>5. z \in Nat /\ r \in 0..(Day - 1) /\ t = z + r
  <2>1. (t \div Day) * Day \in Nat
    BY <1>1, <1>4
  <2>. QED BY <1>4, <2>1
<1>6. due = IF r > s.start THEN z + Day + s.start ELSE z + s.start
  OBVIOUS
<1>7. FrequencySeconds(s, Never, t) = Whole((IF z + s.start < t THEN z + s.start + Day ELSE z + s.start) - t)
  BY DEF FrequencySeconds
<1>. HIDE DEF z, r, due
<1>8. (IF z + s.start < t THEN z + s.start + Day ELSE z + s.start) = due
  BY <1>1, <1>3, <1>5, <1>6
<1>9. Day < IntLimit
  <2>1. (Week + 1) * Day = Week * Day + Day /\ Week * Day \in Nat
    BY <1>1
  <2>. QED BY <1>1, <2>1
<1>10. due \in Nat /\ t <= due /\ due - t < IntLimit
  BY <1>1, <1>3, <1>5, <1>6, <1>9
<1>11. d \in Deadlines(t, Whole(due - t))
  BY <1>7, <1>8
<1>12. d \in Nat /\ d <= due + Second /\ d + MaxEarly + Second > due
  BY <1>10, <1>11, DeadlineNear
<1>. QED BY <1>12 DEF due

-----------------------------------------------------------------------------
(* The first hour *)

LEMMA PrepareTimerFirst ==
  ASSUME NEW s \in Schedules, s.kind = "frequency", s.start # Never, NEW t \in Nat,
         PrepareTimer(s, Never, t)
  PROVE  LET due == IF t % Day > s.start THEN Midnight(t) + Day + s.start
                                         ELSE Midnight(t) + s.start
         IN  armed' = t /\ timer' <= due + Second /\ timer' + MaxEarly + Second > due
<1>1. SecondsToStart(s, Never, t) = FrequencySeconds(s, Never, t)
  BY DEF SecondsToStart
<1>2. timer' \in Deadlines(t, FrequencySeconds(s, Never, t)) /\ armed' = t
  BY <1>1 DEF PrepareTimer
<1>3. PICK d : d = timer'
  OBVIOUS
<1>. QED BY <1>2, <1>3, FirstDeadline

LEMMA NewTimerFirst ==
  ASSUME TypeOK, NEW s \in Schedules, NewTimer(s)
  PROVE  FirstAtItsHour'
<1>1. now \in Nat
  BY DEF TypeOK
<1>2. CASE timer' = Never
  BY <1>2 DEF FirstAtItsHour
<1>3. CASE timer' # Never
  <2>1. schedule' = s /\ lastEmit' = logged /\ PrepareTimer(s, logged, now)
    BY <1>3 DEF NewTimer
  <2>2. CASE s.kind = "frequency" /\ lastEmit' = Never /\ s.start # Never
    <3>1. PrepareTimer(s, Never, now)
      BY <2>1, <2>2
    <3>. QED BY <1>1, <2>1, <2>2, <3>1, PrepareTimerFirst DEF FirstAtItsHour
  <2>. QED BY <2>1, <2>2 DEF FirstAtItsHour
<1>. QED BY <1>2, <1>3

LEMMA FirstInit == Init => FirstAtItsHour
<1>. SUFFICES ASSUME Init, timer # Never, schedule.kind = "frequency", schedule.start # Never
              PROVE  LET due == IF 0 % Day > schedule.start THEN Midnight(0) + Day + schedule.start
                                                            ELSE Midnight(0) + schedule.start
                     IN  timer <= due + Second /\ timer + MaxEarly + Second > due
  BY DEF FirstAtItsHour, Init
<1>1. schedule \in Schedules /\ timer \in Deadlines(0, SecondsToStart(schedule, Never, 0))
  BY DEF Init
<1>2. SecondsToStart(schedule, Never, 0) = FrequencySeconds(schedule, Never, 0)
  BY DEF SecondsToStart
<1>3. PICK d : d = timer
  OBVIOUS
<1>4. PICK s : s = schedule
  OBVIOUS
<1>. QED BY <1>1, <1>2, <1>3, <1>4, FirstDeadline

LEMMA FirstNext == TypeOK /\ FirstAtItsHour /\ [Next]_vars => FirstAtItsHour'
<1>. SUFFICES ASSUME TypeOK, FirstAtItsHour, [Next]_vars PROVE FirstAtItsHour'
  OBVIOUS
<1>1. now \in Nat /\ Never \notin Nat /\ schedule \in Schedules
  BY ProcessTimerAssumption DEF TypeOK
<1>2. CASE Timeout
  BY <1>1, <1>2 DEF Timeout, FirstAtItsHour
<1>3. CASE StartProcess \/ Result \/ LogChanges \/ Tick \/ UNCHANGED vars
  <2>1. UNCHANGED <<schedule, timer, lastEmit, armed>>
    BY <1>3 DEF StartProcess, Result, LogChanges, Tick, vars
  <2>. QED BY <2>1 DEF FirstAtItsHour
<1>4. ASSUME NEW s \in Schedules, Edit(s) PROVE FirstAtItsHour'
  BY <1>4, NewTimerFirst DEF Edit
<1>5. CASE Crash
  BY <1>5 DEF Crash, FirstAtItsHour
<1>6. CASE Restart
  BY <1>1, <1>6, NewTimerFirst DEF Restart
<1>. QED BY <1>2, <1>3, <1>4, <1>5, <1>6 DEF Next

\* The timer of a frequency comes for the first time at the hour that the user gave, at
\* whatever time it is made: at most a second late, and early by less than a second more
\* than a QTimer may be.
THEOREM FirstAtItsHourCorrect == Spec => []FirstAtItsHour
BY FirstInit, FirstNext, TypeInit, TypeNext, PTL DEF Spec
-----------------------------------------------------------------------------
(* The day of the week *)

\* The timer aims at the hour of the schedule on day m, the first of its weekdays after the
\* day when it was started.
AimsAt(m) ==
  /\ m > armed \div Day /\ m % Week = schedule.day
  /\ \A j \in (armed \div Day + 1)..m : j % Week = schedule.day => j = m
  /\ timer <= m * Day + schedule.at /\ m * Day + schedule.at < timer + 2 * Second

\* The main thread does not keep it waiting for longer than the bound.
OnDay ==
  timer # Never =>
    /\ Valid(schedule)
    /\ Inside(schedule) => now <= timer + MaxLate /\ \E m \in Nat : AimsAt(m)

\* No execution was asked for after the timer was started.
Asked == armed <= now /\ (request # Never => request <= armed)

WeeklyInv == TypeOK /\ OnDay /\ Asked

\* A timer that is started for schedule s aims at one of its days.
LEMMA PrepareTimerWeekly ==
  ASSUME NEW s \in Schedules, Valid(s), NEW last, NEW t \in Nat, PrepareTimer(s, last, t),
         schedule' = s, now' = t
  PROVE  OnDay' /\ armed' = t
<1>1. timer' \in Deadlines(t, SecondsToStart(s, last, t)) /\ armed' = t
  BY DEF PrepareTimer
<1>2. ASSUME Inside(s) PROVE now' <= timer' + MaxLate /\ \E m \in Nat : AimsAt(m)'
  <2>1. SecondsToStart(s, last, t) = ScheduleSeconds(s, t)
    BY <1>2 DEF SecondsToStart, Inside
  <2>2. PICK d : d = timer'
    OBVIOUS
  <2>3. d \in Deadlines(t, ScheduleSeconds(s, t))
    BY <1>1, <2>1, <2>2
  <2>4. /\ d \in Nat /\ d > t
        /\ \E m \in Nat :
             /\ m > t \div Day /\ m % Week = s.day
             /\ \A j \in (t \div Day + 1)..m : j % Week = s.day => j = m
             /\ d <= m * Day + s.at /\ m * Day + s.at < d + 2 * Second
    BY <1>2, <2>3, WeeklyDeadline
  <2>5. now' <= timer' + MaxLate
    <3>1. d \in Nat /\ d > t /\ MaxLate \in Nat
      BY <2>4, ProcessTimerAssumption
    <3>2. t <= d + MaxLate
      BY <3>1
    <3>. QED BY <2>2, <3>2
  <2>6. \E m \in Nat : AimsAt(m)'
    BY <1>1, <2>2, <2>4 DEF AimsAt
  <2>. QED BY <2>5, <2>6
<1>3. OnDay' = (timer' # Never =>
                  /\ Valid(s)
                  /\ Inside(s) => now' <= timer' + MaxLate /\ \E m \in Nat : AimsAt(m)')
  BY DEF OnDay
<1>. QED BY <1>1, <1>2, <1>3

LEMMA NewTimerWeekly ==
  ASSUME WeeklyInv, NEW s \in Schedules, NewTimer(s), UNCHANGED <<now, request>>
  PROVE  OnDay' /\ Asked'
<1>1. now \in Nat /\ request \in Instants /\ armed \in Nat /\ armed <= now
      /\ (request # Never => request <= armed)
  BY DEF WeeklyInv, TypeOK, Asked
<1>2. CASE Valid(s) /\ logUp
  <2>1. schedule' = s /\ PrepareTimer(s, logged, now)
    BY <1>2 DEF NewTimer
  <2>2. OnDay' /\ armed' = now
    BY <1>1, <1>2, <2>1, PrepareTimerWeekly
  <2>3. Asked'
    BY <1>1, <2>2, ProcessTimerAssumption DEF Asked, Instants
  <2>. QED BY <2>2, <2>3
<1>3. CASE ~(Valid(s) /\ logUp)
  BY <1>1, <1>3 DEF NewTimer, OnDay, Asked
<1>. QED BY <1>2, <1>3

LEMMA WeeklyInit == Init => WeeklyInv
<1>. SUFFICES ASSUME Init PROVE WeeklyInv
  OBVIOUS
<1>1. TypeOK
  BY TypeInit
<1>2. Asked
  BY DEF Init, Asked
<1>3. OnDay
  <2>. SUFFICES ASSUME timer # Never
                PROVE  /\ Valid(schedule)
                       /\ Inside(schedule) => now <= timer + MaxLate /\ \E m \in Nat : AimsAt(m)
    BY DEF OnDay
  <2>1. /\ Valid(schedule) /\ schedule \in Schedules /\ armed = 0 /\ now = 0
        /\ timer \in Deadlines(0, SecondsToStart(schedule, Never, 0))
    BY DEF Init
  <2>2. ASSUME Inside(schedule) PROVE now <= timer + MaxLate /\ \E m \in Nat : AimsAt(m)
    <3>1. SecondsToStart(schedule, Never, 0) = ScheduleSeconds(schedule, 0)
      BY <2>2 DEF SecondsToStart, Inside
    <3>2. PICK d : d = timer
      OBVIOUS
    <3>3. PICK s : s = schedule
      OBVIOUS
    <3>4. PICK t : t = 0
      OBVIOUS
    <3>5. t \in Nat /\ s \in Schedules /\ Inside(s) /\ Valid(s) /\ d \in Deadlines(t, ScheduleSeconds(s, t))
      BY <2>1, <2>2, <3>1, <3>2, <3>3, <3>4
    <3>6. /\ d \in Nat /\ d > t
          /\ \E m \in Nat :
               /\ m > t \div Day /\ m % Week = s.day
               /\ \A j \in (t \div Day + 1)..m : j % Week = s.day => j = m
               /\ d <= m * Day + s.at /\ m * Day + s.at < d + 2 * Second
      BY <3>5, WeeklyDeadline
    <3>7. now <= timer + MaxLate
      BY <2>1, <3>2, <3>4, <3>6, ProcessTimerAssumption
    <3>8. \E m \in Nat : AimsAt(m)
      BY <2>1, <3>2, <3>3, <3>4, <3>6 DEF AimsAt
    <3>. QED BY <3>7, <3>8
  <2>. QED BY <2>1, <2>2
<1>. QED BY <1>1, <1>2, <1>3 DEF WeeklyInv

LEMMA WeeklyNext == WeeklyInv /\ [Next]_vars => WeeklyInv'
<1>. SUFFICES ASSUME WeeklyInv, [Next]_vars PROVE OnDay' /\ Asked'
  BY TypeNext DEF WeeklyInv
<1>1. /\ now \in Nat /\ Never \notin Int /\ schedule \in Schedules /\ MaxLate \in Nat
      /\ armed \in Nat /\ timer \in Instants /\ request \in Instants
      /\ OnDay /\ Asked
  BY ProcessTimerAssumption DEF WeeklyInv, TypeOK
<1>2. CASE Timeout
  <2>1. /\ schedule' = schedule /\ now' = now /\ request' \in {now, request}
        /\ PrepareTimer(schedule, now, now) /\ timer # Never
    BY <1>2 DEF Timeout
  <2>2. Valid(schedule)
    BY <1>1, <2>1 DEF OnDay
  <2>3. OnDay' /\ armed' = now
    BY <1>1, <2>1, <2>2, PrepareTimerWeekly
  <2>4. Asked'
    BY <1>1, <2>1, <2>3 DEF Asked, Instants
  <2>. QED BY <2>3, <2>4
<1>3. CASE StartProcess \/ Result \/ LogChanges \/ UNCHANGED vars
  <2>1. UNCHANGED <<now, schedule, timer, request, armed>>
    BY <1>3 DEF StartProcess, Result, LogChanges, vars
  <2>. QED BY <1>1, <2>1 DEF OnDay, Asked, AimsAt
<1>4. ASSUME NEW s \in Schedules, Edit(s) PROVE OnDay' /\ Asked'
  BY <1>4, NewTimerWeekly DEF Edit
<1>5. CASE Crash
  BY <1>1, <1>5 DEF Crash, OnDay, Asked
<1>6. CASE Restart
  BY <1>1, <1>6, NewTimerWeekly DEF Restart
<1>7. CASE Tick
  <2>1. /\ now' = now + 1 /\ UNCHANGED <<schedule, timer, request, armed>>
        /\ timer # Never => now < timer + MaxLate
    BY <1>7 DEF Tick
  <2>2. timer # Never => now' <= timer' + MaxLate
    BY <1>1, <2>1 DEF Instants
  <2>3. OnDay'
    BY <1>1, <2>1, <2>2 DEF OnDay, AimsAt
  <2>4. Asked'
    BY <1>1, <2>1 DEF Asked, Instants
  <2>. QED BY <2>3, <2>4
<1>. QED BY <1>2, <1>3, <1>4, <1>5, <1>6, <1>7 DEF Next

\* What a weekly schedule has by its type.
LEMMA InsideType ==
  ASSUME NEW s \in Schedules, Inside(s)
  PROVE  s.at \in Nat /\ s.at >= 2 * Second /\ s.at + MaxLate < Day
<1>1. s \in Schedule /\ s.kind = "weekly"
  BY ProcessTimerAssumption DEF Inside
<1>2. s.at \in 0..(Day - 1)
  BY <1>1 DEF Schedule
<1>. QED BY <1>2, ProcessTimerAssumption DEF Inside

LEMMA WeeklyMissesNone ==
  ASSUME WeeklyInv
  PROVE  NoWeekMissed
<1>. SUFFICES ASSUME timer # Never, Inside(schedule),
                     NEW e \in (armed \div Day + 1)..(timer \div Day), e % Week = schedule.day
              PROVE  e * Day + schedule.at >= timer
  BY DEF NoWeekMissed
<1>1. schedule \in Schedules /\ timer \in Nat /\ armed \in Nat
  BY DEF WeeklyInv, TypeOK, Instants
<1>2. PICK m \in Nat : AimsAt(m)
  BY DEF WeeklyInv, OnDay
<1>3. Day \in Nat \ {0} /\ schedule.at \in Nat /\ schedule.at < Day /\ MaxLate \in Nat
  <2>1. schedule.at \in Nat /\ schedule.at + MaxLate < Day
    BY <1>1, InsideType
  <2>. QED BY <2>1, ProcessTimerAssumption
<1>. DEFINE goal == m * Day + schedule.at
<1>4. m * Day \in Nat /\ goal \in Nat /\ m * Day <= goal /\ goal < m * Day + Day
  BY <1>3
<1>5. goal \div Day = m
  <2>. HIDE DEF goal
  <2>. QED BY <1>4, DayIs
<1>6. timer \div Day <= goal \div Day
  <2>1. timer <= goal
    BY <1>2 DEF AimsAt
  <2>. HIDE DEF goal
  <2>. QED BY <1>1, <1>4, <2>1, DaysAscend
<1>7. timer \div Day \in Nat /\ armed \div Day \in Nat
  BY <1>1, DayOf
<1>8. e \in (armed \div Day + 1)..m
  BY <1>5, <1>6, <1>7
<1>9. e = m
  BY <1>2, <1>8 DEF AimsAt
<1>. QED BY <1>1, <1>2, <1>4, <1>9 DEF AimsAt

\* The step that asks for an execution is the timeout of a timer that aims at its day.
LEMMA WeeklyStep ==
  ASSUME WeeklyInv, [Next]_vars, Requested, Inside(schedule)
  PROVE  /\ WeekDay(request') = schedule.day
         /\ request' % Day > schedule.at - 2 * Second
         /\ request # Never => Midnight(request) < Midnight(request')
<1>1. Timeout
  BY DEF Requested, Next, StartProcess, Result, Edit, Crash, Restart, LogChanges, Tick, vars
<1>2. request' = now /\ timer # Never /\ timer <= now
  BY <1>1 DEF Timeout, Requested
<1>3. /\ schedule \in Schedules /\ now \in Nat /\ timer \in Nat /\ armed \in Nat
      /\ request \in Instants /\ (request # Never => request <= armed)
      /\ now <= timer + MaxLate
  BY <1>2 DEF WeeklyInv, TypeOK, Instants, Asked, OnDay
<1>4. PICK m \in Nat : AimsAt(m)
  BY <1>2 DEF WeeklyInv, OnDay
<1>5. /\ schedule.at \in Nat /\ schedule.at >= 2 * Second /\ schedule.at + MaxLate < Day
      /\ Day \in Nat \ {0} /\ Second \in Nat /\ MaxLate \in Nat
  BY <1>3, InsideType, ProcessTimerAssumption
<1>6. /\ m > armed \div Day /\ m % Week = schedule.day
      /\ timer <= m * Day + schedule.at /\ m * Day + schedule.at < timer + 2 * Second
  BY <1>4 DEF AimsAt
<1>7. m * Day \in Nat
  BY <1>5
<1>8. /\ m * Day <= now /\ now < m * Day + Day
      /\ now - m * Day > schedule.at - 2 * Second
  <2>. DEFINE md == m * Day
              at == schedule.at
  <2>1. md \in Nat /\ at \in Nat /\ at >= 2 * Second /\ at + MaxLate < Day
        /\ timer <= md + at /\ md + at < timer + 2 * Second
    BY <1>5, <1>6, <1>7
  <2>. HIDE DEF md, at
  <2>2. md <= now /\ now < md + Day /\ now - md > at - 2 * Second
    BY <1>2, <1>3, <1>5, <2>1
  <2>. QED BY <2>2 DEF md, at
<1>9. now \div Day = m /\ now % Day = now - m * Day
  BY <1>3, <1>8, DayIs
<1>10. ASSUME request # Never PROVE Midnight(request) < Midnight(now)
  <2>1. request \in Nat /\ request <= armed
    BY <1>3, <1>10 DEF Instants
  <2>2. request \div Day <= armed \div Day
    BY <1>3, <2>1, DaysAscend
  <2>3. /\ request \div Day \in Nat /\ Midnight(request) = (request \div Day) * Day
        /\ armed \div Day \in Nat /\ Midnight(now) = m * Day
    BY <1>3, <1>9, <2>1, DayOf
  <2>. DEFINE r == request \div Day
  <2>4. r \in Nat /\ m - r - 1 \in Nat
    BY <1>6, <2>2, <2>3
  <2>. HIDE DEF r
  <2>5. (m - r - 1) * Day \in Nat
    BY <1>5, <2>4
  <2>6. m * Day = r * Day + Day + (m - r - 1) * Day /\ r * Day \in Nat
    BY <1>5, <2>4
  <2>7. r * Day < m * Day
    BY <1>5, <1>7, <2>5, <2>6
  <2>. QED BY <2>3, <2>7 DEF r
<1>. QED BY <1>2, <1>6, <1>8, <1>9, <1>10 DEF WeekDay

\* A weekly process is asked for on its day and at its hour, on no day twice, whatever
\* crashes and edits there were.
THEOREM OnItsDayCorrect == Spec => OnItsDay
<1>1. WeeklyInv /\ [Next]_vars =>
        [Requested /\ Inside(schedule) =>
           /\ WeekDay(request') = schedule.day
           /\ request' % Day > schedule.at - 2 * Second
           /\ request # Never => Midnight(request) < Midnight(request')]_vars
  BY WeeklyStep
<1>. QED BY <1>1, WeeklyInit, WeeklyNext, PTL DEF Spec, OnItsDay

\* No day of a weekly schedule after the one when its timer was started passes without it.
THEOREM NoWeekMissedCorrect == Spec => []NoWeekMissed
BY WeeklyMissesNone, WeeklyInit, WeeklyNext, PTL DEF Spec
=============================================================================
