---------------------------- MODULE AlertRunProofs ----------------------------
(***************************************************************************)
(* What holds of an alert for every set of objects, every legend, every    *)
(* list of notifications, and every number of dates, repetitions and       *)
(* faults: an execution that ends as done has tried what its report calls  *)
(* for, nobody is told of what a date does not have, and, when the legend  *)
(* ascends, every date is told of that has what a notification asks about. *)
(***************************************************************************)
EXTENDS AlertRun, TLAPS, FiniteSetTheorems, SequenceTheorems, WellFoundedInduction

\* What EachDateTold needs of a legend and of the notifications: values that
\* ascend with the levels, and no level that the legend does not have.
LegendAscends ==
  /\ \A j, k \in DOMAIN Thresholds : j < k => Thresholds[j] <= Thresholds[k]
  /\ \A k \in DOMAIN Notifications : Notifications[k].level <= Len(Thresholds)

-----------------------------------------------------------------------------
(* The inductive invariant *)

\* A date has its results unless it is being computed again.
Kept ==
  /\ \A d \in Dates : d > newest => table[d] = Nothing
  /\ \A d \in 1..newest : d \notin erased => table[d] \in Results

\* An execution has a date, a report has the date of some results, and it is the
\* date of the execution unless the execution has gone astray.
Dated ==
  /\ stage # "idle" => date # 0
  /\ stage = "notify" => report.date # 0 /\ (report.date = date \/ date \in astray)
  /\ stage # "notify" => next = 1

TypeInv == TypeOK /\ Kept /\ Dated

\* The notifications that have been turned to.
Tried ==
  stage = "notify" => \A k \in 1..(next - 1) : Wanted(Notifications[k]) => k \in tried

\* The date and the one before have what they had.
Known(d) == {d - 1, d} \cap redone = {}

\* A report says no more than the table ...
ReportSound ==
  stage = "notify" =>
    /\ Known(report.date) /\ report.changed => Changes(report.date)
    /\ report.date \notin redone =>
         \A l \in 1..Len(Thresholds) : l <= report.max => Reaches(report.date, l)

\* ... and no less.
ReportComplete ==
  (stage = "notify" /\ Known(report.date)) =>
    /\ Changes(report.date) => report.changed
    /\ \A l \in 1..Len(Thresholds) : Reaches(report.date, l) => l <= report.max

\* Of what was not computed again, only what is due has been told.
ToldIsDue ==
  \A k \in DOMAIN Notifications, d \in 1..newest :
    (<<k, d>> \in told /\ Stands(Notifications[k], d)) => Due(Notifications[k], d)

\* What is due at a date has been told, or the execution of that date has still
\* to begin, to read, or to turn to the notification.
Remains(k, d) == stage = "notify" /\ date = d /\ k >= next

DueIsTold ==
  \A d \in 1..newest : (Known(d) /\ d \notin astray \cup unsent) =>
    \/ \E i \in DOMAIN queue : queue[i] = d
    \/ stage = "read" /\ date = d
    \/ \A k \in DOMAIN Notifications :
         Due(Notifications[k], d) => <<k, d>> \in told \/ Remains(k, d)

SoundInv == TypeInv /\ ReportSound /\ ToldIsDue
CompleteInv == TypeInv /\ ReportComplete /\ DueIsTold

-----------------------------------------------------------------------------
(* Sets of numbers *)

LEMMA LeastElement ==
  ASSUME NEW T \in SUBSET Nat, T # {}
  PROVE  \E n \in T : \A m \in T : n <= m
<1>1. PICK n \in T : \A m \in T : <<m, n>> \notin OpToRel(<, Nat)
  BY NatLessThanWellFounded, WFMin, Zenon
<1>2. \A m \in T : ~(m < n)
  BY <1>1 DEF OpToRel
<1> QED
  BY <1>2

LEMMA MaxOfIsGreatest ==
  ASSUME NEW N \in Nat, NEW S \in SUBSET (1..N), S # {}
  PROVE  MaxOf(S) \in S /\ \A m \in S : m <= MaxOf(S)
<1> DEFINE T == {k \in Nat : \E i \in S : k = N - i}
<1>1. T # {}
  <2>1. PICK i \in S : TRUE
    OBVIOUS
  <2>2. N - i \in T
    BY <2>1
  <2> QED
    BY <2>2
<1>2. PICK k \in T : \A m \in T : k <= m
  BY <1>1, LeastElement
<1>3. PICK n \in S : k = N - n
  BY <1>2
<1>4. ASSUME NEW m \in S PROVE m <= n
  <2>1. N - m \in T
    OBVIOUS
  <2>2. k <= N - m
    BY <2>1, <1>2
  <2> QED
    BY <2>2, <1>3
<1>5. \E x \in S : \A m \in S : m <= x
  BY <1>4
<1> QED
  BY <1>5 DEF MaxOf

LEMMA PartsFinite ==
  ASSUME NEW N \in Nat, NEW S \in SUBSET (1..N)
  PROVE  IsFiniteSet(S) /\ Cardinality(S) \in Nat
<1>1. IsFiniteSet(1..N)
  BY FS_Interval
<1>2. IsFiniteSet(S)
  BY <1>1, FS_Subset
<1> QED
  BY <1>2, FS_CardinalityType

-----------------------------------------------------------------------------
(* The legend *)

Values == Nat \cup {Null, NoRow}

\* riskLevel finds the first level that is not below the value, if there is one.
LEMMA LevelIsFirst ==
  ASSUME NEW v \in Nat \cup {Null}
  PROVE  \/ /\ Level(v) = Default
            /\ v = Null \/ \A k \in DOMAIN Thresholds : Thresholds[k] < v
         \/ /\ v \in Nat
            /\ Level(v) \in DOMAIN Thresholds /\ Level(v) # Default
            /\ v <= Thresholds[Level(v)]
            /\ \A j \in DOMAIN Thresholds : j < Level(v) => Thresholds[j] < v
<1> DEFINE above == {k \in DOMAIN Thresholds : v # Null /\ Thresholds[k] >= v}
<1>1. /\ Len(Thresholds) \in Nat /\ DOMAIN Thresholds = 1..Len(Thresholds)
      /\ \A k \in DOMAIN Thresholds : Thresholds[k] \in Nat
      /\ Null \notin Nat
  BY AlertRunAssumption
<1>2. Level(v) = IF above = {} THEN Default ELSE CHOOSE k \in above : \A j \in above : k <= j
  BY DEF Level
<1>3. CASE above = {}
  <2>1. v = Null \/ \A k \in DOMAIN Thresholds : Thresholds[k] < v
    BY <1>1, <1>3
  <2> QED
    BY <1>2, <1>3, <2>1
<1>4. CASE above # {}
  <2>1. above \in SUBSET Nat
    BY <1>1
  <2>2. \E k \in above : \A j \in above : k <= j
    BY <1>4, <2>1, LeastElement, Zenon
  <2>3. Level(v) \in above /\ \A j \in above : Level(v) <= j
    BY <1>2, <1>4, <2>2
  <2> HIDE DEF above
  <2>4. Level(v) \in DOMAIN Thresholds /\ v # Null /\ v <= Thresholds[Level(v)]
    BY <2>3, <1>1 DEF above
  <2>5. v \in Nat
    BY <2>4
  <2>6. ASSUME NEW j \in DOMAIN Thresholds, j < Level(v) PROVE Thresholds[j] < v
    <3>1. j \notin above
      BY <2>3, <2>4, <2>6, <1>1
    <3> QED
      BY <3>1, <2>4, <2>5, <1>1 DEF above
  <2>7. Level(v) # Default
    BY <2>4, <1>1 DEF Default
  <2> QED
    BY <2>4, <2>5, <2>6, <2>7
<1> QED
  BY <1>3, <1>4

\* To have a level and to be above a level, by the thresholds and by riskLevel.
LEMMA LevelsAgree ==
  ASSUME NEW v \in Values, v # NoRow
  PROVE  /\ HasLevel(v) <=> Level(v) # Default
         /\ HasLevel(v) => Level(v) \in 1..Len(Thresholds)
         /\ \A l \in 1..Len(Thresholds) :
              HasLevel(v) /\ l <= Level(v) => (l > 1 => Thresholds[l - 1] < v)
         /\ LegendAscends => \A l \in 1..Len(Thresholds) :
              HasLevel(v) /\ (l > 1 => Thresholds[l - 1] < v) => l <= Level(v)
<1>1. /\ Len(Thresholds) \in Nat /\ DOMAIN Thresholds = 1..Len(Thresholds)
      /\ \A k \in DOMAIN Thresholds : Thresholds[k] \in Nat
      /\ Null \notin Nat /\ NoRow \notin Nat
  BY AlertRunAssumption
<1>2. v \in Nat \cup {Null}
  BY DEF Values
<1>3. CASE /\ Level(v) = Default
           /\ v = Null \/ \A k \in DOMAIN Thresholds : Thresholds[k] < v
  <2>1. ~HasLevel(v)
    BY <1>1, <1>2, <1>3 DEF HasLevel
  <2> QED
    BY <1>3, <2>1
<1>4. CASE /\ v \in Nat
           /\ Level(v) \in DOMAIN Thresholds /\ Level(v) # Default
           /\ v <= Thresholds[Level(v)]
           /\ \A j \in DOMAIN Thresholds : j < Level(v) => Thresholds[j] < v
  <2>1. HasLevel(v)
    BY <1>1, <1>4 DEF HasLevel
  <2>2. ASSUME NEW l \in 1..Len(Thresholds), l <= Level(v), l > 1
        PROVE  Thresholds[l - 1] < v
    BY <1>1, <1>4, <2>2
  <2>3. ASSUME LegendAscends, NEW l \in 1..Len(Thresholds), l > 1 => Thresholds[l - 1] < v
        PROVE  l <= Level(v)
    <3>1. SUFFICES ASSUME l > Level(v) PROVE FALSE
      BY <1>1, <1>4
    <3>2. l - 1 \in DOMAIN Thresholds /\ l - 1 >= Level(v) /\ l > 1
      BY <3>1, <1>1, <1>4
    <3>3. Thresholds[Level(v)] <= Thresholds[l - 1]
      BY <3>2, <2>3, <1>1, <1>4 DEF LegendAscends
    <3> QED
      BY <3>2, <3>3, <2>3, <1>1, <1>4
  <2> QED
    BY <1>1, <1>4, <2>1, <2>2, <2>3
<1> QED
  BY <1>2, <1>3, <1>4, LevelIsFirst

\* Some threshold parts two values.
Parted(u, v) ==
  \E k \in DOMAIN Thresholds : (u <= Thresholds[k]) # (v <= Thresholds[k])

\* Two values that riskLevel tells apart are parted, and if the legend ascends
\* it tells apart all that are.
LEMMA LevelsPart ==
  ASSUME NEW u \in Values, NEW v \in Values
  PROVE  /\ Compares(u, v) => HasLevel(u) /\ HasLevel(v) /\ Parted(u, v)
         /\ LegendAscends => (HasLevel(u) /\ HasLevel(v) /\ Parted(u, v) => Compares(u, v))
<1>1. /\ Len(Thresholds) \in Nat /\ DOMAIN Thresholds = 1..Len(Thresholds)
      /\ \A k \in DOMAIN Thresholds : Thresholds[k] \in Nat
      /\ Null \notin Nat /\ NoRow \notin Nat
  BY AlertRunAssumption
<1>2. HasLevel(u) => u \in Nat /\ u # NoRow
  BY DEF HasLevel, Values
<1>3. HasLevel(v) => v \in Nat /\ v # NoRow
  BY DEF HasLevel, Values
<1>4. Compares(u, v) => HasLevel(u) /\ HasLevel(v)
  BY LevelsAgree DEF Compares
<1>5. SUFFICES ASSUME HasLevel(u), HasLevel(v)
               PROVE  /\ Compares(u, v) => Parted(u, v)
                      /\ LegendAscends /\ Parted(u, v) => Compares(u, v)
  BY <1>4
<1>6. u \in Nat /\ v \in Nat /\ u # NoRow /\ v # NoRow
  BY <1>2, <1>3, <1>5
<1>7. Level(u) # Default /\ Level(v) # Default
  BY <1>5, <1>6, LevelsAgree
<1>8. Compares(u, v) <=> Level(u) # Level(v)
  BY <1>6, <1>7 DEF Compares
<1> DEFINE First(w) == /\ Level(w) \in DOMAIN Thresholds
                       /\ w <= Thresholds[Level(w)]
                       /\ \A j \in DOMAIN Thresholds : j < Level(w) => Thresholds[j] < w
<1>9. First(u) /\ First(v)
  <2>1. u \in Nat \cup {Null} /\ v \in Nat \cup {Null}
    BY <1>6
  <2> QED
    BY <2>1, <1>7, LevelIsFirst
<1>10. ASSUME Level(u) # Level(v) PROVE Parted(u, v)
  <2>1. CASE Level(u) < Level(v)
    <3>1. u <= Thresholds[Level(u)] /\ ~(v <= Thresholds[Level(u)])
      BY <2>1, <1>1, <1>6, <1>9
    <3> QED
      BY <3>1, <1>9 DEF Parted
  <2>2. CASE Level(v) < Level(u)
    <3>1. v <= Thresholds[Level(v)] /\ ~(u <= Thresholds[Level(v)])
      BY <2>2, <1>1, <1>6, <1>9
    <3> QED
      BY <3>1, <1>9 DEF Parted
  <2> QED
    BY <2>1, <2>2, <1>9, <1>10, <1>1
<1>11. ASSUME LegendAscends, Parted(u, v), Level(u) = Level(v) PROVE FALSE
  <2>1. PICK k \in DOMAIN Thresholds : (u <= Thresholds[k]) # (v <= Thresholds[k])
    BY <1>11 DEF Parted
  <2>2. CASE k < Level(u)
    BY <2>1, <2>2, <1>1, <1>6, <1>9, <1>11
  <2>3. CASE k >= Level(u)
    <3>1. Thresholds[Level(u)] <= Thresholds[k]
      BY <2>3, <1>1, <1>9, <1>11 DEF LegendAscends
    <3>2. u <= Thresholds[k] /\ v <= Thresholds[k]
      BY <3>1, <1>1, <1>6, <1>9, <1>11
    <3> QED
      BY <2>1, <3>2
  <2> QED
    BY <2>2, <2>3, <1>1, <1>9
<1> QED
  BY <1>8, <1>10, <1>11
-----------------------------------------------------------------------------
(* The dates that are read *)

LEMMA RowsAreFunctions ==
  ASSUME NEW row \in Results
  PROVE  /\ row # Nothing
         /\ \A o \in Objects : row[o] \in Values
<1>1. row \in [Objects -> Values] /\ \E o \in Objects : row[o] # NoRow
  BY AlertRunAssumption DEF Values
<1>2. DOMAIN row = Objects /\ Objects # {}
  BY <1>1
<1>3. DOMAIN Nothing = {}
  BY DEF Nothing
<1> QED
  BY <1>1, <1>2, <1>3

LEMMA StoredDates ==
  ASSUME TypeOK, Kept
  PROVE  /\ Stored \in SUBSET (1..newest) /\ newest \in Nat
         /\ \A d \in Stored : table[d] \in Results
         /\ \A d \in (1..newest) \ erased : d \in Stored
<1>1. newest \in 0..MaxDates /\ MaxDates \in Nat /\ table \in [Dates -> Results \cup {Nothing}]
  BY AlertRunAssumption DEF TypeOK
<1>2. ASSUME NEW d \in Stored PROVE d \in 1..newest /\ table[d] \in Results
  <2>1. d \in Dates /\ table[d] # Nothing
    BY DEF Stored
  <2>2. ~(d > newest)
    BY <2>1 DEF Kept
  <2> QED
    BY <1>1, <2>1, <2>2 DEF Dates
<1>3. ASSUME NEW d \in (1..newest) \ erased PROVE d \in Stored
  <2>1. table[d] \in Results
    BY DEF Kept
  <2>2. table[d] # Nothing
    BY <2>1, RowsAreFunctions
  <2>3. d \in Dates
    BY <1>1 DEF Dates
  <2> QED
    BY <2>2, <2>3 DEF Stored
<1> QED
  BY <1>1, <1>2, <1>3

\* Dates later than d.
Later(d) == {e \in Stored : e > d}

\* The newest of the dates that are there is read.
LEMMA NewestRead ==
  ASSUME TypeOK, Kept, Stored # {}
  PROVE  /\ ReadDates # {} /\ ReadDates \in SUBSET Stored /\ ReadDates \in SUBSET (1..newest)
         /\ MaxOf(ReadDates) \in ReadDates /\ \A d \in Stored : d <= MaxOf(ReadDates)
<1>1. Stored \in SUBSET (1..newest) /\ newest \in Nat
  BY StoredDates
<1> DEFINE m == MaxOf(Stored)
<1>2. m \in Stored /\ \A d \in Stored : d <= m
  BY <1>1, MaxOfIsGreatest
<1> HIDE DEF m
<1>3. {e \in Stored : e > m} = {}
  <2>1. ASSUME NEW e \in Stored PROVE ~(e > m)
    <3>1. e \in 1..newest /\ m \in 1..newest /\ e <= m
      BY <1>1, <1>2
    <3> QED
      BY <1>1, <3>1
  <2> QED
    BY <2>1
<1>4. Cardinality({e \in Stored : e > m}) = 0
  BY <1>3, FS_EmptySet
<1>5. LastValues \in Nat \ {0}
  BY AlertRunAssumption
<1>6. m \in ReadDates
  BY <1>2, <1>4, <1>5 DEF ReadDates
<1>7. ReadDates \in SUBSET Stored /\ ReadDates \in SUBSET (1..newest)
  BY <1>1 DEF ReadDates
<1>8. MaxOf(ReadDates) \in ReadDates /\ \A d \in ReadDates : d <= MaxOf(ReadDates)
  BY <1>1, <1>6, <1>7, MaxOfIsGreatest
<1>9. m <= MaxOf(ReadDates) /\ MaxOf(ReadDates) \in 1..newest
  BY <1>6, <1>7, <1>8
<1>10. \A d \in Stored : d <= MaxOf(ReadDates)
  BY <1>1, <1>2, <1>9
<1> QED
  BY <1>6, <1>7, <1>8, <1>10

\* If the newest date and the one before are known, the report compares these
\* two or, when a single one is read, none.
LEMMA PreviousRead ==
  ASSUME TypeOK, Kept, Stored # {}, NEW last, last = MaxOf(ReadDates), Known(last)
  PROVE  /\ Cardinality(ReadDates) > 1 =>
              last > 1 /\ last - 1 \in Stored /\ MaxOf(ReadDates \ {last}) = last - 1
         /\ last > 1 /\ LastValues > 1 => Cardinality(ReadDates) > 1
<1>1. /\ Stored \in SUBSET (1..newest) /\ newest \in Nat
      /\ \A d \in (1..newest) \ erased : d \in Stored
      /\ erased \in SUBSET redone
  BY StoredDates DEF TypeOK
<1>2. /\ ReadDates \in SUBSET Stored /\ ReadDates \in SUBSET (1..newest)
      /\ last \in ReadDates /\ \A d \in Stored : d <= last
  BY NewestRead
<1>3. last \in 1..newest /\ last > 1 => last - 1 \in Stored
  <2>1. last - 1 \notin erased
    BY <1>1 DEF Known
  <2> QED
    BY <1>1, <1>2, <2>1
<1>4. LastValues \in Nat \ {0}
  BY AlertRunAssumption
<1>5. IsFiniteSet(ReadDates) /\ Cardinality(ReadDates) \in Nat
  BY <1>1, <1>2, PartsFinite
<1>6. /\ Cardinality(ReadDates \ {last}) = Cardinality(ReadDates) - 1
      /\ IsFiniteSet(ReadDates \ {last})
  BY <1>2, <1>5, FS_RemoveElement
<1>7. \A d \in ReadDates : d \in Nat /\ last \in Nat
  BY <1>1, <1>2
<1>8. ASSUME NEW d \in ReadDates \ {last}
      PROVE  LastValues > 1 /\ last > 1
  <2>1. d \in Stored /\ d < last /\ d \in 1..newest /\ Cardinality(Later(d)) < LastValues
    BY <1>1, <1>2, <1>7 DEF ReadDates, Later
  <2>2. last \in Later(d)
    BY <1>2, <2>1 DEF Later
  <2>3. IsFiniteSet(Later(d)) /\ Cardinality(Later(d)) \in Nat
    <3>1. Later(d) \in SUBSET (1..newest)
      BY <1>1 DEF Later
    <3> QED
      BY <1>1, <3>1, PartsFinite
  <2>4. Cardinality(Later(d)) # 0
    BY <2>2, <2>3, FS_EmptySet
  <2> QED
    BY <2>1, <2>3, <2>4, <1>4, <1>7
<1>9. ASSUME LastValues > 1, last > 1
      PROVE  last - 1 \in ReadDates \ {last}
  <2>1. last - 1 \in Stored
    BY <1>2, <1>3, <1>9
  <2>2. \A e \in Stored : e > last - 1 <=> e = last
    BY <1>1, <1>2, <1>7
  <2>3. {e \in Stored : e > last - 1} = {last}
    BY <1>2, <2>2
  <2>4. Cardinality({e \in Stored : e > last - 1}) = 1
    BY <2>3, FS_Singleton
  <2>5. last - 1 \in ReadDates
    BY <2>1, <2>4, <1>4, <1>9 DEF ReadDates
  <2> QED
    BY <2>5, <1>2, <1>7
<1>10. ASSUME Cardinality(ReadDates) > 1
       PROVE  last > 1 /\ last - 1 \in Stored /\ MaxOf(ReadDates \ {last}) = last - 1
  <2>1. ReadDates \ {last} # {}
    BY <1>5, <1>6, <1>10, FS_EmptySet
  <2>2. LastValues > 1 /\ last > 1
    BY <2>1, <1>8
  <2>3. last - 1 \in ReadDates \ {last}
    BY <2>2, <1>9
  <2> DEFINE p == MaxOf(ReadDates \ {last})
  <2>4. p \in ReadDates \ {last} /\ \A d \in ReadDates \ {last} : d <= p
    <3>1. ReadDates \ {last} \in SUBSET (1..newest)
      BY <1>2
    <3> QED
      BY <1>1, <2>1, <3>1, MaxOfIsGreatest
  <2> HIDE DEF p
  <2>5. p \in Nat /\ last \in Nat /\ p <= last /\ p # last /\ last - 1 <= p
    BY <2>3, <2>4, <1>2, <1>7
  <2>6. p = last - 1
    BY <2>5
  <2>7. last - 1 \in Stored
    BY <2>3, <1>2
  <2> QED
    BY <2>2, <2>6, <2>7 DEF p
<1>11. ASSUME LastValues > 1, last > 1 PROVE Cardinality(ReadDates) > 1
  <2>1. Cardinality(ReadDates \ {last}) # 0
    BY <1>6, <1>9, <1>11, FS_EmptySet
  <2>2. Cardinality(ReadDates \ {last}) \in Nat
    BY <1>6, FS_CardinalityType
  <2> QED
    BY <2>1, <2>2, <1>5, <1>6
<1> QED
  BY <1>10, <1>11

-----------------------------------------------------------------------------
(* What a report says *)

Risk(row) == IF Levels(row) = {} THEN 0 ELSE MaxOf(Levels(row))

\* The risk of a row reaches a level if one of its values does.
LEMMA RiskIsReached ==
  ASSUME NEW row \in Results
  PROVE  /\ Risk(row) \in 0..Len(Thresholds)
         /\ \A l \in 1..Len(Thresholds) :
              l <= Risk(row) <=> \E o \in Objects : HasLevel(row[o]) /\ l <= Level(row[o])
<1>1. /\ Len(Thresholds) \in Nat
      /\ \A o \in Objects : row[o] \in Values
  BY RowsAreFunctions, AlertRunAssumption
<1>2. ASSUME NEW n \in Levels(row)
      PROVE  n \in 1..Len(Thresholds) /\ \E o \in Objects : HasLevel(row[o]) /\ Level(row[o]) = n
  <2>1. PICK o \in Objects : row[o] # NoRow /\ Level(row[o]) = n /\ n # Default
    BY DEF Levels
  <2>2. HasLevel(row[o]) /\ Level(row[o]) \in 1..Len(Thresholds)
    BY <1>1, <2>1, LevelsAgree
  <2> QED
    BY <2>1, <2>2
<1>3. ASSUME NEW o \in Objects, HasLevel(row[o]) PROVE Level(row[o]) \in Levels(row)
  <2>1. row[o] # NoRow
    BY <1>3 DEF HasLevel
  <2>2. Level(row[o]) # Default
    BY <1>1, <1>3, <2>1, LevelsAgree
  <2> QED
    BY <2>1, <2>2 DEF Levels
<1>4. CASE Levels(row) = {}
  BY <1>1, <1>3, <1>4 DEF Risk
<1>5. CASE Levels(row) # {}
  <2>1. Levels(row) \in SUBSET (1..Len(Thresholds))
    BY <1>2
  <2>2. Risk(row) \in Levels(row) /\ \A n \in Levels(row) : n <= Risk(row)
    BY <1>1, <1>5, <2>1, MaxOfIsGreatest DEF Risk
  <2>3. Risk(row) \in 1..Len(Thresholds)
    BY <2>1, <2>2
  <2>4. ASSUME NEW l \in 1..Len(Thresholds), l <= Risk(row)
        PROVE  \E o \in Objects : HasLevel(row[o]) /\ l <= Level(row[o])
    BY <1>2, <2>2, <2>4
  <2>5. ASSUME NEW l \in 1..Len(Thresholds), NEW o \in Objects, HasLevel(row[o]), l <= Level(row[o])
        PROVE  l <= Risk(row)
    <3>1. Level(row[o]) \in Levels(row) /\ Level(row[o]) <= Risk(row)
      BY <1>3, <2>2, <2>5
    <3>2. Level(row[o]) \in 1..Len(Thresholds)
      BY <3>1, <2>1
    <3> QED
      BY <3>1, <3>2, <2>3, <2>5, <1>1
  <2> QED
    BY <1>1, <2>3, <2>4, <2>5
<1> QED
  BY <1>4, <1>5
-----------------------------------------------------------------------------
(* Types *)

LEMMA NotificationTypes ==
  /\ Len(Notifications) \in Nat /\ DOMAIN Notifications = 1..Len(Notifications)
  /\ \A k \in DOMAIN Notifications :
       Notifications[k].level \in Nat /\ Notifications[k].change \in BOOLEAN
<1>1. Notifications \in Seq([level : Nat, change : BOOLEAN])
  BY AlertRunAssumption
<1>2. /\ Len(Notifications) \in Nat /\ DOMAIN Notifications = 1..Len(Notifications)
      /\ \A k \in DOMAIN Notifications : Notifications[k] \in [level : Nat, change : BOOLEAN]
  BY <1>1, LenProperties, ElementOfSeq
<1> QED
  BY <1>2

LEMMA TypeInit == Init => TypeInv
<1> SUFFICES ASSUME Init PROVE TypeInv
  OBVIOUS
<1>1. /\ MaxDates \in Nat /\ MaxFaults \in Nat /\ Len(Thresholds) \in Nat
      /\ Len(Notifications) \in Nat
  BY AlertRunAssumption, NotificationTypes
<1>2. report \in [date : 0..newest, changed : BOOLEAN, max : 0..Len(Thresholds)]
  BY <1>1 DEF Init, NoReport
<1>3. TypeOK
  BY <1>1, <1>2 DEF Init, TypeOK
<1>4. Kept /\ Dated
  BY DEF Init, Kept, Dated
<1> QED
  BY <1>3, <1>4 DEF TypeInv

\* What the analysis does leaves the execution alone.
LEMMA TypeAnalysis ==
  ASSUME TypeInv,
         \/ \E row \in Results : Store(row)
         \/ \E d \in Dates : Erase(d) \/ \E row \in Results : StoreAgain(d, row)
  PROVE  TypeInv'
<1>1. /\ TypeOK /\ Kept /\ Dated
      /\ newest \in Nat /\ MaxDates \in Nat /\ newest <= MaxDates /\ Dates = 1..MaxDates
      /\ table \in [Dates -> Results \cup {Nothing}] /\ queue \in Seq(1..newest)
      /\ erased \subseteq redone /\ redone \subseteq 1..newest
  <2>1. TypeOK /\ Kept /\ Dated
    BY DEF TypeInv
  <2>2. MaxDates \in Nat /\ newest \in 0..MaxDates /\ Dates = 1..MaxDates
    BY <2>1, AlertRunAssumption DEF TypeOK, Dates
  <2>3. /\ table \in [Dates -> Results \cup {Nothing}] /\ queue \in Seq(1..newest)
        /\ erased \subseteq redone /\ redone \subseteq 1..newest
    BY <2>1 DEF TypeOK
  <2> QED
    BY <2>1, <2>2, <2>3
<1>2. UNCHANGED <<execution, history>>
  BY DEF Store, Erase, StoreAgain
<1>3. Dated'
  BY <1>1, <1>2 DEF Dated, execution, history
<1>4. ASSUME NEW row \in Results, Store(row) PROVE TypeOK' /\ Kept'
  <2>1. newest' = newest + 1 /\ newest' \in 0..MaxDates /\ newest + 1 \in Dates
    BY <1>1, <1>4 DEF Store
  <2>2. table' \in [Dates -> Results \cup {Nothing}]
    BY <1>1, <1>4 DEF Store
  <2>3. queue' \in Seq(1..newest')
    <3>1. queue \in Seq(1..newest')
      <4>1. 1..newest \subseteq 1..newest'
        BY <1>1, <2>1
      <4> QED
        BY <1>1, <4>1, SeqMonotonic
    <3>2. newest + 1 \in 1..newest'
      BY <1>1, <2>1
    <3>3. queue' = Append(queue, newest + 1)
      BY <1>4 DEF Store
    <3> QED
      BY <3>1, <3>2, <3>3, AppendProperties
  <2>4. erased' \subseteq redone' /\ redone' \subseteq 1..newest'
    BY <1>1, <1>4, <2>1 DEF Store
  <2>5. report' \in [date : 0..newest', changed : BOOLEAN, max : 0..Len(Thresholds)]
    <3>1. report \in [date : 0..newest, changed : BOOLEAN, max : 0..Len(Thresholds)] /\ report' = report
      BY <1>1, <1>2 DEF TypeOK, execution
    <3>2. 0..newest \subseteq 0..newest'
      BY <1>1, <2>1
    <3> QED
      BY <3>1, <3>2
  <2>6. /\ stage' \in {"idle", "read", "notify"} /\ date' \in 0..newest'
        /\ next' \in 1..(Len(Notifications) + 1) /\ tried' \subseteq 1..(next' - 1)
        /\ signal' \in {"none", "failed", "done", "notify"}
    BY <1>1, <1>2, <2>1 DEF TypeOK, execution
  <2>7. /\ told' \subseteq (DOMAIN Notifications) \X (1..newest')
        /\ astray' \subseteq 1..newest' /\ unsent' \subseteq 1..newest'
        /\ faults' \in 0..MaxFaults
    <3>1. 1..newest \subseteq 1..newest'
      BY <1>1, <2>1
    <3> QED
      BY <1>1, <1>2, <3>1 DEF TypeOK, history
  <2>8. TypeOK'
    BY <2>1, <2>2, <2>3, <2>4, <2>5, <2>6, <2>7 DEF TypeOK
  <2>9. Kept'
    BY <1>1, <1>4, <2>1 DEF Kept, Store
  <2> QED
    BY <2>8, <2>9
<1>5. ASSUME NEW d \in Dates, Erase(d) PROVE TypeOK' /\ Kept'
  <2>1. newest' = newest /\ queue' = queue /\ table' = [table EXCEPT ![d] = Nothing]
        /\ redone' = redone \cup {d} /\ erased' = erased \cup {d} /\ d \in Stored
    BY <1>5 DEF Erase
  <2>2. d \in 1..newest
    BY <1>1, <2>1, StoredDates
  <2>3. table' \in [Dates -> Results \cup {Nothing}]
    BY <1>1, <2>1
  <2>4. erased' \subseteq redone' /\ redone' \subseteq 1..newest'
    BY <1>1, <2>1, <2>2
  <2>5. TypeOK'
    BY <1>1, <1>2, <2>1, <2>3, <2>4 DEF TypeOK, execution, history
  <2>6. Kept'
    BY <1>1, <2>1 DEF Kept
  <2> QED
    BY <2>5, <2>6
<1>6. ASSUME NEW d \in Dates, NEW row \in Results, StoreAgain(d, row) PROVE TypeOK' /\ Kept'
  <2>1. newest' = newest /\ queue' = Append(queue, d) /\ table' = [table EXCEPT ![d] = row]
        /\ redone' = redone /\ erased' = erased \ {d} /\ d \in erased
    BY <1>6 DEF StoreAgain
  <2>2. d \in 1..newest
    BY <1>1, <2>1
  <2>3. table' \in [Dates -> Results \cup {Nothing}]
    BY <1>1, <2>1
  <2>4. erased' \subseteq redone' /\ redone' \subseteq 1..newest'
    BY <1>1, <2>1
  <2>5. queue' \in Seq(1..newest)
    BY <1>1, <2>1, <2>2, AppendProperties
  <2>6. TypeOK'
    BY <1>1, <1>2, <2>1, <2>3, <2>4, <2>5 DEF TypeOK, execution, history
  <2>7. Kept'
    BY <1>1, <2>1, <2>2 DEF Kept
  <2> QED
    BY <2>6, <2>7
<1> QED
  BY <1>3, <1>4, <1>5, <1>6 DEF TypeInv

\* An execution that ends leaves nothing of itself.
LEMMA TypeEnds ==
  ASSUME TypeInv, NEW how \in {"failed", "done", "notify"}, Ends(how), UNCHANGED <<data, queue, told, astray>>,
         unsent' \subseteq 1..newest, faults' \in 0..MaxFaults
  PROVE  TypeInv'
<1>1. TypeOK /\ Kept
  BY DEF TypeInv
<1>2. newest \in Nat /\ Len(Thresholds) \in Nat /\ Len(Notifications) \in Nat
  BY <1>1, AlertRunAssumption, NotificationTypes DEF TypeOK
<1>3. report' \in [date : 0..newest, changed : BOOLEAN, max : 0..Len(Thresholds)]
  BY <1>2 DEF Ends, NoReport
<1>4. TypeOK'
  BY <1>1, <1>2, <1>3 DEF TypeOK, Ends, data
<1>5. Kept' /\ Dated'
  BY <1>1 DEF Kept, Dated, Ends, data
<1> QED
  BY <1>4, <1>5 DEF TypeInv

\* The notification that is turned to.
LEMMA TurnedTo ==
  ASSUME TypeOK, More
  PROVE  next \in DOMAIN Notifications /\ next \in Nat
BY NotificationTypes DEF More, TypeOK

LEMMA TypeExecution ==
  ASSUME TypeInv, Execution
  PROVE  TypeInv'
<1>1. /\ TypeOK /\ Kept /\ Dated
      /\ newest \in Nat /\ MaxFaults \in Nat /\ faults \in 0..MaxFaults
      /\ unsent \subseteq 1..newest /\ date \in 0..newest /\ queue \in Seq(1..newest)
      /\ report \in [date : 0..newest, changed : BOOLEAN, max : 0..Len(Thresholds)]
  BY AlertRunAssumption DEF TypeInv, TypeOK
<1>2. CASE Begin
  <2>1. Head(queue) \in 1..newest /\ Tail(queue) \in Seq(1..newest)
    BY <1>1, <1>2, HeadTailProperties DEF Begin
  <2>2. TypeOK'
    BY <1>1, <1>2, <2>1 DEF Begin, TypeOK, data, history
  <2>3. Kept' /\ Dated'
    BY <1>1, <1>2, <2>1 DEF Begin, Kept, Dated, data, history
  <2> QED
    BY <2>2, <2>3 DEF TypeInv
<1>3. CASE Read
  <2> DEFINE last == MaxOf(ReadDates)
  <2>1. Stored # {}
    BY <1>3 DEF Read, ReadDates
  <2>2. last \in 1..newest /\ table[last] \in Results
    BY <1>1, <2>1, NewestRead, StoredDates
  <2>3. MaxRisk(ReadDates) = Risk(table[last])
    BY DEF MaxRisk, Risk
  <2>4. MaxRisk(ReadDates) \in 0..Len(Thresholds)
    BY <2>2, <2>3, RiskIsReached
  <2>5. RiskChanged(ReadDates) \in BOOLEAN
    BY DEF RiskChanged
  <2>6. /\ report' = [date |-> last, changed |-> RiskChanged(ReadDates), max |-> MaxRisk(ReadDates)]
        /\ astray' = IF last = date THEN astray ELSE astray \cup {date}
        /\ stage = "read" /\ stage' = "notify"
        /\ UNCHANGED <<data, queue, date, next, tried, signal, told, unsent, faults>>
    BY <1>3 DEF Read
  <2>7. report' \in [date : 0..newest, changed : BOOLEAN, max : 0..Len(Thresholds)] /\ report'.date = last
    <3> HIDE DEF last
    <3>1. last \in 0..newest
      BY <2>2, <1>1
    <3> QED
      BY <2>4, <2>5, <2>6, <3>1
  <2>8. date \in 1..newest /\ next = 1
    BY <1>1, <2>6 DEF Dated
  <2>9. astray' \subseteq 1..newest
    BY <1>1, <2>6, <2>8 DEF TypeOK
  <2>10. TypeOK'
    BY <1>1, <2>6, <2>7, <2>9 DEF TypeOK, data
  <2>11. Kept'
    BY <1>1, <2>6 DEF Kept, data
  <2>12. Dated'
    <3> HIDE DEF last
    <3> QED
      BY <2>2, <2>6, <2>7, <2>8 DEF Dated
  <2> QED
    BY <2>10, <2>11, <2>12 DEF TypeInv
<1>4. ASSUME NEW kind, NEW d \in 1..newest, Fails(kind, d)
      PROVE  unsent' \subseteq 1..newest /\ faults' \in 0..MaxFaults /\ told' = told
  BY <1>1, <1>4 DEF Fails
<1>5. ASSUME stage # "idle" PROVE date \in 1..newest
  BY <1>1, <1>5 DEF Dated
<1>6. ASSUME stage = "notify" PROVE report.date \in 1..newest
  BY <1>1, <1>6 DEF Dated
<1>7. CASE ReadFails
  <2>1. Fails("data", date) /\ date \in 1..newest
    BY <1>5, <1>7 DEF ReadFails
  <2> QED
    BY <1>4, <1>7, <2>1, TypeEnds DEF ReadFails
<1>8. CASE ReadNothing
  BY <1>1, <1>8, TypeEnds DEF ReadNothing, history
<1>9. CASE NotifyThrows
  <2>1. Fails("server", report.date) /\ report.date \in 1..newest
    BY <1>6, <1>9 DEF NotifyThrows, Tries, More
  <2> QED
    BY <1>4, <1>9, <2>1, TypeEnds DEF NotifyThrows
<1>10. CASE Finish
  <2>1. (IF tried # {} THEN "notify" ELSE "done") \in {"failed", "done", "notify"}
    OBVIOUS
  <2> QED
    BY <1>1, <1>10, <2>1, TypeEnds DEF Finish, history
<1>11. CASE Skip \/ Notify \/ NotifyFails
  <2>1. More /\ stage = "notify"
    BY <1>11 DEF Skip, Notify, NotifyFails, Tries, More
  <2>2. next \in DOMAIN Notifications /\ next \in Nat /\ next <= Len(Notifications)
    BY <1>1, <2>1, TurnedTo DEF More
  <2>3. /\ next' = next + 1
        /\ tried' = tried \/ tried' = tried \cup {next}
        /\ UNCHANGED <<data, queue, stage, date, report, signal, astray>>
    BY <1>11 DEF Skip, Notify, NotifyFails, GoesOn, history
  <2>4. told' \subseteq (DOMAIN Notifications) \X (1..newest)
    <3>1. report.date \in 1..newest
      BY <1>6, <2>1
    <3>2. told' = told \/ told' = told \cup {<<next, report.date>>}
      BY <1>11 DEF Skip, Notify, NotifyFails, Fails, history
    <3> QED
      BY <1>1, <2>2, <3>1, <3>2 DEF TypeOK
  <2>5. unsent' \subseteq 1..newest /\ faults' \in 0..MaxFaults
    <3>1. CASE NotifyFails
      BY <1>4, <1>6, <2>1, <3>1 DEF NotifyFails
    <3>2. CASE Skip \/ Notify
      BY <1>1, <3>2 DEF Skip, Notify, history
    <3> QED
      BY <1>11, <3>1, <3>2
  <2>6. tried' \subseteq 1..(next' - 1) /\ next' \in 1..(Len(Notifications) + 1)
    <3>1. tried \subseteq 1..(next - 1) /\ Len(Notifications) \in Nat /\ next >= 1
      BY <1>1, <2>2, NotificationTypes DEF TypeOK
    <3>2. \A k \in tried' : k \in 1..next
      <4>1. \A k \in tried' : k \in tried \/ k = next
        BY <2>3
      <4>2. \A k \in tried : k \in 1..next
        BY <2>2, <3>1
      <4>3. next \in 1..next
        BY <2>2, <3>1
      <4> QED
        BY <4>1, <4>2, <4>3
    <3>3. next' - 1 = next
      BY <2>2, <2>3
    <3>4. next' \in 1..(Len(Notifications) + 1)
      BY <2>2, <2>3, <3>1
    <3> QED
      BY <3>2, <3>3, <3>4
  <2>7. TypeOK'
    BY <1>1, <2>3, <2>4, <2>5, <2>6 DEF TypeOK, data
  <2>8. Kept' /\ Dated'
    BY <1>1, <2>1, <2>3 DEF Kept, Dated, data
  <2> QED
    BY <2>7, <2>8 DEF TypeInv
<1> QED
  BY <1>2, <1>3, <1>7, <1>8, <1>9, <1>10, <1>11 DEF Execution

LEMMA TypeStep == TypeInv /\ [Next]_vars => TypeInv'
<1> SUFFICES ASSUME TypeInv, [Next]_vars PROVE TypeInv'
  OBVIOUS
<1>1. CASE UNCHANGED vars
  BY <1>1 DEF vars, data, execution, history, TypeInv, TypeOK, Kept, Dated, Dates
<1>2. CASE Next
  BY <1>2, TypeAnalysis, TypeExecution DEF Next
<1> QED
  BY <1>1, <1>2
\* Every variable has its type, a date has its results unless it is being computed
\* again, and an execution that reports on a date that is not its own is astray.
THEOREM TypeCorrect == Spec => []TypeInv
<1>1. Init => TypeInv
  BY TypeInit
<1>2. TypeInv /\ [Next]_vars => TypeInv'
  BY TypeStep
<1> QED
  BY <1>1, <1>2, PTL DEF Spec

-----------------------------------------------------------------------------
(* An execution that ends as done has tried what its report calls for *)

LEMMA WantedMeans ==
  ASSUME TypeOK, NEW k \in DOMAIN Notifications
  PROVE  Wanted(Notifications[k]) <=>
           /\ Notifications[k].level <= report.max
           /\ Notifications[k].change => report.changed
<1>1. /\ Notifications[k].level \in Nat /\ Notifications[k].change \in BOOLEAN
      /\ report.max \in Nat
  <2>1. report.max \in 0..Len(Thresholds) /\ Len(Thresholds) \in Nat
    BY AlertRunAssumption DEF TypeOK
  <2> QED
    BY <2>1, NotificationTypes
<1> QED
  BY <1>1 DEF Wanted

LEMMA TriedStep ==
  ASSUME TypeInv, Tried, [Next]_vars
  PROVE  Tried'
<1> SUFFICES ASSUME stage' = "notify", NEW k \in 1..(next' - 1), Wanted(Notifications[k])'
             PROVE  k \in tried'
  BY DEF Tried
<1>1. CASE stage # "notify"
  <2>1. next = 1 /\ next' = next
    BY <1>1 DEF TypeInv, Dated, Next, Store, Erase, StoreAgain, Execution, Begin, Read, ReadFails, ReadNothing,
                Skip, Notify, NotifyFails, NotifyThrows, Finish, Tries, More, Ends, vars, execution
  <2> QED
    BY <2>1
<1>2. CASE stage = "notify"
  <2>1. UNCHANGED <<report, next, tried>> \/ Skip \/ Notify \/ NotifyFails
    BY <1>2 DEF Next, Store, Erase, StoreAgain, Execution, Begin, Read, ReadFails, ReadNothing,
                NotifyThrows, Finish, Ends, vars, execution
  <2>2. CASE UNCHANGED <<report, next, tried>>
    BY <1>2, <2>2 DEF Tried, Wanted
  <2>3. CASE Skip \/ Notify \/ NotifyFails
    <3>1. /\ next' = next + 1 /\ report' = report /\ tried \subseteq tried'
          /\ Wanted(Notifications[next]) => next \in tried'
      BY <2>3 DEF Skip, Notify, NotifyFails, Tries, GoesOn
    <3>2. next \in Nat
      BY <2>3, TurnedTo DEF Skip, Notify, NotifyFails, Tries, TypeInv
    <3>3. Wanted(Notifications[k])
      BY <3>1 DEF Wanted
    <3>4. k \in 1..(next - 1) \/ k = next
      BY <3>1, <3>2
    <3> QED
      BY <1>2, <3>1, <3>3, <3>4 DEF Tried
  <2> QED
    BY <2>1, <2>2, <2>3
<1> QED
  BY <1>1, <1>2

LEMMA EndsTried ==
  ASSUME TypeInv, Tried, [Next]_vars, stage = "notify", signal' # "failed", stage' = "idle",
         NEW k \in DOMAIN Notifications,
         Notifications[k].change => report.changed, Notifications[k].level <= report.max
  PROVE  k \in tried
<1>1. Finish
  BY DEF Next, Store, Erase, StoreAgain, Execution, Begin, Read, ReadFails, ReadNothing,
         Skip, Notify, NotifyFails, NotifyThrows, Finish, Tries, More, GoesOn, Ends, vars, execution
<1>2. next > Len(Notifications) /\ next \in 1..(Len(Notifications) + 1)
  BY <1>1 DEF Finish, TypeInv, TypeOK
<1>3. k \in 1..(next - 1)
  BY <1>2, NotificationTypes
<1>4. Wanted(Notifications[k])
  BY WantedMeans DEF TypeInv
<1> QED
  BY <1>3, <1>4 DEF Tried

\* An execution that ends as done has tried every notification that its report
\* calls for, whichever could not be sent: a NotifierException is no reason to
\* leave out the notifications that follow it.
THEOREM DoneMeansTriedCorrect == Spec => DoneMeansTried
<1> DEFINE Action ==
      (stage = "notify" /\ signal' # "failed" /\ stage' = "idle") =>
        \A k \in DOMAIN Notifications :
          LET n == Notifications[k]
          IN ((n.change => report.changed) /\ n.level <= report.max) => k \in tried
<1>1. Init => TypeInv /\ Tried
  BY TypeInit DEF Init, Tried
<1>2. TypeInv /\ Tried /\ [Next]_vars => TypeInv' /\ Tried'
  BY TypeStep, TriedStep
<1>3. TypeInv /\ Tried /\ [Next]_vars => [Action]_vars
  BY EndsTried
<1>4. Spec => [][Action]_vars
  BY <1>1, <1>2, <1>3, PTL DEF Spec
<1> QED
  BY <1>4 DEF DoneMeansTried
-----------------------------------------------------------------------------
(* What is known of a date does not change *)

LEMMA RowStays ==
  ASSUME TypeInv, [Next]_vars, NEW d \in 1..newest, d \notin redone'
  PROVE  /\ d \notin redone /\ d \in 1..newest'
         /\ table'[d] = table[d]
         /\ \A l : Reaches(d, l)' <=> Reaches(d, l)
<1>1. /\ newest \in 0..MaxDates /\ MaxDates \in Nat /\ Dates = 1..MaxDates
      /\ erased \subseteq redone
      /\ table \in [Dates -> Results \cup {Nothing}]
  <2>1. TypeOK /\ MaxDates \in Nat
    BY AlertRunAssumption DEF TypeInv
  <2> QED
    BY <2>1 DEF TypeOK, Dates
<1>2. redone \subseteq redone' /\ newest' \in Nat /\ newest <= newest'
  BY <1>1 DEF Next, Store, Erase, StoreAgain, Execution, Begin, Read, ReadFails, ReadNothing,
              Skip, Notify, NotifyFails, NotifyThrows, Finish, GoesOn, vars, data
<1>3. d \notin redone /\ d \in 1..newest' /\ d \in Dates
  BY <1>1, <1>2
<1>4. table'[d] = table[d]
  <2>1. ASSUME NEW row \in Results, Store(row) PROVE table'[d] = table[d]
    <3>1. d # newest + 1
      BY <1>1
    <3> QED
      BY <1>1, <1>3, <2>1, <3>1 DEF Store
  <2>2. ASSUME NEW f \in Dates, Erase(f) PROVE table'[d] = table[d]
    <3>1. f \in redone' /\ table' = [table EXCEPT ![f] = Nothing]
      BY <2>2 DEF Erase
    <3> QED
      BY <1>1, <1>3, <3>1
  <2>3. ASSUME NEW f \in Dates, NEW row \in Results, StoreAgain(f, row) PROVE table'[d] = table[d]
    <3>1. f \in redone' /\ table' = [table EXCEPT ![f] = row]
      BY <1>1, <2>3 DEF StoreAgain
    <3> QED
      BY <1>1, <1>3, <3>1
  <2>4. CASE Execution \/ UNCHANGED vars
    BY <2>4 DEF Execution, Begin, Read, ReadFails, ReadNothing, Skip, Notify, NotifyFails,
                NotifyThrows, Finish, GoesOn, vars, data
  <2> QED
    BY <2>1, <2>2, <2>3, <2>4 DEF Next
<1>5. ASSUME NEW l PROVE Reaches(d, l)' <=> Reaches(d, l)
  BY <1>4 DEF Reaches
<1> QED
  BY <1>3, <1>4, <1>5

LEMMA KnownStays ==
  ASSUME TypeInv, [Next]_vars, NEW d \in 1..newest, Known(d)'
  PROVE  /\ Known(d) /\ d \in 1..newest'
         /\ Changes(d)' <=> Changes(d)
         /\ \A l : Reaches(d, l)' <=> Reaches(d, l)
         /\ \A n : Due(n, d)' <=> Due(n, d)
<1>1. newest \in Nat /\ redone \subseteq 1..newest
  <2>1. TypeOK /\ MaxDates \in Nat
    BY AlertRunAssumption DEF TypeInv
  <2> QED
    BY <2>1 DEF TypeOK
<1>2. d \notin redone' /\ d - 1 \notin redone'
  BY DEF Known
<1>3. /\ d \notin redone /\ d \in 1..newest' /\ table'[d] = table[d]
      /\ \A l : Reaches(d, l)' <=> Reaches(d, l)
  BY <1>2, RowStays
<1>4. d > 1 => d - 1 \notin redone /\ table'[d - 1] = table[d - 1]
  <2> SUFFICES ASSUME d > 1 PROVE d - 1 \notin redone /\ table'[d - 1] = table[d - 1]
    OBVIOUS
  <2>1. d - 1 \in 1..newest
    BY <1>1
  <2> QED
    BY <1>2, <2>1, RowStays
<1>5. Known(d)
  BY <1>1, <1>3, <1>4 DEF Known
<1>6. Changes(d)' <=> Changes(d)
  BY <1>3, <1>4 DEF Changes
<1> QED
  BY <1>3, <1>5, <1>6 DEF Due

LEMMA DueStays ==
  ASSUME TypeInv, [Next]_vars, NEW k \in DOMAIN Notifications, NEW d \in 1..newest,
         Stands(Notifications[k], d)'
  PROVE  /\ Stands(Notifications[k], d)
         /\ Due(Notifications[k], d)' <=> Due(Notifications[k], d)
<1> DEFINE n == Notifications[k]
<1>1. d \notin redone' /\ (n.change => d - 1 \notin redone')
  BY DEF Stands
<1>2. d \notin redone /\ \A l : Reaches(d, l)' <=> Reaches(d, l)
  BY <1>1, RowStays
<1>3. n.change => d - 1 \notin redone /\ (Changes(d)' <=> Changes(d))
  <2> SUFFICES ASSUME n.change PROVE d - 1 \notin redone /\ (Changes(d)' <=> Changes(d))
    OBVIOUS
  <2>1. Known(d)'
    BY <1>1 DEF Known
  <2>2. Known(d) /\ (Changes(d)' <=> Changes(d))
    BY <2>1, KnownStays
  <2> QED
    BY <2>2 DEF Known
<1> QED
  BY <1>2, <1>3 DEF Stands, Due

-----------------------------------------------------------------------------
(* A report says what the table says *)

LEMMA ReadReport ==
  ASSUME TypeInv, Read, NEW last, last = MaxOf(ReadDates)
  PROVE  /\ report' = [date |-> last, changed |-> RiskChanged(ReadDates), max |-> MaxRisk(ReadDates)]
         /\ report'.date = last /\ last \in 1..newest /\ UNCHANGED <<table, redone>>
         /\ \A l \in 1..Len(Thresholds) : l <= report'.max => Reaches(last, l)
         /\ LegendAscends => \A l \in 1..Len(Thresholds) : Reaches(last, l) => l <= report'.max
         /\ Known(last) => /\ report'.changed => Changes(last)
                           /\ LegendAscends /\ LastValues > 1 => (Changes(last) => report'.changed)
<1>1. TypeOK /\ Kept /\ Stored # {}
  BY DEF TypeInv, Read, ReadDates
<1>2. /\ last \in 1..newest /\ last \in Stored /\ table[last] \in Results
      /\ newest \in Nat
      /\ \A d \in Stored : d \in 1..newest /\ table[d] \in Results
  BY <1>1, NewestRead, StoredDates
<1>3. /\ report' = [date |-> last, changed |-> RiskChanged(ReadDates), max |-> MaxRisk(ReadDates)]
      /\ UNCHANGED <<table, redone>>
  BY DEF Read, data
<1>4. /\ report'.date = last /\ report'.changed = RiskChanged(ReadDates)
      /\ report'.max = Risk(table[last])
  BY <1>3 DEF MaxRisk, Risk
<1> DEFINE row == table[last]
<1>5. \A o \in Objects : row[o] \in Values
  BY <1>2, RowsAreFunctions
<1>6. ASSUME NEW l \in 1..Len(Thresholds), l <= Risk(row) PROVE Reaches(last, l)
  <2>1. PICK o \in Objects : HasLevel(row[o]) /\ l <= Level(row[o])
    BY <1>2, <1>6, RiskIsReached
  <2>2. row[o] # NoRow
    BY <2>1 DEF HasLevel
  <2>3. l > 1 => Thresholds[l - 1] < row[o]
    BY <1>5, <2>1, <2>2, LevelsAgree
  <2> QED
    BY <2>1, <2>3 DEF Reaches
<1>7. ASSUME LegendAscends, NEW l \in 1..Len(Thresholds), Reaches(last, l) PROVE l <= Risk(row)
  <2>1. PICK o \in Objects : HasLevel(row[o]) /\ (l > 1 => Thresholds[l - 1] < row[o])
    BY <1>7 DEF Reaches
  <2>2. row[o] # NoRow
    BY <2>1 DEF HasLevel
  <2>3. l <= Level(row[o])
    BY <1>5, <1>7, <2>1, <2>2, LevelsAgree
  <2> QED
    BY <1>2, <2>1, <2>3, RiskIsReached
<1>8. ASSUME Known(last)
      PROVE  /\ RiskChanged(ReadDates) => Changes(last)
             /\ LegendAscends /\ LastValues > 1 => (Changes(last) => RiskChanged(ReadDates))
  <2> DEFINE prior == table[last - 1]
             several == Cardinality(ReadDates) > 1
  <2>1. /\ several => last > 1 /\ last - 1 \in Stored /\ MaxOf(ReadDates \ {last}) = last - 1
        /\ last > 1 /\ LastValues > 1 => several
    BY <1>1, <1>8, PreviousRead
  <2>2. RiskChanged(ReadDates) <=> several /\ \E o \in Objects : Compares(row[o], prior[o])
    BY <2>1 DEF RiskChanged
  <2>3. Changes(last) <=>
          last > 1 /\ \E o \in Objects : HasLevel(row[o]) /\ HasLevel(prior[o]) /\ Parted(row[o], prior[o])
    BY DEF Changes, Parted
  <2>4. several => \A o \in Objects : prior[o] \in Values
    BY <1>2, <2>1, RowsAreFunctions
  <2>5. several => \A o \in Objects :
          /\ Compares(row[o], prior[o]) => HasLevel(row[o]) /\ HasLevel(prior[o]) /\ Parted(row[o], prior[o])
          /\ LegendAscends => (HasLevel(row[o]) /\ HasLevel(prior[o]) /\ Parted(row[o], prior[o])
                                 => Compares(row[o], prior[o]))
    <3> HIDE DEF row, prior
    <3> QED
      BY <1>5, <2>4, LevelsPart
  <2> HIDE DEF row, prior, several
  <2> QED
    BY <2>1, <2>2, <2>3, <2>5
<1> QED
  BY <1>2, <1>3, <1>4, <1>6, <1>7, <1>8

\* What happens to a report between its making and its end.
LEMMA ReportStays ==
  ASSUME TypeInv, [Next]_vars, stage' = "notify", ~Read
  PROVE  stage = "notify" /\ UNCHANGED <<report, date>> /\ report.date \in 1..newest
<1>1. stage = "notify" /\ UNCHANGED <<report, date>>
  BY DEF Next, Store, Erase, StoreAgain, Execution, Begin, ReadFails, ReadNothing,
         Skip, Notify, NotifyFails, NotifyThrows, Finish, GoesOn, Tries, More, Ends, vars, execution
<1>2. report.date \in 0..newest /\ newest \in Nat /\ report.date # 0
  <2>1. newest \in 0..MaxDates /\ report.date \in 0..newest /\ MaxDates \in Nat
    BY AlertRunAssumption DEF TypeInv, TypeOK
  <2> QED
    BY <1>1, <2>1 DEF TypeInv, Dated
<1> QED
  BY <1>1, <1>2

LEMMA ReportSoundStep ==
  ASSUME TypeInv, ReportSound, [Next]_vars
  PROVE  ReportSound'
<1> SUFFICES ASSUME stage' = "notify"
             PROVE  /\ Known(report.date)' /\ report'.changed => Changes(report.date)'
                    /\ report'.date \notin redone' =>
                         \A l \in 1..Len(Thresholds) : l <= report'.max => Reaches(report.date, l)'
  BY DEF ReportSound
<1>1. CASE Read
  <2> DEFINE last == MaxOf(ReadDates)
  <2>1. /\ report'.date = last /\ UNCHANGED <<table, redone>>
        /\ \A l \in 1..Len(Thresholds) : l <= report'.max => Reaches(last, l)
        /\ Known(last) => (report'.changed => Changes(last))
    BY <1>1, ReadReport
  <2> HIDE DEF last
  <2>2. Known(report.date)' => Known(last)
    BY <2>1 DEF Known
  <2> QED
    BY <2>1, <2>2 DEF Changes, Reaches
<1>2. CASE ~Read
  <2>1. stage = "notify" /\ UNCHANGED <<report, date>> /\ report.date \in 1..newest
    BY <1>2, ReportStays
  <2>2. PICK e \in 1..newest : e = report.date
    BY <2>1
  <2>3. report'.date = e /\ report' = report
    BY <2>1, <2>2
  <2>4. ASSUME Known(report.date)', report'.changed PROVE Changes(report.date)'
    <3>1. Known(e)'
      BY <2>3, <2>4 DEF Known
    <3>2. Known(e) /\ (Changes(e)' <=> Changes(e))
      BY <3>1, KnownStays
    <3>3. Changes(e)
      BY <2>1, <2>2, <2>3, <2>4, <3>2 DEF ReportSound
    <3> QED
      BY <2>3, <3>2, <3>3 DEF Changes
  <2>5. ASSUME report'.date \notin redone', NEW l \in 1..Len(Thresholds), l <= report'.max
        PROVE  Reaches(report.date, l)'
    <3>1. e \notin redone /\ (Reaches(e, l)' <=> Reaches(e, l))
      BY <2>3, <2>5, RowStays
    <3>2. Reaches(e, l)
      BY <2>1, <2>2, <2>3, <2>5, <3>1 DEF ReportSound
    <3> QED
      BY <2>3, <3>1, <3>2 DEF Reaches
  <2> QED
    BY <2>4, <2>5
<1> QED
  BY <1>1, <1>2
LEMMA ReportCompleteStep ==
  ASSUME LegendAscends, LastValues > 1, TypeInv, ReportComplete, [Next]_vars
  PROVE  ReportComplete'
<1> SUFFICES ASSUME stage' = "notify", Known(report.date)'
             PROVE  /\ Changes(report.date)' => report'.changed
                    /\ \A l \in 1..Len(Thresholds) : Reaches(report.date, l)' => l <= report'.max
  BY DEF ReportComplete
<1>1. CASE Read
  <2> DEFINE last == MaxOf(ReadDates)
  <2>1. /\ report'.date = last /\ UNCHANGED <<table, redone>>
        /\ \A l \in 1..Len(Thresholds) : Reaches(last, l) => l <= report'.max
        /\ Known(last) => (Changes(last) => report'.changed)
    BY <1>1, ReadReport
  <2> HIDE DEF last
  <2>2. Known(last)
    BY <2>1 DEF Known
  <2> QED
    BY <2>1, <2>2 DEF Changes, Reaches
<1>2. CASE ~Read
  <2>1. stage = "notify" /\ UNCHANGED <<report, date>> /\ report.date \in 1..newest
    BY <1>2, ReportStays
  <2>2. PICK e \in 1..newest : e = report.date
    BY <2>1
  <2>3. Known(e)'
    BY <2>1, <2>2 DEF Known
  <2>4. Known(e) /\ (Changes(e)' <=> Changes(e)) /\ \A l : Reaches(e, l)' <=> Reaches(e, l)
    BY <2>3, KnownStays
  <2>5. /\ Changes(e) => report.changed
        /\ \A l \in 1..Len(Thresholds) : Reaches(e, l) => l <= report.max
    BY <2>1, <2>2, <2>4 DEF ReportComplete
  <2>6. report'.date = e /\ report' = report
    BY <2>1, <2>2
  <2> QED
    BY <2>4, <2>5, <2>6 DEF Changes, Reaches
<1> QED
  BY <1>1, <1>2

-----------------------------------------------------------------------------
(* What is told is due *)

LEMMA WantedIsDue ==
  ASSUME TypeInv, ReportSound, stage = "notify",
         NEW k \in DOMAIN Notifications, Wanted(Notifications[k]),
         Stands(Notifications[k], report.date)
  PROVE  Due(Notifications[k], report.date)
<1> DEFINE n == Notifications[k]
<1>1. /\ n.level \in Nat /\ n.change \in BOOLEAN
      /\ report.max \in 0..Len(Thresholds) /\ Len(Thresholds) \in Nat
      /\ n.level <= report.max
      /\ n.change => report.changed
  <2>1. TypeOK
    BY DEF TypeInv
  <2>2. n.level \in Nat /\ n.change \in BOOLEAN
    BY NotificationTypes
  <2>3. report.max \in 0..Len(Thresholds) /\ Len(Thresholds) \in Nat
    BY <2>1, AlertRunAssumption DEF TypeOK
  <2>4. n.level <= report.max /\ (n.change => report.changed)
    BY <2>1, WantedMeans
  <2> QED
    BY <2>2, <2>3, <2>4
<1>2. report.date \notin redone /\ (n.change => Known(report.date))
  BY DEF Stands, Known
<1>3. n.change => Changes(report.date)
  BY <1>1, <1>2 DEF ReportSound
<1>4. ASSUME n.level > 0 PROVE Reaches(report.date, n.level)
  <2>1. n.level \in 1..Len(Thresholds)
    BY <1>1, <1>4
  <2> QED
    BY <1>1, <1>2, <2>1 DEF ReportSound
<1> QED
  BY <1>3, <1>4 DEF Due

LEMMA ToldIsDueStep ==
  ASSUME SoundInv, [Next]_vars
  PROVE  ToldIsDue'
<1> SUFFICES ASSUME NEW k \in DOMAIN Notifications, NEW d \in 1..newest', <<k, d>> \in told',
                    Stands(Notifications[k], d)'
             PROVE  Due(Notifications[k], d)'
  BY DEF ToldIsDue
<1>1. TypeInv /\ ReportSound /\ ToldIsDue
  BY DEF SoundInv
<1>2. told \subseteq (DOMAIN Notifications) \X (1..newest)
  BY <1>1 DEF TypeInv, TypeOK
<1>3. \/ told' = told
      \/ Notify
  BY DEF Next, Store, Erase, StoreAgain, Execution, Begin, Read, ReadFails, ReadNothing, Fails,
         Skip, NotifyFails, NotifyThrows, Finish, GoesOn, vars, history
<1>4. CASE <<k, d>> \in told
  <2>1. d \in 1..newest
    BY <1>2, <1>4
  <2>2. Stands(Notifications[k], d) /\ (Due(Notifications[k], d)' <=> Due(Notifications[k], d))
    BY <1>1, <2>1, DueStays
  <2> QED
    BY <1>1, <1>4, <2>1, <2>2 DEF ToldIsDue
<1>5. CASE <<k, d>> \notin told
  <2>1. Notify
    BY <1>3, <1>5
  <2>2. k = next /\ d = report.date /\ stage = "notify" /\ Wanted(Notifications[k])
    BY <1>5, <2>1 DEF Notify, Tries, More
  <2>3. d \in 1..newest
    BY <2>1 DEF Notify, GoesOn, data
  <2>4. Stands(Notifications[k], d) /\ (Due(Notifications[k], d)' <=> Due(Notifications[k], d))
    BY <1>1, <2>3, DueStays
  <2>5. Due(Notifications[k], d)
    BY <1>1, <2>2, <2>4, WantedIsDue
  <2> QED
    BY <2>4, <2>5
<1> QED
  BY <1>4, <1>5

LEMMA SoundStep == SoundInv /\ [Next]_vars => SoundInv'
BY TypeStep, ReportSoundStep, ToldIsDueStep DEF SoundInv

\* No target is told of a date whose results do not reach the level, or do not
\* change the level, that its notification asks about: whatever dates an
\* execution reads, in whatever order the dates come, whichever legend there is.
\* Nothing is said of a date that was itself computed again nor, for a
\* notification on a change, of the date that follows it.
THEOREM NothingElseToldCorrect == Spec => []NothingElseTold
<1>1. Init => SoundInv
  BY TypeInit DEF Init, SoundInv, ReportSound, ToldIsDue
<1>2. SoundInv => NothingElseTold
  <2> SUFFICES ASSUME SoundInv PROVE NothingElseTold
    OBVIOUS
  <2>1. TypeOK
    BY DEF SoundInv, TypeInv
  <2>2. ASSUME NEW d \in Dates, NEW k \in DOMAIN Notifications, <<k, d>> \in told,
               Stands(Notifications[k], d)
        PROVE  Due(Notifications[k], d)
    <3>1. d \in 1..newest
      BY <2>1, <2>2 DEF TypeOK
    <3> QED
      BY <2>2, <3>1 DEF SoundInv, ToldIsDue
  <2> QED
    BY <2>1, <2>2 DEF NothingElseTold
<1> QED
  BY <1>1, <1>2, SoundStep, PTL DEF Spec
-----------------------------------------------------------------------------
(* What is due is told *)

LEMMA DueIsWanted ==
  ASSUME LegendAscends, TypeInv, ReportComplete, stage = "notify", Known(report.date),
         NEW k \in DOMAIN Notifications, Due(Notifications[k], report.date)
  PROVE  Wanted(Notifications[k])
<1> DEFINE n == Notifications[k]
<1>1. TypeOK
  BY DEF TypeInv
<1>2. n.level \in Nat /\ n.change \in BOOLEAN /\ n.level <= Len(Thresholds)
  BY NotificationTypes DEF LegendAscends
<1>3. report.max \in 0..Len(Thresholds) /\ Len(Thresholds) \in Nat
  BY <1>1, AlertRunAssumption DEF TypeOK
<1>4. n.change => report.changed
  BY DEF Due, ReportComplete
<1>5. ASSUME n.level > 0 PROVE n.level <= report.max
  <2>1. n.level \in 1..Len(Thresholds) /\ Reaches(report.date, n.level)
    BY <1>2, <1>3, <1>5 DEF Due
  <2> QED
    BY <2>1 DEF ReportComplete
<1>6. n.level <= report.max
  BY <1>2, <1>3, <1>5
<1> QED
  BY <1>1, <1>4, <1>6, WantedMeans

\* What DueIsTold says of a date.
Told(d) ==
  \/ \E i \in DOMAIN queue : queue[i] = d
  \/ stage = "read" /\ date = d
  \/ \A k \in DOMAIN Notifications : Due(Notifications[k], d) => <<k, d>> \in told \/ Remains(k, d)

\* A date that was told of before stays told of, if the execution and the queue
\* lose nothing.
LEMMA ToldStays ==
  ASSUME TypeInv, [Next]_vars, NEW d \in 1..newest, Known(d)', Told(d),
         told \subseteq told',
         \A i \in DOMAIN queue : queue[i] = d => \E j \in DOMAIN queue' : queue'[j] = d,
         stage = "read" /\ date = d => stage' = "read" /\ date' = d,
         \A k \in DOMAIN Notifications :
           Remains(k, d) /\ Due(Notifications[k], d) => Remains(k, d)' \/ <<k, d>> \in told'
  PROVE  Told(d)'
<1>1. \A n : Due(n, d)' <=> Due(n, d)
  BY KnownStays
<1>2. CASE \E i \in DOMAIN queue : queue[i] = d
  BY <1>2 DEF Told
<1>3. CASE stage = "read" /\ date = d
  BY <1>3 DEF Told
<1>4. CASE \A k \in DOMAIN Notifications : Due(Notifications[k], d) => <<k, d>> \in told \/ Remains(k, d)
  <2>1. \A k \in DOMAIN Notifications : Due(Notifications[k], d)' => <<k, d>> \in told' \/ Remains(k, d)'
    BY <1>1, <1>4
  <2> QED
    BY <2>1 DEF Told
<1> QED
  BY <1>2, <1>3, <1>4 DEF Told

LEMMA AppendKeeps ==
  ASSUME NEW S, NEW q \in Seq(S), NEW e \in S
  PROVE  /\ \A i \in DOMAIN q : i \in DOMAIN Append(q, e) /\ Append(q, e)[i] = q[i]
         /\ \E j \in DOMAIN Append(q, e) : Append(q, e)[j] = e
<1>1. /\ Len(q) \in Nat /\ DOMAIN q = 1..Len(q)
      /\ DOMAIN Append(q, e) = 1..(Len(q) + 1)
      /\ \A i \in 1..Len(q) : Append(q, e)[i] = q[i]
      /\ Append(q, e)[Len(q) + 1] = e
  <2>1. Append(q, e) \in Seq(S) /\ Len(Append(q, e)) = Len(q) + 1
    BY AppendProperties
  <2> QED
    BY <2>1, AppendProperties, LenProperties
<1> QED
  BY <1>1

LEMMA ToldAnalysis ==
  ASSUME CompleteInv, [Next]_vars, NEW d \in 1..newest', Known(d)', d \notin astray' \cup unsent',
         \/ \E row \in Results : Store(row)
         \/ \E e \in Dates : Erase(e) \/ \E row \in Results : StoreAgain(e, row)
  PROVE  Told(d)'
<1>1. TypeInv /\ TypeOK /\ DueIsTold
  BY DEF CompleteInv, TypeInv
<1>2. /\ queue \in Seq(1..newest) /\ erased \subseteq 1..newest /\ newest \in Nat /\ MaxDates \in Nat
  BY <1>1, AlertRunAssumption DEF TypeOK
<1>3. UNCHANGED <<stage, date, next, told, astray, unsent>>
  BY DEF Store, Erase, StoreAgain, execution, history
<1>4. ASSUME NEW e, queue' = queue \/ (queue' = Append(queue, e) /\ e \in Nat)
      PROVE  \A i \in DOMAIN queue : queue[i] = d => \E j \in DOMAIN queue' : queue'[j] = d
  <2>1. CASE queue' = queue
    BY <2>1
  <2>2. CASE queue' = Append(queue, e) /\ e \in Nat
    <3>1. queue \in Seq(Nat)
      BY <1>2, SeqMonotonic
    <3> QED
      BY <2>2, <3>1, AppendKeeps
  <2> QED
    BY <1>4, <2>1, <2>2
<1>5. ASSUME d \in 1..newest PROVE Told(d)'
  <2>1. Told(d)
    <3>1. Known(d)
      BY <1>1, <1>5, KnownStays
    <3> QED
      BY <1>1, <1>3, <1>5, <3>1 DEF DueIsTold, Told
  <2>2. \A i \in DOMAIN queue : queue[i] = d => \E j \in DOMAIN queue' : queue'[j] = d
    <3>1. \E e : queue' = queue \/ (queue' = Append(queue, e) /\ e \in Nat)
      <4>1. ASSUME NEW row \in Results, Store(row) PROVE queue' = Append(queue, newest + 1) /\ newest + 1 \in Nat
        BY <1>2, <4>1 DEF Store
      <4>2. ASSUME NEW e \in Dates, Erase(e) PROVE queue' = queue
        BY <4>2 DEF Erase
      <4>3. ASSUME NEW e \in Dates, NEW row \in Results, StoreAgain(e, row)
            PROVE  queue' = Append(queue, e) /\ e \in Nat
        BY <1>2, <4>3 DEF StoreAgain, Dates
      <4> QED
        BY <4>1, <4>2, <4>3
    <3> QED
      BY <1>4, <3>1
  <2>3. \A k \in DOMAIN Notifications : Remains(k, d) => Remains(k, d)'
    BY <1>3 DEF Remains
  <2> QED
    BY <1>1, <1>3, <1>5, <2>1, <2>2, <2>3, ToldStays
<1>6. ASSUME d \notin 1..newest PROVE Told(d)'
  <2>1. PICK row \in Results : Store(row)
    <3>1. newest' # newest
      BY <1>6
    <3> QED
      BY <3>1 DEF Erase, StoreAgain
  <2>2. d = newest + 1 /\ queue' = Append(queue, newest + 1)
    BY <1>2, <1>6, <2>1 DEF Store
  <2>3. \E j \in DOMAIN queue' : queue'[j] = d
    <3>1. queue \in Seq(Nat) /\ newest + 1 \in Nat
      BY <1>2, SeqMonotonic
    <3>2. \E j \in DOMAIN Append(queue, newest + 1) : Append(queue, newest + 1)[j] = newest + 1
      BY <3>1, AppendKeeps
    <3> QED
      BY <2>2, <3>2
  <2> QED
    BY <2>3 DEF Told
<1> QED
  BY <1>5, <1>6
LEMMA ToldExecution ==
  ASSUME LegendAscends, CompleteInv, [Next]_vars, NEW d \in 1..newest', Known(d)',
         d \notin astray' \cup unsent', Execution
  PROVE  Told(d)'
<1>1. TypeInv /\ TypeOK /\ Kept /\ Dated /\ ReportComplete /\ DueIsTold
  BY DEF CompleteInv, TypeInv
<1>2. UNCHANGED data /\ told \subseteq told' /\ astray \subseteq astray' /\ unsent \subseteq unsent'
  BY DEF Execution, Begin, Read, ReadFails, ReadNothing, Fails, Skip, Notify, NotifyFails,
         NotifyThrows, Finish, GoesOn, history
<1>3. d \in 1..newest /\ Known(d) /\ d \notin astray \cup unsent
  BY <1>2 DEF data, Known
<1>4. Told(d)
  BY <1>1, <1>3 DEF DueIsTold, Told
<1>5. ASSUME stage = "notify", date = d PROVE report.date = d
  BY <1>1, <1>3, <1>5 DEF Dated
<1>6. \A k \in DOMAIN Notifications : k \in Nat /\ k \in 1..Len(Notifications)
  BY NotificationTypes
<1>7. queue \in Seq(1..newest)
  BY <1>1 DEF TypeOK
<1> DEFINE Queued == \A i \in DOMAIN queue : queue[i] = d => \E j \in DOMAIN queue' : queue'[j] = d
           Reads == stage = "read" /\ date = d => stage' = "read" /\ date' = d
           Goes == \A k \in DOMAIN Notifications :
                     Remains(k, d) /\ Due(Notifications[k], d) => Remains(k, d)' \/ <<k, d>> \in told'
<1>8. Queued /\ Reads /\ Goes => Told(d)'
  BY <1>1, <1>2, <1>3, <1>4, ToldStays
<1>9. queue' = queue => Queued
  OBVIOUS
<1>10. CASE Begin
  <2>1. stage = "idle" /\ stage' = "read" /\ queue # <<>> /\ date' = Head(queue) /\ queue' = Tail(queue)
    BY <1>10 DEF Begin
  <2>2. CASE Head(queue) = d
    BY <2>1, <2>2 DEF Told
  <2>3. CASE Head(queue) # d
    <3>1. Queued
      <4> SUFFICES ASSUME NEW i \in DOMAIN queue, queue[i] = d
                   PROVE  \E j \in DOMAIN queue' : queue'[j] = d
        OBVIOUS
      <4>1. /\ Len(queue) \in Nat /\ DOMAIN queue = 1..Len(queue) /\ Head(queue) = queue[1]
            /\ DOMAIN queue' = 1..(Len(queue) - 1)
            /\ \A j \in 1..(Len(queue) - 1) : queue'[j] = queue[j + 1]
        BY <1>7, <2>1, HeadTailProperties, LenProperties
      <4>2. i - 1 \in 1..(Len(queue) - 1) /\ (i - 1) + 1 = i
        BY <2>3, <4>1
      <4> QED
        BY <4>1, <4>2
    <3>2. Reads /\ Goes
      BY <2>1 DEF Remains
    <3> QED
      BY <1>8, <3>1, <3>2
  <2> QED
    BY <2>2, <2>3
<1>11. CASE Read
  <2> DEFINE last == MaxOf(ReadDates)
  <2>1. /\ stage = "read" /\ stage' = "notify" /\ next' = next /\ date' = date /\ queue' = queue
        /\ astray' = IF last = date THEN astray ELSE astray \cup {date}
    BY <1>11 DEF Read
  <2>2. next = 1
    BY <1>1, <2>1 DEF Dated
  <2>3. CASE date = d
    <3>1. \A k \in DOMAIN Notifications : Remains(k, d)'
      BY <1>6, <2>1, <2>2, <2>3 DEF Remains
    <3> QED
      BY <3>1 DEF Told
  <2>4. CASE date # d
    <3>1. Reads /\ Goes
      BY <2>1, <2>4 DEF Remains
    <3> QED
      BY <1>8, <1>9, <2>1, <3>1
  <2> QED
    BY <2>3, <2>4
<1>12. CASE ReadFails
  <2>1. queue' = queue /\ stage = "read" /\ unsent' = unsent \cup {date}
    BY <1>12 DEF ReadFails, Fails
  <2>2. date # d
    BY <2>1
  <2>3. Reads /\ Goes
    BY <2>1, <2>2 DEF Remains
  <2> QED
    BY <1>8, <1>9, <2>1, <2>3
<1>13. CASE ReadNothing
  <2>1. queue' = queue /\ stage = "read" /\ ReadDates = {}
    BY <1>13 DEF ReadNothing
  <2>2. d \notin erased
    BY <1>1, <1>3 DEF Known, TypeOK
  <2>3. d \in Stored
    BY <1>1, <1>3, <2>2, StoredDates
  <2>4. FALSE
    BY <1>1, <2>1, <2>3, NewestRead
  <2> QED
    BY <2>4
<1>14. CASE Skip
  <2>1. /\ queue' = queue /\ stage = "notify" /\ stage' = "notify" /\ next' = next + 1 /\ date' = date
        /\ ~Wanted(Notifications[next]) /\ next \in Nat
    BY <1>1, <1>14, TurnedTo DEF Skip, More
  <2>2. Reads
    BY <2>1
  <2>3. Goes
    <3> SUFFICES ASSUME NEW k \in DOMAIN Notifications, Remains(k, d), Due(Notifications[k], d)
                 PROVE  Remains(k, d)'
      OBVIOUS
    <3>1. date = d /\ k >= next
      BY DEF Remains
    <3>2. Wanted(Notifications[k])
      BY <1>1, <1>3, <1>5, <2>1, <3>1, DueIsWanted
    <3>3. k # next
      BY <2>1, <3>2
    <3> QED
      BY <1>6, <2>1, <3>1, <3>3 DEF Remains
  <2> QED
    BY <1>8, <1>9, <2>1, <2>2, <2>3
<1>15. CASE Notify
  <2>1. /\ queue' = queue /\ stage = "notify" /\ stage' = "notify" /\ next' = next + 1 /\ date' = date
        /\ told' = told \cup {<<next, report.date>>} /\ next \in Nat
    BY <1>1, <1>15, TurnedTo DEF Notify, Tries, GoesOn, More
  <2>2. Reads
    BY <2>1
  <2>3. Goes
    <3> SUFFICES ASSUME NEW k \in DOMAIN Notifications, Remains(k, d)
                 PROVE  Remains(k, d)' \/ <<k, d>> \in told'
      OBVIOUS
    <3>1. date = d /\ k >= next
      BY DEF Remains
    <3>2. CASE k = next
      BY <1>5, <2>1, <3>1, <3>2
    <3>3. CASE k # next
      BY <1>6, <2>1, <3>1, <3>3 DEF Remains
    <3> QED
      BY <3>2, <3>3
  <2> QED
    BY <1>8, <1>9, <2>1, <2>2, <2>3
<1>16. CASE NotifyFails \/ NotifyThrows
  <2>1. queue' = queue /\ stage = "notify" /\ unsent' = unsent \cup {report.date}
    BY <1>16 DEF NotifyFails, NotifyThrows, Fails, GoesOn, Tries, More
  <2>2. date # d
    BY <1>5, <2>1
  <2>3. Reads /\ Goes
    BY <2>1, <2>2 DEF Remains
  <2> QED
    BY <1>8, <1>9, <2>1, <2>3
<1>17. CASE Finish
  <2>1. queue' = queue /\ stage = "notify" /\ next > Len(Notifications) /\ next \in Nat
        /\ Len(Notifications) \in Nat
    BY <1>1, <1>17, NotificationTypes DEF Finish, TypeOK
  <2>2. Reads /\ Goes
    <3>1. \A k \in DOMAIN Notifications : ~(k >= next)
      BY <1>6, <2>1
    <3> QED
      BY <2>1, <3>1 DEF Remains
  <2> QED
    BY <1>8, <1>9, <2>1, <2>2
<1> QED
  BY <1>10, <1>11, <1>12, <1>13, <1>14, <1>15, <1>16, <1>17 DEF Execution

LEMMA CompleteStep ==
  ASSUME LegendAscends, LastValues > 1, CompleteInv, [Next]_vars
  PROVE  CompleteInv'
<1>1. TypeInv /\ ReportComplete /\ DueIsTold
  BY DEF CompleteInv
<1>2. TypeInv' /\ ReportComplete'
  BY <1>1, TypeStep, ReportCompleteStep
<1>3. ASSUME NEW d \in 1..newest', Known(d)', d \notin astray' \cup unsent'
      PROVE  Told(d)'
  <2>1. CASE UNCHANGED vars
    <3>1. Told(d)
      BY <1>1, <1>3, <2>1 DEF DueIsTold, Told, Known, vars, data, history
    <3> QED
      BY <2>1, <3>1 DEF Told, Due, Changes, Reaches, Remains, vars, data, execution, history
  <2>2. CASE Next
    BY <1>3, <2>2, ToldAnalysis, ToldExecution DEF Next
  <2> QED
    BY <2>1, <2>2
<1>4. DueIsTold'
  BY <1>3 DEF DueIsTold, Told
<1> QED
  BY <1>2, <1>4 DEF CompleteInv

\* When the legend ascends and more than one date is read, every date is told of
\* whose results reach the level, or change the level, that a notification asks
\* about, unless its execution read another date or sending failed.
THEOREM EachDateToldCorrect ==
  ASSUME LegendAscends, LastValues > 1
  PROVE  Spec => []EachDateTold
<1>1. Init => CompleteInv
  BY TypeInit DEF Init, CompleteInv, ReportComplete, DueIsTold
<1>2. CompleteInv => EachDateTold
  <2> SUFFICES ASSUME CompleteInv, NEW d \in Dates, NEW k \in DOMAIN Notifications,
                      Settled(d), Due(Notifications[k], d), d \notin astray \cup unsent
               PROVE  <<k, d>> \in told
    BY DEF EachDateTold
  <2>1. newest \in 0..MaxDates /\ MaxDates \in Nat
    BY AlertRunAssumption DEF CompleteInv, TypeInv, TypeOK
  <2>2. d \in 1..newest /\ Known(d) /\ stage = "idle" /\ queue = <<>>
    BY <2>1 DEF Settled, Known, Dates
  <2>3. Told(d)
    BY <2>2 DEF CompleteInv, DueIsTold, Told
  <2>4. ~ \E i \in DOMAIN queue : queue[i] = d
    BY <2>2
  <2> QED
    BY <2>2, <2>3, <2>4 DEF Told, Remains
<1>3. CompleteInv /\ [Next]_vars => CompleteInv'
  BY CompleteStep
<1> QED
  BY <1>1, <1>2, <1>3, PTL DEF Spec
=============================================================================
