------------------------- MODULE ServiceQueueProofs -------------------------
(***************************************************************************)
(* Theorems about ServiceQueue, for every set of processes and workers and *)
(* every bound.                                                            *)
(***************************************************************************)
EXTENDS ServiceQueue, TLAPS, FiniteSetTheorems, SequenceTheorems, WellFoundedInduction

-----------------------------------------------------------------------------
(* What remains of a vector after std::remove_if *)

LEMMA LeastElement ==
  ASSUME NEW T \in SUBSET Nat, T # {}
  PROVE  \E n \in T : \A m \in T : n <= m
<1>1. PICK n \in T : \A m \in T : <<m, n>> \notin OpToRel(<, Nat)
  BY NatLessThanWellFounded, WFMin, Zenon
<1>2. \A m \in T : ~(m < n)
  BY <1>1 DEF OpToRel
<1> QED
  BY <1>2

LEMMA GreatestElement ==
  ASSUME NEW N \in Nat, NEW S \in SUBSET (1..N), S # {}
  PROVE  \E n \in S : \A m \in S : m <= n
<1> DEFINE T == {k \in Nat : \E i \in S : k = N - i}
<1>1. T # {}
  <2>1. PICK i \in S : TRUE
    OBVIOUS
  <2>2. N - i \in T
    BY <2>1
  <2> QED
    BY <2>2
<1>2. PICK k \in T : \A m \in T : k <= m
  BY <1>1, LeastElement
<1>3. PICK n \in S : k = N - n
  BY <1>2
<1>4. ASSUME NEW m \in S PROVE m <= n
  <2>1. N - m \in T
    OBVIOUS
  <2>2. k <= N - m
    BY <2>1, <1>2
  <2> QED
    BY <2>2, <1>3
<1> QED
  BY <1>4

LEMMA PositionsFinite ==
  ASSUME NEW N \in Nat, NEW S \in SUBSET (1..N)
  PROVE  IsFiniteSet(S) /\ Cardinality(S) \in Nat
<1>1. IsFiniteSet(1..N)
  BY FS_Interval
<1>2. IsFiniteSet(S)
  BY <1>1, FS_Subset
<1> QED
  BY <1>2, FS_CardinalityType

Increasing(f) == \A i, j \in DOMAIN f : i < j => f[i] < f[j]

\* Every set of positions can be enumerated in increasing order.
LEMMA EnumerationExists ==
  ASSUME NEW N \in Nat, NEW S \in SUBSET (1..N)
  PROVE  \E f \in [1..Cardinality(S) -> S] : Increasing(f)
<1> DEFINE Good(R) == \E f \in [1..Cardinality(R) -> R] : Increasing(f)
           Bad == {n \in Nat : \E R \in SUBSET (1..N) : Cardinality(R) = n /\ ~Good(R)}
<1>1. ASSUME NEW R \in SUBSET (1..N) PROVE IsFiniteSet(R) /\ Cardinality(R) \in Nat
  BY PositionsFinite
<1>2. Bad = {}
  <2> SUFFICES ASSUME Bad # {} PROVE FALSE
    OBVIOUS
  <2>1. PICK n \in Bad : \A m \in Bad : n <= m
    BY LeastElement
  <2>2. PICK R \in SUBSET (1..N) : Cardinality(R) = n /\ ~Good(R)
    BY <2>1
  <2>3. CASE R = {}
    <3>1. Cardinality(R) = 0
      BY <2>3, FS_EmptySet
    <3>2. [i \in 1..0 |-> 0] \in [1..0 -> R] /\ Increasing([i \in 1..0 |-> 0])
      BY DEF Increasing
    <3> QED
      BY <3>1, <3>2, <2>2
  <2>4. CASE R # {}
    <3>1. PICK top \in R : \A m \in R : m <= top
      BY <2>4, GreatestElement
    <3>2. /\ Cardinality(R \ {top}) = n - 1
          /\ n - 1 \in Nat
      BY <1>1, <2>2, <3>1, FS_RemoveElement
    <3>3. n - 1 \notin Bad
      BY <2>1, <3>2
    <3>4. Good(R \ {top})
      BY <3>2, <3>3
    <3>5. PICK g \in [1..(n - 1) -> R \ {top}] : Increasing(g)
      BY <3>2, <3>4
    <3> DEFINE f == [i \in 1..n |-> IF i = n THEN top ELSE g[i]]
    <3>6. f \in [1..n -> R]
      BY <3>2, <3>5
    <3>7. Increasing(f)
      <4> SUFFICES ASSUME NEW i \in 1..n, NEW j \in 1..n, i < j PROVE f[i] < f[j]
        BY DEF Increasing
      <4>1. i \in 1..(n - 1) /\ g[i] \in R /\ g[i] # top /\ f[i] = g[i]
        BY <3>2, <3>5
      <4>2. CASE j = n
        <5>1. f[j] = top
          BY <4>2
        <5>2. g[i] \in 1..N /\ top \in 1..N
          BY <4>1
        <5>3. g[i] <= top
          BY <3>1, <4>1
        <5> QED
          BY <4>1, <5>1, <5>2, <5>3
      <4>3. CASE j # n
        BY <3>2, <3>5, <4>1, <4>3 DEF Increasing
      <4> QED
        BY <4>2, <4>3
    <3> QED
      BY <2>2, <3>6, <3>7
  <2> QED
    BY <2>3, <2>4
<1> QED
  BY <1>1, <1>2

\* Without(q, p) is a subsequence of q in which p does not occur.
LEMMA WithoutProperties ==
  ASSUME NEW q \in Seq(Packages), NEW p
  PROVE  /\ Without(q, p) \in Seq(Packages)
         /\ \E f \in [DOMAIN Without(q, p) -> DOMAIN q] :
              /\ Increasing(f)
              /\ \A i \in DOMAIN f : Without(q, p)[i] = q[f[i]] /\ q[f[i]].proc # p
<1> DEFINE S == Kept(q, p)
           f == Enumeration(S)
<1>1. Len(q) \in Nat /\ DOMAIN q = 1..Len(q) /\ S \in SUBSET (1..Len(q))
  BY LenProperties DEF Kept
<1>2. f \in [1..Cardinality(S) -> S] /\ Increasing(f)
  BY <1>1, EnumerationExists, Zenon DEF Enumeration, Increasing
<1>3. Cardinality(S) \in Nat
  BY <1>1, PositionsFinite
<1>4. Without(q, p) = [n \in 1..Cardinality(S) |-> q[f[n]]]
  BY DEF Without
<1>5. \A n \in 1..Cardinality(S) : f[n] \in DOMAIN q /\ q[f[n]] \in Packages /\ q[f[n]].proc # p
  BY <1>1, <1>2, ElementOfSeq DEF Kept
<1>6. Without(q, p) \in Seq(Packages)
  BY <1>3, <1>4, <1>5, IsASeq
<1>7. f \in [DOMAIN Without(q, p) -> DOMAIN q]
  BY <1>2, <1>4, <1>5
<1> QED
  BY <1>2, <1>4, <1>5, <1>6, <1>7
-----------------------------------------------------------------------------
(* Type correctness *)

LEMMA SequenceSteps ==
  ASSUME NEW q \in Seq(Packages), q # <<>>
  PROVE  Head(q) \in Packages /\ Tail(q) \in Seq(Packages)
BY HeadTailProperties

USE DEF LoopSteps, NotifySteps, MainSteps, WorkerSteps

LEMMA TypeInit == Init => TypeOK
<1> SUFFICES ASSUME Init PROVE TypeOK
  OBVIOUS
<1>1. Main \notin Workers /\ MaxRegisters \in Nat
  BY ServiceQueueAssumption
<1>2. QueuesTypeOK
  BY DEF Init, QueuesTypeOK
<1>3. ThreadsTypeOK
  BY <1>1 DEF Init, ThreadsTypeOK, Threads
<1>4. status \in [Registers -> Statuses] /\ lastRegister \in 0..MaxRegisters
  BY <1>1 DEF Init, Registers, Statuses
<1> QED
  BY <1>2, <1>3, <1>4 DEF Init, TypeOK

\* Thread t goes to a step of its own with a package, or to rest.
LEMMA GotoType ==
  ASSUME ThreadsTypeOK, NEW t \in Threads, NEW s, NEW k \in Packages \cup {NoPackage},
         Goto(t, s, k),
         t = Main => s \in MainSteps,
         t # Main => s \in WorkerSteps,
         s \notin {"idle", "ready", "exit"} => k \in Packages
  PROVE  ThreadsTypeOK'
<1>1. Main \notin Workers /\ Threads = Workers \cup {Main}
  BY ServiceQueueAssumption DEF Threads
<1>2. /\ at \in [Threads -> MainSteps \cup WorkerSteps]
      /\ pkg \in [Threads -> Packages \cup {NoPackage}]
      /\ at' = [at EXCEPT ![t] = s]
      /\ pkg' = [pkg EXCEPT ![t] = k]
  BY DEF ThreadsTypeOK, Goto
<1>3. /\ at' \in [Threads -> MainSteps \cup WorkerSteps]
      /\ pkg' \in [Threads -> Packages \cup {NoPackage}]
  BY <1>1, <1>2
<1>4. at'[Main] \in MainSteps
  BY <1>1, <1>2 DEF ThreadsTypeOK
<1>5. ASSUME NEW w \in Workers PROVE at'[w] \in WorkerSteps
  BY <1>1, <1>2 DEF ThreadsTypeOK
<1>6. ASSUME NEW u \in Threads, at'[u] \notin {"idle", "ready", "exit"}
      PROVE  pkg'[u] \in Packages
  BY <1>1, <1>2, <1>6 DEF ThreadsTypeOK
<1> QED
  BY <1>3, <1>4, <1>5, <1>6 DEF ThreadsTypeOK

LEMMA RestType ==
  ASSUME ThreadsTypeOK, NEW t \in Threads, Rest(t)
  PROVE  ThreadsTypeOK'
BY GotoType DEF Rest, Resting

LEMMA CountTypes ==
  ASSUME processing \in [Processes -> Nat], NEW p
  PROVE  ReleaseOne(p) \in [Processes -> Nat] /\ Occupy(p) \in [Processes -> Nat]
<1>1. CASE p \in Processes
  BY <1>1 DEF ReleaseOne, Occupy
<1>2. CASE p \notin Processes
  BY <1>2 DEF ReleaseOne, Occupy
<1> QED
  BY <1>1, <1>2

LEMMA TypeNotify ==
  ASSUME TypeOK, NEW t \in Threads, NotifyWaitQueue(t)
  PROVE  TypeOK'
<1>1. pkg[t] \in Packages /\ pkg[t].proc \in Processes
  BY DEF NotifyWaitQueue, Release, TestWaitQueue, FrontOfWaitQueue, PopWaitQueue, MoveToProcessQueue, TypeOK, ThreadsTypeOK, Packages
<1>2. CASE Release(t)
  <2>1. ThreadsTypeOK'
    BY <1>1, <1>2, GotoType DEF Release, TypeOK
  <2>2. QueuesTypeOK'
    BY <1>1, <1>2 DEF Release, TypeOK, QueuesTypeOK, ReleaseOne
  <2> QED
    BY <1>2, <2>1, <2>2 DEF Release, TypeOK, log
<1>3. CASE TestWaitQueue(t)
  <2>1. ThreadsTypeOK'
    BY <1>1, <1>3, GotoType, RestType DEF TestWaitQueue, TypeOK
  <2>2. QueuesTypeOK'
    BY <1>3 DEF TestWaitQueue, TypeOK, QueuesTypeOK, queues
  <2> QED
    BY <1>3, <2>1, <2>2 DEF TestWaitQueue, TypeOK, log
<1>4. CASE FrontOfWaitQueue(t) \/ PopWaitQueue(t)
  <2> DEFINE q == waitQueue[pkg[t].proc]
  <2>1. Head(q) \in Packages /\ Tail(q) \in Seq(Packages)
    BY <1>1, <1>4, SequenceSteps DEF FrontOfWaitQueue, PopWaitQueue, TypeOK, QueuesTypeOK
  <2>2. ThreadsTypeOK'
    BY <1>1, <1>4, <2>1, GotoType DEF FrontOfWaitQueue, PopWaitQueue, TypeOK
  <2>3. QueuesTypeOK'
    BY <1>1, <1>4, <2>1 DEF FrontOfWaitQueue, PopWaitQueue, TypeOK, QueuesTypeOK, Popped, queues
  <2> QED
    BY <1>4, <2>2, <2>3 DEF FrontOfWaitQueue, PopWaitQueue, TypeOK, log
<1>5. CASE MoveToProcessQueue(t)
  <2>1. ThreadsTypeOK'
    BY <1>5, RestType DEF MoveToProcessQueue, TypeOK
  <2>2. QueuesTypeOK'
    BY <1>1, <1>5 DEF MoveToProcessQueue, TypeOK, QueuesTypeOK, Occupy
  <2> QED
    BY <1>5, <2>1, <2>2 DEF MoveToProcessQueue, TypeOK, WokenLoop, log
<1> QED
  BY <1>2, <1>3, <1>4, <1>5 DEF NotifyWaitQueue

LEMMA TypeMain ==
  ASSUME TypeOK, MainContinues \/ HandleFinished \/ \E p \in Processes : Trigger(p) \/ TriggerReprocessing(p)
  PROVE  TypeOK'
<1>0. Main \in Threads /\ QueuesTypeOK /\ ThreadsTypeOK
  BY DEF Threads, TypeOK
<1>1. ASSUME at[Main] \in {"direct", "wait", "onqueue", "dates"}
      PROVE  /\ pkg[Main] \in Packages /\ pkg[Main].proc \in Processes
             /\ pkg[Main].reg \in Registers /\ pkg[Main].date \in Nat \ {0}
  BY <1>0, <1>1 DEF ThreadsTypeOK, Packages
<1>2. ASSUME NEW p \in Processes, lastRegister < MaxRegisters
      PROVE  /\ lastRegister + 1 \in Registers /\ lastRegister + 1 \in 0..MaxRegisters
             /\ [proc |-> p, reg |-> lastRegister + 1, date |-> 1] \in Packages
  BY <1>2, ServiceQueueAssumption DEF TypeOK, Registers, Packages
<1>3. ASSUME NEW p \in Processes, Trigger(p) PROVE TypeOK'
  <2>1. ThreadsTypeOK'
    BY <1>0, <1>2, <1>3, GotoType DEF Trigger
  <2>2. QueuesTypeOK'
    BY <1>0, <1>3 DEF Trigger, QueuesTypeOK, queues
  <2> QED
    BY <1>2, <1>3, <2>1, <2>2 DEF Trigger, TypeOK, Statuses
<1>4. ASSUME NEW p \in Processes, TriggerReprocessing(p) PROVE TypeOK'
  <2>1. ThreadsTypeOK'
    BY <1>0, <1>2, <1>4, GotoType DEF TriggerReprocessing
  <2>2. QueuesTypeOK'
    BY <1>0, <1>4 DEF TriggerReprocessing, QueuesTypeOK, queues
  <2> QED
    BY <1>2, <1>4, <2>1, <2>2 DEF TriggerReprocessing, TypeOK, Statuses
<1>5. CASE AddToProcessQueue
  <2>1. ThreadsTypeOK'
    BY <1>0, <1>5, RestType DEF AddToProcessQueue
  <2>2. QueuesTypeOK'
    BY <1>0, <1>1, <1>5 DEF AddToProcessQueue, QueuesTypeOK, Occupy
  <2> QED
    BY <1>5, <2>1, <2>2 DEF AddToProcessQueue, TypeOK, WokenLoop, log
<1>6. CASE AddToWaitQueue
  <2>1. ThreadsTypeOK'
    BY <1>0, <1>1, <1>6, GotoType DEF AddToWaitQueue
  <2>2. QueuesTypeOK'
    BY <1>0, <1>1, <1>6 DEF AddToWaitQueue, QueuesTypeOK, Queued
  <2> QED
    BY <1>6, <2>1, <2>2 DEF AddToWaitQueue, TypeOK, log
<1>7. CASE LogOnQueue
  <2>1. ThreadsTypeOK'
    BY <1>0, <1>7, RestType DEF LogOnQueue
  <2>2. QueuesTypeOK'
    BY <1>0, <1>7 DEF LogOnQueue, QueuesTypeOK, queues
  <2> QED
    BY <1>1, <1>7, <2>1, <2>2 DEF LogOnQueue, TypeOK, Statuses
<1>8. CASE AddDate
  <2>1. [pkg[Main] EXCEPT !.date = @ + 1] \in Packages
    BY <1>1, <1>8 DEF AddDate, Packages
  <2>2. ThreadsTypeOK'
    BY <1>0, <1>8, <2>1, GotoType DEF AddDate
  <2>3. QueuesTypeOK'
    BY <1>0, <1>1, <1>8 DEF AddDate, QueuesTypeOK, Queued
  <2> QED
    BY <1>8, <2>2, <2>3 DEF AddDate, TypeOK, log
<1>9. CASE DatesDone
  <2>1. ThreadsTypeOK'
    BY <1>0, <1>1, <1>9, GotoType, RestType DEF DatesDone
  <2>2. QueuesTypeOK'
    BY <1>0, <1>9 DEF DatesDone, QueuesTypeOK, queues
  <2> QED
    BY <1>9, <2>1, <2>2 DEF DatesDone, TypeOK, log
<1>10. CASE DatesFail
  <2>1. ThreadsTypeOK'
    BY <1>0, <1>10, RestType DEF DatesFail
  <2>2. QueuesTypeOK'
    BY <1>0, <1>10 DEF DatesFail, QueuesTypeOK, queues
  <2> QED
    BY <1>10, <2>1, <2>2 DEF DatesFail, TypeOK, log
<1>11. CASE HandleFinished
  <2>1. Head(finished) \in Packages /\ Tail(finished) \in Seq(Packages)
    BY <1>0, <1>11, SequenceSteps DEF HandleFinished, QueuesTypeOK
  <2>2. ThreadsTypeOK'
    BY <1>0, <1>11, <2>1, GotoType DEF HandleFinished
  <2>3. processing' \in [Processes -> Nat]
    <3>1. CASE Kind = "analysis"
      BY <1>0, <1>11, <3>1, CountTypes DEF HandleFinished, QueuesTypeOK
    <3>2. CASE Kind # "analysis"
      BY <1>0, <1>11, <3>2 DEF HandleFinished, QueuesTypeOK
    <3> QED
      BY <3>1, <3>2
  <2>4. QueuesTypeOK'
    BY <1>0, <1>11, <2>1, <2>3 DEF HandleFinished, QueuesTypeOK
  <2> QED
    BY <1>11, <2>2, <2>4 DEF HandleFinished, TypeOK, log
<1> QED
  BY <1>0, <1>3, <1>4, <1>5, <1>6, <1>7, <1>8, <1>9, <1>10, <1>11, TypeNotify DEF MainContinues

LEMMA TypeLoop ==
  ASSUME TypeOK, MainLoop \/ LoopSpurious
  PROVE  TypeOK'
<1>0. QueuesTypeOK /\ ThreadsTypeOK
  BY DEF TypeOK
<1>1. ASSUME UNCHANGED threads PROVE ThreadsTypeOK'
  BY <1>0, <1>1 DEF ThreadsTypeOK, threads
<1>2. CASE LoopCheck \/ LoopBlock \/ LoopSpurious
  <2>1. QueuesTypeOK'
    BY <1>0, <1>2 DEF LoopCheck, LoopBlock, LoopSpurious, QueuesTypeOK, queues
  <2> QED
    BY <1>1, <1>2, <2>1 DEF LoopCheck, LoopBlock, LoopSpurious, TypeOK, log
<1>3. CASE LoopDrain
  <2>1. Head(processQueue) \in Packages /\ Tail(processQueue) \in Seq(Packages)
    BY <1>0, <1>3, SequenceSteps DEF LoopDrain, QueuesTypeOK
  <2>2. taskQueue' = Append(taskQueue, Head(processQueue)) \/ UNCHANGED taskQueue
    BY <1>3 DEF LoopDrain
  <2>3. taskQueue' \in Seq(Packages)
    <3>1. Append(taskQueue, Head(processQueue)) \in Seq(Packages)
      BY <1>0, <2>1, AppendProperties DEF QueuesTypeOK
    <3> QED
      BY <1>0, <2>2, <3>1 DEF QueuesTypeOK
  <2>4. QueuesTypeOK'
    BY <1>0, <1>3, <2>1, <2>3 DEF LoopDrain, QueuesTypeOK
  <2> QED
    BY <1>1, <1>3, <2>4 DEF LoopDrain, TypeOK, log
<1> QED
  BY <1>2, <1>3 DEF MainLoop

LEMMA TypeWorker ==
  ASSUME TypeOK, NEW w \in Workers, Worker(w)
  PROVE  TypeOK'
<1>0. w \in Threads /\ w # Main /\ QueuesTypeOK /\ ThreadsTypeOK
  BY ServiceQueueAssumption DEF Threads, TypeOK
<1>1. ASSUME at[w] \in {"taken", "run"} PROVE pkg[w] \in Packages /\ pkg[w].reg \in Registers
  BY <1>0, <1>1 DEF ThreadsTypeOK, Packages
<1>2. CASE TakeTask(w)
  <2>1. Head(taskQueue) \in Packages /\ Tail(taskQueue) \in Seq(Packages)
    BY <1>0, <1>2, SequenceSteps DEF TakeTask, QueuesTypeOK
  <2>2. ThreadsTypeOK'
    BY <1>0, <1>2, <2>1, GotoType DEF TakeTask
  <2>3. QueuesTypeOK'
    BY <1>0, <1>2, <2>1 DEF TakeTask, QueuesTypeOK, queues
  <2> QED
    BY <1>2, <2>2, <2>3 DEF TakeTask, TypeOK, log
<1>3. CASE StartTask(w)
  <2>1. ThreadsTypeOK'
    BY <1>0, <1>1, <1>3, GotoType DEF StartTask
  <2>2. QueuesTypeOK'
    BY <1>0, <1>3 DEF StartTask, QueuesTypeOK, queues
  <2> QED
    BY <1>3, <2>1, <2>2 DEF StartTask, TypeOK, log
<1>4. CASE FinishTask(w)
  <2>1. ThreadsTypeOK'
    BY <1>0, <1>1, <1>4, GotoType, RestType DEF FinishTask
  <2>2. UNCHANGED queues /\ UNCHANGED taskQueue
        /\ (finished' = Append(finished, pkg[w]) \/ UNCHANGED finished)
    BY <1>4 DEF FinishTask
  <2>3. finished' \in Seq(Packages)
    <3>1. Append(finished, pkg[w]) \in Seq(Packages)
      BY <1>0, <1>1, <1>4, AppendProperties DEF FinishTask, QueuesTypeOK
    <3> QED
      BY <1>0, <2>2, <3>1 DEF QueuesTypeOK
  <2>4. QueuesTypeOK'
    BY <1>0, <2>2, <2>3 DEF QueuesTypeOK, queues
  <2> QED
    BY <1>1, <1>4, <2>1, <2>4 DEF FinishTask, TypeOK, Statuses
<1>5. CASE EscapeTask(w)
  <2>1. ThreadsTypeOK'
    BY <1>0, <1>5, RestType DEF EscapeTask
  <2>2. QueuesTypeOK'
    BY <1>0, <1>5 DEF EscapeTask, QueuesTypeOK, queues
  <2> QED
    BY <1>1, <1>5, <2>1, <2>2 DEF EscapeTask, TypeOK, Statuses
<1>6. CASE WorkerExit(w)
  <2>1. ThreadsTypeOK'
    BY <1>0, <1>6, GotoType DEF WorkerExit
  <2>2. QueuesTypeOK'
    BY <1>0, <1>6 DEF WorkerExit, QueuesTypeOK, queues
  <2> QED
    BY <1>6, <2>1, <2>2 DEF WorkerExit, TypeOK, log
<1>7. CASE StatusOfFile(w)
  <2>1. QueuesTypeOK' /\ ThreadsTypeOK'
    BY <1>0, <1>7 DEF StatusOfFile, QueuesTypeOK, ThreadsTypeOK, queues, threads
  <2> QED
    BY <1>1, <1>7, <2>1 DEF StatusOfFile, TypeOK, Statuses
<1> QED
  BY <1>0, <1>2, <1>3, <1>4, <1>5, <1>6, <1>7, TypeNotify DEF Worker

LEMMA TypeEdit ==
  ASSUME TypeOK, \/ \E p \in Processes : UpdateProcess(p) \/ RemoveProcess(p)
                 \/ StopService
  PROVE  TypeOK'
<1>0. QueuesTypeOK /\ ThreadsTypeOK
  BY DEF TypeOK
<1>1. ASSUME UNCHANGED threads PROVE ThreadsTypeOK'
  BY <1>0, <1>1 DEF ThreadsTypeOK, threads
<1>2. ASSUME NEW p \in Processes, UpdateProcess(p) \/ RemoveProcess(p)
      PROVE  TypeOK'
  <2>1. processQueue' \in Seq(Packages)
    BY <1>0, <1>2, WithoutProperties DEF UpdateProcess, RemoveProcess, Purge, QueuesTypeOK
  <2>2. waitQueue' \in [Processes -> Seq(Packages)]
    <3>1. waitQueue' = [waitQueue EXCEPT ![p] = <<>>] \/ UNCHANGED waitQueue
      BY <1>2 DEF UpdateProcess, RemoveProcess
    <3> QED
      BY <1>0, <3>1, EmptySeq DEF QueuesTypeOK
  <2>3. QueuesTypeOK'
    BY <1>0, <1>2, <2>1, <2>2 DEF UpdateProcess, RemoveProcess, Purge, QueuesTypeOK
  <2> QED
    BY <1>1, <1>2, <2>3 DEF UpdateProcess, RemoveProcess, Purge, TypeOK, log
<1>3. CASE StopService
  <2>1. QueuesTypeOK'
    BY <1>0, <1>3 DEF StopService, QueuesTypeOK, queues
  <2> QED
    BY <1>1, <1>3, <2>1 DEF StopService, TypeOK, WokenLoop, log
<1> QED
  BY <1>2, <1>3

\* Every step of the service, whichever it is, keeps the types.
LEMMA TypeStep == TypeOK /\ [Next]_vars => TypeOK'
<1> SUFFICES ASSUME TypeOK, [Next]_vars PROVE TypeOK'
  OBVIOUS
<1>1. CASE UNCHANGED vars
  BY <1>1 DEF vars, queues, threads, log, TypeOK, QueuesTypeOK, ThreadsTypeOK
<1>2. CASE Next
  BY <1>1, <1>2, TypeMain, TypeLoop, TypeWorker, TypeEdit DEF Next, Halt
<1> QED
  BY <1>1, <1>2

\* The type invariant of the service's queues, threads and log: no step takes the
\* front of an empty queue, and every thread between two queues holds a package.
THEOREM TypeCorrect == Spec => []TypeOK
<1>1. Init => TypeOK
  BY TypeInit
<1>2. TypeOK /\ [Next]_vars => TypeOK'
  BY TypeStep
<1> QED
  BY <1>1, <1>2, PTL DEF Spec

-----------------------------------------------------------------------------
(* Serial execution *)

\* The processes that have a package in queue q, and that none has two.
ProcsIn(q) == {q[i].proc : i \in DOMAIN q}
Distinct(q) == \A i, j \in DOMAIN q : q[i].proc = q[j].proc => i = j

Running(w) == at[w] \in {"taken", "run"}

\* What makes executions serial, as an inductive invariant: every package in flight
\* is the only one of its process and its process is in processingQueue_ once, and
\* what the main thread is about to put in processQueue is of a process that is not.
InFlightApart ==
  /\ Distinct(processQueue) /\ Distinct(taskQueue) /\ Distinct(finished)
  /\ ProcsIn(processQueue) \cap ProcsIn(taskQueue) = {}
  /\ ProcsIn(processQueue) \cap ProcsIn(finished) = {}
  /\ ProcsIn(taskQueue) \cap ProcsIn(finished) = {}

InFlightOnce ==
  \A p \in ProcsIn(processQueue) \cup ProcsIn(taskQueue) \cup ProcsIn(finished) : processing[p] = 1

WorkersApart ==
  /\ \A w \in Workers : at[w] \notin NotifySteps
  /\ \A w \in Workers : Running(w) =>
       /\ processing[pkg[w].proc] = 1
       /\ pkg[w].proc \notin ProcsIn(processQueue) \cup ProcsIn(taskQueue) \cup ProcsIn(finished)
  /\ \A v, w \in Workers : Running(v) /\ Running(w) /\ pkg[v].proc = pkg[w].proc => v = w

MainApart ==
  /\ at[Main] \in {"direct", "test", "front", "pop", "move"} => processing[pkg[Main].proc] = 0
  /\ at[Main] = "release" =>
       /\ pkg[Main].proc \notin ProcsIn(processQueue) \cup ProcsIn(taskQueue) \cup ProcsIn(finished)
       /\ \A w \in Workers : Running(w) => pkg[w].proc # pkg[Main].proc

ProcessingOnce == \A p \in Processes : processing[p] <= 1

WaitQueuesOwn == \A p \in Processes : \A i \in DOMAIN waitQueue[p] : waitQueue[p][i].proc = p

SerialInv ==
  /\ ProcessingOnce /\ WaitQueuesOwn
  /\ InFlightApart /\ InFlightOnce /\ WorkersApart /\ MainApart

LEMMA AppendDistinct ==
  ASSUME NEW q \in Seq(Packages), NEW k \in Packages
  PROVE  /\ ProcsIn(Append(q, k)) = ProcsIn(q) \cup {k.proc}
         /\ Distinct(q) /\ k.proc \notin ProcsIn(q) => Distinct(Append(q, k))
<1> DEFINE r == Append(q, k)
           n == Len(q)
<1>1. /\ n \in Nat /\ DOMAIN q = 1..n
      /\ r \in Seq(Packages) /\ Len(r) = n + 1 /\ DOMAIN r = 1..(n + 1)
      /\ \A i \in 1..n : r[i] = q[i]
      /\ r[n + 1] = k
  BY AppendProperties, LenProperties
<1>2. 1..(n + 1) = (1..n) \cup {n + 1} /\ n + 1 \notin 1..n
  BY <1>1
<1> HIDE DEF r, n
<1>3. ProcsIn(r) = ProcsIn(q) \cup {k.proc}
  BY <1>1, <1>2 DEF ProcsIn
<1>4. ASSUME Distinct(q), k.proc \notin ProcsIn(q) PROVE Distinct(r)
  BY <1>1, <1>2, <1>4 DEF ProcsIn, Distinct
<1> QED
  BY <1>3, <1>4 DEF r

LEMMA TailDistinct ==
  ASSUME NEW q \in Seq(Packages), q # <<>>
  PROVE  /\ Head(q).proc \in ProcsIn(q)
         /\ ProcsIn(Tail(q)) \subseteq ProcsIn(q)
         /\ Distinct(q) => Distinct(Tail(q)) /\ Head(q).proc \notin ProcsIn(Tail(q))
<1> DEFINE r == Tail(q)
           n == Len(r)
<1>1. /\ n \in Nat /\ DOMAIN r = 1..n /\ DOMAIN q = 1..(n + 1)
      /\ Head(q) = q[1]
      /\ \A i \in 1..n : r[i] = q[i + 1]
  <2>1. /\ r \in Seq(Packages) /\ Len(r) = Len(q) - 1 /\ Head(q) = q[1]
        /\ \A i \in 1..Len(r) : r[i] = q[i + 1]
    BY HeadTailProperties
  <2> QED
    BY <2>1, LenProperties
<1>2. 1 \in DOMAIN q /\ \A i \in 1..n : i + 1 \in DOMAIN q /\ i + 1 # 1
  BY <1>1
<1> HIDE DEF r, n
<1>3. Head(q).proc \in ProcsIn(q) /\ ProcsIn(r) \subseteq ProcsIn(q)
  BY <1>1, <1>2 DEF ProcsIn
<1>4. ASSUME Distinct(q) PROVE Distinct(r) /\ Head(q).proc \notin ProcsIn(r)
  <2>1. ASSUME NEW i \in 1..n, NEW j \in 1..n, r[i].proc = r[j].proc PROVE i = j
    <3>1. /\ i + 1 \in DOMAIN q /\ j + 1 \in DOMAIN q
          /\ q[i + 1].proc = q[j + 1].proc
      BY <1>1, <1>2, <2>1
    <3>2. i + 1 = j + 1
      BY <1>4, <3>1 DEF Distinct
    <3> QED
      BY <3>2, <1>1
  <2>2. ASSUME NEW i \in 1..n PROVE r[i].proc # Head(q).proc
    BY <1>1, <1>2, <1>4 DEF Distinct
  <2> QED
    BY <1>1, <2>1, <2>2 DEF Distinct, ProcsIn
<1> QED
  BY <1>3, <1>4 DEF r

LEMMA WithoutDistinct ==
  ASSUME NEW q \in Seq(Packages), NEW p
  PROVE  /\ ProcsIn(Without(q, p)) \subseteq ProcsIn(q)
         /\ Distinct(q) => Distinct(Without(q, p))
<1> DEFINE r == Without(q, p)
<1>1. PICK f \in [DOMAIN r -> DOMAIN q] :
         Increasing(f) /\ \A i \in DOMAIN f : r[i] = q[f[i]]
  BY WithoutProperties
<1>2. r \in Seq(Packages) /\ DOMAIN r = 1..Len(r) /\ Len(r) \in Nat
  BY WithoutProperties, LenProperties
<1>3. DOMAIN q \subseteq Nat
  BY LenProperties
<1> HIDE DEF r
<1>4. ProcsIn(r) \subseteq ProcsIn(q)
  BY <1>1 DEF ProcsIn
<1>5. ASSUME Distinct(q), NEW i \in DOMAIN r, NEW j \in DOMAIN r, r[i].proc = r[j].proc
      PROVE  i = j
  <2>1. f[i] = f[j] /\ f[i] \in Nat
    BY <1>1, <1>3, <1>5 DEF Distinct
  <2>2. (i < j => f[i] < f[j]) /\ (j < i => f[j] < f[i])
    BY <1>1, <1>5 DEF Increasing
  <2>3. ~(i < j) /\ ~(j < i)
    BY <2>1, <2>2
  <2> QED
    BY <1>2, <2>3
<1> QED
  BY <1>4, <1>5 DEF r, Distinct

LEMMA ProcsOf ==
  ASSUME NEW q \in Seq(Packages)
  PROVE  ProcsIn(q) \subseteq Processes
<1>1. ASSUME NEW i \in DOMAIN q PROVE q[i].proc \in Processes
  <2>1. q[i] \in Packages
    BY ElementOfSeq, LenProperties
  <2> QED
    BY <2>1 DEF Packages
<1> QED
  BY <1>1 DEF ProcsIn

LEMMA SerialInit == Init => SerialInv
<1> SUFFICES ASSUME Init PROVE SerialInv
  OBVIOUS
<1>1. Main \notin Workers
  BY ServiceQueueAssumption
<1>2. ProcsIn(<<>>) = {} /\ Distinct(<<>>)
  BY DEF ProcsIn, Distinct
<1>3. ProcessingOnce
  BY DEF Init, ProcessingOnce
<1>4. WaitQueuesOwn
  BY DEF Init, WaitQueuesOwn
<1>5. at[Main] = "idle" /\ \A w \in Workers : at[w] = "ready"
  BY <1>1 DEF Init, Threads
<1>6. InFlightApart /\ InFlightOnce
  <2>1. /\ ProcsIn(processQueue) = {} /\ ProcsIn(taskQueue) = {} /\ ProcsIn(finished) = {}
        /\ Distinct(processQueue) /\ Distinct(taskQueue) /\ Distinct(finished)
    BY <1>2, Zenon DEF Init
  <2> QED
    BY <2>1 DEF InFlightApart, InFlightOnce
<1>7. WorkersApart /\ MainApart
  BY <1>5 DEF WorkersApart, MainApart, Running
<1> QED
  BY <1>3, <1>4, <1>6, <1>7 DEF SerialInv

LEMMA QueuesUnmoved ==
  ASSUME SerialInv, UNCHANGED <<processQueue, taskQueue, finished, processing>>
  PROVE  ProcessingOnce' /\ InFlightApart' /\ InFlightOnce'
BY DEF SerialInv, ProcessingOnce, InFlightApart, InFlightOnce

LEMMA WaitUnmoved ==
  ASSUME SerialInv, UNCHANGED waitQueue
  PROVE  WaitQueuesOwn'
BY DEF SerialInv, WaitQueuesOwn

\* The main thread moves, the workers stay.
LEMMA MainMoves ==
  ASSUME ThreadsTypeOK, NEW s, NEW k, Goto(Main, s, k)
  PROVE  /\ at'[Main] = s /\ pkg'[Main] = k
         /\ \A w \in Workers : at'[w] = at[w] /\ pkg'[w] = pkg[w]
BY ServiceQueueAssumption DEF Goto, ThreadsTypeOK, Threads

\* A worker moves, the main thread and the other workers stay.
LEMMA WorkerMoves ==
  ASSUME ThreadsTypeOK, NEW w \in Workers, NEW s, NEW k, Goto(w, s, k)
  PROVE  /\ at'[w] = s /\ pkg'[w] = k
         /\ at'[Main] = at[Main] /\ pkg'[Main] = pkg[Main]
         /\ \A v \in Workers : v # w => at'[v] = at[v] /\ pkg'[v] = pkg[v]
BY ServiceQueueAssumption DEF Goto, ThreadsTypeOK, Threads

\* The steps of the main thread that leave the queues in flight alone.
LEMMA SerialTrigger ==
  ASSUME TypeOK, SerialInv, NEW s \in MainSteps \ {"release", "move"}, NEW k, Goto(Main, s, k),
         s \in {"direct", "test", "front", "pop"} => processing[k.proc] = 0,
         UNCHANGED <<processQueue, taskQueue, finished, processing>>,
         WaitQueuesOwn'
  PROVE  SerialInv'
<1>1. /\ at'[Main] = s /\ pkg'[Main] = k
      /\ \A w \in Workers : at'[w] = at[w] /\ pkg'[w] = pkg[w]
  BY MainMoves DEF TypeOK
<1>2. WorkersApart'
  BY <1>1 DEF SerialInv, WorkersApart, Running
<1>3. MainApart'
  BY <1>1 DEF MainApart
<1> QED
  BY <1>2, <1>3, QueuesUnmoved DEF SerialInv

\* The process of a package that is in flight is in processingQueue_.
LEMMA NotProcessing ==
  ASSUME SerialInv, NEW p, processing[p] = 0
  PROVE  /\ p \notin ProcsIn(processQueue) /\ p \notin ProcsIn(taskQueue) /\ p \notin ProcsIn(finished)
         /\ \A w \in Workers : Running(w) => pkg[w].proc # p
BY DEF SerialInv, InFlightOnce, WorkersApart

\* The main thread puts a package of a process at rest in processQueue: what
\* AddToProcessQueue and the end of notifyWaitQueue do.
LEMMA SerialAccept ==
  ASSUME TypeOK, SerialInv, at[Main] \in {"direct", "move"}, Goto(Main, "idle", NoPackage),
         processQueue' = Append(processQueue, pkg[Main]),
         processing' = Occupy(pkg[Main].proc),
         UNCHANGED <<taskQueue, finished, waitQueue>>
  PROVE  SerialInv'
<1> DEFINE p == pkg[Main].proc
<1>1. pkg[Main] \in Packages /\ p \in Processes
  BY DEF TypeOK, ThreadsTypeOK, Packages, Threads
<1>2. processing[p] = 0
  BY DEF SerialInv, MainApart
<1>3. /\ p \notin ProcsIn(processQueue) /\ p \notin ProcsIn(taskQueue) /\ p \notin ProcsIn(finished)
      /\ \A w \in Workers : Running(w) => pkg[w].proc # p
  BY <1>2, NotProcessing
<1>4. /\ ProcsIn(processQueue') = ProcsIn(processQueue) \cup {p}
      /\ Distinct(processQueue) /\ p \notin ProcsIn(processQueue) => Distinct(processQueue')
  BY <1>1, AppendDistinct DEF TypeOK, QueuesTypeOK
<1>5. /\ at'[Main] = "idle"
      /\ \A w \in Workers : at'[w] = at[w] /\ pkg'[w] = pkg[w]
  BY MainMoves DEF TypeOK
<1>6. /\ processing'[p] = 1
      /\ \A r : r # p => processing'[r] = processing[r]
  BY <1>1, <1>2 DEF Occupy, TypeOK, QueuesTypeOK
<1> HIDE DEF p
<1>7. ProcessingOnce'
  BY <1>6 DEF SerialInv, ProcessingOnce
<1>8. InFlightApart'
  BY <1>3, <1>4 DEF SerialInv, InFlightApart
<1>9. InFlightOnce'
  BY <1>4, <1>6 DEF SerialInv, InFlightOnce
<1>10. WorkersApart'
  BY <1>3, <1>4, <1>5, <1>6 DEF SerialInv, WorkersApart, Running
<1>11. MainApart'
  BY <1>5 DEF MainApart
<1> QED
  BY <1>7, <1>8, <1>9, <1>10, <1>11, WaitUnmoved DEF SerialInv

LEMMA SerialQueued ==
  ASSUME TypeOK, SerialInv, NEW k \in Packages, waitQueue' = Queued(k)
  PROVE  WaitQueuesOwn'
<1> SUFFICES ASSUME NEW p \in Processes, NEW i \in DOMAIN waitQueue'[p]
             PROVE  waitQueue'[p][i].proc = p
  BY DEF WaitQueuesOwn
<1>1. waitQueue[p] \in Seq(Packages) /\ \A j \in DOMAIN waitQueue[p] : waitQueue[p][j].proc = p
  BY DEF TypeOK, QueuesTypeOK, SerialInv, WaitQueuesOwn
<1>2. CASE p # k.proc
  BY <1>1, <1>2 DEF Queued, TypeOK, QueuesTypeOK
<1>3. CASE p = k.proc
  <2>1. waitQueue'[p] = Append(waitQueue[p], k)
    BY <1>3 DEF Queued, TypeOK, QueuesTypeOK
  <2> QED
    BY <1>1, <1>3, <2>1, AppendProperties, LenProperties
<1> QED
  BY <1>2, <1>3

LEMMA SerialNotify ==
  ASSUME TypeOK, SerialInv, NotifyWaitQueue(Main)
  PROVE  SerialInv'
<1> DEFINE p == pkg[Main].proc
<1>0. p \in Processes
  BY DEF NotifyWaitQueue, Release, TestWaitQueue, FrontOfWaitQueue, PopWaitQueue, MoveToProcessQueue,
         TypeOK, ThreadsTypeOK, Packages, Threads
<1>1. CASE Release(Main)
  <2>1. Goto(Main, "test", pkg[Main]) /\ processing' = ReleaseOne(p) /\ at[Main] = "release"
        /\ UNCHANGED <<processQueue, taskQueue, finished, waitQueue>>
    BY <1>1 DEF Release
  <2>2. /\ at'[Main] = "test" /\ pkg'[Main] = pkg[Main]
        /\ \A w \in Workers : at'[w] = at[w] /\ pkg'[w] = pkg[w]
    BY <2>1, MainMoves DEF TypeOK
  <2>3. processing[p] \in Nat /\ processing[p] <= 1
    BY <1>0 DEF TypeOK, QueuesTypeOK, SerialInv, ProcessingOnce
  <2>4. /\ processing'[p] = 0
        /\ \A r : r # p => processing'[r] = processing[r]
    BY <1>0, <2>1, <2>3 DEF ReleaseOne, TypeOK, QueuesTypeOK
  <2>5. /\ p \notin ProcsIn(processQueue) /\ p \notin ProcsIn(taskQueue) /\ p \notin ProcsIn(finished)
        /\ \A w \in Workers : Running(w) => pkg[w].proc # p
    BY <2>1 DEF SerialInv, MainApart
  <2> HIDE DEF p
  <2>6. ProcessingOnce' /\ InFlightApart' /\ InFlightOnce'
    BY <2>1, <2>4, <2>5 DEF SerialInv, ProcessingOnce, InFlightApart, InFlightOnce
  <2>7. WorkersApart'
    BY <2>1, <2>2, <2>4, <2>5 DEF SerialInv, WorkersApart, Running
  <2>8. MainApart'
    BY <2>2, <2>4 DEF MainApart, p
  <2> QED
    BY <2>1, <2>6, <2>7, <2>8, WaitUnmoved DEF SerialInv
<1>2. CASE TestWaitQueue(Main)
  <2>1. /\ processing[p] = 0
        /\ UNCHANGED <<processQueue, taskQueue, finished, processing, waitQueue>>
    BY <1>2 DEF TestWaitQueue, SerialInv, MainApart, queues
  <2>2. Goto(Main, "front", pkg[Main]) \/ Goto(Main, "idle", NoPackage)
    BY <1>2 DEF TestWaitQueue, Rest, Resting
  <2> QED
    BY <2>1, <2>2, SerialTrigger, WaitUnmoved
<1>3. CASE FrontOfWaitQueue(Main)
  <2> DEFINE k == Head(waitQueue[p])
  <2>1. /\ processing[p] = 0 /\ waitQueue[p] # <<>> /\ Goto(Main, "pop", k)
        /\ UNCHANGED <<processQueue, taskQueue, finished, processing, waitQueue>>
    BY <1>3 DEF FrontOfWaitQueue, SerialInv, MainApart, queues
  <2>2. k.proc = p
    <3>1. waitQueue[p] \in Seq(Packages) /\ \A i \in DOMAIN waitQueue[p] : waitQueue[p][i].proc = p
      BY <1>0 DEF TypeOK, QueuesTypeOK, SerialInv, WaitQueuesOwn
    <3>2. k = waitQueue[p][1] /\ 1 \in DOMAIN waitQueue[p]
      BY <2>1, <3>1, LenProperties, EmptySeq
    <3> QED
      BY <3>1, <3>2
  <2> HIDE DEF k, p
  <2> QED
    BY <2>1, <2>2, SerialTrigger, WaitUnmoved
<1>4. CASE PopWaitQueue(Main)
  <2> DEFINE q == waitQueue[p]
  <2>1. /\ processing[p] = 0 /\ q # <<>> /\ Goto(Main, "move", pkg[Main]) /\ waitQueue' = Popped(p)
        /\ UNCHANGED <<processQueue, taskQueue, finished, processing>>
    BY <1>4 DEF PopWaitQueue, SerialInv, MainApart
  <2>2. q \in Seq(Packages) /\ \A i \in DOMAIN q : q[i].proc = p
    BY <1>0 DEF TypeOK, QueuesTypeOK, SerialInv, WaitQueuesOwn
  <2>3. \A i \in DOMAIN Tail(q) : i + 1 \in DOMAIN q /\ Tail(q)[i] = q[i + 1]
    <3>1. /\ Tail(q) \in Seq(Packages) /\ Len(Tail(q)) = Len(q) - 1
          /\ \A i \in 1..Len(Tail(q)) : Tail(q)[i] = q[i + 1]
      BY <2>1, <2>2, HeadTailProperties
    <3>2. Len(q) \in Nat /\ DOMAIN q = 1..Len(q) /\ DOMAIN Tail(q) = 1..(Len(q) - 1)
      BY <2>1, <2>2, <3>1, LenProperties, EmptySeq
    <3> QED
      BY <3>1, <3>2
  <2>4. /\ at'[Main] = "move" /\ pkg'[Main] = pkg[Main]
        /\ \A w \in Workers : at'[w] = at[w] /\ pkg'[w] = pkg[w]
    BY <2>1, MainMoves DEF TypeOK
  <2>5. /\ waitQueue'[p] = Tail(q)
        /\ \A r \in Processes : r # p => waitQueue'[r] = waitQueue[r]
    BY <1>0, <2>1 DEF Popped, TypeOK, QueuesTypeOK
  <2>6. WaitQueuesOwn'
    <3> SUFFICES ASSUME NEW r \in Processes, NEW i \in DOMAIN waitQueue'[r]
                 PROVE  waitQueue'[r][i].proc = r
      BY DEF WaitQueuesOwn
    <3>1. CASE r # p
      BY <2>5, <3>1 DEF SerialInv, WaitQueuesOwn
    <3>2. CASE r = p
      <4>1. i \in DOMAIN Tail(q) /\ waitQueue'[r][i] = Tail(q)[i]
        BY <2>5, <3>2
      <4> QED
        BY <2>2, <2>3, <3>2, <4>1
    <3> QED
      BY <3>1, <3>2
  <2>7. WorkersApart'
    BY <2>1, <2>4 DEF SerialInv, WorkersApart, Running
  <2>8. MainApart'
    BY <2>1, <2>4 DEF MainApart
  <2> QED
    BY <2>1, <2>6, <2>7, <2>8, QueuesUnmoved DEF SerialInv
<1>5. CASE MoveToProcessQueue(Main)
  BY <1>5, SerialAccept DEF MoveToProcessQueue, Rest, Resting
<1> QED
  BY <1>1, <1>2, <1>3, <1>4, <1>5 DEF NotifyWaitQueue

LEMMA SerialMain ==
  ASSUME Kind \in MainKinds, TypeOK, SerialInv,
         \/ MainContinues \/ HandleFinished
         \/ \E p \in Processes : Trigger(p) \/ TriggerReprocessing(p)
  PROVE  SerialInv'
<1>1. ASSUME NEW p \in Processes, Trigger(p) PROVE SerialInv'
  BY <1>1, SerialTrigger, WaitUnmoved DEF Trigger, queues
<1>2. ASSUME NEW p \in Processes, TriggerReprocessing(p) PROVE SerialInv'
  BY <1>2, SerialTrigger, WaitUnmoved DEF TriggerReprocessing, queues
<1>3. CASE AddToProcessQueue
  BY <1>3, SerialAccept DEF AddToProcessQueue, Rest, Resting
<1>4. CASE AddToWaitQueue
  <2>1. WaitQueuesOwn'
    BY <1>4, SerialQueued DEF AddToWaitQueue, TypeOK, ThreadsTypeOK, Threads
  <2> QED
    BY <1>4, <2>1, SerialTrigger DEF AddToWaitQueue
<1>5. CASE LogOnQueue
  BY <1>5, SerialTrigger, WaitUnmoved DEF LogOnQueue, Rest, Resting, queues
<1>6. CASE AddDate
  <2>1. WaitQueuesOwn'
    BY <1>6, SerialQueued DEF AddDate, TypeOK, ThreadsTypeOK, Threads
  <2> QED
    BY <1>6, <2>1, SerialTrigger DEF AddDate
<1>7. CASE DatesDone
  <2>1. UNCHANGED <<processQueue, taskQueue, finished, processing, waitQueue>>
    BY <1>7 DEF DatesDone, queues
  <2>2. CASE processing[pkg[Main].proc] = 0
    <3>1. Goto(Main, "release", pkg[Main])
      BY <1>7, <2>2 DEF DatesDone
    <3>2. /\ at'[Main] = "release" /\ pkg'[Main] = pkg[Main]
          /\ \A w \in Workers : at'[w] = at[w] /\ pkg'[w] = pkg[w]
      BY <3>1, MainMoves DEF TypeOK
    <3>3. WorkersApart'
      BY <2>1, <3>2 DEF SerialInv, WorkersApart, Running
    <3>4. MainApart'
      BY <2>1, <2>2, <3>2, NotProcessing DEF MainApart, Running
    <3> QED
      BY <2>1, <3>3, <3>4, QueuesUnmoved, WaitUnmoved DEF SerialInv
  <2>3. CASE processing[pkg[Main].proc] # 0
    BY <1>7, <2>1, <2>3, SerialTrigger, WaitUnmoved DEF DatesDone, Rest, Resting
  <2> QED
    BY <2>2, <2>3
<1>8. CASE DatesFail
  BY <1>8, SerialTrigger, WaitUnmoved DEF DatesFail, Rest, Resting, queues
<1>9. CASE HandleFinished
  <2> DEFINE k == Head(finished)
             p == k.proc
  <2>1. /\ finished \in Seq(Packages) /\ finished # <<>> /\ finished' = Tail(finished)
        /\ Goto(Main, "release", k)
        /\ processing' = ReleaseOne(p) \/ UNCHANGED processing
        /\ UNCHANGED <<processQueue, waitQueue, taskQueue>>
    BY <1>9 DEF HandleFinished, TypeOK, QueuesTypeOK
  <2>2. p \in Processes
    BY <2>1, SequenceSteps DEF Packages
  <2>3. /\ p \in ProcsIn(finished)
        /\ ProcsIn(finished') \subseteq ProcsIn(finished)
        /\ Distinct(finished') /\ p \notin ProcsIn(finished')
    BY <2>1, TailDistinct DEF SerialInv, InFlightApart
  <2>4. /\ at'[Main] = "release" /\ pkg'[Main] = k
        /\ \A w \in Workers : at'[w] = at[w] /\ pkg'[w] = pkg[w]
    BY <2>1, MainMoves DEF TypeOK
  <2>5. p \notin ProcsIn(processQueue) /\ p \notin ProcsIn(taskQueue)
    BY <2>3 DEF SerialInv, InFlightApart
  <2>6. \A w \in Workers : Running(w) => pkg[w].proc # p
    BY <2>3 DEF SerialInv, WorkersApart
  <2>7. /\ processing'[p] \in {0, 1}
        /\ \A r : r # p => processing'[r] = processing[r]
    <3>1. processing[p] = 1
      BY <2>3 DEF SerialInv, InFlightOnce
    <3>2. processing \in [Processes -> Nat]
      BY DEF TypeOK, QueuesTypeOK
    <3> HIDE DEF p
    <3>3. /\ ReleaseOne(p)[p] = 0
          /\ \A r : r # p => ReleaseOne(p)[r] = processing[r]
      BY <2>2, <3>1, <3>2 DEF ReleaseOne
    <3> QED
      BY <2>1, <3>1, <3>3
  <2> HIDE DEF p
  <2>8. ProcessingOnce' /\ InFlightApart' /\ InFlightOnce'
    BY <2>1, <2>3, <2>5, <2>7 DEF SerialInv, ProcessingOnce, InFlightApart, InFlightOnce
  <2>9. WorkersApart'
    BY <2>1, <2>3, <2>4, <2>6, <2>7 DEF SerialInv, WorkersApart, Running
  <2>10. MainApart'
    BY <2>1, <2>3, <2>4, <2>5, <2>6 DEF MainApart, Running, p
  <2> QED
    BY <2>1, <2>8, <2>9, <2>10, WaitUnmoved DEF SerialInv
<1> QED
  BY <1>1, <1>2, <1>3, <1>4, <1>5, <1>6, <1>7, <1>8, <1>9, SerialNotify DEF MainContinues

\* A step that moves no thread and only takes packages out of processQueue or moves
\* one from there to taskQueue.
LEMMA SerialLoop ==
  ASSUME TypeOK, SerialInv, MainLoop \/ LoopSpurious
  PROVE  SerialInv'
<1>1. UNCHANGED <<processing, waitQueue, finished, at, pkg>>
  BY DEF MainLoop, LoopCheck, LoopBlock, LoopDrain, LoopSpurious, queues, threads
<1>2. CASE LoopDrain
  <2> DEFINE k == Head(processQueue)
             p == k.proc
  <2>1. /\ processQueue \in Seq(Packages) /\ taskQueue \in Seq(Packages)
        /\ processQueue # <<>> /\ processQueue' = Tail(processQueue)
        /\ taskQueue' = Append(taskQueue, k) \/ UNCHANGED taskQueue
    BY <1>2 DEF LoopDrain, TypeOK, QueuesTypeOK
  <2>2. k \in Packages
    BY <2>1, SequenceSteps
  <2>3. /\ p \in ProcsIn(processQueue)
        /\ ProcsIn(processQueue') \subseteq ProcsIn(processQueue)
        /\ Distinct(processQueue') /\ p \notin ProcsIn(processQueue')
    BY <2>1, TailDistinct DEF SerialInv, InFlightApart
  <2>4. p \notin ProcsIn(taskQueue) /\ p \notin ProcsIn(finished)
    BY <2>3 DEF SerialInv, InFlightApart
  <2>5. /\ ProcsIn(taskQueue') \subseteq ProcsIn(taskQueue) \cup {p}
        /\ Distinct(taskQueue')
    BY <2>1, <2>2, <2>4, AppendDistinct DEF SerialInv, InFlightApart
  <2> HIDE DEF p
  <2>6. ProcessingOnce' /\ InFlightApart' /\ InFlightOnce'
    BY <1>1, <2>3, <2>4, <2>5 DEF SerialInv, ProcessingOnce, InFlightApart, InFlightOnce
  <2>7. WorkersApart'
    BY <1>1, <2>3, <2>5 DEF SerialInv, WorkersApart, Running
  <2>8. MainApart'
    BY <1>1, <2>3, <2>5 DEF SerialInv, MainApart, Running
  <2> QED
    BY <1>1, <2>6, <2>7, <2>8, WaitUnmoved DEF SerialInv
<1>3. CASE LoopCheck \/ LoopBlock \/ LoopSpurious
  <2>1. UNCHANGED <<processQueue, taskQueue>>
    BY <1>3 DEF LoopCheck, LoopBlock, LoopSpurious, queues
  <2>2. WorkersApart' /\ MainApart'
    BY <1>1, <2>1 DEF SerialInv, WorkersApart, MainApart, Running
  <2> QED
    BY <1>1, <2>1, <2>2, QueuesUnmoved, WaitUnmoved DEF SerialInv
<1> QED
  BY <1>2, <1>3 DEF MainLoop

LEMMA SerialEdit ==
  ASSUME TypeOK, SerialInv, \/ \E p \in Processes : UpdateProcess(p) \/ RemoveProcess(p)
                            \/ StopService
  PROVE  SerialInv'
<1>1. ASSUME NEW p \in Processes, UpdateProcess(p) \/ RemoveProcess(p) PROVE SerialInv'
  <2>1. /\ processQueue' = Without(processQueue, p) /\ processQueue \in Seq(Packages)
        /\ UNCHANGED <<processing, taskQueue, finished, at, pkg>>
    BY <1>1 DEF UpdateProcess, RemoveProcess, Purge, threads, TypeOK, QueuesTypeOK
  <2>2. /\ ProcsIn(processQueue') \subseteq ProcsIn(processQueue)
        /\ Distinct(processQueue')
    BY <2>1, WithoutDistinct DEF SerialInv, InFlightApart
  <2>3. WaitQueuesOwn'
    <3>1. waitQueue' = [waitQueue EXCEPT ![p] = <<>>] \/ UNCHANGED waitQueue
      BY <1>1 DEF UpdateProcess, RemoveProcess
    <3>2. \A r \in Processes : waitQueue'[r] = <<>> \/ waitQueue'[r] = waitQueue[r]
      BY <3>1 DEF TypeOK, QueuesTypeOK
    <3> QED
      BY <3>2 DEF SerialInv, WaitQueuesOwn
  <2>4. ProcessingOnce' /\ InFlightApart' /\ InFlightOnce'
    BY <2>1, <2>2 DEF SerialInv, ProcessingOnce, InFlightApart, InFlightOnce
  <2>5. WorkersApart' /\ MainApart'
    BY <2>1, <2>2 DEF SerialInv, WorkersApart, MainApart, Running
  <2> QED
    BY <2>3, <2>4, <2>5 DEF SerialInv
<1>2. CASE StopService
  <2>1. UNCHANGED <<processQueue, processing, waitQueue, taskQueue, finished, at, pkg>>
    BY <1>2 DEF StopService, queues, threads
  <2>2. WorkersApart' /\ MainApart'
    BY <2>1 DEF SerialInv, WorkersApart, MainApart, Running
  <2> QED
    BY <2>1, <2>2, QueuesUnmoved, WaitUnmoved DEF SerialInv
<1> QED
  BY <1>1, <1>2

\* A worker that is not left running has nothing in flight any more.
LEMMA WorkerRests ==
  ASSUME TypeOK, SerialInv, NEW w \in Workers, NEW s \in {"ready", "exit"}, NEW k, Goto(w, s, k),
         UNCHANGED <<processQueue, taskQueue, finished, processing, waitQueue>>
  PROVE  SerialInv'
<1>1. /\ at'[w] = s /\ at'[Main] = at[Main] /\ pkg'[Main] = pkg[Main]
      /\ \A v \in Workers : v # w => at'[v] = at[v] /\ pkg'[v] = pkg[v]
  BY WorkerMoves DEF TypeOK
<1>2. WorkersApart' /\ MainApart'
  BY <1>1 DEF SerialInv, WorkersApart, MainApart, Running
<1> QED
  BY <1>2, QueuesUnmoved, WaitUnmoved DEF SerialInv

LEMMA SerialWorker ==
  ASSUME Kind \in MainKinds, TypeOK, SerialInv, NEW w \in Workers, Worker(w)
  PROVE  SerialInv'
<1>0. w # Main /\ w \in Threads /\ Kind \notin PoolKinds
  BY ServiceQueueAssumption DEF Threads, MainKinds, PoolKinds
<1>1. at[w] \notin NotifySteps
  BY DEF SerialInv, WorkersApart
<1>2. CASE TakeTask(w)
  <2> DEFINE k == Head(taskQueue)
             p == k.proc
  <2>1. /\ taskQueue \in Seq(Packages) /\ taskQueue # <<>> /\ taskQueue' = Tail(taskQueue)
        /\ Goto(w, "taken", k)
        /\ UNCHANGED <<processQueue, processing, waitQueue, finished>>
    BY <1>2 DEF TakeTask, TypeOK, QueuesTypeOK, queues
  <2>2. /\ p \in ProcsIn(taskQueue)
        /\ ProcsIn(taskQueue') \subseteq ProcsIn(taskQueue)
        /\ Distinct(taskQueue') /\ p \notin ProcsIn(taskQueue')
    BY <2>1, TailDistinct DEF SerialInv, InFlightApart
  <2>3. /\ p \notin ProcsIn(processQueue) /\ p \notin ProcsIn(finished)
        /\ processing[p] = 1
        /\ \A v \in Workers : Running(v) => pkg[v].proc # p
        /\ at[Main] = "release" => pkg[Main].proc # p
    BY <2>2 DEF SerialInv, InFlightApart, InFlightOnce, WorkersApart, MainApart
  <2>4. /\ at'[w] = "taken" /\ pkg'[w] = k /\ at'[Main] = at[Main] /\ pkg'[Main] = pkg[Main]
        /\ \A v \in Workers : v # w => at'[v] = at[v] /\ pkg'[v] = pkg[v]
    BY <2>1, WorkerMoves DEF TypeOK
  <2> HIDE DEF k
  <2>5. ProcessingOnce' /\ InFlightApart' /\ InFlightOnce'
    BY <2>1, <2>2 DEF SerialInv, ProcessingOnce, InFlightApart, InFlightOnce
  <2>6. WorkersApart'
    BY <2>1, <2>2, <2>3, <2>4 DEF SerialInv, WorkersApart, Running
  <2>7. MainApart'
    BY <2>1, <2>2, <2>3, <2>4 DEF SerialInv, MainApart, Running
  <2> QED
    BY <2>1, <2>5, <2>6, <2>7, WaitUnmoved DEF SerialInv
<1>3. CASE StartTask(w)
  <2>1. UNCHANGED <<processQueue, taskQueue, finished, processing, waitQueue>> /\ at[w] = "taken"
    BY <1>3 DEF StartTask, queues
  <2>2. CASE stop
    BY <1>3, <2>1, <2>2, WorkerRests DEF StartTask
  <2>3. CASE ~stop
    <3>1. /\ at'[w] = "run" /\ pkg'[w] = pkg[w] /\ at'[Main] = at[Main] /\ pkg'[Main] = pkg[Main]
          /\ \A v \in Workers : v # w => at'[v] = at[v] /\ pkg'[v] = pkg[v]
      BY <1>3, <2>3, WorkerMoves DEF StartTask, TypeOK
    <3>2. WorkersApart' /\ MainApart'
      BY <2>1, <3>1 DEF SerialInv, WorkersApart, MainApart, Running
    <3> QED
      BY <2>1, <3>2, QueuesUnmoved, WaitUnmoved DEF SerialInv
  <2> QED
    BY <2>2, <2>3
<1>4. CASE FinishTask(w)
  <2> DEFINE p == pkg[w].proc
  <2>1. /\ finished \in Seq(Packages) /\ pkg[w] \in Packages /\ Running(w)
        /\ Goto(w, "ready", NoPackage) /\ finished' = Append(finished, pkg[w])
        /\ UNCHANGED <<processQueue, processing, waitQueue, taskQueue>>
    BY <1>0, <1>4 DEF FinishTask, Rest, Resting, Running, TypeOK, QueuesTypeOK, ThreadsTypeOK, queues
  <2>2. /\ processing[p] = 1
        /\ p \notin ProcsIn(processQueue) /\ p \notin ProcsIn(taskQueue) /\ p \notin ProcsIn(finished)
        /\ \A v \in Workers : Running(v) /\ v # w => pkg[v].proc # p
        /\ at[Main] = "release" => pkg[Main].proc # p
    BY <2>1 DEF SerialInv, WorkersApart, MainApart
  <2>3. /\ ProcsIn(finished') = ProcsIn(finished) \cup {p}
        /\ Distinct(finished')
    BY <2>1, <2>2, AppendDistinct DEF SerialInv, InFlightApart
  <2>4. /\ at'[w] = "ready" /\ at'[Main] = at[Main] /\ pkg'[Main] = pkg[Main]
        /\ \A v \in Workers : v # w => at'[v] = at[v] /\ pkg'[v] = pkg[v]
    BY <2>1, WorkerMoves DEF TypeOK
  <2> HIDE DEF p
  <2>5. ProcessingOnce' /\ InFlightApart' /\ InFlightOnce'
    BY <2>1, <2>2, <2>3 DEF SerialInv, ProcessingOnce, InFlightApart, InFlightOnce
  <2>6. WorkersApart'
    BY <2>1, <2>2, <2>3, <2>4 DEF SerialInv, WorkersApart, Running
  <2>7. MainApart'
    BY <2>1, <2>2, <2>3, <2>4 DEF SerialInv, MainApart, Running
  <2> QED
    BY <2>1, <2>5, <2>6, <2>7, WaitUnmoved DEF SerialInv
<1>5. CASE EscapeTask(w)
  BY <1>0, <1>5, WorkerRests DEF EscapeTask, Rest, Resting, queues
<1>6. CASE WorkerExit(w)
  BY <1>6, WorkerRests DEF WorkerExit, queues
<1>7. CASE NotifyWaitQueue(w)
  <2>1. at[w] \in NotifySteps
    BY <1>7 DEF NotifyWaitQueue, Release, TestWaitQueue, FrontOfWaitQueue, PopWaitQueue,
                MoveToProcessQueue
  <2> QED
    BY <1>1, <2>1
<1>8. ~StatusOfFile(w)
  BY <1>0 DEF StatusOfFile, PoolKinds
<1> QED
  BY <1>2, <1>3, <1>4, <1>5, <1>6, <1>7, <1>8 DEF Worker

LEMMA SerialStep ==
  ASSUME Kind \in MainKinds, TypeOK, SerialInv, [Next]_vars
  PROVE  SerialInv'
<1>1. CASE UNCHANGED vars
  <2>1. UNCHANGED <<processQueue, processing, waitQueue, taskQueue, finished, at, pkg>>
    BY <1>1 DEF vars, queues, threads
  <2>2. WorkersApart' /\ MainApart'
    BY <2>1 DEF SerialInv, WorkersApart, MainApart, Running
  <2> QED
    BY <2>1, <2>2, QueuesUnmoved, WaitUnmoved DEF SerialInv
<1>2. CASE Next
  BY <1>1, <1>2, SerialMain, SerialLoop, SerialWorker, SerialEdit DEF Next, Halt
<1> QED
  BY <1>1, <1>2

LEMMA AtMostOne ==
  ASSUME NEW q \in Seq(Packages), NEW p, Distinct(q)
  PROVE  Cardinality(Of(q, p)) = IF p \in ProcsIn(q) THEN 1 ELSE 0
<1>1. CASE p \in ProcsIn(q)
  <2>1. PICK i \in DOMAIN q : q[i].proc = p
    BY <1>1 DEF ProcsIn
  <2>2. Of(q, p) = {i}
    BY <2>1 DEF Of, Distinct
  <2> QED
    BY <1>1, <2>2, FS_Singleton
<1>2. CASE p \notin ProcsIn(q)
  <2>1. Of(q, p) = {}
    BY <1>2 DEF Of, ProcsIn
  <2> QED
    BY <1>2, <2>1, FS_EmptySet
<1> QED
  BY <1>1, <1>2

LEMMA CarriedAlone ==
  ASSUME TypeOK, SerialInv, NEW p, NEW t \in Carrying(p)
  PROVE  /\ Carrying(p) = {t}
         /\ p \notin ProcsIn(processQueue) /\ p \notin ProcsIn(taskQueue) /\ p \notin ProcsIn(finished)
<1>1. Main \notin Workers /\ Threads = Workers \cup {Main}
  BY ServiceQueueAssumption DEF Threads
<1>2. /\ \A w \in Workers \cap Carrying(p) : Running(w)
      /\ Main \in Carrying(p) => at[Main] = "move"
  BY <1>1 DEF Carrying, Running, SerialInv, WorkersApart, TypeOK, ThreadsTypeOK
<1>3. Main \in Carrying(p) => processing[p] = 0
  BY <1>2 DEF Carrying, SerialInv, MainApart
<1>4. \A u \in Carrying(p) : u = t
  <2>1. \A w \in Workers \cap Carrying(p) : processing[p] = 1
    BY <1>2 DEF Carrying, SerialInv, WorkersApart
  <2>2. \A v, w \in Workers \cap Carrying(p) : v = w
    BY <1>2 DEF Carrying, SerialInv, WorkersApart
  <2> QED
    BY <1>1, <1>3, <2>1, <2>2 DEF Carrying
<1>5. p \notin ProcsIn(processQueue) /\ p \notin ProcsIn(taskQueue) /\ p \notin ProcsIn(finished)
  <2>1. CASE t = Main
    BY <1>3, <2>1, NotProcessing
  <2>2. CASE t # Main
    BY <1>1, <1>2, <2>2 DEF Carrying, SerialInv, WorkersApart
  <2> QED
    BY <2>1, <2>2
<1> QED
  BY <1>4, <1>5

LEMMA SerialInvImplies == TypeOK /\ SerialInv => SerialExecution
<1> SUFFICES ASSUME TypeOK, SerialInv, NEW p \in Processes PROVE InFlight(p) <= 1
  BY DEF SerialExecution
<1>1. /\ Cardinality(Of(processQueue, p)) = IF p \in ProcsIn(processQueue) THEN 1 ELSE 0
      /\ Cardinality(Of(taskQueue, p)) = IF p \in ProcsIn(taskQueue) THEN 1 ELSE 0
      /\ Cardinality(Of(finished, p)) = IF p \in ProcsIn(finished) THEN 1 ELSE 0
  BY AtMostOne DEF TypeOK, QueuesTypeOK, SerialInv, InFlightApart
<1>2. CASE Carrying(p) = {}
  <2>1. Cardinality(Carrying(p)) = 0
    BY <1>2, FS_EmptySet
  <2> QED
    BY <1>1, <2>1 DEF InFlight, SerialInv, InFlightApart
<1>3. CASE Carrying(p) # {}
  <2>1. PICK t \in Carrying(p) : TRUE
    BY <1>3
  <2>2. /\ Carrying(p) = {t}
        /\ p \notin ProcsIn(processQueue) /\ p \notin ProcsIn(taskQueue) /\ p \notin ProcsIn(finished)
    BY <2>1, CarriedAlone
  <2>3. Cardinality(Carrying(p)) = 1
    BY <2>2, FS_Singleton
  <2> QED
    BY <1>1, <2>2, <2>3 DEF InFlight
<1> QED
  BY <1>2, <1>3

\* The analysis and the alert service, whose executions end on the main thread,
\* process one package of a process at a time, for any processes, workers, faults
\* and edits.
THEOREM SerialCorrect ==
  ASSUME Kind \in MainKinds
  PROVE  Spec => []SerialExecution
<1>1. Init => TypeOK /\ SerialInv
  BY TypeInit, SerialInit
<1>2. TypeOK /\ SerialInv /\ [Next]_vars => (TypeOK /\ SerialInv)'
  BY TypeStep, SerialStep
<1>3. TypeOK /\ SerialInv => SerialExecution
  BY SerialInvImplies
<1> QED
  BY <1>1, <1>2, <1>3, PTL DEF Spec
-----------------------------------------------------------------------------
(* The final status of a register stays *)

\* Every package is one of S.
PackagesIn(S) ==
  /\ processQueue \in Seq(S) /\ taskQueue \in Seq(S) /\ finished \in Seq(S)
  /\ waitQueue \in [Processes -> Seq(S)]
  /\ pkg \in [Threads -> S \cup {NoPackage}]

\* The packages whose register has been given out.
Given == {k \in Packages : k.reg <= lastRegister}

\* Who holds the lock.
Locked ==
  /\ at[Main] \in {"direct", "wait", "onqueue"} => mutex = "main"
  /\ loop \in {"drain", "block"} => mutex = "loop"

\* A register that is not given out has no final status, and neither has that of
\* a package that has just been put in the wait queue: nobody can have executed
\* it, as the main loop cannot have made a task of it without the lock.
Unfinished ==
  /\ \A r \in Registers : r > lastRegister => status[r] # "FINISHED"
  /\ at[Main] \in {"wait", "onqueue"} =>
       /\ status[pkg[Main].reg] # "FINISHED"
       /\ \A i \in DOMAIN taskQueue : taskQueue[i].reg # pkg[Main].reg
       /\ \A w \in Workers : Running(w) => pkg[w].reg # pkg[Main].reg

LogInv == TypeOK /\ PackagesIn(Given) /\ Locked /\ Unfinished

LEMMA HolderIn ==
  ASSUME TypeOK, NEW S, PackagesIn(S), NEW t \in Threads, at[t] \notin {"idle", "ready", "exit"}
  PROVE  pkg[t] \in S /\ pkg[t] \in Packages /\ pkg[t].proc \in Processes
<1>1. pkg[t] \in Packages
  BY DEF TypeOK, ThreadsTypeOK
<1>2. pkg[t] # NoPackage
  BY <1>1, ServiceQueueAssumption
<1> QED
  BY <1>1, <1>2 DEF PackagesIn, Packages

LEMMA GotoIn ==
  ASSUME NEW S, PackagesIn(S), NEW t \in Threads, NEW s, NEW k \in S \cup {NoPackage}, Goto(t, s, k)
  PROVE  pkg' \in [Threads -> S \cup {NoPackage}]
BY DEF PackagesIn, Goto

LEMMA RestIn ==
  ASSUME NEW S, PackagesIn(S), NEW t \in Threads, Rest(t)
  PROVE  pkg' \in [Threads -> S \cup {NoPackage}]
BY GotoIn DEF Rest

LEMMA QueuedIn ==
  ASSUME NEW S, PackagesIn(S), NEW k \in S
  PROVE  Queued(k) \in [Processes -> Seq(S)]
<1>1. ASSUME k.proc \in Processes PROVE Append(waitQueue[k.proc], k) \in Seq(S)
  BY <1>1, AppendProperties DEF PackagesIn
<1> QED
  BY <1>1 DEF Queued, PackagesIn

LEMMA NotifyIn ==
  ASSUME TypeOK, NEW S, PackagesIn(S), NEW t \in Threads, NotifyWaitQueue(t)
  PROVE  PackagesIn(S)'
<1>1. pkg[t] \in S /\ pkg[t].proc \in Processes
  BY HolderIn DEF NotifyWaitQueue, Release, TestWaitQueue, FrontOfWaitQueue, PopWaitQueue, MoveToProcessQueue
<1>2. CASE Release(t)
  <2>1. pkg' \in [Threads -> S \cup {NoPackage}]
    BY <1>1, <1>2, GotoIn DEF Release
  <2> QED
    BY <1>2, <2>1 DEF Release, PackagesIn
<1>3. CASE TestWaitQueue(t)
  <2>1. pkg' \in [Threads -> S \cup {NoPackage}]
    BY <1>1, <1>3, GotoIn, RestIn DEF TestWaitQueue
  <2> QED
    BY <1>3, <2>1 DEF TestWaitQueue, PackagesIn, queues
<1>4. CASE FrontOfWaitQueue(t)
  <2>1. Head(waitQueue[pkg[t].proc]) \in S
    BY <1>1, <1>4, HeadTailProperties DEF FrontOfWaitQueue, PackagesIn
  <2>2. pkg' \in [Threads -> S \cup {NoPackage}]
    BY <1>4, <2>1, GotoIn DEF FrontOfWaitQueue
  <2> QED
    BY <1>4, <2>2 DEF FrontOfWaitQueue, PackagesIn, queues
<1>5. CASE PopWaitQueue(t)
  <2>1. Tail(waitQueue[pkg[t].proc]) \in Seq(S)
    BY <1>1, <1>5, HeadTailProperties DEF PopWaitQueue, PackagesIn
  <2>2. pkg' \in [Threads -> S \cup {NoPackage}]
    BY <1>1, <1>5, GotoIn DEF PopWaitQueue
  <2>3. waitQueue' \in [Processes -> Seq(S)]
    BY <1>1, <1>5, <2>1 DEF PopWaitQueue, PackagesIn, Popped
  <2> QED
    BY <1>5, <2>2, <2>3 DEF PopWaitQueue, PackagesIn
<1>6. CASE MoveToProcessQueue(t)
  <2>1. pkg' \in [Threads -> S \cup {NoPackage}]
    BY <1>6, RestIn DEF MoveToProcessQueue
  <2>2. processQueue' \in Seq(S)
    BY <1>1, <1>6, AppendProperties DEF MoveToProcessQueue, PackagesIn
  <2> QED
    BY <1>6, <2>1, <2>2 DEF MoveToProcessQueue, PackagesIn
<1> QED
  BY <1>2, <1>3, <1>4, <1>5, <1>6 DEF NotifyWaitQueue

LEMMA MainIn ==
  ASSUME TypeOK, NEW S, PackagesIn(S), MainContinues \/ HandleFinished,
         \A k \in S : [k EXCEPT !.date = @ + 1] \in S
  PROVE  PackagesIn(S)'
<1>1. Main \in Threads
  BY DEF Threads
<1>2. ASSUME at[Main] \in {"direct", "wait", "onqueue", "dates"}
      PROVE  pkg[Main] \in S
  BY <1>1, <1>2, HolderIn
<1>3. CASE AddToProcessQueue
  <2>1. pkg' \in [Threads -> S \cup {NoPackage}]
    BY <1>1, <1>3, RestIn DEF AddToProcessQueue
  <2>2. processQueue' \in Seq(S)
    BY <1>2, <1>3, AppendProperties DEF AddToProcessQueue, PackagesIn
  <2> QED
    BY <1>3, <2>1, <2>2 DEF AddToProcessQueue, PackagesIn
<1>4. CASE AddToWaitQueue
  <2>1. pkg' \in [Threads -> S \cup {NoPackage}]
    BY <1>1, <1>2, <1>4, GotoIn DEF AddToWaitQueue
  <2>2. waitQueue' \in [Processes -> Seq(S)]
    BY <1>2, <1>4, QueuedIn DEF AddToWaitQueue
  <2> QED
    BY <1>4, <2>1, <2>2 DEF AddToWaitQueue, PackagesIn
<1>5. CASE AddDate
  <2>1. pkg' \in [Threads -> S \cup {NoPackage}]
    BY <1>1, <1>2, <1>5, GotoIn DEF AddDate
  <2>2. waitQueue' \in [Processes -> Seq(S)]
    BY <1>2, <1>5, QueuedIn DEF AddDate
  <2> QED
    BY <1>5, <2>1, <2>2 DEF AddDate, PackagesIn
<1>6. CASE LogOnQueue \/ DatesDone \/ DatesFail
  <2>1. pkg' \in [Threads -> S \cup {NoPackage}]
    BY <1>1, <1>2, <1>6, GotoIn, RestIn DEF LogOnQueue, DatesDone, DatesFail
  <2> QED
    BY <1>6, <2>1 DEF LogOnQueue, DatesDone, DatesFail, PackagesIn, queues
<1>7. CASE HandleFinished
  <2>1. Head(finished) \in S /\ Tail(finished) \in Seq(S)
    BY <1>7, HeadTailProperties DEF HandleFinished, PackagesIn
  <2>2. pkg' \in [Threads -> S \cup {NoPackage}]
    BY <1>1, <1>7, <2>1, GotoIn DEF HandleFinished
  <2> QED
    BY <1>7, <2>1, <2>2 DEF HandleFinished, PackagesIn
<1> QED
  BY <1>1, <1>3, <1>4, <1>5, <1>6, <1>7, NotifyIn DEF MainContinues

LEMMA LoopIn ==
  ASSUME NEW S, PackagesIn(S), MainLoop \/ LoopSpurious
  PROVE  PackagesIn(S)'
<1>1. CASE LoopCheck \/ LoopBlock \/ LoopSpurious
  BY <1>1 DEF LoopCheck, LoopBlock, LoopSpurious, PackagesIn, queues, threads
<1>2. CASE LoopDrain
  <2>1. Head(processQueue) \in S /\ Tail(processQueue) \in Seq(S)
    BY <1>2, HeadTailProperties DEF LoopDrain, PackagesIn
  <2>2. taskQueue' = Append(taskQueue, Head(processQueue)) \/ UNCHANGED taskQueue
    BY <1>2 DEF LoopDrain
  <2>3. taskQueue' \in Seq(S)
    <3>1. Append(taskQueue, Head(processQueue)) \in Seq(S)
      BY <2>1, AppendProperties DEF PackagesIn
    <3> QED
      BY <2>2, <3>1 DEF PackagesIn
  <2> QED
    BY <1>2, <2>1, <2>3 DEF LoopDrain, PackagesIn, threads
<1> QED
  BY <1>1, <1>2 DEF MainLoop

LEMMA WorkerIn ==
  ASSUME TypeOK, NEW S, PackagesIn(S), NEW w \in Workers, Worker(w)
  PROVE  PackagesIn(S)'
<1>1. w \in Threads
  BY DEF Threads
<1>2. ASSUME at[w] \in {"taken", "run"} PROVE pkg[w] \in S
  BY <1>1, <1>2, HolderIn
<1>3. CASE TakeTask(w)
  <2>1. Head(taskQueue) \in S /\ Tail(taskQueue) \in Seq(S)
    BY <1>3, HeadTailProperties DEF TakeTask, PackagesIn
  <2>2. pkg' \in [Threads -> S \cup {NoPackage}]
    BY <1>1, <1>3, <2>1, GotoIn DEF TakeTask
  <2> QED
    BY <1>3, <2>1, <2>2 DEF TakeTask, PackagesIn, queues
<1>4. CASE StartTask(w) \/ WorkerExit(w) \/ EscapeTask(w)
  <2>1. pkg' \in [Threads -> S \cup {NoPackage}]
    BY <1>1, <1>2, <1>4, GotoIn, RestIn DEF StartTask, WorkerExit, EscapeTask
  <2> QED
    BY <1>4, <2>1 DEF StartTask, WorkerExit, EscapeTask, PackagesIn, queues
<1>5. CASE FinishTask(w)
  <2>1. pkg' \in [Threads -> S \cup {NoPackage}]
    BY <1>1, <1>2, <1>5, GotoIn, RestIn DEF FinishTask
  <2>2. finished' = Append(finished, pkg[w]) \/ UNCHANGED finished
    BY <1>5 DEF FinishTask
  <2>3. finished' \in Seq(S)
    <3>1. Append(finished, pkg[w]) \in Seq(S)
      BY <1>2, <1>5, AppendProperties DEF FinishTask, PackagesIn
    <3> QED
      BY <2>2, <3>1 DEF PackagesIn
  <2> QED
    BY <1>5, <2>1, <2>3 DEF FinishTask, PackagesIn, queues
<1>6. CASE StatusOfFile(w)
  BY <1>6 DEF StatusOfFile, PackagesIn, queues, threads
<1> QED
  BY <1>1, <1>3, <1>4, <1>5, <1>6, NotifyIn DEF Worker

LEMMA EditIn ==
  ASSUME TypeOK, NEW S, PackagesIn(S),
         \/ \E p \in Processes : UpdateProcess(p) \/ RemoveProcess(p)
         \/ StopService
  PROVE  PackagesIn(S)'
<1>1. ASSUME NEW p \in Processes, UpdateProcess(p) \/ RemoveProcess(p) PROVE PackagesIn(S)'
  <2>1. /\ processQueue' = Without(processQueue, p) /\ processQueue \in Seq(Packages)
        /\ UNCHANGED <<taskQueue, finished, pkg>>
        /\ waitQueue' = [waitQueue EXCEPT ![p] = <<>>] \/ UNCHANGED waitQueue
    BY <1>1 DEF UpdateProcess, RemoveProcess, Purge, threads, TypeOK, QueuesTypeOK
  <2> DEFINE r == Without(processQueue, p)
  <2>2. r \in Seq(S)
    <3>1. r \in Seq(Packages) /\ \A i \in DOMAIN r : \E j \in DOMAIN processQueue : r[i] = processQueue[j]
      <4>1. PICK f \in [DOMAIN r -> DOMAIN processQueue] :
              \A i \in DOMAIN f : r[i] = processQueue[f[i]]
        BY <2>1, WithoutProperties
      <4> QED
        BY <2>1, <4>1, WithoutProperties
    <3>2. \A j \in DOMAIN processQueue : processQueue[j] \in S
      BY ElementOfSeq, LenProperties DEF PackagesIn
    <3> HIDE DEF r
    <3>3. Len(r) \in Nat /\ r = [i \in 1..Len(r) |-> r[i]] /\ DOMAIN r = 1..Len(r)
      BY <3>1, LenProperties
    <3>4. \A i \in 1..Len(r) : r[i] \in S
      BY <3>1, <3>2, <3>3
    <3> QED
      BY <3>3, <3>4, IsASeq
  <2>3. waitQueue' \in [Processes -> Seq(S)]
    BY <2>1, EmptySeq DEF PackagesIn
  <2> QED
    BY <2>1, <2>2, <2>3 DEF PackagesIn
<1>2. CASE StopService
  BY <1>2 DEF StopService, PackagesIn, queues, threads
<1> QED
  BY <1>1, <1>2

\* Registers are given out one after the other, to packages that no other has.
LEMMA GivenStep ==
  ASSUME TypeOK, PackagesIn(Given), [Next]_vars
  PROVE  PackagesIn(Given)'
<1>0. lastRegister \in Nat /\ MaxRegisters \in Nat
  BY ServiceQueueAssumption DEF TypeOK
<1>1. ASSUME lastRegister' = lastRegister, \A S : S = Given => PackagesIn(S)'
      PROVE  PackagesIn(Given)'
  <2>1. Given' = Given
    BY <1>1 DEF Given
  <2>2. PICK S : S = Given
    OBVIOUS
  <2>3. PackagesIn(S)'
    BY <1>1, <2>2
  <2> QED
    BY <2>1, <2>2, <2>3 DEF PackagesIn
<1>2. \A k \in Given : [k EXCEPT !.date = @ + 1] \in Given
  BY DEF Given, Packages
<1>3. CASE UNCHANGED vars
  <2>1. lastRegister' = lastRegister
    BY <1>3 DEF vars, log
  <2>2. \A S : S = Given => PackagesIn(S)'
    BY <1>3 DEF vars, queues, threads, PackagesIn
  <2> QED
    BY <1>1, <2>1, <2>2
<1>4. CASE MainContinues \/ HandleFinished
  <2>1. lastRegister' = lastRegister
    BY <1>4 DEF MainContinues, HandleFinished, AddToProcessQueue, AddToWaitQueue, LogOnQueue, AddDate, DatesDone,
                DatesFail, NotifyWaitQueue, Release, TestWaitQueue, FrontOfWaitQueue, PopWaitQueue,
                MoveToProcessQueue, log
  <2> QED
    BY <1>1, <1>2, <1>4, <2>1, MainIn
<1>5. CASE MainLoop \/ LoopSpurious
  <2>1. lastRegister' = lastRegister
    BY <1>5 DEF MainLoop, LoopCheck, LoopBlock, LoopDrain, LoopSpurious, log
  <2> QED
    BY <1>1, <1>5, <2>1, LoopIn
<1>6. ASSUME NEW w \in Workers, Worker(w) PROVE PackagesIn(Given)'
  <2>1. lastRegister' = lastRegister
    BY <1>6 DEF Worker, TakeTask, StartTask, StatusOfFile, FinishTask, EscapeTask, WorkerExit, NotifyWaitQueue, Release,
                TestWaitQueue, FrontOfWaitQueue, PopWaitQueue, MoveToProcessQueue, log
  <2> QED
    BY <1>1, <1>6, <2>1, WorkerIn
<1>7. CASE StopService \/ \E p \in Processes : UpdateProcess(p) \/ RemoveProcess(p)
  <2>1. lastRegister' = lastRegister
    BY <1>7 DEF StopService, UpdateProcess, RemoveProcess, Purge, log
  <2> QED
    BY <1>1, <1>7, <2>1, EditIn
<1>8. ASSUME NEW p \in Processes, Trigger(p) \/ TriggerReprocessing(p) PROVE PackagesIn(Given)'
  <2> DEFINE k == [proc |-> p, reg |-> lastRegister + 1, date |-> 1]
  <2>1. /\ lastRegister' = lastRegister + 1 /\ lastRegister < MaxRegisters
        /\ UNCHANGED <<queues, taskQueue, finished>>
        /\ \E s : Goto(Main, s, k)
    BY <1>8 DEF Trigger, TriggerReprocessing
  <2>2. k \in Packages
    BY <1>0, <2>1 DEF Packages, Registers
  <2>3. k \in Given' /\ Given \subseteq Given'
    <3>1. k.reg = lastRegister + 1
      OBVIOUS
    <3>2. k \in Given'
      <4> HIDE DEF k
      <4> QED
        BY <1>0, <2>1, <2>2, <3>1 DEF Given
    <3>3. \A m \in Packages : m.reg \in Nat
      BY <1>0 DEF Packages, Registers
    <3>4. Given \subseteq Given'
      BY <1>0, <2>1, <3>3 DEF Given
    <3> QED
      BY <3>2, <3>4
  <2> HIDE DEF k
  <2>4. PICK T : T = Given'
    OBVIOUS
  <2>5. /\ processQueue \in Seq(T) /\ taskQueue \in Seq(T) /\ finished \in Seq(T)
        /\ waitQueue \in [Processes -> Seq(T)]
        /\ pkg \in [Threads -> T \cup {NoPackage}]
    <3>1. Given \subseteq T
      BY <2>3, <2>4
    <3>2. processQueue \in Seq(T) /\ taskQueue \in Seq(T) /\ finished \in Seq(T)
      BY <3>1, SeqMonotonic DEF PackagesIn
    <3>3. \A q \in Processes : waitQueue[q] \in Seq(T)
      BY <3>1, SeqMonotonic DEF PackagesIn
    <3> QED
      BY <3>1, <3>2, <3>3 DEF PackagesIn
  <2>6. pkg' \in [Threads -> T \cup {NoPackage}]
    BY <2>1, <2>3, <2>4, <2>5 DEF Goto
  <2>7. PackagesIn(T)'
    BY <2>1, <2>5, <2>6 DEF PackagesIn, queues
  <2> QED
    BY <2>4, <2>7 DEF PackagesIn
<1>9. CASE Halt
  BY <1>3, <1>9 DEF Halt
<1> QED
  BY <1>3, <1>4, <1>5, <1>6, <1>7, <1>8, <1>9 DEF Next
LEMMA LockedStep ==
  ASSUME TypeOK, Locked, [Next]_vars
  PROVE  Locked'
<1>0. Main \notin Workers /\ Main \in Threads
  BY ServiceQueueAssumption DEF Threads
<1>1. CASE UNCHANGED vars
  BY <1>1 DEF vars, threads, Locked
<1>2. ASSUME NEW p \in Processes, Trigger(p) \/ TriggerReprocessing(p) PROVE Locked'
  <2>1. \E k : \/ at'[Main] \in {"direct", "wait"} /\ mutex = "free" /\ mutex' = "main"
               \/ at'[Main] = "dates" /\ mutex' = mutex
    BY <1>0, <1>2, MainMoves DEF Trigger, TriggerReprocessing, TypeOK
  <2>2. loop' = loop
    BY <1>2 DEF Trigger, TriggerReprocessing
  <2> QED
    BY <2>1, <2>2 DEF Locked
<1>3. CASE AddToProcessQueue \/ LogOnQueue
  <2>1. /\ mutex = "main" /\ at'[Main] = "idle"
        /\ loop' = loop \/ loop' = WokenLoop
    BY <1>3, MainMoves DEF AddToProcessQueue, LogOnQueue, Rest, Resting, Locked, TypeOK
  <2> QED
    BY <2>1 DEF Locked, WokenLoop
<1>4. CASE AddToWaitQueue \/ AddDate \/ DatesDone \/ DatesFail \/ HandleFinished
  <2>1. /\ at'[Main] \in {"direct", "wait", "onqueue"} => at[Main] = "wait"
        /\ mutex' = mutex /\ loop' = loop
    BY <1>4, MainMoves DEF AddToWaitQueue, AddDate, DatesDone, DatesFail, HandleFinished, Rest, Resting, TypeOK
  <2> QED
    BY <2>1 DEF Locked
<1>5. CASE NotifyWaitQueue(Main)
  <2>1. at'[Main] \notin {"direct", "wait", "onqueue"} /\ mutex' = mutex
    BY <1>5, MainMoves DEF NotifyWaitQueue, Release, TestWaitQueue, FrontOfWaitQueue, PopWaitQueue,
                           MoveToProcessQueue, Rest, Resting, TypeOK
  <2>2. loop' = loop \/ loop' = WokenLoop
    BY <1>5 DEF NotifyWaitQueue, Release, TestWaitQueue, FrontOfWaitQueue, PopWaitQueue, MoveToProcessQueue
  <2> QED
    BY <2>1, <2>2 DEF Locked, WokenLoop
<1>6. CASE MainLoop \/ LoopSpurious
  BY <1>6 DEF MainLoop, LoopCheck, LoopBlock, LoopDrain, LoopSpurious, threads, Locked
<1>7. ASSUME NEW w \in Workers, Worker(w) PROVE Locked'
  <2>1. at'[Main] = at[Main]
    BY <1>7, WorkerMoves DEF Worker, TakeTask, StartTask, StatusOfFile, FinishTask, EscapeTask, WorkerExit, NotifyWaitQueue,
         Release, TestWaitQueue, FrontOfWaitQueue, PopWaitQueue, MoveToProcessQueue, Rest, TypeOK, threads
  <2>2. mutex' = mutex /\ (loop' = loop \/ loop' = WokenLoop)
    BY <1>7 DEF Worker, TakeTask, StartTask, StatusOfFile, FinishTask, EscapeTask, WorkerExit, NotifyWaitQueue,
         Release, TestWaitQueue, FrontOfWaitQueue, PopWaitQueue, MoveToProcessQueue
  <2> QED
    BY <2>1, <2>2 DEF Locked, WokenLoop
<1>8. CASE StopService \/ \E p \in Processes : UpdateProcess(p) \/ RemoveProcess(p)
  BY <1>8 DEF StopService, UpdateProcess, RemoveProcess, Purge, threads, Locked, WokenLoop
<1> QED
  BY <1>1, <1>2, <1>3, <1>4, <1>5, <1>6, <1>7, <1>8 DEF Next, MainContinues, Halt

\* Nobody has the register of a package that waits for its ON_QUEUE.
Fresh(r) ==
  /\ status[r] # "FINISHED"
  /\ \A i \in DOMAIN taskQueue : taskQueue[i].reg # r
  /\ \A w \in Workers : Running(w) => pkg[w].reg # r

\* While the main thread is between the push and ON_QUEUE, the others do not touch
\* its register.
LEMMA FreshStays ==
  ASSUME TypeOK, Locked, at[Main] \in {"wait", "onqueue"}, NEW r \in Registers, Fresh(r), [Next]_vars
  PROVE  Fresh(r)' \/ LogOnQueue
<1>0. /\ Main \notin Workers /\ Main \in Threads
      /\ mutex = "main" /\ loop # "drain"
  BY ServiceQueueAssumption DEF Threads, Locked
<1>1. CASE UNCHANGED vars
  BY <1>1 DEF vars, threads, log, Fresh, Running
<1>2. CASE AddToWaitQueue
  <2>1. \A w \in Workers : at'[w] = at[w] /\ pkg'[w] = pkg[w]
    BY <1>2, MainMoves DEF AddToWaitQueue, TypeOK
  <2> QED
    BY <1>2, <2>1 DEF AddToWaitQueue, Fresh, Running, log
<1>3. CASE LoopSpurious \/ MainLoop
  <2>1. UNCHANGED <<taskQueue, threads, log>>
    BY <1>0, <1>3 DEF MainLoop, LoopCheck, LoopBlock, LoopDrain, LoopSpurious
  <2> QED
    BY <2>1 DEF Fresh, Running, threads, log
<1>4. ASSUME NEW w \in Workers, Worker(w) PROVE Fresh(r)'
  <2>1. taskQueue' = taskQueue
    BY <1>0, <1>4 DEF Worker, TakeTask, StartTask, StatusOfFile, FinishTask, EscapeTask, WorkerExit, NotifyWaitQueue,
         Release, TestWaitQueue, FrontOfWaitQueue, PopWaitQueue, MoveToProcessQueue
  <2>2. /\ \A v \in Workers : v # w => at'[v] = at[v] /\ pkg'[v] = pkg[v]
        /\ at'[w] \in {"taken", "run"} => at[w] \in {"taken", "run"} /\ pkg'[w] = pkg[w]
    BY <1>0, <1>4, WorkerMoves DEF Worker, TakeTask, StartTask, StatusOfFile, FinishTask, EscapeTask, WorkerExit, NotifyWaitQueue,
         Release, TestWaitQueue, FrontOfWaitQueue, PopWaitQueue, MoveToProcessQueue, Rest, Resting, TypeOK, threads
  <2>3. \A v \in Workers : Running(v)' => Running(v) /\ pkg'[v] = pkg[v]
    BY <2>2 DEF Running
  <2>4. status'[r] # "FINISHED"
    <3>1. \/ status' = status
          \/ status' = [status EXCEPT ![pkg[w].reg] = "START"]
          \/ at[w] = "run" /\ status' = [status EXCEPT ![pkg[w].reg] = "FINISHED"]
      BY <1>4 DEF Worker, TakeTask, StartTask, StatusOfFile, FinishTask, EscapeTask, WorkerExit, NotifyWaitQueue,
           Release, TestWaitQueue, FrontOfWaitQueue, PopWaitQueue, MoveToProcessQueue, log
    <3>2. at[w] = "run" => pkg[w].reg # r
      BY DEF Fresh, Running
    <3> QED
      BY <3>1, <3>2 DEF Fresh, TypeOK
  <2> QED
    BY <2>1, <2>3, <2>4 DEF Fresh
<1>5. CASE MainContinues /\ ~LogOnQueue /\ ~AddToWaitQueue
  BY <1>5 DEF MainContinues, AddToProcessQueue, AddDate, DatesDone, DatesFail, NotifyWaitQueue, Release,
              TestWaitQueue, FrontOfWaitQueue, PopWaitQueue, MoveToProcessQueue
<1>6. ~HandleFinished /\ ~StopService
      /\ \A p \in Processes : ~Trigger(p) /\ ~TriggerReprocessing(p) /\ ~UpdateProcess(p) /\ ~RemoveProcess(p)
  BY DEF HandleFinished, StopService, Trigger, TriggerReprocessing, UpdateProcess, RemoveProcess, Purge
<1> QED
  BY <1>1, <1>2, <1>3, <1>4, <1>5, <1>6 DEF Next, Halt

\* A register that has not been given out gets no final status.
LEMMA UngivenStays ==
  ASSUME TypeOK, PackagesIn(Given), [Next]_vars, NEW r \in Registers, r > lastRegister,
         status[r] # "FINISHED"
  PROVE  status'[r] # "FINISHED"
<1>0. lastRegister \in Nat /\ r \in Nat /\ status \in [Registers -> Statuses]
  BY ServiceQueueAssumption DEF TypeOK, Registers
<1>1. ASSUME NEW t \in Threads, at[t] \notin {"idle", "ready", "exit"} PROVE pkg[t].reg # r
  <2>1. pkg[t] \in Given
    BY <1>1, HolderIn
  <2> QED
    BY <1>0, <2>1 DEF Given
<1>2. \/ \E k : status' = [status EXCEPT ![k] = "START"]
      \/ \E k : status' = [status EXCEPT ![k] = "ON_QUEUE"]
      \/ \E w \in Workers : at[w] = "run" /\ status' = [status EXCEPT ![pkg[w].reg] = "FINISHED"]
      \/ status' = status
  <2>1. CASE UNCHANGED vars
    BY <2>1 DEF vars, log
  <2>2. ASSUME NEW p \in Processes, Trigger(p) \/ TriggerReprocessing(p)
        PROVE  \E k : status' = [status EXCEPT ![k] = "START"]
    BY <2>2 DEF Trigger, TriggerReprocessing
  <2>3. CASE MainContinues
    BY <2>3 DEF MainContinues, AddToProcessQueue, AddToWaitQueue, LogOnQueue, AddDate, DatesDone, DatesFail,
                NotifyWaitQueue, Release, TestWaitQueue, FrontOfWaitQueue, PopWaitQueue, MoveToProcessQueue, log
  <2>4. ASSUME NEW w \in Workers, Worker(w)
        PROVE  \/ status' = status
               \/ status' = [status EXCEPT ![pkg[w].reg] = "START"]
               \/ at[w] = "run" /\ status' = [status EXCEPT ![pkg[w].reg] = "FINISHED"]
    <3>1. CASE FinishTask(w)
      BY <3>1 DEF FinishTask
    <3>2. CASE EscapeTask(w)
      BY <3>2 DEF EscapeTask
    <3>4. CASE StatusOfFile(w)
      BY <3>4 DEF StatusOfFile
    <3>3. CASE TakeTask(w) \/ StartTask(w) \/ WorkerExit(w) \/ NotifyWaitQueue(w)
      BY <3>3 DEF TakeTask, StartTask, WorkerExit, NotifyWaitQueue, Release, TestWaitQueue, FrontOfWaitQueue,
                  PopWaitQueue, MoveToProcessQueue, log
    <3> QED
      BY <2>4, <3>1, <3>2, <3>3, <3>4 DEF Worker
  <2>5. CASE \/ HandleFinished \/ StopService \/ MainLoop \/ LoopSpurious
             \/ \E p \in Processes : UpdateProcess(p) \/ RemoveProcess(p)
    BY <2>5 DEF HandleFinished, StopService, UpdateProcess, RemoveProcess, Purge, MainLoop, LoopCheck, LoopBlock,
                LoopDrain, LoopSpurious, log
  <2> QED
    BY <2>1, <2>2, <2>3, <2>4, <2>5 DEF Next, Halt
<1>3. \A w \in Workers : at[w] = "run" => pkg[w].reg # r
  BY <1>1 DEF Threads
<1> QED
  BY <1>0, <1>2, <1>3
LEMMA UnfinishedStep ==
  ASSUME TypeOK, PackagesIn(Given), Locked, Unfinished, [Next]_vars
  PROVE  Unfinished'
<1>0. /\ Main \notin Workers /\ Main \in Threads
      /\ lastRegister \in Nat /\ lastRegister <= MaxRegisters /\ MaxRegisters \in Nat
      /\ status \in [Registers -> Statuses]
  BY ServiceQueueAssumption DEF Threads, TypeOK
<1>1. ASSUME NEW r \in Registers, r > lastRegister' PROVE status'[r] # "FINISHED"
  <2>1. lastRegister' = lastRegister \/ lastRegister' = lastRegister + 1
    <3>1. CASE UNCHANGED vars
      BY <3>1 DEF vars, log
    <3>2. ASSUME NEW p \in Processes, Trigger(p) \/ TriggerReprocessing(p)
          PROVE  lastRegister' = lastRegister + 1
      BY <3>2 DEF Trigger, TriggerReprocessing
    <3>3. CASE MainContinues
      BY <3>3 DEF MainContinues, AddToProcessQueue, AddToWaitQueue, LogOnQueue, AddDate, DatesDone, DatesFail,
                  NotifyWaitQueue, Release, TestWaitQueue, FrontOfWaitQueue, PopWaitQueue, MoveToProcessQueue, log
    <3>4. ASSUME NEW w \in Workers, Worker(w) PROVE lastRegister' = lastRegister
      BY <3>4 DEF Worker, TakeTask, StartTask, StatusOfFile, FinishTask, EscapeTask, WorkerExit, NotifyWaitQueue,
                  Release, TestWaitQueue, FrontOfWaitQueue, PopWaitQueue, MoveToProcessQueue, log
    <3>5. CASE \/ HandleFinished \/ StopService \/ MainLoop \/ LoopSpurious
               \/ \E p \in Processes : UpdateProcess(p) \/ RemoveProcess(p)
      BY <3>5 DEF HandleFinished, StopService, UpdateProcess, RemoveProcess, Purge, MainLoop, LoopCheck,
                  LoopBlock, LoopDrain, LoopSpurious, log
    <3> QED
      BY <3>1, <3>2, <3>3, <3>4, <3>5 DEF Next, Halt
  <2>2. r > lastRegister
    BY <1>0, <1>1, <2>1 DEF Registers
  <2> QED
    BY <2>2, UngivenStays DEF Unfinished
<1>2. ASSUME at'[Main] \in {"wait", "onqueue"} PROVE Fresh(pkg[Main].reg)' 
  <2>1. CASE at[Main] \in {"wait", "onqueue"}
    <3>1. pkg[Main] \in Packages
      BY <1>0, <2>1 DEF TypeOK, ThreadsTypeOK
    <3>2. PICK r \in Registers : r = pkg[Main].reg
      BY <3>1 DEF Packages
    <3>3. Fresh(r)
      BY <2>1, <3>2 DEF Unfinished, Fresh
    <3>4. ~LogOnQueue
      BY <1>2, MainMoves DEF LogOnQueue, Rest, Resting, TypeOK
    <3>5. Fresh(r)'
      BY <2>1, <3>3, <3>4, FreshStays
    <3>6. pkg'[Main] = pkg[Main]
      <4>1. CASE UNCHANGED vars
        BY <4>1 DEF vars, threads
      <4>2. CASE AddToWaitQueue
        BY <4>2, MainMoves DEF AddToWaitQueue, TypeOK
      <4>3. CASE MainLoop \/ LoopSpurious
        BY <4>3 DEF MainLoop, LoopCheck, LoopBlock, LoopDrain, LoopSpurious, threads
      <4>4. ASSUME NEW w \in Workers, Worker(w) PROVE pkg'[Main] = pkg[Main]
        BY <4>4, WorkerMoves DEF Worker, TakeTask, StartTask, StatusOfFile, FinishTask, EscapeTask, WorkerExit, NotifyWaitQueue,
             Release, TestWaitQueue, FrontOfWaitQueue, PopWaitQueue, MoveToProcessQueue, Rest, TypeOK, threads
      <4>5. CASE MainContinues /\ ~AddToWaitQueue
        BY <2>1, <3>4, <4>5 DEF MainContinues, AddToProcessQueue, AddDate, DatesDone, DatesFail, NotifyWaitQueue,
             Release, TestWaitQueue, FrontOfWaitQueue, PopWaitQueue, MoveToProcessQueue
      <4>6. /\ ~HandleFinished /\ ~StopService
            /\ \A p \in Processes : ~Trigger(p) /\ ~TriggerReprocessing(p) /\ ~UpdateProcess(p) /\ ~RemoveProcess(p)
        BY <2>1 DEF HandleFinished, StopService, Trigger, TriggerReprocessing, UpdateProcess, RemoveProcess, Purge
      <4> QED
        BY <4>1, <4>2, <4>3, <4>4, <4>5, <4>6 DEF Next, Halt
    <3> QED
      BY <3>2, <3>5, <3>6 DEF Fresh, Running
  <2>2. CASE at[Main] \notin {"wait", "onqueue"}
    <3>1. PICK p \in Processes : Trigger(p)
      <4>1. ~(UNCHANGED vars)
        BY <1>2, <2>2 DEF vars, threads
      <4>2. ~(MainContinues \/ HandleFinished)
        BY <1>2, <2>2, MainMoves DEF MainContinues, HandleFinished, AddToProcessQueue, AddToWaitQueue, LogOnQueue,
             AddDate, DatesDone, DatesFail, NotifyWaitQueue, Release, TestWaitQueue, FrontOfWaitQueue, PopWaitQueue,
             MoveToProcessQueue, Rest, Resting, TypeOK
      <4>3. ~(MainLoop \/ LoopSpurious)
        BY <1>2, <2>2 DEF MainLoop, LoopCheck, LoopBlock, LoopDrain, LoopSpurious, threads
      <4>4. ASSUME NEW w \in Workers PROVE ~Worker(w)
        BY <1>2, <2>2, WorkerMoves DEF Worker, TakeTask, StartTask, StatusOfFile, FinishTask, EscapeTask, WorkerExit,
             NotifyWaitQueue, Release, TestWaitQueue, FrontOfWaitQueue, PopWaitQueue, MoveToProcessQueue, Rest, TypeOK, threads
      <4>5. ~StopService /\ \A p \in Processes : ~UpdateProcess(p) /\ ~RemoveProcess(p)
        BY <1>2, <2>2 DEF StopService, UpdateProcess, RemoveProcess, Purge, threads
      <4>6. \A p \in Processes : ~TriggerReprocessing(p)
        BY <1>2, MainMoves DEF TriggerReprocessing, TypeOK
      <4> QED
        BY <4>1, <4>2, <4>3, <4>4, <4>5, <4>6 DEF Next, Halt
    <3> DEFINE n == lastRegister + 1
    <3>2. /\ pkg'[Main].reg = n /\ n \in Registers
          /\ taskQueue' = taskQueue /\ status' = [status EXCEPT ![n] = "START"]
          /\ \A w \in Workers : at'[w] = at[w] /\ pkg'[w] = pkg[w]
      <4> DEFINE k == [proc |-> p, reg |-> n, date |-> 1]
      <4>1. \E s : Goto(Main, s, k)
        BY <3>1 DEF Trigger
      <4>2. k.reg = n
        OBVIOUS
      <4> HIDE DEF k
      <4>3. pkg'[Main].reg = n /\ \A w \in Workers : at'[w] = at[w] /\ pkg'[w] = pkg[w]
        BY <4>1, <4>2, MainMoves DEF TypeOK
      <4> QED
        BY <1>0, <3>1, <4>3 DEF Trigger, Registers
    <3>3. \A m \in Given : m.reg # n
      BY <1>0 DEF Given, Packages, Registers
    <3>4. \A i \in DOMAIN taskQueue : taskQueue[i].reg # n
      <4>1. \A i \in DOMAIN taskQueue : taskQueue[i] \in Given
        BY ElementOfSeq, LenProperties DEF PackagesIn
      <4> QED
        BY <3>3, <4>1
    <3>5. \A w \in Workers : Running(w) => pkg[w].reg # n
      <4>1. \A w \in Workers : Running(w) => pkg[w] \in Given
        BY HolderIn DEF Running, Threads
      <4> QED
        BY <3>3, <4>1
    <3>6. status'[n] # "FINISHED"
      BY <1>0, <3>2
    <3> HIDE DEF n
    <3> QED
      BY <3>2, <3>4, <3>5, <3>6 DEF Fresh, Running
  <2> QED
    BY <2>1, <2>2
<1> QED
  BY <1>1, <1>2 DEF Unfinished, Fresh

LEMMA LogInvInit == Init => LogInv
<1> SUFFICES ASSUME Init PROVE LogInv
  OBVIOUS
<1>1. PackagesIn(Given)
  <2>1. /\ processQueue = <<>> /\ taskQueue = <<>> /\ finished = <<>>
        /\ waitQueue = [p \in Processes |-> <<>>] /\ pkg = [t \in Threads |-> NoPackage]
    BY DEF Init
  <2> QED
    BY <2>1, EmptySeq DEF PackagesIn
<1>2. Locked /\ Unfinished
  BY ServiceQueueAssumption DEF Init, Locked, Unfinished, Threads
<1> QED
  BY <1>1, <1>2, TypeInit DEF LogInv

LEMMA LogInvStep == LogInv /\ [Next]_vars => LogInv'
BY TypeStep, GivenStep, LockedStep, UnfinishedStep DEF LogInv

LEMMA FinalStays ==
  ASSUME LogInv, [Next]_vars, NEW r \in Registers, status[r] = "FINISHED"
  PROVE  status'[r] = "FINISHED" \/ (status'[r] = "START" /\ Collecting(r))
<1>0. /\ TypeOK /\ Locked /\ Unfinished
      /\ status \in [Registers -> Statuses] /\ lastRegister \in Nat
  BY DEF LogInv, TypeOK
<1>1. CASE UNCHANGED vars
  BY <1>1 DEF vars, log
<1>2. ASSUME NEW p \in Processes, Trigger(p) \/ TriggerReprocessing(p)
      PROVE  status'[r] = "FINISHED"
  <2>1. status' = [status EXCEPT ![lastRegister + 1] = "START"]
    BY <1>2 DEF Trigger, TriggerReprocessing
  <2>2. r # lastRegister + 1
    BY <1>0 DEF Unfinished, Registers
  <2> QED
    BY <1>0, <2>1, <2>2
<1>3. CASE LogOnQueue
  <2>1. pkg[Main].reg # r
    BY <1>0, <1>3 DEF LogOnQueue, Unfinished
  <2> QED
    BY <1>0, <1>3, <2>1 DEF LogOnQueue
<1>4. CASE MainContinues /\ ~LogOnQueue
  BY <1>4 DEF MainContinues, AddToProcessQueue, AddToWaitQueue, AddDate, DatesDone, DatesFail,
              NotifyWaitQueue, Release, TestWaitQueue, FrontOfWaitQueue, PopWaitQueue, MoveToProcessQueue, log
<1>5. ASSUME NEW w \in Workers, Worker(w)
      PROVE  status'[r] = "FINISHED" \/ (status'[r] = "START" /\ Collecting(r))
  <2>1. CASE FinishTask(w)
    BY <1>0, <2>1 DEF FinishTask
  <2>2. CASE EscapeTask(w)
    BY <1>0, <2>2 DEF EscapeTask
  <2>3. CASE TakeTask(w) \/ StartTask(w) \/ WorkerExit(w) \/ NotifyWaitQueue(w)
    BY <2>3 DEF TakeTask, StartTask, WorkerExit, NotifyWaitQueue, Release, TestWaitQueue, FrontOfWaitQueue,
                PopWaitQueue, MoveToProcessQueue, log
  <2>4. CASE StatusOfFile(w)
    BY <1>0, <2>4 DEF StatusOfFile, Collecting
  <2> QED
    BY <1>5, <2>1, <2>2, <2>3, <2>4 DEF Worker
<1>6. CASE \/ HandleFinished \/ StopService \/ MainLoop \/ LoopSpurious
           \/ \E p \in Processes : UpdateProcess(p) \/ RemoveProcess(p)
  BY <1>6 DEF HandleFinished, StopService, UpdateProcess, RemoveProcess, Purge, MainLoop, LoopCheck, LoopBlock,
              LoopDrain, LoopSpurious, log
<1> QED
  BY <1>1, <1>2, <1>3, <1>4, <1>5, <1>6 DEF Next, Halt

\* In every service, with every fault and edit, the final status of a register is
\* never overwritten by ON_QUEUE, though notifyWaitQueue may take a package out of
\* its wait queue, without the lock, before its ON_QUEUE is logged; and by START
\* only while a collector executes another package of the register.
THEOREM FinalStatusStaysCorrect == Spec => FinalStatusStays
<1>1. LogInv /\ [Next]_vars
      => [\A r \in Registers : status[r] = "FINISHED" =>
            status'[r] = "FINISHED" \/ (status'[r] = "START" /\ Collecting(r))]_vars
  BY FinalStays
<1>2. Spec => [][\A r \in Registers : status[r] = "FINISHED" =>
                   status'[r] = "FINISHED" \/ (status'[r] = "START" /\ Collecting(r))]_vars
  BY <1>1, LogInvInit, LogInvStep, PTL DEF Spec
<1> QED
  BY <1>2 DEF FinalStatusStays
-----------------------------------------------------------------------------
(* What waits, waits for the end of an execution *)

\* What waits, waits for an execution, for the end of the handler that goes through
\* the wait queue, or for the next request of its process if a fault has interrupted
\* the last one.
WaitsForEnd ==
  \A p \in Processes : waitQueue[p] # <<>> =>
    \/ processing[p] > 0
    \/ at[Main] \in NotifySteps \cup {"dates"} /\ pkg[Main].proc = p
    \/ "erase" \in Faults /\ p \in Reprocessing

QueuesBehind == at[Main] \in {"wait", "onqueue"} => processing[pkg[Main].proc] > 0

WaitInv == WaitsForEnd /\ QueuesBehind

\* What addToQueue has in hand is not of a process that is reprocessed, what
\* addReprocessingToQueue has in hand is.
MainPlace ==
  /\ at[Main] \in {"direct", "wait"} => pkg[Main].proc \notin Reprocessing /\ pkg[Main].date = 1
  /\ at[Main] = "dates" => pkg[Main].proc \in Reprocessing

LEMMA PlaceInit == Init => MainPlace
BY DEF Init, MainPlace, Threads

LEMMA PlaceStep ==
  ASSUME TypeOK, MainPlace, [Next]_vars
  PROVE  MainPlace'
<1>1. ASSUME UNCHANGED threads PROVE MainPlace'
  BY <1>1 DEF threads, MainPlace
<1>2. ASSUME NEW p \in Processes, Trigger(p) PROVE MainPlace'
  <2>1. /\ p \notin Reprocessing /\ pkg'[Main] = [proc |-> p, reg |-> lastRegister + 1, date |-> 1]
        /\ at'[Main] \in {"direct", "wait"}
    BY <1>2, MainMoves DEF Trigger, TypeOK
  <2> QED
    BY <2>1 DEF MainPlace
<1>3. ASSUME NEW p \in Processes, TriggerReprocessing(p) PROVE MainPlace'
  <2>1. /\ p \in Reprocessing /\ pkg'[Main] = [proc |-> p, reg |-> lastRegister + 1, date |-> 1]
        /\ at'[Main] = "dates"
    BY <1>3, MainMoves DEF TriggerReprocessing, TypeOK
  <2> QED
    BY <2>1 DEF MainPlace
<1>4. CASE AddDate
  <2>1. pkg[Main] \in Packages
    BY <1>4 DEF AddDate, TypeOK, ThreadsTypeOK, Threads
  <2>2. /\ at[Main] = "dates" /\ at'[Main] = "dates" /\ pkg'[Main] = [pkg[Main] EXCEPT !.date = @ + 1]
    BY <1>4, MainMoves DEF AddDate, TypeOK
  <2>3. pkg'[Main].proc = pkg[Main].proc
    BY <2>1, <2>2 DEF Packages
  <2> QED
    BY <2>2, <2>3 DEF MainPlace
<1>5. CASE (MainContinues /\ ~AddDate) \/ HandleFinished
  <2>1. at'[Main] \notin {"direct", "wait", "dates"}
    BY <1>5, MainMoves DEF MainContinues, AddToProcessQueue, AddToWaitQueue, LogOnQueue, DatesDone, DatesFail,
       HandleFinished, NotifyWaitQueue, Release, TestWaitQueue, FrontOfWaitQueue, PopWaitQueue,
       MoveToProcessQueue, Rest, Resting, TypeOK
  <2> QED
    BY <2>1 DEF MainPlace
<1>6. ASSUME NEW w \in Workers, Worker(w) PROVE MainPlace'
  <2>1. at'[Main] = at[Main] /\ pkg'[Main] = pkg[Main]
    BY <1>6, WorkerMoves DEF Worker, TakeTask, StartTask, StatusOfFile, FinishTask, EscapeTask, WorkerExit, NotifyWaitQueue,
       Release, TestWaitQueue, FrontOfWaitQueue, PopWaitQueue, MoveToProcessQueue, Rest, TypeOK, threads
  <2> QED
    BY <2>1 DEF MainPlace
<1>7. \/ UNCHANGED vars
      \/ StopService \/ MainLoop \/ LoopSpurious
      \/ \E p \in Processes : UpdateProcess(p) \/ RemoveProcess(p)
      => UNCHANGED threads
  BY DEF vars, StopService, UpdateProcess, RemoveProcess, Purge, MainLoop, LoopCheck, LoopBlock, LoopDrain,
         LoopSpurious
<1> QED
  BY <1>1, <1>2, <1>3, <1>4, <1>5, <1>6, <1>7 DEF Next, Halt

\* The main thread stays where it is, or was idle and stays so.
LEMMA WaitUndisturbed ==
  ASSUME WaitInv, UNCHANGED <<waitQueue, processing>>, at'[Main] = at[Main], pkg'[Main] = pkg[Main]
  PROVE  WaitInv'
BY DEF WaitInv, WaitsForEnd, QueuesBehind

\* Workers of these services never touch the wait queues.
LEMMA WorkersElsewhere ==
  ASSUME Kind \in MainKinds, TypeOK, SerialInv, NEW w \in Workers, Worker(w)
  PROVE  /\ UNCHANGED <<waitQueue, processing, processQueue>>
         /\ at'[Main] = at[Main] /\ pkg'[Main] = pkg[Main]
         /\ TakeTask(w) \/ StartTask(w) \/ FinishTask(w) \/ EscapeTask(w) \/ WorkerExit(w)
<1>1. at[w] \notin NotifySteps
  BY DEF SerialInv, WorkersApart
<1>2. TakeTask(w) \/ StartTask(w) \/ FinishTask(w) \/ EscapeTask(w) \/ WorkerExit(w)
  BY <1>1 DEF Worker, StatusOfFile, MainKinds, NotifyWaitQueue, Release, TestWaitQueue, FrontOfWaitQueue, PopWaitQueue, MoveToProcessQueue
<1>3. UNCHANGED <<waitQueue, processing, processQueue>>
  BY <1>2 DEF TakeTask, StartTask, StatusOfFile, FinishTask, EscapeTask, WorkerExit, queues
<1>4. at'[Main] = at[Main] /\ pkg'[Main] = pkg[Main]
  BY <1>2, WorkerMoves DEF TakeTask, StartTask, StatusOfFile, FinishTask, EscapeTask, WorkerExit, Rest, TypeOK
<1> QED
  BY <1>2, <1>3, <1>4

LEMMA CountsMove ==
  ASSUME TypeOK, NEW p \in Processes
  PROVE  /\ Occupy(p)[p] > 0
         /\ \A q \in Processes : Occupy(p)[q] >= processing[q]
         /\ \A q \in Processes : q # p => ReleaseOne(p)[q] = processing[q] /\ Occupy(p)[q] = processing[q]
         /\ \A q \in Processes : processing[q] \in Nat
<1>1. processing \in [Processes -> Nat]
  BY DEF TypeOK, QueuesTypeOK
<1> QED
  BY <1>1 DEF Occupy, ReleaseOne

LEMMA WaitMain ==
  ASSUME Kind \in MainKinds, TypeOK, SerialInv, MainPlace, WaitInv, MainContinues \/ HandleFinished
  PROVE  WaitInv'
<1> DEFINE p == pkg[Main].proc
<1>0. /\ Main \in Threads
      /\ waitQueue \in [Processes -> Seq(Packages)] /\ processing \in [Processes -> Nat]
  BY DEF Threads, TypeOK, QueuesTypeOK
<1>1. ASSUME at[Main] # "idle" PROVE p \in Processes /\ pkg[Main] \in Packages
  <2>1. pkg[Main] \in Packages
    BY <1>0, <1>1 DEF TypeOK, ThreadsTypeOK
  <2> QED
    BY <2>1 DEF Packages
<1>2. CASE AddToProcessQueue \/ MoveToProcessQueue(Main)
  <2>1. /\ processing' = Occupy(p) /\ waitQueue' = waitQueue /\ at'[Main] = "idle" /\ at[Main] # "idle"
    BY <1>2, MainMoves DEF AddToProcessQueue, MoveToProcessQueue, Rest, Resting, TypeOK
  <2>2. p \in Processes
    BY <1>1, <2>1
  <2>3. /\ processing'[p] > 0
        /\ \A q \in Processes : processing'[q] >= processing[q] /\ processing[q] \in Nat /\ processing'[q] \in Nat
    <3> HIDE DEF p
    <3> QED
      BY <1>0, <2>1, <2>2, CountsMove, CountTypes
  <2> HIDE DEF p
  <2>4. ASSUME NEW q \in Processes, waitQueue'[q] # <<>>
        PROVE  processing'[q] > 0 \/ ("erase" \in Faults /\ q \in Reprocessing)
    BY <2>1, <2>3, <2>4 DEF WaitInv, WaitsForEnd, p
  <2> QED
    BY <2>1, <2>4 DEF WaitInv, WaitsForEnd, QueuesBehind
<1>3. CASE AddToWaitQueue \/ AddDate
  <2>1. /\ waitQueue' = Queued(pkg[Main]) /\ processing' = processing
        /\ \/ at[Main] = "wait" /\ at'[Main] = "onqueue" /\ pkg'[Main] = pkg[Main]
           \/ at[Main] = "dates" /\ at'[Main] = "dates" /\ pkg'[Main] = [pkg[Main] EXCEPT !.date = @ + 1]
    BY <1>3, MainMoves DEF AddToWaitQueue, AddDate, TypeOK
  <2>2. p \in Processes /\ pkg[Main] \in Packages
    BY <1>1, <2>1
  <2>3. pkg'[Main].proc = p
    BY <2>1, <2>2 DEF Packages
  <2>4. \A q \in Processes : q # p => waitQueue'[q] = waitQueue[q]
    BY <1>0, <2>1 DEF Queued
  <2> HIDE DEF p
  <2>5. processing'[p] > 0 \/ at'[Main] = "dates"
    BY <2>1 DEF WaitInv, QueuesBehind, p
  <2>6. ASSUME NEW q \in Processes, waitQueue'[q] # <<>>
        PROVE  \/ processing'[q] > 0
               \/ at'[Main] \in NotifySteps \cup {"dates"} /\ pkg'[Main].proc = q
               \/ "erase" \in Faults /\ q \in Reprocessing
    <3>1. CASE q = p
      BY <2>3, <2>5, <3>1
    <3>2. CASE q # p
      BY <2>1, <2>4, <2>6, <3>2 DEF WaitInv, WaitsForEnd, p
    <3> QED
      BY <3>1, <3>2
  <2>7. QueuesBehind'
    BY <2>1, <2>3, <2>5 DEF QueuesBehind
  <2> QED
    BY <2>6, <2>7 DEF WaitInv, WaitsForEnd
<1>4. CASE LogOnQueue
  <2>1. at[Main] = "onqueue" /\ at'[Main] = "idle" /\ UNCHANGED <<waitQueue, processing>>
    BY <1>4, MainMoves DEF LogOnQueue, Rest, Resting, TypeOK, queues
  <2> QED
    BY <2>1 DEF WaitInv, WaitsForEnd, QueuesBehind
<1>5. CASE DatesDone
  <2>1. /\ at[Main] = "dates" /\ UNCHANGED <<waitQueue, processing>>
        /\ \/ processing[p] = 0 /\ at'[Main] = "release" /\ pkg'[Main] = pkg[Main]
           \/ processing[p] # 0 /\ at'[Main] = "idle"
    BY <1>5, MainMoves DEF DatesDone, Rest, Resting, TypeOK, queues
  <2>2. processing[p] \in Nat
    BY <1>0, <1>1, <2>1
  <2> QED
    BY <2>1, <2>2 DEF WaitInv, WaitsForEnd, QueuesBehind
<1>6. CASE DatesFail
  <2>1. /\ at[Main] = "dates" /\ at'[Main] = "idle" /\ UNCHANGED <<waitQueue, processing>>
        /\ "erase" \in Faults /\ p \in Reprocessing
    BY <1>6, MainMoves DEF DatesFail, Rest, Resting, TypeOK, queues, MainPlace
  <2> QED
    BY <2>1 DEF WaitInv, WaitsForEnd, QueuesBehind
<1>7. CASE Release(Main)
  <2>1. /\ at[Main] = "release" /\ at'[Main] = "test" /\ pkg'[Main] = pkg[Main]
        /\ waitQueue' = waitQueue /\ processing' = ReleaseOne(p)
    BY <1>7, MainMoves DEF Release, TypeOK
  <2>2. p \in Processes
    BY <1>1, <2>1
  <2>3. \A q \in Processes : q # p => processing'[q] = processing[q]
    <3> HIDE DEF p
    <3> QED
      BY <2>1, <2>2, CountsMove
  <2> QED
    BY <2>1, <2>3 DEF WaitInv, WaitsForEnd, QueuesBehind
<1>8. CASE TestWaitQueue(Main)
  <2>1. /\ at[Main] = "test" /\ UNCHANGED <<waitQueue, processing>>
        /\ \/ waitQueue[p] = <<>> /\ at'[Main] = "idle"
           \/ at'[Main] = "front" /\ pkg'[Main] = pkg[Main]
    BY <1>8, MainMoves DEF TestWaitQueue, Rest, Resting, TypeOK, queues
  <2> QED
    BY <2>1 DEF WaitInv, WaitsForEnd, QueuesBehind
<1>9. CASE FrontOfWaitQueue(Main)
  <2>1. /\ at[Main] = "front" /\ UNCHANGED <<waitQueue, processing>> /\ waitQueue[p] # <<>>
        /\ at'[Main] = "pop" /\ pkg'[Main] = Head(waitQueue[p])
    BY <1>9, MainMoves DEF FrontOfWaitQueue, TypeOK, queues
  <2>2. p \in Processes
    BY <1>1, <2>1
  <2>3. Head(waitQueue[p]).proc = p
    <3>1. waitQueue[p] \in Seq(Packages) /\ \A i \in DOMAIN waitQueue[p] : waitQueue[p][i].proc = p
      BY <1>0, <2>2 DEF SerialInv, WaitQueuesOwn
    <3> QED
      BY <2>1, <3>1
  <2> QED
    BY <2>1, <2>3 DEF WaitInv, WaitsForEnd, QueuesBehind
<1>10. CASE PopWaitQueue(Main)
  <2>1. /\ at[Main] = "pop" /\ at'[Main] = "move" /\ pkg'[Main] = pkg[Main]
        /\ processing' = processing /\ waitQueue' = Popped(p)
    BY <1>10, MainMoves DEF PopWaitQueue, TypeOK
  <2>2. \A q \in Processes : q # p => waitQueue'[q] = waitQueue[q]
    BY <1>0, <2>1 DEF Popped
  <2> QED
    BY <2>1, <2>2 DEF WaitInv, WaitsForEnd, QueuesBehind
<1>11. CASE HandleFinished
  <2> DEFINE k == Head(finished)
  <2>1. /\ at[Main] = "idle" /\ finished # <<>> /\ finished \in Seq(Packages)
        /\ at'[Main] = "release" /\ pkg'[Main] = k /\ waitQueue' = waitQueue
        /\ processing' = ReleaseOne(k.proc) \/ processing' = processing
    BY <1>11, MainMoves DEF HandleFinished, TypeOK, QueuesTypeOK
  <2>2. k.proc \in Processes
    BY <2>1, SequenceSteps DEF Packages
  <2>3. \A q \in Processes : q # k.proc => processing'[q] = processing[q]
    <3> HIDE DEF k
    <3> QED
      BY <2>1, <2>2, CountsMove
  <2> HIDE DEF k
  <2> QED
    BY <2>1, <2>3 DEF WaitInv, WaitsForEnd, QueuesBehind
<1> QED
  BY <1>2, <1>3, <1>4, <1>5, <1>6, <1>7, <1>8, <1>9, <1>10, <1>11 DEF MainContinues, NotifyWaitQueue

LEMMA WaitStep ==
  ASSUME Kind \in MainKinds, TypeOK, SerialInv, MainPlace, WaitInv, [Next]_vars
  PROVE  WaitInv'
<1>0. Main \in Threads /\ processing \in [Processes -> Nat] /\ waitQueue \in [Processes -> Seq(Packages)]
  BY DEF Threads, TypeOK, QueuesTypeOK
<1>1. CASE UNCHANGED vars
  BY <1>1, WaitUndisturbed DEF vars, queues, threads
<1>2. ASSUME NEW p \in Processes, Trigger(p) \/ TriggerReprocessing(p) PROVE WaitInv'
  <2> DEFINE k == [proc |-> p, reg |-> lastRegister + 1, date |-> 1]
  <2>1. /\ at[Main] = "idle" /\ UNCHANGED <<waitQueue, processing>> /\ pkg'[Main] = k
        /\ at'[Main] \in {"direct", "wait", "dates"} /\ (at'[Main] = "wait" => processing[p] # 0)
    BY <1>2, MainMoves DEF Trigger, TriggerReprocessing, TypeOK, queues
  <2>2. pkg'[Main].proc = p
    BY <2>1
  <2>3. processing[p] \in Nat
    BY <1>0
  <2> QED
    BY <2>1, <2>2, <2>3 DEF WaitInv, WaitsForEnd, QueuesBehind
<1>3. CASE MainLoop \/ LoopSpurious
  BY <1>3, WaitUndisturbed DEF MainLoop, LoopCheck, LoopBlock, LoopDrain, LoopSpurious, queues, threads
<1>4. ASSUME NEW w \in Workers, Worker(w) PROVE WaitInv'
  BY <1>4, WorkersElsewhere, WaitUndisturbed
<1>5. CASE StopService
  BY <1>5, WaitUndisturbed DEF StopService, queues, threads
<1>6. ASSUME NEW p \in Processes, UpdateProcess(p) \/ RemoveProcess(p) PROVE WaitInv'
  <2>1. /\ UNCHANGED <<processing, at, pkg>>
        /\ waitQueue' = [waitQueue EXCEPT ![p] = <<>>] \/ waitQueue' = waitQueue
    BY <1>6 DEF UpdateProcess, RemoveProcess, Purge, threads
  <2>2. \A q \in Processes : waitQueue'[q] # <<>> => waitQueue[q] # <<>>
    BY <1>0, <2>1
  <2> QED
    BY <2>1, <2>2 DEF WaitInv, WaitsForEnd, QueuesBehind
<1> QED
  BY <1>1, <1>2, <1>3, <1>4, <1>5, <1>6, WaitMain DEF Next, Halt

\* In the analysis and the alert service no package is left in a wait queue with
\* nothing to release it: a package waits only while its process is being processed
\* or is handled by the main thread.  A reprocessing request that a failed
\* erasePreviousResult interrupts does leave packages, so that fault is excluded.
THEOREM WaitingMeansBusyCorrect ==
  ASSUME Kind \in MainKinds, "erase" \notin Faults
  PROVE  Spec => []WaitingMeansBusy
<1>1. Init => TypeOK /\ SerialInv /\ MainPlace /\ WaitInv
  <2>1. Init => WaitInv
    BY DEF Init, WaitInv, WaitsForEnd, QueuesBehind, Threads
  <2> QED
    BY <2>1, TypeInit, SerialInit, PlaceInit
<1>2. TypeOK /\ SerialInv /\ MainPlace /\ WaitInv /\ [Next]_vars => (TypeOK /\ SerialInv /\ MainPlace /\ WaitInv)'
  BY TypeStep, SerialStep, PlaceStep, WaitStep
<1>3. TypeOK /\ SerialInv /\ MainPlace /\ WaitInv => WaitingMeansBusy
  BY DEF WaitInv, WaitsForEnd, WaitingMeansBusy, Handling
<1> QED
  BY <1>1, <1>2, <1>3, PTL DEF Spec
-----------------------------------------------------------------------------
(* The packages in flight *)

Elements(q) == {q[i] : i \in DOMAIN q}

LEMMA AppendElements ==
  ASSUME NEW q \in Seq(Packages), NEW k \in Packages
  PROVE  Elements(Append(q, k)) = Elements(q) \cup {k}
<1> DEFINE r == Append(q, k)
           n == Len(q)
<1>1. /\ n \in Nat /\ DOMAIN q = 1..n
      /\ r \in Seq(Packages) /\ Len(r) = n + 1 /\ DOMAIN r = 1..(n + 1)
      /\ \A i \in 1..n : r[i] = q[i]
      /\ r[n + 1] = k
  BY AppendProperties, LenProperties
<1>2. 1..(n + 1) = (1..n) \cup {n + 1}
  BY <1>1
<1> HIDE DEF r, n
<1>3. Elements(r) = Elements(q) \cup {k}
  BY <1>1, <1>2 DEF Elements
<1> QED
  BY <1>3 DEF r

LEMMA TailElements ==
  ASSUME NEW q \in Seq(Packages), q # <<>>
  PROVE  /\ Head(q) \in Elements(q)
         /\ Elements(q) = Elements(Tail(q)) \cup {Head(q)}
<1> DEFINE r == Tail(q)
           n == Len(r)
<1>1. /\ n \in Nat /\ DOMAIN r = 1..n /\ DOMAIN q = 1..(n + 1)
      /\ Head(q) = q[1]
      /\ \A i \in 1..n : r[i] = q[i + 1]
  <2>1. /\ r \in Seq(Packages) /\ Len(r) = Len(q) - 1 /\ Head(q) = q[1]
        /\ \A i \in 1..Len(r) : r[i] = q[i + 1]
    BY HeadTailProperties
  <2> QED
    BY <2>1, LenProperties
<1>2. /\ 1 \in DOMAIN q
      /\ \A i \in 1..n : i + 1 \in DOMAIN q
      /\ \A j \in DOMAIN q : j = 1 \/ (j - 1 \in 1..n /\ (j - 1) + 1 = j)
  BY <1>1
<1> HIDE DEF r, n
<1>3. ASSUME NEW j \in DOMAIN q PROVE q[j] = Head(q) \/ q[j] \in Elements(r)
  <2>1. CASE j = 1
    BY <1>1, <2>1
  <2>2. CASE j - 1 \in 1..n /\ (j - 1) + 1 = j
    <3>1. r[j - 1] = q[j]
      BY <1>1, <2>2
    <3> QED
      BY <1>1, <2>2, <3>1 DEF Elements
  <2> QED
    BY <1>2, <2>1, <2>2
<1>4. ASSUME NEW i \in DOMAIN r PROVE r[i] \in Elements(q)
  BY <1>1, <1>2, <1>4 DEF Elements
<1>5. Head(q) \in Elements(q)
  BY <1>1, <1>2 DEF Elements
<1>6. Elements(q) = Elements(r) \cup {Head(q)}
  <2>1. Elements(q) \subseteq Elements(r) \cup {Head(q)}
    BY <1>3 DEF Elements
  <2>2. Elements(r) \subseteq Elements(q)
    BY <1>4 DEF Elements
  <2> QED
    BY <1>5, <2>1, <2>2
<1> QED
  BY <1>5, <1>6 DEF r

\* std::remove_if keeps every package of another process: the enumeration of the
\* kept positions, being injective, reaches all of them.
LEMMA WithoutElements ==
  ASSUME NEW q \in Seq(Packages), NEW p
  PROVE  Elements(Without(q, p)) = {m \in Elements(q) : m.proc # p}
<1> DEFINE S == Kept(q, p)
           f == Enumeration(S)
           n == Cardinality(S)
<1>1. Len(q) \in Nat /\ DOMAIN q = 1..Len(q) /\ S \in SUBSET (1..Len(q))
  BY LenProperties DEF Kept
<1>2. f \in [1..n -> S] /\ Increasing(f)
  BY <1>1, EnumerationExists, Zenon DEF Enumeration, Increasing
<1>3. n \in Nat /\ IsFiniteSet(S)
  BY <1>1, PositionsFinite
<1>4. Without(q, p) = [i \in 1..n |-> q[f[i]]]
  BY DEF Without
<1>5. S \subseteq Nat
  BY <1>1
<1>6. \A i \in S : i \in DOMAIN q /\ q[i].proc # p
  BY DEF Kept
<1>7. \A i \in DOMAIN q : q[i].proc # p => i \in S
  BY DEF Kept
<1> HIDE DEF f, S, n
<1>8. f \in Injection(1..n, S)
  <2>1. ASSUME NEW i \in 1..n, NEW j \in 1..n, f[i] = f[j] PROVE i = j
    <3>1. f[i] \in Nat /\ f[j] \in Nat
      BY <1>2, <1>5
    <3>2. (i < j => f[i] < f[j]) /\ (j < i => f[j] < f[i])
      BY <1>2 DEF Increasing
    <3> QED
      BY <2>1, <3>1, <3>2
  <2> QED
    BY <1>2, <2>1 DEF Injection, IsInjective
<1>9. f \in Surjection(1..n, S)
  <2>1. Cardinality(1..n) = n
    BY <1>3, FS_Interval
  <2> QED
    BY <1>3, <1>8, <2>1, FS_Injection DEF n
<1>10. \A j \in S : \E i \in 1..n : f[i] = j
  BY <1>9 DEF Surjection
<1>11. Elements(Without(q, p)) = {q[f[i]] : i \in 1..n}
  BY <1>4 DEF Elements
<1>12. Elements(Without(q, p)) \subseteq {m \in Elements(q) : m.proc # p}
  BY <1>2, <1>6, <1>11 DEF Elements
<1>13. ASSUME NEW j \in DOMAIN q, q[j].proc # p PROVE q[j] \in Elements(Without(q, p))
  <2>1. PICK i \in 1..n : f[i] = j
    BY <1>7, <1>10, <1>13
  <2> QED
    BY <1>11, <2>1
<1>14. {m \in Elements(q) : m.proc # p} \subseteq Elements(Without(q, p))
  BY <1>13 DEF Elements
<1> QED
  BY <1>12, <1>14

\* The packages that threads hold between two queues or execute.
Held == {pkg[t] : t \in {u \in Threads : at[u] \in {"taken", "run", "move"}}}

InQueues == Elements(processQueue) \cup Elements(taskQueue) \cup Elements(finished)

AllCurrent == InQueues \cup Held

LEMMA CurrentOfProcess ==
  ASSUME NEW p
  PROVE  CurrentOf(p) = {m \in AllCurrent : m.proc = p}
BY DEF CurrentOf, Of, Carrying, AllCurrent, InQueues, Held, Elements

LEMMA ElementsOwn ==
  ASSUME NEW q, Distinct(q)
  PROVE  /\ \A m \in Elements(q) : m.proc \in ProcsIn(q)
         /\ \A p \in ProcsIn(q) : \E m \in Elements(q) : m.proc = p
         /\ \A m, n \in Elements(q) : m.proc = n.proc => m = n
BY DEF Elements, ProcsIn, Distinct

\* Main can only hold a package on the way to processQueue.
LEMMA HeldBy ==
  ASSUME TypeOK, SerialInv, NEW m \in Held
  PROVE  \/ at[Main] = "move" /\ m = pkg[Main]
         \/ \E w \in Workers : Running(w) /\ m = pkg[w]
BY DEF Held, Threads, Running, SerialInv, WorkersApart, TypeOK, ThreadsTypeOK

\* No two packages in flight are of the same process.
LEMMA OneEach ==
  ASSUME TypeOK, SerialInv
  PROVE  /\ \A m, n \in AllCurrent : m.proc = n.proc => m = n
         /\ \A m \in Held : m.proc \notin ProcsIn(processQueue) /\ m.proc \notin ProcsIn(taskQueue)
                              /\ m.proc \notin ProcsIn(finished)
<1>1. \A m \in Held : m.proc \notin ProcsIn(processQueue) /\ m.proc \notin ProcsIn(taskQueue)
                        /\ m.proc \notin ProcsIn(finished)
  <2> SUFFICES ASSUME NEW m \in Held
               PROVE  m.proc \notin ProcsIn(processQueue) /\ m.proc \notin ProcsIn(taskQueue)
                        /\ m.proc \notin ProcsIn(finished)
    OBVIOUS
  <2>1. CASE at[Main] = "move" /\ m = pkg[Main]
    BY <2>1, NotProcessing DEF SerialInv, MainApart
  <2>2. CASE \E w \in Workers : Running(w) /\ m = pkg[w]
    BY <2>2 DEF SerialInv, WorkersApart
  <2> QED
    BY <2>1, <2>2, HeldBy
<1>2. ASSUME NEW m \in Held, NEW n \in Held, m.proc = n.proc PROVE m = n
  <2>1. ASSUME at[Main] = "move", NEW w \in Workers, Running(w) PROVE pkg[w].proc # pkg[Main].proc
    BY <2>1, NotProcessing DEF SerialInv, MainApart
  <2>2. \A v, w \in Workers : Running(v) /\ Running(w) /\ pkg[v].proc = pkg[w].proc => v = w
    BY DEF SerialInv, WorkersApart
  <2>3. (at[Main] = "move" /\ m = pkg[Main]) \/ \E w \in Workers : Running(w) /\ m = pkg[w]
    BY HeldBy
  <2>4. (at[Main] = "move" /\ n = pkg[Main]) \/ \E w \in Workers : Running(w) /\ n = pkg[w]
    BY HeldBy
  <2> QED
    BY <1>2, <2>1, <2>2, <2>3, <2>4
<1>3. ASSUME NEW m \in InQueues, NEW n \in InQueues, m.proc = n.proc PROVE m = n
  BY <1>3, ElementsOwn DEF InQueues, SerialInv, InFlightApart
<1>4. \A m \in InQueues : \/ m.proc \in ProcsIn(processQueue) \/ m.proc \in ProcsIn(taskQueue)
                          \/ m.proc \in ProcsIn(finished)
  BY ElementsOwn DEF InQueues, SerialInv, InFlightApart
<1> QED
  BY <1>1, <1>2, <1>3, <1>4 DEF AllCurrent
HeldByMain == IF at[Main] = "move" THEN {pkg[Main]} ELSE {}
HeldByWorkers(W) == {pkg[w] : w \in {v \in W : Running(v)}}

LEMMA HeldParts ==
  ASSUME TypeOK, SerialInv
  PROVE  /\ Held = HeldByMain \cup HeldByWorkers(Workers)
         /\ \A w \in Workers : HeldByWorkers(Workers) =
              HeldByWorkers(Workers \ {w}) \cup (IF Running(w) THEN {pkg[w]} ELSE {})
<1>1. /\ Threads = Workers \cup {Main}
      /\ \A w \in Workers : at[w] \in {"taken", "run", "move"} <=> Running(w)
      /\ at[Main] \in {"taken", "run", "move"} <=> at[Main] = "move"
  BY DEF Threads, Running, SerialInv, WorkersApart, TypeOK, ThreadsTypeOK
<1>2. Held = HeldByMain \cup HeldByWorkers(Workers)
  BY <1>1 DEF Held, HeldByMain, HeldByWorkers
<1>3. ASSUME NEW w \in Workers
      PROVE  HeldByWorkers(Workers) =
               HeldByWorkers(Workers \ {w}) \cup (IF Running(w) THEN {pkg[w]} ELSE {})
  BY DEF HeldByWorkers
<1> QED
  BY <1>2, <1>3

\* The same in the next state, whose invariant is known.
LEMMA HeldPartsNext ==
  ASSUME TypeOK', SerialInv'
  PROVE  /\ Held' = HeldByMain' \cup HeldByWorkers(Workers)'
         /\ \A w \in Workers : HeldByWorkers(Workers)' =
              HeldByWorkers(Workers \ {w})' \cup (IF Running(w)' THEN {pkg'[w]} ELSE {})
<1>1. /\ Threads = Workers \cup {Main}
      /\ \A w \in Workers : at'[w] \in {"taken", "run", "move"} <=> Running(w)'
      /\ at'[Main] \in {"taken", "run", "move"} <=> at'[Main] = "move"
  BY DEF Threads, Running, SerialInv, WorkersApart, TypeOK, ThreadsTypeOK
<1>2. Held' = HeldByMain' \cup HeldByWorkers(Workers)'
  BY <1>1 DEF Held, HeldByMain, HeldByWorkers
<1>3. ASSUME NEW w \in Workers
      PROVE  HeldByWorkers(Workers)' =
               HeldByWorkers(Workers \ {w})' \cup (IF Running(w)' THEN {pkg'[w]} ELSE {})
  BY DEF HeldByWorkers
<1> QED
  BY <1>2, <1>3

\* What the front of a queue shares with nothing else in flight.
LEMMA FrontAlone ==
  ASSUME TypeOK, SerialInv
  PROVE  /\ processQueue # <<>> =>
              /\ Head(processQueue) \in Elements(processQueue)
              /\ Elements(Tail(processQueue)) = Elements(processQueue) \ {Head(processQueue)}
              /\ Head(processQueue) \notin Elements(taskQueue) \cup Elements(finished) \cup Held
         /\ taskQueue # <<>> =>
              /\ Head(taskQueue) \in Elements(taskQueue)
              /\ Elements(Tail(taskQueue)) = Elements(taskQueue) \ {Head(taskQueue)}
         /\ finished # <<>> =>
              /\ Head(finished) \in Elements(finished)
              /\ Elements(Tail(finished)) = Elements(finished) \ {Head(finished)}
              /\ Head(finished) \notin Elements(processQueue) \cup Elements(taskQueue) \cup Held
<1>1. /\ processQueue \in Seq(Packages) /\ taskQueue \in Seq(Packages) /\ finished \in Seq(Packages)
      /\ Distinct(processQueue) /\ Distinct(taskQueue) /\ Distinct(finished)
  BY DEF TypeOK, QueuesTypeOK, SerialInv, InFlightApart
<1>2. ASSUME NEW q \in Seq(Packages), Distinct(q), q # <<>>
      PROVE  /\ Head(q) \in Elements(q) /\ Elements(Tail(q)) = Elements(q) \ {Head(q)}
             /\ Head(q).proc \in ProcsIn(q)
  <2>1. Head(q) \in Elements(q) /\ Elements(q) = Elements(Tail(q)) \cup {Head(q)}
    BY <1>2, TailElements
  <2>2. Distinct(Tail(q)) /\ Head(q).proc \notin ProcsIn(Tail(q)) /\ Head(q).proc \in ProcsIn(q)
    BY <1>2, TailDistinct
  <2>3. Head(q) \notin Elements(Tail(q))
    BY <2>2, ElementsOwn
  <2> QED
    BY <2>1, <2>2, <2>3
<1>3. /\ \A m \in Elements(processQueue) : m.proc \in ProcsIn(processQueue)
      /\ \A m \in Elements(taskQueue) : m.proc \in ProcsIn(taskQueue)
      /\ \A m \in Elements(finished) : m.proc \in ProcsIn(finished)
      /\ \A m \in Held : m.proc \notin ProcsIn(processQueue) /\ m.proc \notin ProcsIn(finished)
  BY <1>1, ElementsOwn, OneEach
<1>4. /\ ProcsIn(processQueue) \cap ProcsIn(taskQueue) = {}
      /\ ProcsIn(processQueue) \cap ProcsIn(finished) = {}
      /\ ProcsIn(taskQueue) \cap ProcsIn(finished) = {}
  BY DEF SerialInv, InFlightApart
<1>5. /\ processQueue # <<>> =>
           Head(processQueue) \notin Elements(taskQueue) \cup Elements(finished) \cup Held
      /\ finished # <<>> =>
           Head(finished) \notin Elements(processQueue) \cup Elements(taskQueue) \cup Held
  <2>1. processQueue # <<>> => Head(processQueue).proc \in ProcsIn(processQueue)
    BY <1>1, <1>2
  <2>2. finished # <<>> => Head(finished).proc \in ProcsIn(finished)
    BY <1>1, <1>2
  <2> QED
    BY <1>3, <1>4, <2>1, <2>2
<1> QED
  BY <1>1, <1>2, <1>5

LEMMA MainCurrent ==
  ASSUME TypeOK, SerialInv, TypeOK', SerialInv'
  PROVE  /\ AddToProcessQueue \/ PopWaitQueue(Main) => AllCurrent' = AllCurrent \cup {pkg[Main]}
         /\ MainContinues /\ ~AddToProcessQueue /\ ~PopWaitQueue(Main) => AllCurrent' = AllCurrent
         /\ HandleFinished => Head(finished) \in AllCurrent /\ AllCurrent' = AllCurrent \ {Head(finished)}
<1>0. /\ processQueue \in Seq(Packages) /\ Main \in Threads /\ finished \in Seq(Packages)
      /\ Held = HeldByMain \cup HeldByWorkers(Workers)
      /\ Held' = HeldByMain' \cup HeldByWorkers(Workers)'
  BY HeldParts, HeldPartsNext DEF TypeOK, QueuesTypeOK, Threads
<1>1. ASSUME NEW s, NEW k, Goto(Main, s, k)
      PROVE  /\ HeldByWorkers(Workers)' = HeldByWorkers(Workers)
             /\ HeldByMain' = IF s = "move" THEN {k} ELSE {}
  <2>1. /\ at'[Main] = s /\ pkg'[Main] = k
        /\ \A w \in Workers : at'[w] = at[w] /\ pkg'[w] = pkg[w]
    BY <1>1, MainMoves DEF TypeOK
  <2> QED
    BY <2>1 DEF HeldByWorkers, HeldByMain, Running
<1>2. CASE AddToProcessQueue
  <2>1. /\ Elements(processQueue') = Elements(processQueue) \cup {pkg[Main]}
        /\ UNCHANGED <<taskQueue, finished>> /\ at[Main] = "direct"
    <3>1. pkg[Main] \in Packages
      BY <1>0, <1>2 DEF AddToProcessQueue, TypeOK, ThreadsTypeOK
    <3> QED
      BY <1>0, <1>2, <3>1, AppendElements DEF AddToProcessQueue
  <2>2. HeldByWorkers(Workers)' = HeldByWorkers(Workers) /\ HeldByMain' = {}
    BY <1>1, <1>2 DEF AddToProcessQueue, Rest, Resting
  <2>3. HeldByMain = {}
    BY <2>1 DEF HeldByMain
  <2>4. AllCurrent' = AllCurrent \cup {pkg[Main]}
    BY <1>0, <2>1, <2>2, <2>3 DEF AllCurrent, InQueues
  <2> QED
    BY <1>2, <2>4 DEF AddToProcessQueue, PopWaitQueue, HandleFinished, MainContinues
<1>3. CASE PopWaitQueue(Main)
  <2>1. UNCHANGED <<processQueue, taskQueue, finished>> /\ at[Main] = "pop"
    BY <1>3 DEF PopWaitQueue
  <2>2. HeldByWorkers(Workers)' = HeldByWorkers(Workers) /\ HeldByMain' = {pkg[Main]}
    BY <1>1, <1>3 DEF PopWaitQueue
  <2>3. HeldByMain = {}
    BY <2>1 DEF HeldByMain
  <2>4. AllCurrent' = AllCurrent \cup {pkg[Main]}
    BY <1>0, <2>1, <2>2, <2>3 DEF AllCurrent, InQueues
  <2> QED
    BY <1>3, <2>4 DEF PopWaitQueue, HandleFinished
<1>4. CASE MoveToProcessQueue(Main)
  <2>1. /\ Elements(processQueue') = Elements(processQueue) \cup {pkg[Main]}
        /\ UNCHANGED <<taskQueue, finished>> /\ at[Main] = "move"
    <3>1. pkg[Main] \in Packages
      BY <1>0, <1>4 DEF MoveToProcessQueue, TypeOK, ThreadsTypeOK
    <3> QED
      BY <1>0, <1>4, <3>1, AppendElements DEF MoveToProcessQueue
  <2>2. HeldByWorkers(Workers)' = HeldByWorkers(Workers) /\ HeldByMain' = {}
    BY <1>1, <1>4 DEF MoveToProcessQueue, Rest, Resting
  <2>3. HeldByMain = {pkg[Main]}
    BY <2>1 DEF HeldByMain
  <2>4. AllCurrent' = AllCurrent
    BY <1>0, <2>1, <2>2, <2>3 DEF AllCurrent, InQueues
  <2> QED
    BY <1>4, <2>4 DEF MoveToProcessQueue, AddToProcessQueue, PopWaitQueue, HandleFinished
<1>5. CASE \/ AddToWaitQueue \/ LogOnQueue \/ AddDate \/ DatesDone \/ DatesFail
           \/ Release(Main) \/ TestWaitQueue(Main) \/ FrontOfWaitQueue(Main)
  <2>1. /\ UNCHANGED <<processQueue, taskQueue, finished>>
        /\ at[Main] \notin {"move", "pop", "direct", "idle"}
        /\ \E s, k : Goto(Main, s, k) /\ s # "move"
    <3>1. CASE AddToWaitQueue \/ LogOnQueue \/ AddDate \/ DatesDone \/ DatesFail
      BY <3>1 DEF AddToWaitQueue, LogOnQueue, AddDate, DatesDone, DatesFail, Rest, Resting, queues
    <3>2. CASE Release(Main) \/ TestWaitQueue(Main) \/ FrontOfWaitQueue(Main)
      BY <3>2 DEF Release, TestWaitQueue, FrontOfWaitQueue, Rest, Resting, queues
    <3> QED
      BY <1>5, <3>1, <3>2
  <2>2. HeldByWorkers(Workers)' = HeldByWorkers(Workers) /\ HeldByMain' = {}
    BY <1>1, <2>1
  <2>3. HeldByMain = {}
    BY <2>1 DEF HeldByMain
  <2>4. AllCurrent' = AllCurrent
    BY <1>0, <2>1, <2>2, <2>3 DEF AllCurrent, InQueues
  <2> QED
    BY <2>1, <2>4 DEF AddToProcessQueue, PopWaitQueue, HandleFinished
<1>6. CASE HandleFinished
  <2>1. /\ UNCHANGED <<processQueue, taskQueue>> /\ finished' = Tail(finished) /\ finished # <<>>
        /\ at[Main] = "idle"
    BY <1>6 DEF HandleFinished
  <2>2. HeldByWorkers(Workers)' = HeldByWorkers(Workers) /\ HeldByMain' = {}
    BY <1>1, <1>6 DEF HandleFinished
  <2>3. HeldByMain = {}
    BY <2>1 DEF HeldByMain
  <2>4. Head(finished) \in AllCurrent /\ AllCurrent' = AllCurrent \ {Head(finished)}
    BY <1>0, <2>1, <2>2, <2>3, FrontAlone DEF AllCurrent, InQueues
  <2> QED
    BY <2>1, <2>4 DEF MainContinues, AddToProcessQueue, AddToWaitQueue, LogOnQueue, AddDate, DatesDone, DatesFail,
       NotifyWaitQueue, Release, TestWaitQueue, FrontOfWaitQueue, PopWaitQueue, MoveToProcessQueue
<1> QED
  BY <1>2, <1>3, <1>4, <1>5, <1>6 DEF MainContinues, NotifyWaitQueue
LEMMA LoopCurrent ==
  ASSUME TypeOK, SerialInv, MainLoop \/ LoopSpurious
  PROVE  \/ AllCurrent' = AllCurrent
         \/ /\ LoopDrain /\ PrepareFails(Head(processQueue))
            /\ Head(processQueue) \in AllCurrent /\ AllCurrent' = AllCurrent \ {Head(processQueue)}
<1>1. Held' = Held
  BY DEF MainLoop, LoopCheck, LoopBlock, LoopDrain, LoopSpurious, Held, threads
<1>2. CASE LoopCheck \/ LoopBlock \/ LoopSpurious
  BY <1>1, <1>2 DEF LoopCheck, LoopBlock, LoopSpurious, AllCurrent, InQueues, queues
<1>3. CASE LoopDrain
  <2> DEFINE k == Head(processQueue)
  <2>1. /\ processQueue \in Seq(Packages) /\ taskQueue \in Seq(Packages) /\ processQueue # <<>>
        /\ processQueue' = Tail(processQueue) /\ finished' = finished
    BY <1>3 DEF LoopDrain, TypeOK, QueuesTypeOK
  <2>2. /\ k \in Elements(processQueue)
        /\ Elements(processQueue') = Elements(processQueue) \ {k}
        /\ k \notin Elements(taskQueue) \cup Elements(finished) \cup Held
    BY <2>1, FrontAlone
  <2>3. CASE taskQueue' = Append(taskQueue, k)
    <3>1. Elements(taskQueue') = Elements(taskQueue) \cup {k}
      BY <2>1, <2>3, SequenceSteps, AppendElements
    <3> HIDE DEF k
    <3> QED
      BY <1>1, <2>1, <2>2, <3>1 DEF AllCurrent, InQueues
  <2>4. CASE PrepareFails(k) /\ UNCHANGED taskQueue
    <3>1. k \in AllCurrent /\ AllCurrent' = AllCurrent \ {k}
      BY <1>1, <2>1, <2>2, <2>4 DEF AllCurrent, InQueues
    <3> QED
      BY <1>3, <2>4, <3>1
  <2> QED
    BY <1>3, <2>3, <2>4 DEF LoopDrain
<1> QED
  BY <1>2, <1>3 DEF MainLoop

LEMMA WorkerCurrent ==
  ASSUME Kind \in MainKinds, TypeOK, SerialInv, TypeOK', SerialInv', NEW w \in Workers, Worker(w)
  PROVE  \/ AllCurrent' = AllCurrent
         \/ /\ stop \/ EscapeTask(w)
            /\ Running(w)
            /\ pkg[w] \in AllCurrent /\ AllCurrent' = AllCurrent \ {pkg[w]}
<1> DEFINE Others == HeldByWorkers(Workers \ {w})
<1>0. w \in Threads /\ w # Main /\ Kind \notin PoolKinds
  BY ServiceQueueAssumption DEF Threads, MainKinds, PoolKinds
<1>1. /\ Held = HeldByMain \cup Others \cup (IF Running(w) THEN {pkg[w]} ELSE {})
      /\ Held' = HeldByMain' \cup Others' \cup (IF Running(w)' THEN {pkg'[w]} ELSE {})
  BY HeldParts, HeldPartsNext
<1>2. ASSUME NEW s, NEW k, Goto(w, s, k)
      PROVE  HeldByMain' = HeldByMain /\ Others' = Others /\ at'[w] = s /\ pkg'[w] = k
  <2>1. /\ at'[w] = s /\ pkg'[w] = k /\ at'[Main] = at[Main] /\ pkg'[Main] = pkg[Main]
        /\ \A v \in Workers : v # w => at'[v] = at[v] /\ pkg'[v] = pkg[v]
    BY <1>2, WorkerMoves DEF TypeOK
  <2> QED
    BY <2>1 DEF HeldByWorkers, HeldByMain, Running
<1> HIDE DEF Others
\* The package of a worker is nowhere else.
<1>3. ASSUME Running(w)
      PROVE  pkg[w] \notin InQueues /\ pkg[w] \notin HeldByMain /\ pkg[w] \notin Others
  <2>1. /\ pkg[w].proc \notin ProcsIn(processQueue) /\ pkg[w].proc \notin ProcsIn(taskQueue)
        /\ pkg[w].proc \notin ProcsIn(finished)
        /\ \A v \in Workers : Running(v) /\ v # w => pkg[v].proc # pkg[w].proc
    BY <1>3 DEF SerialInv, WorkersApart
  <2>2. pkg[w] \notin InQueues
    BY <2>1, ElementsOwn DEF InQueues, SerialInv, InFlightApart
  <2>3. pkg[w] \notin HeldByMain
    BY <1>3, NotProcessing DEF HeldByMain, SerialInv, MainApart
  <2>4. pkg[w] \notin Others
    BY <2>1 DEF Others, HeldByWorkers
  <2> QED
    BY <2>2, <2>3, <2>4
<1>4. CASE TakeTask(w)
  <2> DEFINE k == Head(taskQueue)
  <2>1. /\ Goto(w, "taken", k) /\ at[w] = "ready" /\ taskQueue # <<>>
        /\ taskQueue' = Tail(taskQueue) /\ UNCHANGED <<processQueue, finished>>
    BY <1>4 DEF TakeTask, queues
  <2>2. k \in Elements(taskQueue) /\ Elements(taskQueue') = Elements(taskQueue) \ {k}
    BY <2>1, FrontAlone
  <2> HIDE DEF k
  <2>3. Held = HeldByMain \cup Others /\ Held' = HeldByMain \cup Others \cup {k}
    BY <1>1, <1>2, <2>1 DEF Running
  <2> QED
    BY <2>1, <2>2, <2>3 DEF AllCurrent, InQueues
<1>5. CASE StartTask(w)
  <2>1. at[w] = "taken" /\ UNCHANGED <<processQueue, taskQueue, finished>>
    BY <1>5 DEF StartTask, queues
  <2>2. Running(w) /\ InQueues' = InQueues
    BY <2>1 DEF Running, InQueues
  <2>3. CASE stop
    <3>1. Held' = HeldByMain \cup Others
      BY <1>1, <1>2, <1>5, <2>3 DEF StartTask, Running
    <3> QED
      BY <1>1, <1>3, <2>2, <2>3, <3>1 DEF AllCurrent
  <2>4. CASE ~stop
    <3>1. Held' = Held
      BY <1>1, <1>2, <1>5, <2>2, <2>4 DEF StartTask, Running
    <3> QED
      BY <2>2, <3>1 DEF AllCurrent
  <2> QED
    BY <2>3, <2>4
<1>6. CASE FinishTask(w)
  <2>1. /\ finished \in Seq(Packages) /\ pkg[w] \in Packages /\ Running(w)
        /\ Goto(w, "ready", NoPackage) /\ finished' = Append(finished, pkg[w])
        /\ UNCHANGED <<processQueue, taskQueue>>
    BY <1>0, <1>6 DEF FinishTask, Rest, Resting, Running, TypeOK, QueuesTypeOK, ThreadsTypeOK, queues
  <2>2. Elements(finished') = Elements(finished) \cup {pkg[w]}
    BY <2>1, AppendElements
  <2>3. Held = HeldByMain \cup Others \cup {pkg[w]} /\ Held' = HeldByMain \cup Others
    BY <1>1, <1>2, <2>1 DEF Running
  <2> QED
    BY <2>1, <2>2, <2>3 DEF AllCurrent, InQueues
<1>7. CASE EscapeTask(w)
  <2>1. /\ Goto(w, "ready", NoPackage) /\ Running(w)
        /\ UNCHANGED <<processQueue, taskQueue, finished>>
    BY <1>0, <1>7 DEF EscapeTask, Rest, Resting, Running, queues
  <2>2. Held = HeldByMain \cup Others \cup {pkg[w]} /\ Held' = HeldByMain \cup Others
    BY <1>1, <1>2, <2>1 DEF Running
  <2>3. InQueues' = InQueues
    BY <2>1 DEF InQueues
  <2> QED
    BY <1>3, <1>7, <2>1, <2>2, <2>3 DEF AllCurrent
<1>8. CASE WorkerExit(w)
  <2>1. /\ Goto(w, "exit", NoPackage) /\ ~Running(w)
        /\ UNCHANGED <<processQueue, taskQueue, finished>>
    BY <1>8 DEF WorkerExit, Running, queues
  <2>2. Held' = Held
    BY <1>1, <1>2, <2>1 DEF Running
  <2> QED
    BY <2>1, <2>2 DEF AllCurrent, InQueues
<1> QED
  BY <1>4, <1>5, <1>6, <1>7, <1>8, WorkersElsewhere

LEMMA EditCurrent ==
  ASSUME TypeOK, SerialInv, NEW p \in Processes, UpdateProcess(p) \/ RemoveProcess(p)
  PROVE  \/ AllCurrent' = AllCurrent
         \/ AllCurrent' = {m \in AllCurrent : m.proc # p}
<1>1. /\ processQueue \in Seq(Packages) /\ processQueue' = Without(processQueue, p)
      /\ UNCHANGED <<taskQueue, finished>> /\ Held' = Held
  BY DEF UpdateProcess, RemoveProcess, Purge, threads, TypeOK, QueuesTypeOK, Held
<1>2. Elements(processQueue') = {m \in Elements(processQueue) : m.proc # p}
  BY <1>1, WithoutElements
<1>3. CASE p \in ProcsIn(processQueue)
  <2>1. \A m \in Elements(taskQueue) \cup Elements(finished) \cup Held : m.proc # p
    BY <1>3, ElementsOwn, OneEach DEF SerialInv, InFlightApart
  <2> QED
    BY <1>1, <1>2, <2>1 DEF AllCurrent, InQueues
<1>4. CASE p \notin ProcsIn(processQueue)
  <2>1. \A m \in Elements(processQueue) : m.proc # p
    BY <1>4 DEF Elements, ProcsIn
  <2> QED
    BY <1>1, <1>2, <2>1 DEF AllCurrent, InQueues
<1> QED
  BY <1>3, <1>4
LEMMA TriggerCurrent ==
  ASSUME TypeOK, SerialInv, TypeOK', SerialInv', NEW p \in Processes, Trigger(p) \/ TriggerReprocessing(p)
  PROVE  AllCurrent' = AllCurrent
<1>1. /\ UNCHANGED <<processQueue, taskQueue, finished>> /\ at[Main] = "idle" /\ at'[Main] # "move"
      /\ \A w \in Workers : at'[w] = at[w] /\ pkg'[w] = pkg[w]
  BY MainMoves DEF Trigger, TriggerReprocessing, TypeOK, queues
<1>2. HeldByWorkers(Workers)' = HeldByWorkers(Workers) /\ HeldByMain' = {} /\ HeldByMain = {}
  BY <1>1 DEF HeldByWorkers, HeldByMain, Running
<1> QED
  BY <1>1, <1>2, HeldParts, HeldPartsNext DEF AllCurrent, InQueues

LEMMA StillCurrent ==
  ASSUME UNCHANGED vars \/ StopService
  PROVE  AllCurrent' = AllCurrent
BY DEF vars, queues, threads, StopService, AllCurrent, InQueues, Held

\* A package in flight is counted.
LEMMA CurrentCounts ==
  ASSUME TypeOK, SerialInv, NEW m \in AllCurrent
  PROVE  InFlight(m.proc) > 0
<1> DEFINE p == m.proc
<1>1. /\ Cardinality(Of(processQueue, p)) = IF p \in ProcsIn(processQueue) THEN 1 ELSE 0
      /\ Cardinality(Of(taskQueue, p)) = IF p \in ProcsIn(taskQueue) THEN 1 ELSE 0
      /\ Cardinality(Of(finished, p)) = IF p \in ProcsIn(finished) THEN 1 ELSE 0
  BY AtMostOne DEF TypeOK, QueuesTypeOK, SerialInv, InFlightApart
<1>2. Cardinality(Carrying(p)) \in {0, 1} /\ (Carrying(p) # {} => Cardinality(Carrying(p)) = 1)
  <2>1. CASE Carrying(p) = {}
    BY <2>1, FS_EmptySet
  <2>2. CASE Carrying(p) # {}
    <3>1. PICK t \in Carrying(p) : TRUE
      BY <2>2
    <3>2. Carrying(p) = {t}
      BY <3>1, CarriedAlone
    <3> QED
      BY <3>2, FS_Singleton
  <2> QED
    BY <2>1, <2>2
<1>3. \/ p \in ProcsIn(processQueue) \/ p \in ProcsIn(taskQueue) \/ p \in ProcsIn(finished)
      \/ Carrying(p) # {}
  <2>1. CASE m \in InQueues
    BY <2>1, ElementsOwn DEF InQueues, SerialInv, InFlightApart
  <2>2. CASE m \in Held
    BY <2>2 DEF Held, Carrying
  <2> QED
    BY <2>1, <2>2 DEF AllCurrent
<1> HIDE DEF p
<1> QED
  BY <1>1, <1>2, <1>3 DEF InFlight, p

-----------------------------------------------------------------------------
(* What is being processed is in flight *)

\* A process in processingQueue_ has a package whose end will release it, or the
\* main thread is about to release it.
BusyInv ==
  \A p \in Processes : processing[p] > 0 =>
    \/ stop
    \/ \E m \in AllCurrent : m.proc = p
    \/ at[Main] = "release" /\ pkg[Main].proc = p

AllRegistered == registered = Processes

LEMMA RegisteredStep ==
  ASSUME Edits = {}, AllRegistered, [Next]_vars
  PROVE  AllRegistered'
<1>1. \A p \in Processes : ~UpdateProcess(p) /\ ~RemoveProcess(p)
  BY DEF UpdateProcess, RemoveProcess
<1>2. MainContinues => registered' = registered
  BY DEF MainContinues, AddToProcessQueue, AddToWaitQueue, LogOnQueue, AddDate, DatesDone, DatesFail,
       NotifyWaitQueue, Release, TestWaitQueue, FrontOfWaitQueue, PopWaitQueue, MoveToProcessQueue
<1>3. \A w \in Workers : Worker(w) => registered' = registered
  BY DEF Worker, TakeTask, StartTask, StatusOfFile, FinishTask, EscapeTask, WorkerExit,
       NotifyWaitQueue, Release, TestWaitQueue, FrontOfWaitQueue, PopWaitQueue, MoveToProcessQueue
<1>4. \/ UNCHANGED vars \/ StopService \/ HandleFinished \/ MainLoop \/ LoopSpurious
      \/ \E p \in Processes : Trigger(p) \/ TriggerReprocessing(p)
      => registered' = registered
  BY DEF vars, StopService, HandleFinished, MainLoop, LoopCheck, LoopBlock, LoopDrain, LoopSpurious,
       Trigger, TriggerReprocessing
<1> QED
  BY <1>1, <1>2, <1>3, <1>4 DEF Next, Halt, AllRegistered

\* Nothing is lost: no exception on the way to a task or at the end of one, no edit.
NothingLost ==
  /\ Edits = {}
  /\ Kind = "analysis" => "clone" \notin Faults
  /\ Kind = "alert" => "tail" \notin Faults

\* The steps that do not put a process in processingQueue_ and lose no package.
LEMMA BusyKept ==
  ASSUME BusyInv, UNCHANGED processing, AllCurrent \subseteq AllCurrent', stop' = stop,
         at[Main] = "release" => at'[Main] = "release" /\ pkg'[Main] = pkg[Main]
  PROVE  BusyInv'
BY DEF BusyInv

LEMMA BusyMain ==
  ASSUME TypeOK, SerialInv, TypeOK', SerialInv', BusyInv, MainContinues \/ HandleFinished
  PROVE  BusyInv'
<1> DEFINE p == pkg[Main].proc
<1>0. processing \in [Processes -> Nat] /\ stop' = stop /\ Main \in Threads
  BY DEF TypeOK, QueuesTypeOK, Threads, MainContinues, HandleFinished, AddToProcessQueue, AddToWaitQueue,
     LogOnQueue, AddDate, DatesDone, DatesFail, NotifyWaitQueue, Release, TestWaitQueue, FrontOfWaitQueue,
     PopWaitQueue, MoveToProcessQueue
<1>1. CASE AddToProcessQueue \/ MoveToProcessQueue(Main)
  <2>1. /\ at[Main] \in {"direct", "move"} /\ processing' = Occupy(p)
    BY <1>1 DEF AddToProcessQueue, MoveToProcessQueue
  <2>2. AllCurrent' = AllCurrent \cup {pkg[Main]}
    <3>1. CASE AddToProcessQueue
      BY <3>1, MainCurrent
    <3>2. CASE MoveToProcessQueue(Main)
      <4>1. AllCurrent' = AllCurrent
        BY <3>2, MainCurrent DEF MainContinues, NotifyWaitQueue, MoveToProcessQueue, AddToProcessQueue, PopWaitQueue
      <4>2. pkg[Main] \in AllCurrent
        BY <1>0, <3>2 DEF MoveToProcessQueue, AllCurrent, Held
      <4> QED
        BY <4>1, <4>2
    <3> QED
      BY <1>1, <3>1, <3>2
  <2> SUFFICES ASSUME NEW q \in Processes, processing'[q] > 0, ~stop
               PROVE  \E m \in AllCurrent' : m.proc = q
    BY <1>0 DEF BusyInv
  <2>3. CASE q = p
    BY <2>2, <2>3
  <2>4. CASE q # p
    <3>1. processing'[q] = processing[q]
      BY <1>0, <2>1, <2>4 DEF Occupy
    <3> QED
      BY <2>1, <2>2, <3>1 DEF BusyInv
  <2> QED
    BY <2>3, <2>4
<1>2. CASE Release(Main)
  <2>1. AllCurrent' = AllCurrent
    BY <1>2, MainCurrent DEF MainContinues, NotifyWaitQueue, Release, AddToProcessQueue, PopWaitQueue
  <2>2. processing' = ReleaseOne(p) /\ at[Main] = "release"
    BY <1>2 DEF Release
  <2> SUFFICES ASSUME NEW q \in Processes, processing'[q] > 0, ~stop
               PROVE  \E m \in AllCurrent' : m.proc = q
    BY <1>0 DEF BusyInv
  <2>3. CASE q = p
    <3>1. processing[p] <= 1 /\ processing[p] \in Nat
      BY <1>0, <2>3 DEF SerialInv, ProcessingOnce
    <3>2. processing'[p] = 0
      BY <1>0, <2>2, <2>3, <3>1 DEF ReleaseOne
    <3> QED
      BY <2>3, <3>2
  <2>4. CASE q # p
    <3>1. processing'[q] = processing[q]
      BY <1>0, <2>2, <2>4 DEF ReleaseOne
    <3> QED
      BY <2>1, <2>4, <3>1 DEF BusyInv
  <2> QED
    BY <2>3, <2>4
<1>3. CASE HandleFinished
  <2> DEFINE k == Head(finished)
  <2>1. AllCurrent' = AllCurrent \ {k}
    BY <1>3, MainCurrent
  <2>2. /\ at[Main] = "idle" /\ at'[Main] = "release" /\ pkg'[Main] = k
        /\ processing' = ReleaseOne(k.proc) \/ processing' = processing
    BY <1>3, MainMoves DEF HandleFinished, TypeOK
  <2>3. finished \in Seq(Packages) /\ finished # <<>>
    BY <1>3 DEF HandleFinished, TypeOK, QueuesTypeOK
  <2> HIDE DEF k
  <2> SUFFICES ASSUME NEW q \in Processes, processing'[q] > 0, ~stop, q # k.proc
               PROVE  \E m \in AllCurrent' : m.proc = q
    BY <1>0, <2>2 DEF BusyInv
  <2>4. processing'[q] = processing[q]
    BY <1>0, <2>2 DEF ReleaseOne
  <2>5. PICK m \in AllCurrent : m.proc = q
    BY <2>2, <2>4 DEF BusyInv
  <2> QED
    BY <2>1, <2>5
<1>4. CASE MainContinues /\ ~AddToProcessQueue /\ ~MoveToProcessQueue(Main) /\ ~Release(Main)
  <2>1. AllCurrent \subseteq AllCurrent'
    BY <1>4, MainCurrent
  <2>2. at[Main] # "release" /\ UNCHANGED processing
    BY <1>4 DEF MainContinues, AddToWaitQueue, LogOnQueue, AddDate, DatesDone, DatesFail, NotifyWaitQueue,
       TestWaitQueue, FrontOfWaitQueue, PopWaitQueue, queues
  <2> QED
    BY <1>0, <2>1, <2>2, BusyKept
<1> QED
  BY <1>1, <1>2, <1>3, <1>4

LEMMA BusyStep ==
  ASSUME Kind \in MainKinds, NothingLost, AllRegistered, BusyInv,
         TypeOK, SerialInv, TypeOK', SerialInv', [Next]_vars
  PROVE  BusyInv'
<1>1. CASE UNCHANGED vars
  BY <1>1, BusyKept, StillCurrent DEF vars, queues, threads
<1>2. ASSUME NEW p \in Processes, Trigger(p) \/ TriggerReprocessing(p) PROVE BusyInv'
  BY <1>2, BusyKept, TriggerCurrent DEF Trigger, TriggerReprocessing, queues
<1>3. CASE StopService
  BY <1>3 DEF StopService, BusyInv
<1>4. CASE MainLoop \/ LoopSpurious
  <2>1. UNCHANGED <<processing, stop, at, pkg>>
    BY <1>4 DEF MainLoop, LoopCheck, LoopBlock, LoopDrain, LoopSpurious, queues, threads
  <2>2. AllCurrent' = AllCurrent
    <3>1. ASSUME LoopDrain PROVE ~PrepareFails(Head(processQueue))
      <4>1. Head(processQueue) \in Packages
        BY <3>1, SequenceSteps DEF LoopDrain, TypeOK, QueuesTypeOK
      <4> QED
        BY <4>1 DEF PrepareFails, NothingLost, AllRegistered, Packages, MainKinds
    <3> QED
      BY <1>4, <3>1, LoopCurrent
  <2> QED
    BY <2>1, <2>2, BusyKept
<1>5. ASSUME NEW w \in Workers, Worker(w) PROVE BusyInv'
  <2>1. stop' = stop /\ UNCHANGED processing /\ at'[Main] = at[Main] /\ pkg'[Main] = pkg[Main]
    <3>1. TakeTask(w) \/ StartTask(w) \/ FinishTask(w) \/ EscapeTask(w) \/ WorkerExit(w)
      BY <1>5, WorkersElsewhere
    <3>2. stop' = stop
      BY <3>1 DEF TakeTask, StartTask, StatusOfFile, FinishTask, EscapeTask, WorkerExit
    <3> QED
      BY <1>5, <3>2, WorkersElsewhere
  <2>2. ~EscapeTask(w)
    <3>1. at[w] = "run" => pkg[w].proc \in Processes
      BY DEF TypeOK, ThreadsTypeOK, Threads, Packages
    <3> QED
      BY <3>1 DEF EscapeTask, NothingLost, AllRegistered, MainKinds
  <2>3. CASE stop
    BY <2>1, <2>3 DEF BusyInv
  <2>4. CASE ~stop
    BY <1>5, <2>1, <2>2, <2>4, WorkerCurrent, BusyKept
  <2> QED
    BY <2>3, <2>4
<1>6. \A p \in Processes : ~UpdateProcess(p) /\ ~RemoveProcess(p)
  BY DEF NothingLost, UpdateProcess, RemoveProcess
<1> QED
  BY <1>1, <1>2, <1>3, <1>4, <1>5, <1>6, BusyMain DEF Next, Halt

\* In the analysis and the alert service processingQueue_ names only processes with
\* a package in flight (or just being released), so that the process is released
\* again, as long as no edit or exception drops a package on its way: then it is
\* blocked until the service is restarted.
THEOREM BusyMeansInFlightCorrect ==
  ASSUME Kind \in MainKinds, Edits = {},
         Kind = "analysis" => "clone" \notin Faults,
         Kind = "alert" => "tail" \notin Faults
  PROVE  Spec => []BusyMeansInFlight
<1>0. NothingLost
  BY DEF NothingLost
<1>1. Init => TypeOK /\ SerialInv /\ AllRegistered /\ BusyInv
  <2>1. Init => AllRegistered /\ BusyInv
    BY DEF Init, AllRegistered, BusyInv
  <2> QED
    BY <2>1, TypeInit, SerialInit
<1>2. TypeOK /\ SerialInv /\ AllRegistered /\ BusyInv /\ [Next]_vars
        => (TypeOK /\ SerialInv /\ AllRegistered /\ BusyInv)'
  BY <1>0, TypeStep, SerialStep, RegisteredStep, BusyStep DEF NothingLost
<1>3. TypeOK /\ SerialInv /\ BusyInv => BusyMeansInFlight
  <2> SUFFICES ASSUME TypeOK, SerialInv, BusyInv, NEW p \in Processes, processing[p] > 0, ~stop,
                      ~(InFlight(p) > 0)
               PROVE  \E t \in Threads : at[t] \in NotifySteps /\ pkg[t].proc = p
    BY DEF BusyMeansInFlight
  <2>1. ~\E m \in AllCurrent : m.proc = p
    BY CurrentCounts
  <2> QED
    BY <2>1 DEF BusyInv, Threads
<1> QED
  BY <1>1, <1>2, <1>3, PTL DEF Spec
-----------------------------------------------------------------------------
(* Refinement: a process is scheduled one package at a time and in order *)

Older(k, m) == k.reg < m.reg \/ (k.reg = m.reg /\ k.date < m.date)

\* notifyWaitQueue pops the package it has copied: nobody else pops between.
PopPlace ==
  at[Main] = "pop" =>
    waitQueue[pkg[Main].proc] # <<>> /\ pkg[Main] = Head(waitQueue[pkg[Main].proc])

\* What the main thread is about to put in a wait queue is newer than all that is in
\* flight and all that waits.
NewestAtMain ==
  at[Main] \in {"wait", "dates"} =>
    /\ \A m \in AllCurrent : Older(m, pkg[Main])
    /\ \A p \in Processes : \A i \in DOMAIN waitQueue[p] : Older(waitQueue[p][i], pkg[Main])

LEMMA PopStep ==
  ASSUME Kind \in MainKinds, TypeOK, SerialInv, PopPlace, [Next]_vars
  PROVE  PopPlace'
<1>0. waitQueue \in [Processes -> Seq(Packages)] /\ Main \in Threads
  BY DEF TypeOK, QueuesTypeOK, Threads
<1>1. CASE UNCHANGED vars \/ StopService \/ MainLoop \/ LoopSpurious
  BY <1>1 DEF vars, StopService, MainLoop, LoopCheck, LoopBlock, LoopDrain, LoopSpurious, PopPlace, queues, threads
<1>2. ASSUME NEW w \in Workers, Worker(w) PROVE PopPlace'
  BY <1>2, WorkersElsewhere DEF PopPlace
<1>3. CASE FrontOfWaitQueue(Main)
  <2> DEFINE p == pkg[Main].proc
  <2>1. /\ at'[Main] = "pop" /\ pkg'[Main] = Head(waitQueue[p]) /\ waitQueue' = waitQueue
        /\ waitQueue[p] # <<>> /\ at[Main] = "front"
    BY <1>3, MainMoves DEF FrontOfWaitQueue, TypeOK, queues
  <2>2. p \in Processes
    BY <1>0, <2>1 DEF TypeOK, ThreadsTypeOK, Packages
  <2>3. waitQueue[p] \in Seq(Packages) /\ \A i \in DOMAIN waitQueue[p] : waitQueue[p][i].proc = p
    BY <1>0, <2>2 DEF SerialInv, WaitQueuesOwn
  <2>4. Head(waitQueue[p]).proc = p
    BY <2>1, <2>3
  <2> QED
    BY <2>1, <2>4 DEF PopPlace
<1>4. CASE MainContinues /\ ~FrontOfWaitQueue(Main)
  <2>1. at'[Main] # "pop"
    BY <1>4, MainMoves DEF MainContinues, AddToProcessQueue, AddToWaitQueue, LogOnQueue, AddDate, DatesDone, DatesFail,
       NotifyWaitQueue, Release, TestWaitQueue, PopWaitQueue, MoveToProcessQueue, Rest, Resting, TypeOK
  <2> QED
    BY <2>1 DEF PopPlace
<1>5. CASE HandleFinished
  BY <1>5, MainMoves DEF HandleFinished, TypeOK, PopPlace
<1>6. ASSUME NEW p \in Processes, Trigger(p) \/ TriggerReprocessing(p) PROVE PopPlace'
  BY <1>6, MainMoves DEF Trigger, TriggerReprocessing, TypeOK, PopPlace
<1>7. ASSUME NEW p \in Processes, UpdateProcess(p) \/ RemoveProcess(p) PROVE PopPlace'
  BY <1>7 DEF UpdateProcess, RemoveProcess, Purge, threads, PopPlace
<1> QED
  BY <1>1, <1>2, <1>3, <1>4, <1>5, <1>6, <1>7 DEF Next, Halt

\* All that is in flight or waits has been given its register.
LEMMA AllGiven ==
  ASSUME TypeOK, PackagesIn(Given)
  PROVE  /\ AllCurrent \subseteq Given
         /\ \A p \in Processes : \A i \in DOMAIN waitQueue[p] : waitQueue[p][i] \in Given
<1>1. \A q \in Seq(Given) : \A i \in DOMAIN q : q[i] \in Given
  BY ElementOfSeq, LenProperties
<1>2. InQueues \subseteq Given
  BY <1>1 DEF InQueues, Elements, PackagesIn
<1>3. Held \subseteq Given
  BY HolderIn DEF Held
<1>4. \A p \in Processes : waitQueue[p] \in Seq(Given)
  BY DEF PackagesIn
<1> QED
  BY <1>1, <1>2, <1>3, <1>4 DEF AllCurrent

LEMMA NewestStep ==
  ASSUME Kind \in MainKinds, TypeOK, SerialInv, TypeOK', SerialInv', PackagesIn(Given), NewestAtMain, [Next]_vars
  PROVE  NewestAtMain'
<1>0. /\ waitQueue \in [Processes -> Seq(Packages)] /\ Main \in Threads
      /\ lastRegister \in Nat
  BY DEF TypeOK, QueuesTypeOK, Threads
<1>1. ASSUME AllCurrent' \subseteq AllCurrent, waitQueue' = waitQueue, at'[Main] = at[Main], pkg'[Main] = pkg[Main]
      PROVE  NewestAtMain'
  BY <1>1 DEF NewestAtMain
<1>2. CASE UNCHANGED vars \/ StopService
  BY <1>1, <1>2, StillCurrent DEF vars, StopService, queues, threads
<1>3. CASE MainLoop \/ LoopSpurious
  <2>1. UNCHANGED <<waitQueue, at, pkg>>
    BY <1>3 DEF MainLoop, LoopCheck, LoopBlock, LoopDrain, LoopSpurious, queues, threads
  <2>2. AllCurrent' \subseteq AllCurrent
    BY <1>3, LoopCurrent
  <2> QED
    BY <1>1, <2>1, <2>2
<1>4. ASSUME NEW w \in Workers, Worker(w) PROVE NewestAtMain'
  <2>1. AllCurrent' \subseteq AllCurrent
    BY <1>4, WorkerCurrent
  <2> QED
    BY <1>1, <1>4, <2>1, WorkersElsewhere
<1>5. ASSUME NEW p \in Processes, Trigger(p) \/ TriggerReprocessing(p) PROVE NewestAtMain'
  <2>1. /\ AllCurrent' = AllCurrent /\ waitQueue' = waitQueue
        /\ pkg'[Main] = [proc |-> p, reg |-> lastRegister + 1, date |-> 1]
    BY <1>5, TriggerCurrent, MainMoves DEF Trigger, TriggerReprocessing, TypeOK, queues
  <2>2. pkg'[Main].reg = lastRegister + 1
    BY <2>1
  <2>3. \A k \in Given : k.reg < lastRegister + 1
    BY <1>0 DEF Given, Packages, Registers
  <2>4. \A k \in Given : Older(k, pkg'[Main])
    BY <2>2, <2>3 DEF Older
  <2> QED
    BY <2>1, <2>4, AllGiven DEF NewestAtMain
<1>6. CASE AddDate
  <2> DEFINE k == pkg[Main]
             n == [k EXCEPT !.date = @ + 1]
  <2>1. /\ at[Main] = "dates" /\ waitQueue' = Queued(k) /\ pkg'[Main] = n
    BY <1>6, MainMoves DEF AddDate, TypeOK
  <2>2. AllCurrent' = AllCurrent
    BY <1>6, MainCurrent DEF MainContinues, AddDate, AddToProcessQueue, PopWaitQueue
  <2>3. k \in Packages
    BY <1>0, <2>1 DEF TypeOK, ThreadsTypeOK
  <2>4. k.reg \in Nat /\ k.date \in Nat /\ n.reg = k.reg /\ n.date = k.date + 1 /\ k.proc \in Processes
    BY <2>3 DEF Packages, Registers
  <2>5. \A m \in Given : m.reg \in Nat /\ m.date \in Nat
    BY DEF Given, Packages, Registers
  <2> HIDE DEF n, k
  <2>6. Older(k, n)
    BY <2>4 DEF Older
  <2>7. \A m \in Given : Older(m, k) => Older(m, n)
    BY <2>4, <2>5 DEF Older
  <2>8. \A m \in AllCurrent' : Older(m, n)
    BY <2>1, <2>2, <2>7, AllGiven DEF NewestAtMain, k
  <2>9. ASSUME NEW q \in Processes, NEW i \in DOMAIN waitQueue'[q] PROVE Older(waitQueue'[q][i], n)
    <3>1. \A j \in DOMAIN waitQueue[q] : Older(waitQueue[q][j], n)
      BY <2>1, <2>7, AllGiven DEF NewestAtMain, k
    <3>2. CASE q # k.proc
      BY <1>0, <2>1, <2>9, <3>1, <3>2 DEF Queued
    <3>3. CASE q = k.proc
      <4>1. waitQueue'[q] = Append(waitQueue[q], k)
        BY <1>0, <2>1, <3>3 DEF Queued
      <4>2. \/ i \in DOMAIN waitQueue[q] /\ waitQueue'[q][i] = waitQueue[q][i]
            \/ waitQueue'[q][i] = k
        BY <1>0, <2>3, <2>9, <4>1, AppendProperties, LenProperties DEF k
      <4> QED
        BY <2>6, <3>1, <4>2
    <3> QED
      BY <3>2, <3>3
  <2> QED
    BY <2>1, <2>8, <2>9 DEF NewestAtMain
<1>7. CASE (MainContinues /\ ~AddDate) \/ HandleFinished
  <2>1. at'[Main] \notin {"wait", "dates"}
    BY <1>7, MainMoves DEF MainContinues, AddToProcessQueue, AddToWaitQueue, LogOnQueue, DatesDone, DatesFail,
       HandleFinished, NotifyWaitQueue, Release, TestWaitQueue, FrontOfWaitQueue, PopWaitQueue,
       MoveToProcessQueue, Rest, Resting, TypeOK
  <2> QED
    BY <2>1 DEF NewestAtMain
<1>8. ASSUME NEW p \in Processes, UpdateProcess(p) \/ RemoveProcess(p) PROVE NewestAtMain'
  BY <1>8 DEF UpdateProcess, RemoveProcess, Purge, threads, NewestAtMain
<1> QED
  BY <1>2, <1>3, <1>4, <1>5, <1>6, <1>7, <1>8 DEF Next, Halt
\* CurrentOfProcess in the next state.
LEMMA CurrentOfProcessNext ==
  ASSUME NEW p
  PROVE  CurrentOf(p)' = {m \in AllCurrent' : m.proc = p}
BY DEF CurrentOf, Of, Carrying, AllCurrent, InQueues, Held, Elements

\* A process that is not being processed has nothing in flight.
LEMMA NoneCurrent ==
  ASSUME TypeOK, SerialInv, at[Main] # "move", NEW p, processing[p] = 0
  PROVE  CurrentOf(p) = {}
<1>1. \A m \in InQueues : \/ m.proc \in ProcsIn(processQueue) \/ m.proc \in ProcsIn(taskQueue)
                          \/ m.proc \in ProcsIn(finished)
  BY ElementsOwn DEF InQueues, SerialInv, InFlightApart
<1>2. \A m \in AllCurrent : m.proc # p
  BY <1>1, NotProcessing, HeldBy DEF AllCurrent
<1> QED
  BY <1>2, CurrentOfProcess

\* Each step of the queues as a step of the scheduler, by what it does to the
\* packages in flight and to those that wait.
LEMMA MapStutter ==
  ASSUME AllCurrent' = AllCurrent, waitQueue' = waitQueue
  PROVE  UNCHANGED Scheduler!vars
<1>1. \A p \in Processes : CurrentOf(p)' = CurrentOf(p)
  BY CurrentOfProcess, CurrentOfProcessNext
<1> QED
  BY <1>1 DEF Scheduler!vars

LEMMA MapAccept ==
  ASSUME NEW k \in Requests, k.proc \in Processes, CurrentOf(k.proc) = {}, waitQueue[k.proc] = <<>>,
         AllCurrent' = AllCurrent \cup {k}, waitQueue' = waitQueue
  PROVE  Scheduler!Next
<1>1. CurrentOf(k.proc)' = {k} /\ \A p \in Processes : p # k.proc => CurrentOf(p)' = CurrentOf(p)
  <2>1. \A p : CurrentOf(p)' = {m \in AllCurrent \cup {k} : m.proc = p}
    BY CurrentOfProcessNext
  <2>2. \A p : CurrentOf(p) = {m \in AllCurrent : m.proc = p}
    BY CurrentOfProcess
  <2>3. \A m \in AllCurrent : m.proc # k.proc
    BY <2>2
  <2> QED
    BY <2>1, <2>2, <2>3
<1>2. Scheduler!Accept(k.proc, k)
  BY <1>1 DEF Scheduler!Accept
<1> QED
  BY <1>2 DEF Scheduler!Next

LEMMA MapPostpone ==
  ASSUME NEW k \in Requests, k.proc \in Processes,
         \A m \in AllCurrent : Older(m, k),
         \A i \in DOMAIN waitQueue[k.proc] : Older(waitQueue[k.proc][i], k),
         AllCurrent' = AllCurrent, waitQueue' = Queued(k)
  PROVE  Scheduler!Next
<1>1. \A p \in Processes : CurrentOf(p)' = CurrentOf(p)
  BY CurrentOfProcess, CurrentOfProcessNext
<1>2. \A m \in CurrentOf(k.proc) : Older(m, k)
  BY CurrentOfProcess
<1>3. Scheduler!Newest(k.proc, k)
  BY <1>2 DEF Scheduler!Newest, Scheduler!Before, Older
<1>4. Scheduler!Postpone(k.proc, k)
  BY <1>1, <1>3 DEF Scheduler!Postpone, Queued
<1> QED
  BY <1>4 DEF Scheduler!Next

LEMMA MapAdvance ==
  ASSUME NEW p \in Processes, CurrentOf(p) = {}, waitQueue[p] # <<>>, Head(waitQueue[p]).proc = p,
         AllCurrent' = AllCurrent \cup {Head(waitQueue[p])}, waitQueue' = Popped(p)
  PROVE  Scheduler!Next
<1> DEFINE k == Head(waitQueue[p])
<1>0. k = Head(waitQueue[p])
  OBVIOUS
<1> HIDE DEF k
<1>1. CurrentOf(p)' = {k} /\ \A q \in Processes : q # p => CurrentOf(q)' = CurrentOf(q)
  BY <1>0, CurrentOfProcess, CurrentOfProcessNext
<1>2. Scheduler!Advance(p)
  BY <1>0, <1>1 DEF Scheduler!Advance, Popped
<1> QED
  BY <1>2 DEF Scheduler!Next

LEMMA MapLeave ==
  ASSUME TypeOK, SerialInv, NEW k \in AllCurrent, k.proc \in Processes,
         AllCurrent' = AllCurrent \ {k}, waitQueue' = waitQueue
  PROVE  Scheduler!Next
<1>1. \A m \in AllCurrent : m.proc = k.proc => m = k
  BY OneEach
<1>2. /\ CurrentOf(k.proc) # {} /\ CurrentOf(k.proc)' = {}
      /\ \A p \in Processes : p # k.proc => CurrentOf(p)' = CurrentOf(p)
  BY <1>1, CurrentOfProcess, CurrentOfProcessNext
<1>3. Scheduler!Leave(k.proc)
  BY <1>2 DEF Scheduler!Leave
<1> QED
  BY <1>3 DEF Scheduler!Next

LEMMA MapForget ==
  ASSUME NEW p \in Processes, waitQueue' = [waitQueue EXCEPT ![p] = <<>>],
         AllCurrent' = AllCurrent \/ AllCurrent' = {m \in AllCurrent : m.proc # p}
  PROVE  Scheduler!Next
<1>1. /\ CurrentOf(p)' = {} \/ CurrentOf(p)' = CurrentOf(p)
      /\ \A q \in Processes : q # p => CurrentOf(q)' = CurrentOf(q)
  BY CurrentOfProcess, CurrentOfProcessNext
<1>2. Scheduler!Forget(p)
  BY <1>1 DEF Scheduler!Forget
<1> QED
  BY <1>2 DEF Scheduler!Next

LEMMA MapInit == Init => Scheduler!Init
<1> SUFFICES ASSUME Init PROVE Scheduler!Init
  OBVIOUS
<1>1. InQueues = {}
  BY DEF Init, InQueues, Elements
<1>2. Held = {}
  BY DEF Init, Held
<1>3. \A p \in Processes : CurrentOf(p) = {}
  BY <1>1, <1>2, CurrentOfProcess DEF AllCurrent
<1> QED
  BY <1>3 DEF Scheduler!Init, Init

\* All that the refinement rests on.
SchedulingInv ==
  /\ SerialInv /\ MainPlace /\ WaitInv
  /\ PopPlace /\ NewestAtMain /\ PackagesIn(Given)

LEMMA RequestAtMain ==
  ASSUME TypeOK, MainPlace,
         \/ at[Main] \in {"direct", "wait"}
         \/ at[Main] = "dates" /\ pkg[Main].date <= Dates[pkg[Main].proc]
  PROVE  pkg[Main] \in Requests /\ pkg[Main].proc \in Processes
<1> DEFINE k == pkg[Main]
<1>1. k \in Packages
  BY DEF TypeOK, ThreadsTypeOK, Threads
<1>2. /\ k.proc \in Processes /\ k.reg \in Registers /\ k.date \in Nat /\ k.date >= 1
      /\ k = [proc |-> k.proc, reg |-> k.reg, date |-> k.date]
  BY <1>1 DEF Packages
<1>3. k.date <= DatesOf(k.proc) /\ DatesOf(k.proc) \in Nat
  BY ServiceQueueAssumption DEF MainPlace, DatesOf
<1>4. k.date \in 1..DatesOf(k.proc)
  BY <1>2, <1>3
<1> HIDE DEF k
<1>5. k \in Requests
  BY <1>2, <1>3, <1>4 DEF Requests
<1> QED
  BY <1>2, <1>5 DEF k

LEMMA MapMain ==
  ASSUME Kind \in MainKinds, TypeOK, SchedulingInv, TypeOK', SerialInv', MainContinues \/ HandleFinished
  PROVE  Scheduler!Next \/ UNCHANGED Scheduler!vars
<1> DEFINE k == pkg[Main]
<1>0. SerialInv /\ MainPlace /\ waitQueue \in [Processes -> Seq(Packages)] /\ Main \in Threads
  BY DEF SchedulingInv, TypeOK, QueuesTypeOK, Threads
<1>1. CASE AddToProcessQueue
  <2>1. at[Main] = "direct" /\ waitQueue' = waitQueue
    BY <1>1 DEF AddToProcessQueue
  <2>2. k \in Requests /\ k.proc \in Processes
    BY <1>0, <2>1, RequestAtMain
  <2>3. processing[k.proc] = 0 /\ k.proc \notin Reprocessing
    BY <1>0, <2>1 DEF SerialInv, MainApart, MainPlace
  <2>4. CurrentOf(k.proc) = {}
    BY <1>0, <2>1, <2>3, NoneCurrent
  <2>5. waitQueue[k.proc] = <<>>
    BY <2>1, <2>2, <2>3 DEF SchedulingInv, WaitInv, WaitsForEnd
  <2>6. AllCurrent' = AllCurrent \cup {k}
    BY <1>0, <1>1, MainCurrent
  <2> QED
    BY <2>1, <2>2, <2>4, <2>5, <2>6, MapAccept
<1>2. CASE AddToWaitQueue \/ AddDate
  <2>1. /\ waitQueue' = Queued(k)
        /\ \/ at[Main] = "wait"
           \/ at[Main] = "dates" /\ k.date <= Dates[k.proc]
    BY <1>2 DEF AddToWaitQueue, AddDate
  <2>2. k \in Requests /\ k.proc \in Processes
    BY <1>0, <2>1, RequestAtMain
  <2>3. AllCurrent' = AllCurrent
    BY <1>0, <1>2, MainCurrent DEF MainContinues, AddToWaitQueue, AddDate, AddToProcessQueue, PopWaitQueue
  <2>4. /\ \A m \in AllCurrent : Older(m, k)
        /\ \A i \in DOMAIN waitQueue[k.proc] : Older(waitQueue[k.proc][i], k)
    BY <2>1, <2>2 DEF SchedulingInv, NewestAtMain
  <2> QED
    BY <2>1, <2>2, <2>3, <2>4, MapPostpone
<1>3. CASE PopWaitQueue(Main)
  <2> DEFINE p == k.proc
  <2>1. at[Main] = "pop" /\ waitQueue' = Popped(p)
    BY <1>3 DEF PopWaitQueue
  <2>2. p \in Processes
    BY <1>0, <2>1 DEF TypeOK, ThreadsTypeOK, Packages
  <2>3. waitQueue[p] # <<>> /\ k = Head(waitQueue[p])
    BY <2>1 DEF SchedulingInv, PopPlace
  <2>4. processing[p] = 0
    BY <1>0, <2>1 DEF SerialInv, MainApart
  <2>5. CurrentOf(p) = {}
    BY <1>0, <2>1, <2>4, NoneCurrent
  <2>6. AllCurrent' = AllCurrent \cup {k}
    BY <1>0, <1>3, MainCurrent
  <2>7. Head(waitQueue[p]).proc = p /\ AllCurrent' = AllCurrent \cup {Head(waitQueue[p])}
    BY <2>3, <2>6
  <2> QED
    BY <2>1, <2>2, <2>3, <2>5, <2>7, MapAdvance
<1>4. CASE HandleFinished
  <2>1. Head(finished) \in AllCurrent /\ AllCurrent' = AllCurrent \ {Head(finished)} /\ waitQueue' = waitQueue
    BY <1>0, <1>4, MainCurrent DEF HandleFinished
  <2>2. Head(finished).proc \in Processes
    BY <2>1, AllGiven DEF SchedulingInv, Given, Packages
  <2> QED
    BY <1>0, <2>1, <2>2, MapLeave
<1>5. CASE MainContinues /\ ~AddToProcessQueue /\ ~AddToWaitQueue /\ ~AddDate /\ ~PopWaitQueue(Main)
  <2>1. AllCurrent' = AllCurrent
    BY <1>0, <1>5, MainCurrent
  <2>2. waitQueue' = waitQueue
    BY <1>5 DEF MainContinues, LogOnQueue, DatesDone, DatesFail, NotifyWaitQueue, Release, TestWaitQueue,
       FrontOfWaitQueue, MoveToProcessQueue, queues
  <2> QED
    BY <2>1, <2>2, MapStutter
<1> QED
  BY <1>1, <1>2, <1>3, <1>4, <1>5

LEMMA MapStep ==
  ASSUME Kind \in MainKinds, TypeOK, SchedulingInv, TypeOK', SerialInv', [Next]_vars
  PROVE  Scheduler!Next \/ UNCHANGED Scheduler!vars
<1>0. SerialInv /\ AllCurrent \subseteq Given
  BY AllGiven DEF SchedulingInv
<1>1. CASE UNCHANGED vars \/ StopService
  BY <1>1, StillCurrent, MapStutter DEF vars, StopService, queues
<1>2. ASSUME NEW p \in Processes, Trigger(p) \/ TriggerReprocessing(p) PROVE UNCHANGED Scheduler!vars
  BY <1>0, <1>2, TriggerCurrent, MapStutter DEF Trigger, TriggerReprocessing, queues
<1>3. CASE MainLoop \/ LoopSpurious
  <2>1. waitQueue' = waitQueue
    BY <1>3 DEF MainLoop, LoopCheck, LoopBlock, LoopDrain, LoopSpurious, queues
  <2>2. CASE AllCurrent' = AllCurrent
    BY <2>1, <2>2, MapStutter
  <2>3. CASE AllCurrent' # AllCurrent
    <3>1. Head(processQueue) \in AllCurrent /\ AllCurrent' = AllCurrent \ {Head(processQueue)}
      BY <1>0, <1>3, <2>3, LoopCurrent
    <3>2. Head(processQueue).proc \in Processes
      BY <1>0, <3>1 DEF Given, Packages
    <3> QED
      BY <1>0, <2>1, <3>1, <3>2, MapLeave
  <2> QED
    BY <2>2, <2>3
<1>4. ASSUME NEW w \in Workers, Worker(w) PROVE Scheduler!Next \/ UNCHANGED Scheduler!vars
  <2>1. waitQueue' = waitQueue
    BY <1>0, <1>4, WorkersElsewhere
  <2>2. CASE AllCurrent' = AllCurrent
    BY <2>1, <2>2, MapStutter
  <2>3. CASE AllCurrent' # AllCurrent
    <3>1. pkg[w] \in AllCurrent /\ AllCurrent' = AllCurrent \ {pkg[w]}
      BY <1>0, <1>4, <2>3, WorkerCurrent
    <3>2. pkg[w].proc \in Processes
      BY <1>0, <3>1 DEF Given, Packages
    <3> QED
      BY <1>0, <2>1, <3>1, <3>2, MapLeave
  <2> QED
    BY <2>2, <2>3
<1>5. ASSUME NEW p \in Processes, UpdateProcess(p) \/ RemoveProcess(p) PROVE Scheduler!Next
  <2>1. waitQueue' = [waitQueue EXCEPT ![p] = <<>>]
    BY <1>5 DEF UpdateProcess, RemoveProcess, MainKinds
  <2> QED
    BY <1>0, <1>5, <2>1, EditCurrent, MapForget
<1> QED
  BY <1>1, <1>2, <1>3, <1>4, <1>5, MapMain DEF Next, Halt

LEMMA SchedulingInit == Init => SchedulingInv
<1> SUFFICES ASSUME Init PROVE SchedulingInv
  OBVIOUS
<1>1. at[Main] = "idle" /\ waitQueue = [p \in Processes |-> <<>>]
  BY DEF Init, Threads
<1>2. WaitInv /\ PopPlace /\ NewestAtMain
  BY <1>1 DEF WaitInv, WaitsForEnd, QueuesBehind, PopPlace, NewestAtMain
<1> QED
  BY <1>2, SerialInit, PlaceInit, LogInvInit DEF SchedulingInv, LogInv

LEMMA SchedulingStep ==
  ASSUME Kind \in MainKinds, TypeOK, SchedulingInv, [Next]_vars
  PROVE  TypeOK' /\ SchedulingInv'
<1>1. TypeOK' /\ SerialInv'
  BY TypeStep, SerialStep DEF SchedulingInv
<1>2. MainPlace' /\ WaitInv' /\ PopPlace' /\ PackagesIn(Given)'
  BY PlaceStep, WaitStep, PopStep, GivenStep DEF SchedulingInv
<1>3. NewestAtMain'
  BY <1>1, NewestStep DEF SchedulingInv
<1> QED
  BY <1>1, <1>2, <1>3 DEF SchedulingInv

\* The queues and threads of the analysis and the alert service implement the
\* abstract scheduler, whatever is stopped, edited or thrown: the packages of a
\* process are processed one at a time, in the order of their requests, and none
\* comes back.
THEOREM ImplementsSchedulerCorrect ==
  ASSUME Kind \in MainKinds
  PROVE  Spec => ImplementsScheduler
<1>1. Init => TypeOK /\ SchedulingInv
  BY TypeInit, SchedulingInit
<1>2. TypeOK /\ SchedulingInv /\ [Next]_vars => (TypeOK /\ SchedulingInv)'
  BY SchedulingStep
<1>3. TypeOK /\ SchedulingInv /\ [Next]_vars => [Scheduler!Next]_(Scheduler!vars)
  <2> SUFFICES ASSUME TypeOK, SchedulingInv, [Next]_vars
               PROVE  Scheduler!Next \/ UNCHANGED Scheduler!vars
    OBVIOUS
  <2>1. TypeOK' /\ SerialInv'
    BY SchedulingStep DEF SchedulingInv
  <2> QED
    BY <2>1, MapStep
<1> QED
  BY <1>1, <1>2, <1>3, MapInit, PTL DEF Spec, ImplementsScheduler, Scheduler!Spec
====
