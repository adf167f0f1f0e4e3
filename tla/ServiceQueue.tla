---------------------------- MODULE ServiceQueue ----------------------------
(***************************************************************************)
(* The queues and threads of terrama2::core::Service, the base class of    *)
(* the collector, view, interpolator, analysis and alert services.         *)
(*                                                                         *)
(* A trigger (a timer or a START_PROCESS message) makes an execution       *)
(* package of a process.  The package goes to processQueue, or to          *)
(* waitQueue if the process is already being processed.  The main loop     *)
(* thread turns the packages of processQueue into tasks, a pool of workers *)
(* executes the tasks, and the end of an execution calls notifyWaitQueue,  *)
(* which releases the process and moves its next waiting package to        *)
(* processQueue.                                                           *)
(*                                                                         *)
(* addToQueue, the edits and the stop hold mutex_; notifyWaitQueue and     *)
(* addReprocessingToQueue do not.  Between two steps of this module any    *)
(* other thread may run: every operation on a container is one step, and   *)
(* memory is sequentially consistent (what a data race adds to that is     *)
(* undefined; NoDataRace says where one can happen).                       *)
(***************************************************************************)
EXTENDS Naturals, Sequences, FiniteSets

CONSTANTS
  Kind,         \* which of the five services this is
  Processes,    \* ids of the processes of the service instance
  Workers,      \* the threads of processingThreadPool_
  Main,         \* the Qt main thread: slots, timers, messages
  Dates,        \* Dates[p]: executions one reprocessing request of p asks for
  MaxRegisters, \* bound: log registers (accepted triggers) of a behaviour
  Edits,        \* which edits the web application sends: "update", "remove"
  Faults,       \* which calls may throw: see FaultKinds
  NoPackage     \* what a thread without a package holds

\* notifyWaitQueue is called by the worker at the end of collect, viewJob and
\* interpolate; runAnalysis and runAlert emit a signal that is queued to the
\* main thread, whose slot calls it.
PoolKinds == {"collector", "view", "interpolator"}
MainKinds == {"analysis", "alert"}

\* "start": ProcessLogger::start or result throws on the main thread (database down)
\* "clone": ProcessLogger::clone throws in prepareTask
\* "tail": the logger throws in the error tail of the execution
\* "erase": erasePreviousResult throws, or the schedule is invalid
\* "cleanup": the cleanup of GeoServer throws when a view is removed
FaultKinds == {"start", "clone", "tail", "erase", "cleanup"}

\* Processes whose schedule has reprocessingHistoricalData.
Reprocessing == DOMAIN Dates

Threads == Workers \cup {Main}
Registers == 1..MaxRegisters

\* An ExecutionPackage: process, log register and the position of its
\* execution date among those of the same request.
Packages == [proc: Processes, reg: Registers, date: Nat \ {0}]

\* The executions one trigger of p asks for, and all that can be asked for.
DatesOf(p) == IF p \in Reprocessing THEN Dates[p] ELSE 1
Requests == {k \in [proc: Processes, reg: Registers, date: UNION {1..DatesOf(p) : p \in Processes}] :
               k.date <= DatesOf(k.proc)}

ASSUME ServiceQueueAssumption ==
  /\ Kind \in PoolKinds \cup MainKinds
  /\ Main \notin Workers
  /\ NoPackage \notin Packages
  /\ MaxRegisters \in Nat
  /\ Edits \subseteq {"update", "remove"}
  /\ Faults \subseteq FaultKinds
  /\ Reprocessing \subseteq Processes
  /\ \A p \in Reprocessing : Dates[p] \in Nat

VARIABLES
  mutex,        \* holder of mutex_: "free", "main" or "loop"
  processQueue, \* packages to be turned into tasks
  processing,   \* processing[p]: occurrences of p in processingQueue_
  waitQueue,    \* waitQueue[p]: packages of p waiting for its execution to end
  taskQueue,    \* tasks (their packages) ready for the workers
  finished,     \* analysisFinished or alertFinished events posted to Main
  stop,         \* stop_
  loop,         \* where the main loop thread is
  at,           \* at[t]: where thread t is
  pkg,          \* pkg[t]: the package thread t works on
  status,       \* status[r]: status column of log register r
  lastRegister, \* last register given out by ProcessLogger::start
  registered    \* processes known to the data manager

queues == <<processQueue, processing, waitQueue>>
threads == <<at, pkg>>
log == <<status, lastRegister>>
vars == <<mutex, queues, taskQueue, finished, stop, loop, threads, log, registered>>

LoopSteps == {"check", "drain", "block", "asleep", "exit"}
NotifySteps == {"release", "test", "front", "pop", "move"}
MainSteps == NotifySteps \cup {"idle", "direct", "wait", "onqueue", "dates"}
WorkerSteps == NotifySteps \cup {"ready", "taken", "run", "exit"}
Statuses == {"unused", "START", "ON_QUEUE", "FINISHED"}

QueuesTypeOK ==
  /\ processQueue \in Seq(Packages)
  /\ processing \in [Processes -> Nat]
  /\ waitQueue \in [Processes -> Seq(Packages)]
  /\ taskQueue \in Seq(Packages)
  /\ finished \in Seq(Packages)

ThreadsTypeOK ==
  /\ at \in [Threads -> MainSteps \cup WorkerSteps]
  /\ at[Main] \in MainSteps
  /\ \A w \in Workers : at[w] \in WorkerSteps
  /\ pkg \in [Threads -> Packages \cup {NoPackage}]
  /\ \A t \in Threads : at[t] \notin {"idle", "ready", "exit"} => pkg[t] \in Packages

\* Every variable has its type, and a thread that is not at rest holds a package:
\* the front and the pop of a queue are never those of an empty one.
TypeOK ==
  /\ QueuesTypeOK
  /\ ThreadsTypeOK
  /\ mutex \in {"free", "main", "loop"}
  /\ stop \in BOOLEAN
  /\ loop \in LoopSteps
  /\ status \in [Registers -> Statuses]
  /\ lastRegister \in 0..MaxRegisters
  /\ registered \subseteq Processes

Init ==
  /\ mutex = "free"
  /\ processQueue = <<>>
  /\ processing = [p \in Processes |-> 0]
  /\ waitQueue = [p \in Processes |-> <<>>]
  /\ taskQueue = <<>>
  /\ finished = <<>>
  /\ stop = FALSE
  /\ loop = "check"
  /\ at = [t \in Threads |-> IF t = Main THEN "idle" ELSE "ready"]
  /\ pkg = [t \in Threads |-> NoPackage]
  /\ status = [r \in Registers |-> "unused"]
  /\ lastRegister = 0
  /\ registered = Processes

-----------------------------------------------------------------------------
(* Helpers *)

\* Mutant: the notification is forgotten.
UnwokenLoop == loop

\* mainLoopCondition_.notify_one(): wakes the main loop if it is blocked, and
\* is lost if it is not.
WokenLoop == IF loop = "asleep" THEN "check" ELSE loop

\* Thread t goes to step s with package k.
Goto(t, s, k) ==
  /\ at' = [at EXCEPT ![t] = s]
  /\ pkg' = [pkg EXCEPT ![t] = k]

\* Where thread t goes when it returns from notifyWaitQueue or ends its handler.
Resting(t) == IF t = Main THEN "idle" ELSE "ready"
Rest(t) == Goto(t, Resting(t), NoPackage)

\* Mutant: the process is never pushed to processingQueue_.
OccupyNever(p) == processing

\* push_back of p to processingQueue_.
Occupy(p) == [processing EXCEPT ![p] = @ + 1]

\* Mutants: an occurrence is erased without testing that there is one; none is.
ReleaseBlindly(p) == [processing EXCEPT ![p] = @ - 1]
ReleaseNever(p) == processing

\* std::find and erase of the first occurrence in processingQueue_, whose order
\* nothing reads.
ReleaseOne(p) == [processing EXCEPT ![p] = IF @ > 0 THEN @ - 1 ELSE 0]

\* Mutant: the newest package is put in front.
QueuedInFront(k) == [waitQueue EXCEPT ![k.proc] = <<k>> \o @]

\* push of package k to the wait queue of its process.
Queued(k) == [waitQueue EXCEPT ![k.proc] = Append(@, k)]

\* pop of the wait queue of p.
Popped(p) == [waitQueue EXCEPT ![p] = Tail(@)]

\* std::remove_if and erase: what is left of q, in the same order.  Written with
\* the order-preserving enumeration of the kept positions (and not SelectSeq,
\* whose recursion has no lemmas) so that it can be reasoned about.
Kept(q, p) == {i \in DOMAIN q : q[i].proc # p}
Enumeration(S) ==
  CHOOSE f \in [1..Cardinality(S) -> S] : \A i, j \in DOMAIN f : i < j => f[i] < f[j]
Without(q, p) ==
  LET f == Enumeration(Kept(q, p)) IN [n \in 1..Cardinality(Kept(q, p)) |-> q[f[n]]]

-----------------------------------------------------------------------------
(* addToQueue, run by the main thread *)

\* The lock is taken, a register is started and processingQueue_ is searched.
\* A trigger whose ProcessLogger::start throws is dropped: a stuttering step.
Trigger(p) ==
  /\ at[Main] = "idle"
  /\ mutex = "free"
  /\ p \in registered \ Reprocessing
  /\ lastRegister < MaxRegisters
  /\ mutex' = "main"
  /\ lastRegister' = lastRegister + 1
  /\ status' = [status EXCEPT ![lastRegister + 1] = "START"]
  /\ Goto(Main, IF processing[p] = 0 THEN "direct" ELSE "wait",
          [proc |-> p, reg |-> lastRegister + 1, date |-> 1])
  /\ UNCHANGED <<queues, taskQueue, finished, stop, loop, registered>>

\* The process was not being processed: both queues get it, the loop is notified.
AddToProcessQueue ==
  /\ at[Main] = "direct"
  /\ processQueue' = Append(processQueue, pkg[Main])
  /\ processing' = Occupy(pkg[Main].proc)
  /\ loop' = WokenLoop
  /\ mutex' = "free"
  /\ Rest(Main)
  /\ UNCHANGED <<waitQueue, taskQueue, finished, stop, log, registered>>

\* Mutant: the lock is released before ON_QUEUE is logged.
AddToWaitQueueUnlocked ==
  /\ at[Main] = "wait"
  /\ waitQueue' = Queued(pkg[Main])
  /\ Goto(Main, "onqueue", pkg[Main])
  /\ mutex' = "free"
  /\ UNCHANGED <<processQueue, processing, taskQueue, finished, stop, loop, log, registered>>

\* The process was being processed: its wait queue gets the package.
AddToWaitQueue ==
  /\ at[Main] = "wait"
  /\ waitQueue' = Queued(pkg[Main])
  /\ Goto(Main, "onqueue", pkg[Main])
  /\ UNCHANGED <<mutex, processQueue, processing, taskQueue, finished, stop, loop, log, registered>>

\* ... and its register gets ON_QUEUE, still under the lock.
LogOnQueue ==
  /\ at[Main] = "onqueue"
  /\ \/ status' = [status EXCEPT ![pkg[Main].reg] = "ON_QUEUE"]
     \/ "start" \in Faults /\ UNCHANGED status
  /\ mutex' = "free"
  /\ Rest(Main)
  /\ UNCHANGED <<queues, taskQueue, finished, stop, loop, lastRegister, registered>>

-----------------------------------------------------------------------------
(* addReprocessingToQueue, run by the main thread without the lock *)

TriggerReprocessing(p) ==
  /\ at[Main] = "idle"
  /\ p \in registered \cap Reprocessing
  /\ lastRegister < MaxRegisters
  /\ lastRegister' = lastRegister + 1
  /\ status' = [status EXCEPT ![lastRegister + 1] = "START"]
  /\ Goto(Main, "dates", [proc |-> p, reg |-> lastRegister + 1, date |-> 1])
  /\ UNCHANGED <<mutex, queues, taskQueue, finished, stop, loop, registered>>

\* One turn of the loop over the dates: all packages share the register.
AddDate ==
  /\ at[Main] = "dates"
  /\ pkg[Main].date <= Dates[pkg[Main].proc]
  /\ waitQueue' = Queued(pkg[Main])
  /\ Goto(Main, "dates", [pkg[Main] EXCEPT !.date = @ + 1])
  /\ UNCHANGED <<mutex, processQueue, processing, taskQueue, finished, stop, loop, log, registered>>

\* Mutant: the wait queue is not notified.
DatesDoneQuietly ==
  /\ at[Main] = "dates"
  /\ pkg[Main].date > Dates[pkg[Main].proc]
  /\ Rest(Main)
  /\ UNCHANGED <<mutex, queues, taskQueue, finished, stop, loop, log, registered>>

\* After the last date the wait queue is notified unless the process is being
\* processed.
DatesDone ==
  /\ at[Main] = "dates"
  /\ pkg[Main].date > Dates[pkg[Main].proc]
  /\ IF processing[pkg[Main].proc] = 0 THEN Goto(Main, "release", pkg[Main]) ELSE Rest(Main)
  /\ UNCHANGED <<mutex, queues, taskQueue, finished, stop, loop, log, registered>>

\* An exception (or an invalid schedule) leaves what is already in the wait
\* queue there.
DatesFail ==
  /\ at[Main] = "dates"
  /\ "erase" \in Faults
  /\ pkg[Main].date <= Dates[pkg[Main].proc]
  /\ Rest(Main)
  /\ UNCHANGED <<mutex, queues, taskQueue, finished, stop, loop, log, registered>>

-----------------------------------------------------------------------------
(* notifyWaitQueue, run without the lock by whoever ends an execution *)

Release(t) ==
  /\ at[t] = "release"
  /\ processing' = ReleaseOne(pkg[t].proc)
  /\ Goto(t, "test", pkg[t])
  /\ UNCHANGED <<mutex, processQueue, waitQueue, taskQueue, finished, stop, loop, log, registered>>

\* empty() of the wait queue of the process.
TestWaitQueue(t) ==
  /\ at[t] = "test"
  /\ IF waitQueue[pkg[t].proc] = <<>> THEN Rest(t) ELSE Goto(t, "front", pkg[t])
  /\ UNCHANGED <<mutex, queues, taskQueue, finished, stop, loop, log, registered>>

\* front(): the package is copied ...
FrontOfWaitQueue(t) ==
  /\ at[t] = "front"
  /\ waitQueue[pkg[t].proc] # <<>>
  /\ Goto(t, "pop", Head(waitQueue[pkg[t].proc]))
  /\ UNCHANGED <<mutex, queues, taskQueue, finished, stop, loop, log, registered>>

\* ... and pop(): whatever is in front now leaves.
PopWaitQueue(t) ==
  /\ at[t] = "pop"
  /\ waitQueue[pkg[t].proc] # <<>>
  /\ waitQueue' = Popped(pkg[t].proc)
  /\ Goto(t, "move", pkg[t])
  /\ UNCHANGED <<mutex, processQueue, processing, taskQueue, finished, stop, loop, log, registered>>

MoveToProcessQueue(t) ==
  /\ at[t] = "move"
  /\ processing' = Occupy(pkg[t].proc)
  /\ processQueue' = Append(processQueue, pkg[t])
  /\ loop' = WokenLoop
  /\ Rest(t)
  /\ UNCHANGED <<mutex, waitQueue, taskQueue, finished, stop, log, registered>>

NotifyWaitQueue(t) ==
  \/ Release(t)
  \/ TestWaitQueue(t) \/ FrontOfWaitQueue(t) \/ PopWaitQueue(t)
  \/ MoveToProcessQueue(t)

-----------------------------------------------------------------------------
(* mainLoopThread *)

\* Takes the lock and evaluates the predicate of mainLoopCondition_.wait.
LoopCheck ==
  /\ loop = "check"
  /\ mutex = "free"
  /\ \/ stop /\ loop' = "exit" /\ UNCHANGED mutex
     \/ ~stop /\ processQueue # <<>> /\ loop' = "drain" /\ mutex' = "loop"
     \/ ~stop /\ processQueue = <<>> /\ loop' = "block" /\ mutex' = "loop"
  /\ UNCHANGED <<queues, taskQueue, finished, stop, threads, log, registered>>

\* The predicate was false: the thread blocks and releases the lock.
LoopBlock ==
  /\ loop = "block"
  /\ loop' = "asleep"
  /\ mutex' = "free"
  /\ UNCHANGED <<queues, taskQueue, finished, stop, threads, log, registered>>

\* std::condition_variable allows spurious wakeups.
LoopSpurious ==
  /\ loop = "asleep"
  /\ loop' = "check"
  /\ UNCHANGED <<mutex, queues, taskQueue, finished, stop, threads, log, registered>>

\* Can prepareTask drop package k (its exceptions are caught and logged)?  The
\* logger is cloned except by the alert service; only the analysis service
\* looks its process up.
PrepareFails(k) ==
  \/ "clone" \in Faults /\ Kind # "alert"
  \/ Kind = "analysis" /\ k.proc \notin registered

\* processNextData: the front package becomes a task and leaves the queue.  The
\* last one releases the lock; the workers are notified.
LoopDrain ==
  /\ loop = "drain"
  /\ processQueue # <<>>
  /\ LET k == Head(processQueue) IN
       \/ /\ Kind = "analysis" => k.proc \in registered
          /\ taskQueue' = Append(taskQueue, k)
       \/ PrepareFails(k) /\ UNCHANGED taskQueue
  /\ processQueue' = Tail(processQueue)
  /\ IF Tail(processQueue) = <<>>
       THEN loop' = "check" /\ mutex' = "free"
       ELSE UNCHANGED <<loop, mutex>>
  /\ UNCHANGED <<processing, waitQueue, finished, stop, threads, log, registered>>

MainLoop == LoopCheck \/ LoopBlock \/ LoopDrain

-----------------------------------------------------------------------------
(* processingTaskThread *)

\* The worker holds the lock only while it takes a task, and the main loop only
\* pushes tasks with the lock held, so its condition variable loses no wakeup:
\* the wait is a guard.
TakeTask(w) ==
  /\ at[w] = "ready"
  /\ mutex = "free"
  /\ ~stop
  /\ taskQueue # <<>>
  /\ taskQueue' = Tail(taskQueue)
  /\ Goto(w, "taken", Head(taskQueue))
  /\ UNCHANGED <<mutex, queues, finished, stop, loop, log, registered>>

\* stop_ is read again before the task is called: a task taken just before the
\* stop is lost.
StartTask(w) ==
  /\ at[w] = "taken"
  /\ IF stop THEN Goto(w, "exit", NoPackage) ELSE Goto(w, "run", pkg[w])
  /\ UNCHANGED <<mutex, queues, taskQueue, finished, stop, loop, log, registered>>

\* The collector writes START, with the last timestamp, after every file.
StatusOfFile(w) ==
  /\ Kind = "collector"
  /\ at[w] = "run"
  /\ status' = [status EXCEPT ![pkg[w].reg] = "START"]
  /\ UNCHANGED <<mutex, queues, taskQueue, finished, stop, loop, threads, lastRegister, registered>>

\* May the execution end without its register getting a final status?  runAlert
\* returns early without writing one, runAnalysis catches the exception of the
\* logger and still emits its signal.
EndsUnlogged == Kind = "alert" \/ (Kind = "analysis" /\ "tail" \in Faults)

\* The execution ends: a final status is logged, then the worker notifies the
\* wait queue itself or posts the event that will.
FinishTask(w) ==
  /\ at[w] = "run"
  /\ \/ status' = [status EXCEPT ![pkg[w].reg] = "FINISHED"]
     \/ EndsUnlogged /\ UNCHANGED status
  /\ \/ Kind \in PoolKinds /\ Goto(w, "release", pkg[w]) /\ UNCHANGED finished
     \/ Kind \in MainKinds /\ Rest(w) /\ finished' = Append(finished, pkg[w])
  /\ UNCHANGED <<mutex, queues, taskQueue, stop, loop, lastRegister, registered>>

\* An exception outside of every try block ends in the packaged_task and nothing
\* after it runs: the logger throws in the error tail (runAlert writes the status
\* first), or runAlert does not find its alert, which was removed.
EscapeTask(w) ==
  /\ at[w] = "run"
  /\ \/ "tail" \in Faults /\ Kind # "analysis" /\ UNCHANGED status
     \/ "tail" \in Faults /\ Kind = "alert" /\ status' = [status EXCEPT ![pkg[w].reg] = "FINISHED"]
     \/ Kind = "alert" /\ pkg[w].proc \notin registered /\ UNCHANGED status
  /\ Rest(w)
  /\ UNCHANGED <<mutex, queues, taskQueue, finished, stop, loop, lastRegister, registered>>

WorkerExit(w) ==
  /\ at[w] = "ready"
  /\ mutex = "free"
  /\ stop
  /\ Goto(w, "exit", NoPackage)
  /\ UNCHANGED <<mutex, queues, taskQueue, finished, stop, loop, log, registered>>

Worker(w) ==
  \/ TakeTask(w) \/ StartTask(w) \/ StatusOfFile(w) \/ FinishTask(w) \/ EscapeTask(w)
  \/ WorkerExit(w) \/ NotifyWaitQueue(w)

-----------------------------------------------------------------------------
(* The other handlers of the main thread *)

\* analysisFinished erases the process from processingQueue_ before it calls
\* notifyWaitQueue, which looks for it again; alertFinished only calls it.
HandleFinished ==
  /\ at[Main] = "idle"
  /\ finished # <<>>
  /\ finished' = Tail(finished)
  /\ processing' = IF Kind = "analysis" THEN ReleaseOne(Head(finished).proc) ELSE processing
  /\ Goto(Main, "release", Head(finished))
  /\ UNCHANGED <<mutex, processQueue, waitQueue, taskQueue, stop, loop, log, registered>>

\* removeCollector, removeAnalysis, ...: under the lock the packages of p leave
\* the process queue and the wait queue; processingQueue_ and the tasks stay.
Purge(p) ==
  /\ at[Main] = "idle"
  /\ mutex = "free"
  /\ p \in registered
  /\ processQueue' = Without(processQueue, p)
  /\ UNCHANGED <<mutex, processing, taskQueue, finished, stop, loop, threads, log>>

UpdateProcess(p) ==
  /\ "update" \in Edits
  /\ Purge(p)
  /\ waitQueue' = [waitQueue EXCEPT ![p] = <<>>]
  /\ UNCHANGED registered

\* removeCompleteView cleans GeoServer up between the two queues and leaves the
\* wait queue as it is when that throws.
RemoveProcess(p) ==
  /\ "remove" \in Edits
  /\ Purge(p)
  /\ \/ waitQueue' = [waitQueue EXCEPT ![p] = <<>>]
     \/ Kind = "view" /\ "cleanup" \in Faults /\ UNCHANGED waitQueue
  /\ registered' = registered \ {p}

\* Mutant: the main loop is not notified.
StopQuietly ==
  /\ at[Main] = "idle"
  /\ mutex = "free"
  /\ ~stop
  /\ stop' = TRUE
  /\ UNCHANGED <<mutex, queues, taskQueue, finished, loop, threads, log, registered>>

\* The first half of stop(): under the lock stop_ is set and everybody is
\* notified.  The main thread then waits for the other threads, and keeps
\* handling events (processEvents) while it does.
StopService ==
  /\ at[Main] = "idle"
  /\ mutex = "free"
  /\ ~stop
  /\ stop' = TRUE
  /\ loop' = WokenLoop
  /\ UNCHANGED <<mutex, queues, taskQueue, finished, threads, log, registered>>

\* What the main thread does of its own once it is inside a handler.
MainContinues ==
  \/ AddToProcessQueue \/ AddToWaitQueue \/ LogOnQueue
  \/ AddDate \/ DatesDone \/ DatesFail
  \/ NotifyWaitQueue(Main)

Stopped == stop /\ loop = "exit" /\ \A w \in Workers : at[w] = "exit"

\* A queue emptied by another thread after empty() was asked: what front() and
\* pop() do then is undefined.  Here the thread does not come back from them, and
\* the others go on or stop with it.
Undefined ==
  \E t \in Threads : at[t] \in {"front", "pop"} /\ waitQueue[pkg[t].proc] = <<>>

\* stop() has returned and the service with it, or the program has crashed.
Halt == (Stopped \/ Undefined) /\ UNCHANGED vars

Next ==
  \/ \E p \in Processes : Trigger(p) \/ TriggerReprocessing(p)
  \/ \E p \in Processes : UpdateProcess(p) \/ RemoveProcess(p)
  \/ StopService
  \/ MainContinues \/ HandleFinished
  \/ MainLoop \/ LoopSpurious
  \/ \E w \in Workers : Worker(w)
  \/ Halt

Spec == Init /\ [][Next]_vars

\* A thread that can take a step takes it; a thread that waits for the mutex gets
\* it if it is free again and again (every holder releases it in a few steps).
\* Executions end.  Triggers, edits, the stop and spurious wakeups need not come.
Fairness ==
  /\ WF_vars(MainContinues)
  /\ WF_vars(HandleFinished)
  /\ SF_vars(LoopCheck)
  /\ WF_vars(LoopBlock \/ LoopDrain)
  /\ \A w \in Workers :
       /\ SF_vars(TakeTask(w))
       /\ SF_vars(WorkerExit(w))
       /\ WF_vars(StartTask(w) \/ FinishTask(w) \/ EscapeTask(w) \/ NotifyWaitQueue(w))

FairSpec == Spec /\ Fairness

-----------------------------------------------------------------------------
(* Properties *)

Of(q, p) == {i \in DOMAIN q : q[i].proc = p}

\* The threads that hold a package of p between two queues or execute it.
Carrying(p) == {t \in Threads : at[t] \in {"taken", "run", "move"} /\ pkg[t].proc = p}

\* Packages of p that left the wait queue (or never were in it) and whose end
\* has not been handled.
InFlight(p) ==
  Cardinality(Of(processQueue, p)) + Cardinality(Of(taskQueue, p))
    + Cardinality(Of(finished, p)) + Cardinality(Carrying(p))

\* A process has at most one package between addToQueue and the handling of its
\* end: the wait queue keeps the others back.  (Services whose end is handled by
\* the main thread.)
SerialExecution == \A p \in Processes : InFlight(p) <= 1

\* No two workers execute the same process at the same time.
NoConcurrentRuns ==
  \A v, w \in Workers :
    at[v] = "run" /\ at[w] = "run" /\ pkg[v].proc = pkg[w].proc => v = w

\* Main is inside a handler that concerns p.
Handling(p) == at[Main] # "idle" /\ pkg[Main].proc = p

\* A package waits only for an execution of its process that is still to end: the
\* notification that will move it cannot have been missed.
WaitingMeansBusy ==
  \A p \in Processes : waitQueue[p] # <<>> => processing[p] > 0 \/ Handling(p)

\* processingQueue_ names only processes with a package in flight: the one whose
\* end will release the process.  (After a stop tasks may be lost.)
BusyMeansInFlight ==
  \A p \in Processes :
    processing[p] > 0 => \/ stop \/ InFlight(p) > 0
                         \/ \E t \in Threads : at[t] \in NotifySteps /\ pkg[t].proc = p

\* Two threads inside the vector processQueue_ at once, one of them writing.
NoDataRace ==
  \A t \in Threads : at[t] = "move" =>
    /\ loop # "drain"
    /\ \A u \in Threads \ {t} : at[u] \notin {"move", "direct"}

\* A collector executes a package of register r.
Collecting(r) == Kind = "collector" /\ \E w \in Workers : at[w] = "run" /\ pkg[w].reg = r

\* The final status of a register is never overwritten by ON_QUEUE (the lock is
\* held from the push to the wait queue until ON_QUEUE is logged), and by START
\* only while a collector executes another package of the register, which will
\* log its own final status: another date, or a package that notifyWaitQueue
\* handed out twice.
FinalStatusStays ==
  [][\A r \in Registers : status[r] = "FINISHED" =>
       status'[r] = "FINISHED" \/ (status'[r] = "START" /\ Collecting(r))]_vars

\* Once stop_ is set every thread ends, whatever was queued: no thread sleeps
\* through the notification.
StopHalts == stop ~> Stopped

\* A package that addToQueue puts in processQueue is taken by the main loop, and
\* with it all that was left there.
DirectIsTaken == (at[Main] = "direct") ~> (processQueue = <<>> \/ stop)

-----------------------------------------------------------------------------
(* Refinement *)

\* The package of p in flight, wherever it is.
CurrentOf(p) ==
  {processQueue[i] : i \in Of(processQueue, p)} \cup {taskQueue[i] : i \in Of(taskQueue, p)}
    \cup {finished[i] : i \in Of(finished, p)} \cup {pkg[t] : t \in Carrying(p)}

Scheduler ==
  INSTANCE ProcessScheduler WITH
    Packages <- Requests,
    current <- [p \in Processes |-> CurrentOf(p)],
    backlog <- waitQueue

\* A service whose ends are handled by the main thread schedules its processes one
\* package at a time and in order.
ImplementsScheduler == Scheduler!Spec
=============================================================================
