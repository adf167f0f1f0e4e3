# TerraMA² in TLA+

TerraMA² collects, analyses and publishes environmental data.  A *web
application* keeps the registrations and drives five kinds of *services*
(collector, view, interpolator, analysis, alert), each a C++ process built on
`terrama2::core::Service`.  This directory models the part of the system in
which order matters: the queues and threads of a service, its start and stop,
its connection with the web application, its timers, the executions of a
collector, of analyses, of an alert and of a view, and the chain of processes
that start each other.  Nine components are checked with TLC on small instances,
and TLAPS proves the safety properties of all nine for every value of the
constants.

In what follows `S` is `src/src/terrama2/core/utility/Service.cpp`, `COL` is
`src/src/terrama2/services/collector/core/Service.cpp`, `TU` is
`src/src/terrama2/core/utility/TimeUtils.cpp`, `TCP` is
`src/src/terrama2/core/network/TcpManager.cpp`, `AE` and `ALE` are
`AnalysisExecutor.cpp` and `AlertExecutor.cpp`, `GEO` is
`src/src/terrama2/services/view/core/data-access/Geoserver.cpp`.

## 1. Inventory of the system

| component | where | state | operations | what makes it correct |
|---|---|---|---|---|
| Service queues and threads | `core/utility/Service.*` | `processQueue_`, `processingQueue_`, `waitQueue_`, `taskQueue_`, `mutex_`, `stop_`, main loop thread, pool | `addToQueue`, `addReprocessingToQueue`, `notifyWaitQueue`, `mainLoopThread`, `processNextData`, `processingTaskThread`, `stop` | one execution of a process at a time, in order, none lost or doubled; threads wake up and end |
| The five services | `services/*/core/Service.cpp` | timers, queues of the base class | prepare a task, execute, signal the end, add, update and remove a process | the end of every execution releases its process, whatever failed |
| Collector execution | `COL` 76-428, `DataAccessor*`, `DataRetriever*`, `FilterUtils` | the register in the log, the filter, local results | list, download, read, store, log each file; final result | nothing skipped, nothing stored twice, a status that tells the truth |
| Analysis execution | `services/analysis/core`, `ThreadPool.h` | contexts by hash of analysis and date, packages, Python interpreter, URIs in use | partition objects, run scripts, store the result | every object once, each script its own, contexts apart, one writer per URI |
| Alert execution | `services/alert/core` | the report of a run | read the newest dates, levels, comparison, notifications | who asked is told of each date, and only of what is so |
| Timers | `Timer.cpp`, `TimeUtils.cpp` | last emission, `QTimer` | compute the next emission | every period one emission, a week's on its day |
| TCP manager | `TcpManager.*` | `blockSize_`, last socket | read messages, send answers | every message handled once and whole |
| Data manager | `core/data-model/DataManager.cpp` and one per service | registries of providers, series, processes under a recursive mutex | add, update, remove from JSON | the service agrees with the database; timers follow the registries |
| Process logger | `core/utility/ProcessLogger.*` | one table row per execution: status, start, end, data timestamp, messages | `start`, `result`, `getDataLastTimestamp`, `checkTableConsistency` | a final status is final; interrupted runs are recognised |
| Service life cycle | `S` 70-181 and 262-294, `ServiceManager`, `services/appserver/main.cpp` | `stop_`, futures of the threads, configuration | start, change of the number of threads, stop, quit, destruction | no thread outlives the service, the pool has the configured size, a stop ends |
| Storagers | `core/data-access`, `impl`, `StoragerManager` | URIs in use | store a series | one writer per URI |
| View execution | `services/view/core`, `GEO` | in GeoServer: the workspace of the view, its store, layer and style; for dynamic rasters a table and a folder | register, publish again, clean up | what is reported as done is shown, what is removed is gone, whatever failed between two requests |
| Interpolation | `services/interpolator/core` | none | numerical | - |
| Web application | `webapp` (Node.js) | registrations, one TCP client per service | send configuration, start processes after others finish | a service gets the whole configuration; what follows a process is started |
| Web monitor, web components | `webmonitor`, `webcomponents` | user interface | - | - |

How they interact.  The web application sends messages over TCP
(`UPDATE_SERVICE`, `ADD_DATA`, `REMOVE_DATA`, `START_PROCESS`, `STATUS`, `LOG`,
`TERMINATE_SERVICE`).  The Qt main thread of the service handles them: it fills
the data manager, whose signals make the service create timers or purge queues;
a timer or `START_PROCESS` calls `addToQueue`.  The *main loop thread* turns
packages of `processQueue_` into tasks; the *workers* of the pool execute them
(collect, analyse, ...) through accessors and storagers, write registers with
the process logger, and end with `notifyWaitQueue`: directly on the worker
(collector, view, interpolator) or through a signal queued to the main thread
(analysis, alert).  `PROCESS_FINISHED` goes back to the web application, which
starts the processes that read the output.

What is hard.  Three kinds of thread share four containers, some of the
accesses without the mutex; a condition variable is notified without it;
exceptions are swallowed at different places of an execution, some before and
some after the process was marked busy; an edit purges two of the four places
that know a process; the timestamp that decides what is collected next is
written file by file and summarised at the end of a run, in a database that may
fail in between; `stop()` handles events while it waits.  The length of the
message being read belongs to no socket, and what is found behind a message is
thrown away.  One Python interpreter changes hands in the middle of scripts;
contexts are found by a hash that two executions may share.  A start that gets
lost between two processes is remembered by nobody.  A view is published with a
series of HTTP requests of which any may be the last.  `PROJECT.json` lists each
of these hazards at its line, with the properties that would catch it.

## 2. Modules

| module | what it is |
|---|---|
| `ServiceQueue` | the queues and threads of a service, and what the five kinds of service do to them |
| `ProcessScheduler` | what they promise: packages of a process one at a time, in order |
| `CollectCycle` | the runs of one collector and the timestamp in its register |
| `ServiceLifecycle` | start, resize, stop, end of the service process |
| `ServiceMessages` | one connection between the web application and a service, and the registries it fills |
| `AnalysisRun` | the executions of the analyses of a service: packages, interpreter, contexts, storing |
| `ProcessTimer` | when a scheduled process is executed |
| `AutomaticChain` | services and web application: processes that start others |
| `AlertRun` | the executions of an alert on the dates of an analysis |
| `ViewPublish` | the executions, the edits and the removal of a view, and what it has in GeoServer |
| `MC...` | values of the constants for TLC |
| `ServiceQueueProofs`, `CollectCycleProofs`, `ServiceMessagesProofs`, `AnalysisRunProofs`, `ProcessTimerProofs`, `AlertRunProofs`, `ViewPublishProofs` | theorems about the module they are named for, and their proofs |
| `LifecycleAndChainProofs` | those about `ServiceLifecycle` and those about `AutomaticChain`, two specifications that share nothing; hence the names `ChainInit`, `ChainNext`, `ChainSpec`, ... in the second |

How they fit.  `ServiceQueue` shows that executions of a process follow each
other (or, for three kinds of service, when they do not); `AnalysisRun`,
`CollectCycle`, `AlertRun`, `ViewPublish` and `AutomaticChain` take executions of one process
in turn.  `ProcessTimer` gives the triggers that `ServiceQueue` takes from
anywhere.  `ServiceMessages` has the messages of one service unit by unit;
`AutomaticChain` has many services and takes from it only that the first of the
messages found together is read, and that a service without its data dies of
`START` or drops it.

### ServiceQueue

`mutex`, `processQueue`, `processing`, `waitQueue`, `taskQueue`, `stop` are the
members of `Service` (`Service.hpp` 238-246); `processing[p]` counts the
occurrences of `p` in `processingQueue_`, whose order nothing reads.  `finished`
is the event queue of `analysisFinished` and `alertFinished`; `at` and `pkg` are
program counter and local package of each thread; `status` and `lastRegister`
abstract the log; `registered` is what the data manager knows.  An
`ExecutionPackage` is process, register and position of the date: the dates
themselves are never compared.

The grain of the steps follows the locks.  A critical section without a call
that may block is one step where its effect is atomic to all other threads;
`addToQueue` is split where another thread *can* come between, because
`notifyWaitQueue` does not lock: decision (`Trigger`), push (`AddToProcessQueue`
or `AddToWaitQueue`), log (`LogOnQueue`).  `notifyWaitQueue` is five steps:
erase from `processingQueue_`, test, front, pop, push and notify.  The test and
the wait of the main loop are separate steps (`LoopCheck`, `LoopBlock`), with
spurious wake-ups.  `addReprocessingToQueue` runs on the main thread without
the lock, one date a step, and may fail at each.

`Kind` selects who runs `notifyWaitQueue` (the worker, or the main thread), what
the slot does (`analysisFinished` erases the process itself and calls
`notifyWaitQueue`, which erases again), how an execution escapes its handlers
(`Faults`), what an edit purges, and who writes `START` in the middle: the
collector after every file (`StatusOfFile`).  `Halt` is the end: all threads ended, or a
thread called `front` or `pop` on an emptied queue, which is undefined.

`ProcessScheduler` is the abstract specification: a set of packages per process
in the order of their triggers, of which the first may be executed.
`ImplementsScheduler` (by `INSTANCE`) says that the queues of a service whose
main thread handles the ends implement it.

### CollectCycle

`published` is the server (external): files of a data set appear in date order.
`past`, `status`, `stamp` are the log of the process: the last register, and the
maximum of `data_timestamp` over the older ones, the only thing ever read of
them.  The other variables are locals of `collect()` and of the retriever it
calls; `stored`, `offered` and `failed` are history.  A timestamp is a number, 0
is NULL.

One action per stage of `collect()`: `Begin` (register, filter), `ListDataset`,
`Download`, `ReadFile`, `StoreFile`, `LogFile` (the end of the callback),
`Delivered`, `Finish`, and the handlers `NoData` and `Abort`.  Each stage may
fail in the ways of `FaultKinds`; `UpdateService` is the consistency pass of
the logger on every `UPDATE_SERVICE`; `Crash` and `Restart` may come anywhere.

The properties hold with all faults at once because they except exactly what
went wrong: `failed` remembers which file met which fault, `Harmless` and `Kept`
say which of them cannot cost a file.  What is excepted is listed in section 5.

Data left out: the dates of the user's own filter, aliases, the contents of
files (a file has a date in its name, `Stamp`, and a newest date, `Mark`), the
intersection beyond its success, series read directly from a database.
`"folder"` is the `NoDataException` of a folder mask without match
(`DataRetrieverFTP.cpp` 305-309), which ends the run as a warning.  A logger
that throws in a handler of the callback is taken as one that throws at its end;
one that throws in the handlers of `collect()` leaves the process busy, and the
collector is `"stuck"` until the service is started again.

### ServiceLifecycle

`stack` is the call stack of the Qt main thread: `stop()` calls
`processEvents`, so a message may be handled inside it, and that handler may
again call `stop()` or `updateNumberOfThreads`.  `pool` and `loop` are the
states of the futures.  `mutex` says that the *main thread* holds `mutex_`; the
critical sections of the other threads are single steps that need it free.  A
`std::mutex` locked again by its holder never returns.  When the vector of
threads grows under the range-for of `stop()` its iterators are invalid; two
outcomes are allowed: the loop goes over what it saw, or it ends at once.  The
TCP manager is destroyed before the service, so the destructor gets no message.

### ServiceMessages

The client of the web application (`Service.js`, `TcpService.js`,
`TcpManager.js`) and a collector service (`TcpManager.cpp`, `ServiceManager.cpp`,
`DataManager.cpp`).  A message is a sequence of units: size, signal, text.
`wire` and `buffer` hold units, `blockSize` is `blockSize_`, which outlives the
connection; `Behind`, `Recognized` and the `Read...` actions are `readReadySlot`:
wait for a size, wait for so many bytes, handle one message, discard the rest.
`AsSize` says what a unit means when it is taken for a size.

`phase` is the client: connect, `STATUS`, `UPDATE_SERVICE` if the service is not
loaded, a second later the first `ADD_DATA`, read from the database in parts
(`snapshot`).  Each edit of the user changes the database and is sent on its
own.  `work` is what is left of an `ADD_DATA` or `REMOVE_DATA` being handled, one
item a step: `addJSON` removes and adds with the signals blocked, and what
throws on the way leaves them blocked.  `trouble` is history: what the
properties except (a message sent into another, a cut in the middle, an edit
that raced the first `ADD_DATA`, an update that threw halfway, ...).

### AnalysisRun

`pc[r]` goes through `AnalysisExecutor::runAnalysis`: context, load, cut into
packages, wait for their futures, store, clean the Python states, report, clear
the context.  `tasks` is the queue of `ThreadPool.h`; a package takes the
interpreter (`holder`, `current`), loads the script of its analysis (`module`),
takes it as its function (`script`) and calls it for each object; an operator
in the middle of a script gives the interpreter away (`OperatorLock`).
`context` and `errors` are the maps of `ContextManager`, found by `Hash`;
`uris` is `vecURIs_` of the `StoragerManager`, `asleep` who waits in its condition
variable.  An operator that fails leaves its error in the context that it finds
(`OperatorFails`), a script that raises in that of its execution (`Raise`).
`Packages`, `First`, `Last` are the arithmetic of the partition, for objects and, with the same formulas, for
the rows of a grid.

Left out: what a script computes (an object gets *a* value, `results` counts
how often), operators apart from giving the interpreter away, failing and being
misused, analyses of type DCP that differ only in data.  `mishaps` records what makes an
execution one the properties say less about.

### ProcessTimer

Pure arithmetic (`FrequencySeconds`, `ScheduleSeconds`, `AsInt`, `Deadlines`) on
a clock with ticks finer than the seconds the code rounds to, and the events
that use it: `Timeout`, `Edit`, `Crash`, `Restart`, `LogChanges`.  A day has 6
ticks and a week 2 days in the run; the arithmetic is the same, and the proofs
are for any.  `AsInt` is the conversion to `int` at `Timer.cpp` 168, with
its wrap.  A `QTimer` may come early by less than a second and late by as long
as the main thread is busy.

### AutomaticChain

One service per kind, the processes of each, and the web application.  A report
`PROCESS_FINISHED` is three units that `Deliver` cuts out of portions as
`Service.js` does with `tempBuffer`; `Lookup`, `StartNext` and `StartAlert` are
`ProcessFinished.handle` and what `TcpManager.js` does with its result.  `Timed`
are the processes with a schedule of their own, of any kind; an alert whose view
is published has none, because the form gives the schedule to the view
(`alert-register-update.js` 1083-1121).
`runs`, `owed`, `started`, `excused` are history: which process has to follow
which run, and what became of it.  `OnConnection` and `OfHandler` say of which
pairs a connection or a handler is in charge; `InFlight` is all of them, and what a
crash, a cut or a restart loses.

### AlertRun

`Store`, `Erase` and `StoreAgain` are the analysis: it stores rows for a date,
and may be executed again for one.  `Read` is `runAlert` down to the report
(newest dates, `Level` by the thresholds of the legend, `Compares`, `MaxRisk`,
`RiskChanged`), `Wanted` and the following actions are the loop over the
notifications with its two ways to fail.  `told` is what was sent.

### ViewPublish

`view` is the registration, `files` what the series have (external), `job` the
execution of `viewJob`: a stage, and what it has read.  `server` is the workspace
of the view in GeoServer with its stores, layer and style; `rows` the table of a
dynamic raster, `folders` where its `.properties` files are.  An execution goes
through the stages of `generateLayersInternal` by the kind of the series:

- `table` (PostGIS) and `vector` (OGR): delete the layer, register the store
  unless there is one, register the feature type; a series of vectors may be
  dynamic and have several files, which are registered one after the other under
  the same layer and the same store (`NextFile`);
- `coverage` (GDAL, static): delete the layer, put the file;
- `mosaic` (GDAL, dynamic): list the rasters, create the table, make the folder
  again, add the dates the table lacks; unless there is a store, create the
  mosaic and configure its coverage in a second request;

and then the style and its assignment.  One request is one action, which may
fail before it (`StepFails`) or have its effect and lose the answer; where nobody
looks at the answer the action says so.  When the log fails in a handler of
`viewJob` the execution leaves without `notifyWaitQueue` (`Stalls`): the view is
`stuck` until the service is started again.  `main` is the Qt main thread in
`removeCompleteView`: table, folder, workspace, while it holds the lock of the
data manager that `Begin` and `ListRasters` need.  `mishaps` is history: what the
properties except.

GeoServer itself is external: layer names are unique in a workspace, a store is
made with the file it is given and keeps it, a deleted workspace takes its
contents along.  Left out: what a style contains, the query of a table, series
with several data sets, DCPs, and names of workspace and layer that a user gave
to two views.

## 3. Runs

| run | what it asks | bounds | distinct states |
|---|---|---|---|
| `queue_serial` | alert service: one package in flight per process, refinement of `ProcessScheduler` (order, no copy, none lost) | 2 processes (one reprocessing 2 dates), 2 workers, 3 triggers, both edits, faults `start clone tail erase` | 377 000 |
| `queue_live` | analysis service: nothing stranded, nothing busy for ever; a stop ends, a queued package is taken | same, no edits, fault `start` | 40 000 |
| `queue_pool` | collector service: a final status is never overwritten by `ON_QUEUE`, by `START` only while another package of its register is executed | 2 processes, 2 workers, 4 triggers without reprocessing, both edits, faults `start clone tail` | 1 059 400 |
| `collect` | nothing skipped, nothing twice, DONE means all, no register is left in START, all stored in the end | 3 files (one empty, one with records later than its name), 3 failures of any kind | 251 486 |
| `life` | threads as configured, none left when the service has finished, a stop ends | 2, 5 or 6 threads, 4 messages, nested terminate | 26 546 |
| `messages` | each message is read, whole; database, registries and timers agree; no deadly start | 1 provider, 1 collector, 4 messages, failures of log, service and connection | 172 238 |
| `analysis` | own script, each object once, nothing taken away from an execution at work unless it shares its hash, sleepers woken, true reports, every execution ends | 3 executions of 2 analyses, two of the same hash, 3 objects, 1 grid row, 2 threads, 1 fault of any kind | 145 169 |
| `schedule` | the distance and hour of emissions, across crashes, edits and failures of the log | 8 schedules, 22 ticks | 3 280 570 |
| `chain` | what has to follow a run is started or excused; only after a success; in the end | collector, interpolator, two views, an alert; 1 start, 2 instants, 1 fault of any kind | 262 630 |
| `alert` | each date is told to who asked, nothing else is unless computed again, DONE means tried | 2 objects, 4 possible results, 3 dates, 1 redone, 1 fault, 4 notifications | 959 316 |
| `view` | DONE means shown, removed means gone, shown in the end | a series of each kind and a second mosaic in a subfolder, 2 dates or files, 2 legends or none, 1 edit, 1 failure or crash at any request | 1 720 662 |
| `bug_concurrent_runs` | *violated*: a collector process never runs on two workers at once | 2 processes, 2 workers | |

Type invariants.  `TypeOK` is a conjunct of the first property of the module in
`life`, `messages`, `chain` (there `ChainTypeOK`), `alert` and `view`, and is
proved for every module.

Why the bounds are enough.  *Queues*: two processes and two workers are the
smallest instance in which executions of one process can meet each other and
those of another; three registers let one package be in flight, one wait and one
be decided about at the same time, and the reprocessing process adds two
packages per register.  The collector has four registers without dates: that is how
often a package must be triggered to be handed out twice (S 497), which is one way
to `START` after a final status.  Nothing in the queues looks at more than one process,
two threads or the head of a sequence.  *Collector*: a watermark can be wrong
about a file only through one older and one newer file; three failures leave
room for one before, between and after successes, or for a failure, a crash and
a failing log.  *Life cycle*: 5 and 6 exceed the 4 threads that `start` makes at
most, 2 is less, so growth, growth by nothing and reduction all happen.
*Messages*: four are the start of a service (`STATUS`, `UPDATE`, `ADD`) and an
edit, or a request between two of them; the same four again after a crash or a
cut.  With two providers, so that a series may change its provider, the
instance has 872 153 states, and with five messages, which an update that throws
halfway takes, 3 630 381 (without liveness); neither has a violation.
*Analysis*: three objects on two threads leave a rest of the division, the
analysis with one has fewer than threads; two executions share a hash and all
all three a URI.  *Schedule*: 22 ticks are nearly four days of two-day
weeks; one frequency has an interval that wraps to a negative one, one that
wraps to less than a second, two weekly schedules a day that does not exist (0 and
one too large).
*Chain*: one start leads through collector, views and alert; larger instances
were checked as well: collector, analysis, view, alert in a row; one analysis
with two views (645 954 states, with liveness); two starts of collector, view
and alert (1 161 338 states).  *Alert*: three dates are the two that are
compared and one that displaces them; the notifications are one of each kind.
*View*: an edit changes the kind of the series, the series within a kind, or the
legend; a failure meets each request of a first, a second or a third execution.

`CHECK_DEADLOCK FALSE` is set where the system really stops: in `life` the main
thread waits for itself after a reduction of the pool (section 5), in
`collect` a run whose log fails twice leaves its process busy for ever, in
`analysis` all executions end, in `alert` no more results come, in `view` the
view was removed.

Every property of a passing run has a mutant in `PROJECT.json`: a plausible
mistake in one definition (a forgotten notification, a missing release, a swapped
end of a queue, `>=` for `>`) under which TLC reports the property.

### Fairness

`ServiceQueue`: weak fairness for what a thread does inside a handler or an
execution (the operating system runs threads, executions end), strong fairness
for taking `mutex_`, since every holder lets it go within a few steps but a
waiting thread may find it taken again and again.  Triggers, edits, the stop
and spurious wake-ups are not fair.  `CollectCycle`: the timer goes on
triggering, a run goes on, a service that died is restarted; failures are
bounded, so a server that fails for ever is not claimed to be collected.
`ServiceLifecycle`: the main thread goes on, tasks end, threads get the mutex.
`ServiceMessages`: bytes arrive, the event loop reads and handles them, the
timers of the client run; users, cuts and crashes are not fair.  `AnalysisRun`:
an execution goes on, an idle thread of the pool takes a package, a package goes
on (scripts and storagers end).  `AutomaticChain`: messages arrive and are read,
handlers go on; timers, users, executions and reconnections are not fair.
`ViewPublish`: the schedule goes on triggering, executions and clean-ups go on, a
service that died is restarted; users, data, failures and crashes are not fair.
`ProcessTimer` and `AlertRun` have no liveness properties and state no fairness.

## 4. Proofs

"None" means that the theorem holds of every instance the named assumptions on
the constants allow.

| module | theorem | property | further hypotheses |
|---|---|---|---|
| `ServiceQueueProofs` | `TypeCorrect` | (`TypeOK`) | none |
| | `SerialCorrect` | `SerialExecution` | `Kind \in MainKinds` |
| | `WaitingMeansBusyCorrect` | `WaitingMeansBusy` | `Kind \in MainKinds`, `"erase" \notin Faults` |
| | `BusyMeansInFlightCorrect` | `BusyMeansInFlight` | `Kind \in MainKinds`, `Edits = {}`, no `"clone"` in an analysis service, no `"tail"` in an alert service |
| | `FinalStatusStaysCorrect` | `FinalStatusStays` | none |
| | `ImplementsSchedulerCorrect` | `ImplementsScheduler` | `Kind \in MainKinds` |
| `CollectCycleProofs` | `CollectTypeCorrect` | (`TypeOK`) | none |
| | `NothingSkippedCorrect` | `NothingSkipped` | `Regular` |
| | `DoneMeansAllCorrect` | `DoneMeansAll` | `Regular` |
| | `StoredOnceCorrect` | `StoredOnce` | `~Custom` |
| | `StartMeansRunningCorrect` | `StartMeansRunning` | none |
| `LifecycleAndChainProofs` | `FinishedMeansEndedCorrect` | `FinishedMeansEnded` | `NoNestedUpdate` |
| | `ThreadsAsWantedCorrect` | `ThreadsAsWanted` | `NoNestedUpdate` |
| | `ChainTypeCorrect` | (`ChainTypeOK`) | none |
| | `AccountedCorrect` | `Accounted` | none |
| | `OnlyAfterSuccessCorrect` | `OnlyAfterSuccess` | none |
| `ServiceMessagesProofs` | `MessagesTypeCorrect` | (`TypeOK`) | none |
| | `EachIsReadCorrect` | `EachIsRead` | none |
| | `TimersFollowCorrect` | `TimersFollow` | none |
| | `SynchronisedCorrect` | `Synchronised` | none |
| | `NoDeadlyStartCorrect` | `NoDeadlyStart` | none |
| `AnalysisRunProofs` | `PackagesDisjoint`, `PackagesCover` | (the partition) | none |
| | `AnalysisTypeCorrect` | (`TypeOK`) | none |
| | `NothingTakenAwayCorrect` | `NothingTakenAway` | none |
| | `OwnScriptCorrect` | `OwnScript` | none |
| | `SleepersAreWokenCorrect` | `SleepersAreWoken` | none |
| | `ReportIsRightCorrect` | `ReportIsRight` | none |
| | `EachObjectOnceCorrect` | `EachObjectOnce` | none |
| `ProcessTimerProofs` | `TimerTypeCorrect` | (`TypeOK`) | none |
| | `SpacedCorrect` | `Spaced` | none |
| | `NoLaterCorrect` | `NoLater` | none |
| | `FirstAtItsHourCorrect` | `FirstAtItsHour` | none |
| | `OnItsDayCorrect` | `OnItsDay` | none |
| | `NoWeekMissedCorrect` | `NoWeekMissed` | none |
| `AlertRunProofs` | `TypeCorrect` | (`TypeOK`) | none |
| | `DoneMeansTriedCorrect` | `DoneMeansTried` | none |
| | `NothingElseToldCorrect` | `NothingElseTold` | none |
| | `EachDateToldCorrect` | `EachDateTold` | `LegendAscends`, `LastValues > 1` |
| `ViewPublishProofs` | `DoneMeansShownCorrect` | `DoneMeansShown` | none |
| | `RemovedMeansGoneCorrect` | `RemovedMeansGone` | none |

They hold for any number of processes, workers, registers, files, executions,
threads, messages, services, faults, notifications, series, schedules and failures, and any length
of a day.  The properties themselves except what went wrong by name, as in the
runs.

The hypotheses.  `MainKinds` are the analysis and the alert service, whose main
thread handles the ends of executions; for the other kinds
`bug_concurrent_runs` and section 5 show the opposite.  What `WaitingMeansBusy` and
`BusyMeansInFlight` exclude are the faults and edits that leave a process waiting
or busy (section 5).  `Regular`: one data set listed by date, the newest date of a file is
before the next file, not `DCP - CSV custom`; without any one of them TLC refutes
`NothingSkipped`.  `StoredOnce` needs only the last.  `NoNestedUpdate`: no
`UPDATE_SERVICE` is handled inside `stop()`.  `LegendAscends`: a higher level
does not begin at a smaller value, and no notification asks for a level that the
legend lacks; the service sorts levels by number, not by value
(`core/utility/JSonUtils.cpp` 393), so this is up to who registers them.
`LastValues` is 6 in the code (`services/alert/core/JSonUtils.cpp` 80).

Few of the properties are inductive.  What each proof adds:

*Queues.*  `SerialExecution` does not say why `addToQueue` finds no package in
flight when it decides to push.  `SerialInv` adds that a process with a package in
flight is in `processingQueue_`, exactly once (`ProcessingOnce`), that a wait queue
has packages of its own process (`WaitQueuesOwn`), that packages of one process
are never at two places (`InFlightApart`, `InFlightOnce`), and where workers and
main thread can be.  `WaitInv`: a process that has packages waiting is busy, or
the main thread is about to release it (`WaitsForEnd`, `QueuesBehind`).  `BusyInv`
turns it around: who is busy has a package in flight whose end will release it, or
is being released, or the service stops.  `LogInv`: packages have registers that
were given out; a register not yet given out, and the one whose package was just
put in a wait queue under `mutex_`, has no final status and no worker on it
(`Unfinished`), so the `ON_QUEUE` that follows overwrites none; the `START` of a
collector is written by a worker that executes a package of the register.  The
refinement is proved step by step under `SchedulingInv`,
which adds that packages wait in the order of their triggers and are older than
the one the main thread is deciding about (`NewestAtMain`) and that who pops
takes what it has read (`PopPlace`): every action is then a trigger, a start, an
end or a loss of the abstract scheduler, or changes nothing it can see.

*Collector.*  `NothingSkipped` and `DoneMeansAll` compare log and history between
runs only.  `CollectInv` says what holds during one: `TimesOK`, no timestamp that
is or may become the watermark passes a file that is missing; `OrderOK`, files
are delivered by date, so what is still to do is newer than the file in work, and
while nothing has failed all that is missing is still to come.  `OnceInv`: what is
stored is behind the watermark, or its timestamp is still held by the run that
stored it (`Behind`, `Left`), so that no filter asks for it again.

*Life cycle.*  `LifeInv` follows the call stack: while every frame is a `stop()`
(`Stopping`), or its bottom is a change of the number of threads (`Resizing`), it
says which futures were already joined (`Joined`), that a loop that was told to
end never begins again (`Over`, `Once`) and which threads live (`Living`).

*Messages.*  `TypeInv` has the one thing about bytes that a type does not say:
what is on the wire and in the buffer is a stretch of whole messages in order, cut
anywhere (`Stretch`).  While no trouble came, one message at most is on its way
and `blockSize_` is its size or 0 (`Framed`); this is `EachIsRead` for any
portions in which bytes arrive.  `TimersInv` joins timers, registered collectors
and blocked signals at every item.  `Settled` follows the contents: the database
is consistent (`Database`), what was read for the first `ADD_DATA` is part of it
(`Snapshot`), and while nothing but a failing log or a handler that threw
has interfered (`Calm`) the message on its way, the items in hand and the registries are together what the
database was told (`Exchange`, `Registries`): what the
database has of a collector is coming, or in hand, or registered, and no item in
hand can fail in a way that loses it (`Sound`, `Harmless`).  `Startable`
adds the `START` on its way: if the service had been told everything when it was
sent, only requests are on their way and the process is registered, or will be
when the items in hand are done.

*Analyses.*  Each invariant contains the one before.  `IdleInv`: a package is in
`tasks` exactly while it is queued, and an execution that no longer waits has no
package that is queued or taken.  `ScriptInv`: who is between loading and calling
holds the interpreter, so the module `analysis` is its own.  `ContextInv`: the
executions of an analysis follow each other, and one whose context nobody shared
finds under its hash its own context and its own errors only; this is the second
half of `NothingTakenAway`, `IdleInv` the first.  `ReportInv`: before
it reports, an execution has stored its result if and only if it has no error.
`ValueInv`: an object has its one value exactly if its package is through with it,
and nothing is stored before every object has.  `SleepInv`: who has a
URI is storing and who sleeps has not stored; then every storager that ends, by
returning or by throwing, wakes all who sleep, and `SleepersAreWoken` is inductive.
The partition goes
through bounds on `size \div n`.

*Timers.*  `SpacedInv`: while there was an emission the timer or the log remembers
it (`Remembered`), and a timer that runs is at least a period after what it
remembers (`Distance`).  `WeeklyInv`: a timer of a week aims at the first of its
weekdays after the day it was started (`AimsAt`), across `ScheduleSeconds`,
whose rounding and wrap are lemmas of their own.

*Alerts.*  `ReportSound` and `ReportComplete` say that an execution that sends has
in its report what the database says of its date, if nobody has stored that again;
`ToldIsDue` and `DueIsTold` carry it to what was told, with what the loop over the
notifications has still to do (`Remains`).

*Chain.*  `Accounted` compares what is on its way with what is owed, and says
nothing of where a pair may be.  `ChainInv` does: what a service has sent and the
web application has not cut out yet begins anywhere in a message, and from there
every run has its units once and in order (`Streams`), so that `Deliver`, however it
cuts, takes whole messages out and leaves such a stream; a pair is at one place
only, in one stream, one handler or one `START` (`Apart`), so that a step which
takes it from there has accounted for all of it (`Balanced`).  `Causes` carries the
run, the result and the date that a start names from the handler through the
connection to the queue, while runs are added behind it and time passes; this is
`OnlyAfterSuccess`.  `Faultless`: before the first fault every service is
connected.  The proofs rest on the named assumption of the module: a process is of
one kind, nothing follows an alert, a view has one alert and an alert one view.

*Views.*  `DoneMeansShown` needs what an execution has achieved at each of its
stages (`Halfway`), that what the last one achieved is still there (`Achieved`),
and that store, layer and table of a mosaic belong to the series of the view
(`OneSeries`).  `RemovedMeansGone` needs that what
`removeCompleteView` has passed is not made again by an execution that nothing
excuses (`TableGone`, `FolderGone`, `WorkspaceGone`).

TLC finds no violation of these invariants on the instances of the runs (`WeeklyInv`,
which quantifies over all days, is proved only).
Proving `TimersFollow` showed that an update that throws halfway (section 5) leaves
the timers behind: the model did not record it as a trouble of its own and its run,
with one provider, could not reach it.

Only model-checked: the properties of liveness, which are outside the prover,
`DirectIsTaken`, `StopHalts`, `EverythingStored`, `StopEnds`, `ComesInStep`,
`EachFinishes`, `Followed`, `ShownInTheEnd`.

## 5. Where code and comments disagree

Standing run (`findings` in `PROJECT.json`): *concurrent executions*
(`bug_concurrent_runs`, S 492).  A worker in `notifyWaitQueue` and the main thread
in `addToQueue` both put a package of the same process in `processQueue_`.

Seen while modelling, in the actions of the modules; a property that holds in
its run excepts the case by name (`Troubles`, `Mishaps`, `failed`, `excused`,
`astray`), or the configuration excludes it.  A row with a configuration is a
variation of the run's that TLC refutes.

*Queues and life cycle*

| what | property | configuration |
|---|---|---|
| the notification falls between the predicate and the wait of the main loop; the package stays until another trigger comes (S 505) | a package in `processQueue_` is taken | `Kind = "collector"`, 1 worker |
| the main loop drains `processQueue_` while `notifyWaitQueue` pushes to it (S 502) | `NoDataRace` | any kind |
| a package is left in `waitQueue_` with nothing to release it (S 492) | `WaitingMeansBusy` | `Kind = "collector"` |
| `erasePreviousResult` throws at a later date of a request: the dates before it stay in `waitQueue_` until the next request (S 370) | `WaitingMeansBusy` | `Kind = "analysis"`, `Faults = {"erase"}` |
| a package handed out twice is executed twice: the `START` that the collector writes after a file overwrites the final status of the other execution, as it does for the dates of a reprocessing request, which share a register (COL 315) | `FinalStatusStays` excepts it | |
| one package is executed twice, another lost (S 497) | `ImplementsScheduler` | `Kind = "collector"`, 4 triggers |
| an update of an interpolator, a failed `clone`, a failed log in the tail of an alert leave the process busy for ever | `BusyMeansInFlight` | `Edits = {"update"}`, `Faults = {"clone"}` or `{"tail"}` |
| a smaller number of threads makes `updateNumberOfThreads` call `stop(true)` while it holds `mutex_` (S 285), though `Service.hpp` 182 has it change the number of threads | `NoSelfDeadlock` | `Sizes = {1, 2}` |
| `UPDATE_SERVICE` handled inside `stop()` starts the service again (S 169) | `StopEnds` | `Nested = {"update"}` |
| `UPDATE_SERVICE` handled inside `stop()` adds threads nobody waits for (S 159) | `FinishedMeansEnded` | `Nested = {"update"}` |

*Collector*

| what | property | configuration |
|---|---|---|
| the callback writes the timestamp of a file whose storing failed; the final result would correct it, a crash before that leaves it and the file is never collected (COL 315; the comment at COL 238 says "if any exception happens, don't update the data timestamp") | `FailedIsAskedAgain` | `Faults = {"store", "crash"}`, 2 failures |
| a failed file of one data set is hidden by a newer one of another (COL 239) | `NothingSkipped` | `TwoDatasets`, `Faults = {"store"}` |
| `DCP - CSV custom` logs the time of the run after a failure (COL 363) | `NothingSkipped` | `Custom = TRUE`, `Faults = {"store"}` |
| a file appears whose name is dated before the newest record of an earlier one (FilterUtils.cpp 404) | `EverythingStored` | `Mark[f] >= Stamp[f + 1]`, `Faults = {}` |
| a file that cannot be opened is taken for one without data | `NothingSkipped` excepts it | |
| the log fails in a handler of `collect()`: `notifyWaitQueue` is not called and the process is busy for ever (COL 385-392, 418-427) | `EverythingStored` excepts it (`"stuck"`) | |
| an abandoned run forgets the timestamps of what it stored (COL 419) | `StoredOnce` excepts it | |
| a running collector is marked INTERRUPTED by `UPDATE_SERVICE` | (model) | |

*Messages*

- A `blockSize_` left by a connection that was cut, or read out of the middle of
  a message, is the size of the next one: the service waits for bytes that never
  come, or takes what comes as garbage, until it dies (`TCP` 185; excepted as
  `"cut"` and `"burst"`).
- Several connections share `tcpSocket_`: answers go to the one that came last.
  Not modelled.
- `startProcess` of an unknown process throws out of a `noexcept` function and
  ends the service (S 594); the comment there speaks of an exception that was
  already logged.  `NoDeadlyStart` says that a service that was told everything
  is safe from it.
- When the `add` inside an update throws, the signals of the data manager stay
  blocked and no later edit reaches the timers (`DataManager.cpp` 324-333; excepted as
  `"halfway"`).  It takes an update of a series that names a provider the service
  does not have: two edits in the second between `UPDATE_SERVICE` and the first
  `ADD_DATA`.
- An update of a provider is looked up under another key than the one it is sent
  with (`webapp/core/facade/DataProvider.js` 228).

*Analyses*

- A misused operator puts its error in the map of the analysis, which the
  execution does not read: partial results are stored and reported as done.
- Without an output grid the error goes to a context that was never added and is
  lost (AE 1047).
- A validation runs without the mutex of the interpreter
  (`PythonInterpreter.cpp` 659) and can replace the script of a running analysis.
- The context is cleared after the signal that lets the next execution of the
  same hash begin (AE 251): the next one may find the old context, or lose its
  own (excepted as `"shared"`).

*Timers*

- The weekdays of the web application are 1 (Sunday) to 7, those of boost 0
  (Sunday) to 6: every weekly process is executed a day late, and 7 throws, so that
  the process has no timer.  0 would be refused (`Timer.cpp` 155).
- A first emission is up to two seconds early: the hour is rounded to seconds, and
  a `QTimer` may come early by less than one.
- `"month"` and `"year"` are promised by `Schedule.hpp` 79-81 and throw.
- A weekly process that is started or edited on its own day, before its hour, is
  put off by a week (TU 289; `NoWeekMissed` speaks of later days only).
- One that a `QTimer` calls early just before midnight is executed on that day
  and on the next (`Inside` excludes it).
- A period of more than 24 days does not fit into the `int` of `QTimer::start`.

*Chain*

- The outputs of an interpolator are never followed, though `TcpManager.js` 462
  names interpolators: `ProcessFinished.handle` has no case for them.
- An alert whose view was generated is started though it is inactive.
- For a view that failed, the handler rejects over an undefined list.
- An analysis of two inputs of the same collector is run once per input.
- A report without a connection, or behind a broken header, is lost with all that
  should follow; nothing asks for it again.

*Alerts*

- An execution reads the newest dates, not the one it was started for; a date that
  was stored while another alert waited is told twice, the older one not at all.
- While the date before is being computed again it is missing, and a report
  compares with the one before that: it tells a change that is not due, or misses
  one (excepted by `Stands` and `Settled`).
- An exception of the mail library that is no `NotifierException` ends the
  execution as an error although others were told, and the rest is not; a wrong
  configuration ends it as done although nobody was told.
- A legend that is not registered ends the execution without a status in the log
  (ALE 548-553).
- Alerts on grids never notify a change: `updateReportGridDataset` does not set
  `riskChanged_`, though `Alert.hpp` 71 promises a notification when the risk
  changes; their greatest level is taken from the first
  raster and put through `riskLevel` again as if it were a value.
- Values above all thresholds get the level of those without one and are neither
  compared nor counted.
- `Alert.hpp` 70 says "greater then", the code compares with `<=`.
- The branch for dates in descending order (ALE 307, 412) cannot be reached.
- Levels are assumed to ascend; they are numbered in the order of the form
  (`alert-register-update.js` 1032-1046).

*Views*

- A mosaic whose second request failed has its store, so no later execution
  configures it: it stays without title, extent and time for ever, and every
  execution reports it as done (GEO 2062 says "register datastore and layer if
  they don't exists"; excepted as `"halved"`).
- A dynamic series of vectors with two files or more is never shown: the second
  file is to be a feature type of the store that was made with the first
  (GEO 217-246, 771-799, 1068-1075), and every execution fails, after it has deleted
  the layer.
- A logger that throws in a handler of `viewJob` leaves the view busy until the
  service is started again (`services/view/core/Service.cpp` 259-334).
- The names of the layer are lower-cased where its files are made (GEO 1962) and not
  where they are removed (GEO 1603): with a capital in the name they stay (`Masked`).
- An edit that gives a view another series removes nothing from GeoServer.  The
  layer still belongs to the store of the old series: with a table or a vector
  file every execution ends as an error from then on; a mosaic keeps its old
  layer and adds the new rasters to the old table (excepted as `"moved"`).
- An execution that fails between deleting the layer and registering it leaves
  the view without a layer until the next one.
- Nobody looks at the answer when the style is assigned (GEO 1888) or the store of
  a table is made: the view is done with the style of GeoServer, or fails later.
- `cleanup` looks for the `.properties` files in the folder of the provider,
  `registerMosaics` puts them below the folder mask of the data set (GEO 1618 and
  1964): with a mask they stay (`Masked`).
- An execution that goes on while its view is removed makes workspace, table or
  folder again (excepted as `"late..."`).
- A removal that fails halfway, or is sent while the service is down, is not
  repeated; the service only logs "Please remove it manually".

*Reprocessing*: the loop over the dates of a request (S 363) adds two truncated
numbers of seconds; a period below a second would never end it.  Periods come
from the form in whole seconds.

## 6. Not modelled, and plan

Not modelled, and why:

- The numerical and geographic code: operators of the analyses, interpolation,
  drawing, projections, the contents of styles.  They are functions of data with no
  state that outlives a call; a model would be a transliteration.
- The drivers (`impl/DataAccessor*`, `impl/DataStorager*`, TerraLib): they differ
  in formats.  What an execution sees of them, files in an order that may be
  unreadable, newest date, all or nothing stored, is in `CollectCycle` and
  `AnalysisRun`.
- Alerts on grids: their report never compares and maps a level through the
  legend again, so no property of `AlertRun` would hold of them.  Documents and
  images of an alert, and its additional data.
- The registries of the other four kinds of service: `ServiceMessages` has the
  collector's, the others repeat it.
- Several connections to one service; the web application's pages, routes,
  sessions and data base; the monitor; installation, docker, vendored code.
- The effect of a data race on the memory of a container is undefined and is not
  modelled beyond the interleaving of whole operations.

Most of the repository's lines are of these kinds, which is why the map covers a
small part of them.

Planned, most important first:

1. `ReprocessingDates`: the dates of a request against a reference definition.
2. `ProcessLog`: registers of several processes in one table.
3. The registries of the other services, with what they share with the collector's.
