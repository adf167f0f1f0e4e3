--------------------------- MODULE ServiceLifecycle ---------------------------
(***************************************************************************)
(* Start, resize, stop and end of a service process: the threads of        *)
(* terrama2::core::Service and the Qt main thread that makes and joins     *)
(* them.                                                                   *)
(*                                                                         *)
(* UPDATE_SERVICE starts the service or changes the number of its threads, *)
(* TERMINATE_SERVICE stops it.  stop() waits for the threads and handles   *)
(* the events of the application meanwhile (processEvents), so another     *)
(* message may be handled in the middle of a stop: the main thread has a   *)
(* stack of handlers.  When the service has stopped the event loop quits   *)
(* and the destructor of the service stops it once more.                   *)
(*                                                                         *)
(* The critical sections of the other threads are single steps that need   *)
(* mutex_ free.  Futures of the pool stay in the vector after get(), and   *)
(* are then no longer valid.                                               *)
(***************************************************************************)
EXTENDS Naturals, Sequences, FiniteSets

CONSTANTS
  Sizes,       \* numbers of threads that are configured
  MaxAtStart,  \* most threads that start() makes (4 in the code)
  Nested,      \* what may arrive while the service stops: "update", "terminate"
  MaxMessages  \* bound: messages of a behaviour

ASSUME ServiceLifecycleAssumption ==
  /\ Sizes \subseteq Nat \ {0}
  /\ MaxAtStart \in Nat \ {0}
  /\ Nested \subseteq {"update", "terminate"}
  /\ MaxMessages \in Nat

VARIABLES
  stop,      \* stop_
  mutex,     \* does the main thread hold mutex_?
  loop,      \* mainLoopThread_: "none" (not valid), "run" or "ended"
  pool,      \* processingThreadPool_: a thread is idle, busy or ended, or was joined
  stack,     \* handlers of the main thread, the innermost first
  wanted,    \* number of threads last asked for (0: none yet)
  quit,      \* serviceFinishedSignal was emitted: the event loop is to quit
  phase,     \* the application: "exec", "destroy" or "gone"
  messages   \* messages received so far

vars == <<stop, mutex, loop, pool, stack, wanted, quit, phase, messages>>

Threads == {"idle", "busy", "ended", "joined"}
Alive == {"idle", "busy"}

\* A call of stop() that waits for thread i of the last that it saw, or of
\* updateNumberOfThreads.
StopFrames == [op: {"stop"}, at: {"lock", "loop", "pool"}, hold: BOOLEAN, i: Nat, last: Nat]
UpdateFrames == [op: {"update"}, at: {"lock", "resize"}, n: Sizes]

\* Every variable has its type, and the main thread holds the mutex exactly while
\* it changes the number of threads.
TypeOK ==
  /\ mutex <=> \E k \in DOMAIN stack : stack[k].op = "update" /\ stack[k].at = "resize"
  /\ stop \in BOOLEAN /\ mutex \in BOOLEAN /\ quit \in BOOLEAN
  /\ loop \in {"none", "run", "ended"}
  /\ pool \in Seq(Threads)
  /\ stack \in Seq(StopFrames \cup UpdateFrames)
  /\ wanted \in Sizes \cup {0}
  /\ phase \in {"exec", "destroy", "gone"}
  /\ messages \in 0..MaxMessages

Init ==
  /\ stop = FALSE /\ mutex = FALSE /\ quit = FALSE
  /\ loop = "none" /\ pool = <<>> /\ stack = <<>>
  /\ wanted = 0 /\ phase = "exec" /\ messages = 0

-----------------------------------------------------------------------------
(* Helpers *)

Least(a, b) == IF a < b THEN a ELSE b

In(op, at) == stack # <<>> /\ Head(stack).op = op /\ Head(stack).at = at
Frame == Head(stack)
Return == stack' = Tail(stack)
Continue(frame) == stack' = <<frame>> \o Tail(stack)

StopCall(hold) == [op |-> "stop", at |-> "lock", hold |-> hold, i |-> 0, last |-> 0]

\* Mutant: one thread too few is made.
OneLess(n) == [i \in 1..(n - 1) |-> "idle"]

\* n threads made by std::async.
NewThreads(n) == [i \in 1..n |-> "idle"]

\* stop() iterates over the vector of threads.  If the vector grows under it, its
\* iterators may be left with futures that are not valid: it waits for no more.
Disturbed(frames) ==
  {frames, [k \in DOMAIN frames |->
              IF frames[k].op = "stop" /\ frames[k].at = "pool"
                THEN [frames[k] EXCEPT !.i = frames[k].last + 1] ELSE frames[k]]}

-----------------------------------------------------------------------------
(* Messages *)

\* stop() calls processEvents while a thread it waits for has not ended.
Waiting ==
  \/ In("stop", "loop") /\ loop = "run"
  \/ In("stop", "pool") /\ Frame.i <= Frame.last /\ pool[Frame.i] \in Alive

\* A message of this kind is read.
Receive(kind) ==
  /\ phase = "exec"
  /\ messages < MaxMessages
  /\ messages' = messages + 1
  /\ \/ stack = <<>> /\ ~quit
     \/ Waiting /\ kind \in Nested

\* start()
Start(n) ==
  /\ stop' = FALSE
  /\ loop' = "run"
  /\ pool' = pool \o NewThreads(Least(n, MaxAtStart))

\* UPDATE_SERVICE -> setNumberOfThreads -> updateNumberOfThreads: the service is
\* started if its main loop thread is not valid.
UpdateService(n) ==
  /\ Receive("update")
  /\ wanted' = n
  /\ \/ loop = "none" /\ Start(n) /\ stack' \in Disturbed(stack)
     \/ /\ loop # "none"
        /\ stack' = <<[op |-> "update", at |-> "lock", n |-> n]>> \o stack
        /\ UNCHANGED <<stop, loop, pool>>
  /\ UNCHANGED <<mutex, quit, phase>>

\* TERMINATE_SERVICE is ignored until the service is loaded.
Terminate ==
  /\ wanted # 0
  /\ Receive("terminate")
  /\ stack' = <<StopCall(FALSE)>> \o stack
  /\ UNCHANGED <<stop, mutex, loop, pool, wanted, quit, phase>>

-----------------------------------------------------------------------------
(* updateNumberOfThreads of a service that runs *)

UpdateLock ==
  /\ In("update", "lock") /\ ~mutex
  /\ mutex' = TRUE
  /\ Continue([Frame EXCEPT !.at = "resize"])
  /\ UNCHANGED <<stop, loop, pool, wanted, quit, phase, messages>>

\* Threads are added until there are n; nothing is done if there are n.
Grow ==
  /\ In("update", "resize")
  /\ Frame.n >= Len(pool)
  /\ pool' = pool \o NewThreads(Frame.n - Len(pool))
  /\ mutex' = FALSE
  /\ \/ Frame.n = Len(pool) /\ Return
     \/ Frame.n > Len(pool) /\ stack' \in Disturbed(Tail(stack))
  /\ UNCHANGED <<stop, loop, wanted, quit, phase, messages>>

\* To have fewer threads the service would be stopped and started again: stop() is
\* called with the mutex held, and asks for it.  Nothing comes after that.
Shrink ==
  /\ In("update", "resize")
  /\ Frame.n < Len(pool)
  /\ stack' = <<StopCall(TRUE)>> \o stack
  /\ UNCHANGED <<stop, mutex, loop, pool, wanted, quit, phase, messages>>

-----------------------------------------------------------------------------
(* stop() *)

\* Mutant: the threads are notified without being told to stop.
StopLockOnly ==
  /\ In("stop", "lock") /\ ~mutex
  /\ Continue([Frame EXCEPT !.at = "loop"])
  /\ UNCHANGED <<stop, mutex, loop, pool, wanted, quit, phase, messages>>

StopLock ==
  /\ In("stop", "lock") /\ ~mutex
  /\ stop' = TRUE
  /\ Continue([Frame EXCEPT !.at = "loop"])
  /\ UNCHANGED <<mutex, loop, pool, wanted, quit, phase, messages>>

JoinLoop ==
  /\ In("stop", "loop") /\ loop # "run"
  /\ loop' = "none"
  /\ Continue([Frame EXCEPT !.at = "pool", !.i = 1, !.last = Len(pool)])
  /\ UNCHANGED <<stop, mutex, pool, wanted, quit, phase, messages>>

\* Mutant: the threads of the pool are not waited for.
JoinNothing ==
  /\ In("stop", "pool")
  /\ Frame.i <= Frame.last
  /\ Continue([Frame EXCEPT !.i = @ + 1])
  /\ UNCHANGED <<stop, mutex, loop, pool, wanted, quit, phase, messages>>

JoinThread ==
  /\ In("stop", "pool")
  /\ Frame.i <= Frame.last
  /\ pool[Frame.i] \notin Alive
  /\ pool' = [pool EXCEPT ![Frame.i] = "joined"]
  /\ Continue([Frame EXCEPT !.i = @ + 1])
  /\ UNCHANGED <<stop, mutex, loop, wanted, quit, phase, messages>>

\* serviceFinishedSignal quits the event loop.
StopReturns ==
  /\ In("stop", "pool")
  /\ Frame.i > Frame.last
  /\ quit' = (quit \/ ~Frame.hold)
  /\ phase' = IF phase = "destroy" THEN "gone" ELSE phase
  /\ Return
  /\ UNCHANGED <<stop, mutex, loop, pool, wanted, messages>>

\* The event loop has quit; the TCP manager is destroyed, then the service.
Destroy ==
  /\ phase = "exec" /\ quit /\ stack = <<>>
  /\ phase' = "destroy"
  /\ stack' = <<StopCall(FALSE)>>
  /\ UNCHANGED <<stop, mutex, loop, pool, wanted, quit, messages>>

Main ==
  \/ UpdateLock \/ Grow \/ Shrink
  \/ StopLock \/ JoinLoop \/ JoinThread \/ StopReturns
  \/ Destroy

-----------------------------------------------------------------------------
(* The other threads *)

LoopEnds ==
  /\ loop = "run" /\ stop /\ ~mutex
  /\ loop' = "ended"
  /\ UNCHANGED <<stop, mutex, pool, stack, wanted, quit, phase, messages>>

Becomes(w, s) ==
  /\ pool' = [pool EXCEPT ![w] = s]
  /\ UNCHANGED <<stop, mutex, loop, stack, wanted, quit, phase, messages>>

TakesTask(w) == w \in DOMAIN pool /\ pool[w] = "idle" /\ ~stop /\ ~mutex /\ Becomes(w, "busy")

\* A task is over; the thread ends if stop_ is set.
EndsTask(w) == w \in DOMAIN pool /\ pool[w] = "busy" /\ Becomes(w, IF stop THEN "ended" ELSE "idle")

ThreadEnds(w) == w \in DOMAIN pool /\ pool[w] = "idle" /\ stop /\ ~mutex /\ Becomes(w, "ended")

Gone == phase = "gone" /\ UNCHANGED vars

Next ==
  \/ \E n \in Sizes : UpdateService(n)
  \/ Terminate
  \/ Main
  \/ LoopEnds
  \/ \E w \in DOMAIN pool : TakesTask(w) \/ EndsTask(w) \/ ThreadEnds(w)
  \/ Gone

Spec == Init /\ [][Next]_vars

\* The main thread goes on, tasks end, threads get the mutex.  The waits of stop()
\* are polled, so nothing that arrives keeps them from going on.
Fairness ==
  /\ WF_vars(Main)
  /\ WF_vars(LoopEnds)
  /\ WF_vars(\E w \in DOMAIN pool : EndsTask(w) \/ ThreadEnds(w))

FairSpec == Spec /\ Fairness

-----------------------------------------------------------------------------
(* Properties *)

\* Every variable has its type, and when the service says that it has finished none
\* of its threads is left: nobody works on objects that the end of the program
\* destroys.
FinishedMeansEnded ==
  /\ TypeOK
  /\ quit => loop # "run" /\ \A w \in DOMAIN pool : pool[w] \notin Alive

\* A service that has settled has as many threads as it was asked for, except that
\* start() makes MaxAtStart at most.
ThreadsAsWanted ==
  stack = <<>> /\ loop = "run" /\ ~stop =>
    Cardinality({w \in DOMAIN pool : pool[w] \in Alive}) \in {wanted, Least(wanted, MaxAtStart)}

\* The main thread does not wait for a mutex it holds.
NoSelfDeadlock == ~(mutex /\ In("stop", "lock"))

\* A service that is told to stop ends, whatever its threads were doing, unless the
\* main thread holds the mutex it waits for.
StopEnds == In("stop", "lock") ~> phase = "gone" \/ ~NoSelfDeadlock
=============================================================================
