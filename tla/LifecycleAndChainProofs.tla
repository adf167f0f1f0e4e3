------------------------ MODULE LifecycleAndChainProofs ------------------------
(***************************************************************************)
(* Two proofs, each about a specification of its own: the threads of a     *)
(* service, for every number of threads (ServiceLifecycle), and the        *)
(* processes that start each other, for every set of processes and every   *)
(* fault (AutomaticChain).  The specifications share no variable and no    *)
(* definition, and the halves no lemma.                                    *)
(***************************************************************************)
EXTENDS ServiceLifecycle, AutomaticChain, SequenceTheorems, FiniteSetTheorems, TLAPS

\* No change of the number of threads arrives while the service stops (the code
\* does not keep it from arriving: README, section 5).
NoNestedUpdate == Nested \subseteq {"terminate"}

-----------------------------------------------------------------------------
(* The inductive invariant *)

Frames == StopFrames \cup UpdateFrames

\* The two parts of TypeOK.
Types ==
  /\ stop \in BOOLEAN /\ mutex \in BOOLEAN /\ quit \in BOOLEAN
  /\ loop \in {"none", "run", "ended"}
  /\ pool \in Seq(Threads)
  /\ stack \in Seq(Frames)
  /\ wanted \in Sizes \cup {0}
  /\ phase \in {"exec", "destroy", "gone"}
  /\ messages \in 0..MaxMessages

Locked == mutex <=> \E k \in 1..Len(stack) : stack[k].op = "update" /\ stack[k].at = "resize"

\* The service is in calls of stop(), the outermost from a message or from the
\* destructor, the others from messages that arrived meanwhile.
Stopping == \A k \in 1..Len(stack) : stack[k].op = "stop" /\ ~stack[k].hold

\* It changes the number of its threads, or does not come out of that.
Resizing ==
  /\ Len(stack) \in {1, 2}
  /\ stack[Len(stack)].op = "update" /\ stack[Len(stack)].n = wanted
  /\ Len(stack) = 2 => stack[1] = StopCall(TRUE) /\ stack[2].at = "resize"
  /\ ~quit

\* What a call of stop() has waited for has ended.
Joined ==
  \A k \in 1..Len(stack) : stack[k].op = "stop" /\ stack[k].at = "pool" =>
    /\ loop = "none"
    /\ stack[k].i >= 1
    /\ stack[k].last = Len(pool)
    /\ \A w \in 1..Len(pool) : w < stack[k].i => pool[w] \notin Alive

Over == quit => loop # "run" /\ \A w \in 1..Len(pool) : pool[w] \notin Alive

\* A service is started once: its main loop thread is not valid before the first
\* message and from its end on.
Once ==
  /\ wanted = 0 => pool = <<>> /\ loop = "none" /\ stack = <<>> /\ ~stop
  /\ wanted # 0 /\ loop = "none" => quit \/ (stack # <<>> /\ Stopping)

\* A thread lives until it is told to stop.
Living ==
  ~stop =>
    /\ \A w \in 1..Len(pool) : pool[w] \in Alive
    /\ loop # "ended" /\ ~quit
    /\ Stopping => Len(pool) \in {wanted, Least(wanted, MaxAtStart)}
    /\ Stopping => \A k \in 1..Len(stack) : stack[k].at = "lock"

LifeInv ==
  /\ Types /\ Locked
  /\ Stopping \/ Resizing
  /\ Joined
  /\ Over
  /\ Once
  /\ Living

\* What a frame of the call stack holds, by the operation that it belongs to.
LEMMA FrameTypes ==
  /\ \A b \in BOOLEAN : StopCall(b) \in Frames /\ StopCall(b).op = "stop"
                        /\ StopCall(b).at = "lock" /\ StopCall(b).hold = b
  /\ \A f \in Frames : f.op \in {"stop", "update"}
  /\ \A f \in Frames : f.op = "stop" =>
       f \in StopFrames /\ f.hold \in BOOLEAN /\ f.i \in Nat /\ f.last \in Nat
       /\ f.at \in {"lock", "loop", "pool"}
  /\ \A f \in Frames : f.op = "update" =>
       f \in UpdateFrames /\ f.at \in {"lock", "resize"} /\ f.n \in Sizes
BY DEF Frames, StopFrames, UpdateFrames, StopCall

\* A frame is put on a stack.
LEMMA PushedFrame ==
  ASSUME NEW S, NEW s \in Seq(S), NEW f \in S
  PROVE  /\ <<f>> \o s \in Seq(S)
         /\ Len(<<f>> \o s) = Len(s) + 1
         /\ (<<f>> \o s)[1] = f
         /\ \A k \in 2..(Len(s) + 1) : (<<f>> \o s)[k] = s[k - 1]
<1>1. <<f>> \in Seq(S) /\ Len(<<f>>) = 1 /\ <<f>>[1] = f
  OBVIOUS
<1>2. Len(s) \in Nat
  BY LenProperties
<1> QED
  BY <1>1, <1>2, ConcatProperties

\* The frame on top of a stack is replaced by another one.
LEMMA ReplacedFrame ==
  ASSUME NEW S, NEW s \in Seq(S), s # <<>>, NEW f \in S
  PROVE  /\ <<f>> \o Tail(s) \in Seq(S)
         /\ Len(<<f>> \o Tail(s)) = Len(s)
         /\ (<<f>> \o Tail(s))[1] = f
         /\ \A k \in 2..Len(s) : (<<f>> \o Tail(s))[k] = s[k]
<1>1. /\ Len(s) \in Nat \ {0} /\ Tail(s) \in Seq(S) /\ Len(Tail(s)) = Len(s) - 1
      /\ \A i \in 1..Len(Tail(s)) : Tail(s)[i] = s[i + 1]
  BY EmptySeq, HeadTailProperties
<1>2. \A k \in 2..Len(s) : k - 1 \in 1..Len(Tail(s)) /\ (<<f>> \o Tail(s))[k] = Tail(s)[k - 1]
  BY <1>1, PushedFrame
<1> QED
  BY <1>1, <1>2, PushedFrame

\* The frame on top of a stack and those below it.
LEMMA FirstFrame ==
  ASSUME NEW S, NEW s \in Seq(S), s # <<>>
  PROVE  /\ Len(s) \in Nat \ {0}
         /\ Head(s) = s[1] /\ s[1] \in S
         /\ Tail(s) \in Seq(S) /\ Len(Tail(s)) = Len(s) - 1
         /\ \A k \in 1..(Len(s) - 1) : Tail(s)[k] = s[k + 1]
BY EmptySeq, HeadTailProperties, ElementOfSeq

\* With an empty stack there is nothing that a message may disturb.
LEMMA Disturbing ==
  Disturbed(<<>>) = {<<>>}
<1>1. DOMAIN <<>> = {}
  OBVIOUS
<1> QED
  BY <1>1 DEF Disturbed

\* The threads that a start makes.
LEMMA Made ==
  ASSUME NEW n \in Nat
  PROVE  /\ NewThreads(n) \in Seq(Threads)
         /\ Len(NewThreads(n)) = n
         /\ \A w \in 1..n : NewThreads(n)[w] = "idle"
BY DEF NewThreads, Threads

\* The type invariant is that of the variables and of the mutex.
LEMMA TypesAre == TypeOK <=> Types /\ Locked
<1>1. stack \in Seq(Frames) => DOMAIN stack = 1..Len(stack)
  BY LenProperties
<1> QED
  BY <1>1 DEF TypeOK, Types, Locked, Frames

\* A service that has not been started satisfies the invariant.
LEMMA LifeInit == Init => LifeInv
<1> SUFFICES ASSUME Init PROVE LifeInv
  OBVIOUS
<1>1. Len(stack) = 0 /\ Len(pool) = 0
  BY DEF Init
<1>2. pool \in Seq(Threads) /\ stack \in Seq(Frames)
  BY EmptySeq DEF Init
<1>3. messages \in 0..MaxMessages /\ wanted \in Sizes \cup {0}
  BY ServiceLifecycleAssumption DEF Init
<1>4. Types
  BY <1>2, <1>3, Zenon DEF Init, Types
<1>5. ~mutex /\ ~\E k \in 1..Len(stack) : TRUE
  BY <1>1 DEF Init
<1>6. Locked
  BY <1>5 DEF Locked
<1>7. Least(0, MaxAtStart) = 0
  BY ServiceLifecycleAssumption DEF Least
<1> QED
  BY <1>1, <1>4, <1>6, <1>7 DEF Init, LifeInv, Stopping, Joined, Over, Once, Living


-----------------------------------------------------------------------------
(* Messages *)

\* UPDATE_SERVICE keeps the invariant: a start, or a change of the number of threads.
LEMMA LifeUpdateService ==
  ASSUME NoNestedUpdate, LifeInv, NEW n \in Sizes, UpdateService(n)
  PROVE  LifeInv'
<1>1. stack = <<>> /\ ~quit /\ messages' \in 0..MaxMessages
  BY ServiceLifecycleAssumption DEF UpdateService, Receive, NoNestedUpdate, LifeInv, Types
<1>2. /\ wanted' = n /\ UNCHANGED <<mutex, quit, phase>>
      /\ Types /\ Locked /\ Len(stack) = 0 /\ n \in Nat \ {0} /\ MaxAtStart \in Nat \ {0}
  BY <1>1, ServiceLifecycleAssumption DEF UpdateService, LifeInv
<1>3. CASE loop = "none" /\ Start(n) /\ stack' \in Disturbed(stack)
  <2>1. wanted = 0
    BY <1>1, <1>2, <1>3 DEF LifeInv, Once
  <2>2. pool = <<>> /\ ~stop
    BY <2>1 DEF LifeInv, Once
  <2>3. stack' = <<>> /\ Len(stack') = 0
    BY <1>1, <1>3, Disturbing
  <2>4. Least(n, MaxAtStart) \in Nat
    BY <1>2 DEF Least
  <2>5. pool' = NewThreads(Least(n, MaxAtStart))
    BY <1>3, <2>2, <2>4, Made, ConcatEmptySeq DEF Start
  <2>6. /\ pool' \in Seq(Threads) /\ Len(pool') = Least(n, MaxAtStart)
        /\ \A w \in 1..Len(pool') : pool'[w] = "idle"
    BY <2>4, <2>5, Made
  <2>7. stop' = FALSE /\ loop' = "run"
    BY <1>3 DEF Start
  <2>8. Types'
    BY <1>1, <1>2, <2>3, <2>6, <2>7, EmptySeq DEF Types
  <2>9. Locked'
    BY <1>2, <2>3 DEF Locked
  <2>11. Stopping' /\ Joined'
    BY <2>3 DEF Stopping, Joined
  <2>12. Over' /\ Once'
    BY <1>1, <1>2, <2>7 DEF Over, Once
  <2>13. Living'
    BY <1>1, <1>2, <2>3, <2>6, <2>7 DEF Living, Alive
  <2> QED BY <2>8, <2>9, <2>11, <2>12, <2>13 DEF LifeInv
<1>4. CASE /\ loop # "none"
           /\ stack' = <<[op |-> "update", at |-> "lock", n |-> n]>> \o stack
           /\ UNCHANGED <<stop, loop, pool>>
  <2> DEFINE f == [op |-> "update", at |-> "lock", n |-> n]
  <2>1. f \in Frames
    BY DEF Frames, UpdateFrames
  <2>2. stack' \in Seq(Frames) /\ Len(stack') = 1 /\ stack'[1] = f
    BY <1>2, <1>4, <2>1, PushedFrame DEF Types
  <2>3. Types'
    BY <1>1, <1>2, <1>4, <2>2 DEF Types
  <2>4. Locked'
    BY <1>2, <2>2 DEF Locked
  <2>6. Resizing' /\ Joined'
    BY <1>1, <1>2, <2>2 DEF Resizing, Joined
  <2>7. ~Stopping'
    BY <2>2 DEF Stopping
  <2>8. Over' /\ Once'
    BY <1>1, <1>2, <1>4 DEF Over, Once
  <2>9. Living'
    BY <1>1, <1>2, <1>4, <2>7 DEF LifeInv, Living
  <2> QED BY <2>3, <2>4, <2>6, <2>8, <2>9 DEF LifeInv
<1> QED BY <1>3, <1>4 DEF UpdateService

\* A call of stop() begins, with nothing in the stack or in the middle of another.
LEMMA StopCalled ==
  ASSUME LifeInv, Stopping, wanted # 0, stack' = <<StopCall(FALSE)>> \o stack,
         UNCHANGED <<stop, mutex, loop, pool, wanted, quit>>,
         messages' \in 0..MaxMessages, phase' \in {"exec", "destroy", "gone"}
  PROVE  LifeInv'
<1>1. Types /\ Locked /\ Len(stack) \in Nat
  BY LenProperties DEF LifeInv, Types
<1> DEFINE f == StopCall(FALSE)
<1>2. f \in Frames /\ f.op = "stop" /\ f.at = "lock" /\ ~f.hold
  BY FrameTypes
<1> HIDE DEF f
<1>3. /\ stack' \in Seq(Frames) /\ Len(stack') = Len(stack) + 1
      /\ stack'[1] = f
      /\ \A k \in 2..(Len(stack) + 1) : stack'[k] = stack[k - 1]
  <2>1. stack' = <<f>> \o stack
    BY DEF f
  <2>2. stack \in Seq(Frames)
    BY <1>1 DEF Types
  <2>3. /\ <<f>> \o stack \in Seq(Frames)
        /\ Len(<<f>> \o stack) = Len(stack) + 1
        /\ (<<f>> \o stack)[1] = f
        /\ \A k \in 2..(Len(stack) + 1) : (<<f>> \o stack)[k] = stack[k - 1]
    BY <1>2, <2>2, PushedFrame
  <2> QED BY <2>1, <2>3, Zenon
<1>4. \A k \in 1..Len(stack') : k = 1 \/ (k - 1 \in 1..Len(stack) /\ stack'[k] = stack[k - 1])
  BY <1>1, <1>3
<1>5. Types'
  BY <1>1, <1>3 DEF Types
<1>6. Stopping'
  BY <1>2, <1>4, <1>3 DEF Stopping
<1>7. ~mutex
  BY <1>1 DEF Locked, Stopping
<1>8. Locked'
  BY <1>6, <1>7 DEF Locked, Stopping
<1>9. Joined'
  BY <1>2, <1>4, <1>3 DEF LifeInv, Joined
<1>10. Over'
  BY DEF LifeInv, Over
<1>11. stack' # <<>>
  BY <1>1, <1>3, EmptySeq
<1>12. Once'
  BY <1>6, <1>11 DEF LifeInv, Once
<1>13. Living'
  BY <1>2, <1>4, <1>3, <1>6 DEF LifeInv, Living
<1> QED BY <1>5, <1>6, <1>8, <1>9, <1>10, <1>12, <1>13 DEF LifeInv

\* A service that waits in stop() is in nothing but calls of stop().
LEMMA WaitsInStop == LifeInv /\ Waiting => Stopping
<1> SUFFICES ASSUME LifeInv, Waiting, Resizing PROVE FALSE
  BY DEF LifeInv
<1>1. Head(stack) = stack[1] /\ Head(stack).op = "stop" /\ Head(stack).at # "lock"
  BY FirstFrame DEF Waiting, In, LifeInv, Types
<1> QED BY <1>1, FrameTypes DEF Resizing

\* TERMINATE_SERVICE keeps the invariant.
LEMMA LifeTerminate ==
  ASSUME LifeInv, Terminate
  PROVE  LifeInv'
<1>1. messages' \in 0..MaxMessages
  BY ServiceLifecycleAssumption DEF Terminate, Receive, LifeInv, Types
<1>2. stack = <<>> => Stopping
  BY DEF Stopping
<1>3. Stopping
  BY <1>2, WaitsInStop DEF Terminate, Receive
<1> QED BY <1>1, <1>3, StopCalled DEF Terminate, LifeInv, Types

\* The destructor of the service keeps the invariant.
LEMMA LifeDestroy ==
  ASSUME LifeInv, Destroy
  PROVE  LifeInv'
<1>1. Stopping
  BY DEF Destroy, Stopping
<1>2. <<StopCall(FALSE)>> \o stack = <<StopCall(FALSE)>>
  BY FrameTypes, ConcatEmptySeq DEF Destroy
<1>3. wanted # 0
  BY DEF Destroy, LifeInv, Living, Once
<1>4. messages' \in 0..MaxMessages
  BY DEF Destroy, LifeInv, Types
<1> QED BY <1>1, <1>2, <1>3, <1>4, StopCalled DEF Destroy

-----------------------------------------------------------------------------
(* Steps of the main thread *)

\* The innermost handler goes on.
LEMMA Continued ==
  ASSUME Types, stack # <<>>, NEW f \in Frames, Continue(f)
  PROVE  /\ stack' \in Seq(Frames) /\ stack' # <<>>
         /\ Len(stack') = Len(stack) /\ Len(stack) \in Nat \ {0}
         /\ stack'[1] = f
         /\ \A k \in 1..Len(stack) : k = 1 \/ stack'[k] = stack[k]
         /\ Head(stack) = stack[1] /\ stack[1] \in Frames
<1>1. stack \in Seq(Frames)
  BY DEF Types
<1>2. /\ <<f>> \o Tail(stack) \in Seq(Frames)
      /\ Len(<<f>> \o Tail(stack)) = Len(stack)
      /\ (<<f>> \o Tail(stack))[1] = f
      /\ \A k \in 2..Len(stack) : (<<f>> \o Tail(stack))[k] = stack[k]
  BY <1>1, ReplacedFrame
<1>3. /\ stack' \in Seq(Frames)
      /\ Len(stack') = Len(stack)
      /\ stack'[1] = f
      /\ \A k \in 2..Len(stack) : stack'[k] = stack[k]
  BY <1>2, Zenon DEF Continue
<1>4. Len(stack) \in Nat \ {0} /\ Head(stack) = stack[1] /\ stack[1] \in Frames
  BY <1>1, FirstFrame
<1>5. stack' # <<>>
  BY <1>3, <1>4, EmptySeq
<1> QED BY <1>3, <1>4, <1>5

\* The frame on top when the main thread is in a given operation.
LEMMA FrameAt ==
  ASSUME Types, NEW op, NEW at, In(op, at)
  PROVE  /\ stack # <<>> /\ Len(stack) \in Nat \ {0}
         /\ Frame = stack[1] /\ stack[1] \in Frames
         /\ stack[1].op = op /\ stack[1].at = at
BY FirstFrame DEF Types, In, Frame

\* A handler that resizes the pool is alone, or the stop that it called waits for
\* the mutex that it holds.
LEMMA AloneInResizing ==
  ASSUME LifeInv, stack # <<>>, Head(stack).op = "update"
  PROVE  Resizing /\ Len(stack) = 1
<1>1. Len(stack) \in Nat \ {0} /\ stack[1].op = "update"
  BY FirstFrame DEF LifeInv, Types
<1>2. ~Stopping
  BY <1>1 DEF Stopping
<1>3. Resizing
  BY <1>2 DEF LifeInv
<1>4. StopCall(TRUE).op # "update"
  BY FrameTypes
<1> QED BY <1>1, <1>3, <1>4 DEF Resizing

\* When the main thread gets on in stop() it does nothing but stop.
LEMMA StopsOnly ==
  ASSUME LifeInv, NEW at, In("stop", at), at = "lock" => ~mutex
  PROVE  Stopping /\ ~mutex
<1>1. /\ stack # <<>> /\ Len(stack) \in Nat \ {0}
      /\ stack[1] \in Frames /\ stack[1].op = "stop" /\ stack[1].at = at
  BY FrameAt DEF LifeInv
<1>2. ~Resizing
  <2> SUFFICES ASSUME Resizing PROVE FALSE
    OBVIOUS
  <2>1. Len(stack) = 2
    BY <1>1 DEF Resizing
  <2>2. stack[1] = StopCall(TRUE) /\ stack[2].op = "update" /\ stack[2].at = "resize"
    BY <2>1 DEF Resizing
  <2>3. at = "lock"
    BY <1>1, <2>2, FrameTypes
  <2>4. mutex
    BY <2>1, <2>2 DEF LifeInv, Locked
  <2> QED BY <2>3, <2>4
<1>3. Stopping
  BY <1>2 DEF LifeInv
<1> QED BY <1>3 DEF LifeInv, Locked, Stopping

\* Taking the mutex for a change of the number of threads keeps the invariant.
LEMMA LifeUpdateLock ==
  ASSUME LifeInv, UpdateLock
  PROVE  LifeInv'
<1> DEFINE f == [Frame EXCEPT !.at = "resize"]
<1>1. Types /\ In("update", "lock") /\ Continue(f)
      /\ mutex' = TRUE /\ UNCHANGED <<stop, loop, pool, wanted, quit, phase, messages>>
  BY DEF UpdateLock, LifeInv
<1>2. stack # <<>> /\ Frame = stack[1] /\ stack[1] \in Frames /\ Head(stack).op = "update"
      /\ Frame.op = "update"
  BY <1>1, FrameAt DEF In
<1>3. f \in Frames /\ f.op = "update" /\ f.at = "resize" /\ f.n = Frame.n
  BY <1>2, FrameTypes DEF UpdateFrames, Frames
<1>4. Resizing /\ Len(stack) = 1
  BY <1>2, AloneInResizing
<1> HIDE DEF f
<1>5. stack' \in Seq(Frames) /\ Len(stack') = 1 /\ stack'[1] = f /\ stack' # <<>>
  BY <1>1, <1>2, <1>3, <1>4, Continued
<1>6. Types'
  BY <1>1, <1>5 DEF Types
<1>7. Locked'
  BY <1>1, <1>3, <1>5 DEF Locked
<1>8. Resizing'
  BY <1>1, <1>2, <1>3, <1>4, <1>5 DEF Resizing
<1>9. Joined' /\ ~Stopping' /\ ~Stopping
  BY <1>2, <1>3, <1>4, <1>5 DEF Joined, Stopping
<1>10. wanted # 0 /\ (loop = "none" => quit)
  BY <1>2, <1>9 DEF LifeInv, Once
<1>11. Over' /\ Once' /\ Living'
  BY <1>1, <1>9, <1>10 DEF LifeInv, Over, Once, Living
<1> QED BY <1>6, <1>7, <1>8, <1>9, <1>11 DEF LifeInv

\* More threads in the pool keep the invariant.
LEMMA LifeGrow ==
  ASSUME LifeInv, Grow
  PROVE  LifeInv'
<1>1. Types /\ In("update", "resize")
      /\ Frame.n >= Len(pool) /\ pool' = pool \o NewThreads(Frame.n - Len(pool))
      /\ mutex' = FALSE /\ UNCHANGED <<stop, loop, wanted, quit, phase, messages>>
  BY DEF Grow, LifeInv
<1>2. stack # <<>> /\ Frame = stack[1] /\ stack[1] \in Frames /\ stack[1].op = "update"
      /\ Head(stack).op = "update"
  BY <1>1, FrameAt DEF In
<1>3. Resizing /\ Len(stack) = 1
  BY <1>2, AloneInResizing
<1>4. Tail(stack) = <<>>
  <2>1. Tail(stack) \in Seq(Frames) /\ Len(Tail(stack)) = 0
    BY <1>2, <1>3, FirstFrame DEF LifeInv, Types
  <2>2. 0 \notin Nat \ {0}
    OBVIOUS
  <2> QED BY <2>1, <2>2, EmptySeq, Zenon
<1>5. stack' \in Disturbed(Tail(stack)) \/ stack' = Tail(stack)
  BY DEF Grow, Return
<1>6. stack' = <<>>
  <2>1. CASE stack' \in Disturbed(Tail(stack))
    <3>1. Disturbed(Tail(stack)) = Disturbed(<<>>)
      BY <1>4
    <3>2. stack' \in {<<>>}
      BY <2>1, <3>1, Disturbing, Zenon
    <3> QED BY <3>2, Zenon
  <2>2. CASE stack' = Tail(stack)
    BY <1>4, <2>2, Zenon
  <2> QED BY <1>5, <2>1, <2>2
<1>7. Len(stack') = 0 /\ stack' \in Seq(Frames)
  BY <1>6, EmptySeq, Zenon
<1>8. Frame.n = wanted /\ wanted \in Nat \ {0}
  BY <1>2, <1>3, FrameTypes, ServiceLifecycleAssumption DEF Resizing
<1>9. Len(pool) \in Nat /\ pool \in Seq(Threads)
  BY <1>1, LenProperties DEF Types
<1> DEFINE m == Frame.n - Len(pool)
<1>10. m \in Nat /\ NewThreads(m) \in Seq(Threads) /\ Len(NewThreads(m)) = m
      /\ \A w \in 1..m : NewThreads(m)[w] = "idle"
  <2>1. m \in Nat
    BY <1>1, <1>8, <1>9
  <2> QED BY <2>1, Made
<1>11. pool' = pool \o NewThreads(m)
  BY <1>1
<1> HIDE DEF m
<1>12. /\ pool \o NewThreads(m) \in Seq(Threads)
       /\ Len(pool \o NewThreads(m)) = Len(pool) + m
       /\ \A w \in 1..(Len(pool) + m) : (pool \o NewThreads(m))[w] =
            IF w <= Len(pool) THEN pool[w] ELSE NewThreads(m)[w - Len(pool)]
  BY <1>9, <1>10, ConcatProperties
<1>13. /\ pool' \in Seq(Threads) /\ Len(pool') = Len(pool) + m
       /\ \A w \in 1..(Len(pool) + m) : pool'[w] =
            IF w <= Len(pool) THEN pool[w] ELSE NewThreads(m)[w - Len(pool)]
  BY <1>11, <1>12, Zenon
<1>14. Len(pool') = wanted
  BY <1>8, <1>9, <1>13 DEF m
<1>15. \A w \in 1..Len(pool') : (w \in 1..Len(pool) /\ pool'[w] = pool[w]) \/ pool'[w] = "idle"
  <2> SUFFICES ASSUME NEW w \in 1..Len(pool'), ~(w <= Len(pool)) PROVE pool'[w] = "idle"
    BY <1>9, <1>10, <1>13
  <2>1. w - Len(pool) \in 1..m
    BY <1>9, <1>10, <1>13
  <2> QED BY <1>9, <1>10, <1>13, <2>1
<1>16. Types' /\ Stopping' /\ Joined'
  <2>1. Types'
    BY <1>1, <1>7, <1>13 DEF Types
  <2> QED BY <1>7, <2>1 DEF Stopping, Joined
<1>17. ~mutex' /\ ~\E k \in 1..Len(stack') : TRUE
  BY <1>1, <1>7
<1>18. Locked'
  BY <1>17 DEF Locked
<1>19. ~Stopping
  BY <1>2, <1>3 DEF Stopping
<1>20. wanted # 0 /\ loop # "none" /\ ~quit
  BY <1>2, <1>3, <1>19 DEF LifeInv, Once, Resizing
<1>21. Over' /\ Once'
  BY <1>1, <1>20 DEF Over, Once
<1>22. ~stop => \A w \in 1..Len(pool) : pool[w] \in Alive
  BY DEF LifeInv, Living
<1>23. ~stop => \A w \in 1..Len(pool') : pool'[w] \in Alive
  BY <1>15, <1>22 DEF Alive
<1>24. Living'
  BY <1>1, <1>7, <1>6, <1>14, <1>20, <1>23 DEF LifeInv, Living
<1> QED BY <1>16, <1>18, <1>21, <1>24 DEF LifeInv

\* A smaller pool, whose threads are told to end, keeps the invariant.
LEMMA LifeShrink ==
  ASSUME LifeInv, Shrink
  PROVE  LifeInv'
<1> DEFINE f == StopCall(TRUE)
<1>1. Types /\ In("update", "resize") /\ stack' = <<f>> \o stack
      /\ UNCHANGED <<stop, mutex, loop, pool, wanted, quit, phase, messages>>
  BY DEF Shrink, LifeInv
<1>2. stack # <<>> /\ stack \in Seq(Frames) /\ stack[1].op = "update" /\ stack[1].at = "resize"
      /\ Head(stack).op = "update"
  BY <1>1, FrameAt DEF In, Types
<1>3. Resizing /\ Len(stack) = 1
  BY <1>2, AloneInResizing
<1>4. f \in Frames /\ f.op = "stop" /\ f.at = "lock" /\ f.hold
  BY FrameTypes
<1>5. f = StopCall(TRUE)
  OBVIOUS
<1> HIDE DEF f
<1>6. /\ <<f>> \o stack \in Seq(Frames)
      /\ Len(<<f>> \o stack) = Len(stack) + 1
      /\ (<<f>> \o stack)[1] = f
      /\ \A k \in 2..(Len(stack) + 1) : (<<f>> \o stack)[k] = stack[k - 1]
  BY <1>2, <1>4, PushedFrame
<1>7. /\ stack' \in Seq(Frames)
      /\ Len(stack') = Len(stack) + 1
      /\ stack'[1] = f
      /\ \A k \in 2..(Len(stack) + 1) : stack'[k] = stack[k - 1]
  BY <1>1, <1>6, Zenon
<1>8. Len(stack') = 2 /\ stack'[2] = stack[1]
  BY <1>3, <1>7
<1>9. Types'
  BY <1>1, <1>7 DEF Types
<1>10. mutex
  BY <1>2, <1>3 DEF LifeInv, Locked
<1>11. Locked'
  BY <1>1, <1>2, <1>8, <1>10 DEF Locked
<1>12. Resizing'
  BY <1>1, <1>2, <1>3, <1>5, <1>7, <1>8 DEF Resizing
<1>13. Joined' /\ ~Stopping' /\ ~Stopping
  BY <1>2, <1>3, <1>4, <1>7, <1>8 DEF Joined, Stopping
<1>14. wanted # 0 /\ (loop = "none" => quit)
  BY <1>2, <1>13 DEF LifeInv, Once
<1>15. Over' /\ Once' /\ Living'
  BY <1>1, <1>13, <1>14 DEF LifeInv, Over, Once, Living
<1> QED BY <1>9, <1>11, <1>12, <1>13, <1>15 DEF LifeInv

-----------------------------------------------------------------------------
(* Steps of stop() *)

\* A call of stop() that goes on, with the mutex free and nothing else changed but
\* what it has waited for.
LEMMA StopGoesOn ==
  ASSUME LifeInv, Stopping, ~mutex, stack # <<>>,
         NEW f \in Frames, f.op = "stop", ~f.hold, f.at # "lock", Continue(f),
         stop', UNCHANGED <<mutex, wanted, quit, phase, messages>>,
         pool' \in Seq(Threads), Len(pool') = Len(pool),
         \A w \in 1..Len(pool) : pool'[w] = pool[w] \/ pool'[w] = "joined",
         loop' = loop \/ loop' = "none",
         f.at = "pool" =>
           /\ loop' = "none" /\ f.i >= 1 /\ f.last = Len(pool)
           /\ \A w \in 1..Len(pool) : w < f.i => pool'[w] \notin Alive
  PROVE  LifeInv'
<1>1. Types
  BY DEF LifeInv
<1>2. /\ stack' \in Seq(Frames) /\ stack' # <<>>
      /\ Len(stack') = Len(stack) /\ Len(stack) \in Nat \ {0}
      /\ stack'[1] = f
      /\ \A k \in 1..Len(stack) : k = 1 \/ stack'[k] = stack[k]
  BY <1>1, Continued
<1>3. stop' \in BOOLEAN /\ loop' \in {"none", "run", "ended"}
  BY <1>1 DEF Types
<1>4. Types'
  BY <1>1, <1>2, <1>3 DEF Types
<1>5. Stopping'
  BY <1>2 DEF Stopping
<1>6. ~mutex' /\ Locked'
  BY <1>5 DEF Locked, Stopping
<1>7. \A w \in 1..Len(pool) : pool[w] \notin Alive => pool'[w] \notin Alive
  BY DEF Alive
<1>8. Joined'
  <2> SUFFICES ASSUME NEW k \in 1..Len(stack'), stack'[k].op = "stop", stack'[k].at = "pool"
               PROVE  /\ loop' = "none" /\ stack'[k].i >= 1 /\ stack'[k].last = Len(pool')
                      /\ \A w \in 1..Len(pool') : w < stack'[k].i => pool'[w] \notin Alive
    BY DEF Joined
  <2>1. CASE k = 1
    BY <1>2, <2>1
  <2>2. CASE stack'[k] = stack[k]
    BY <1>2, <1>7, <2>2 DEF LifeInv, Joined
  <2> QED BY <1>2, <2>1, <2>2
<1>9. Over'
  BY <1>7 DEF LifeInv, Over
<1>10. Once'
  <2>1. wanted # 0
    BY DEF LifeInv, Once
  <2> QED BY <1>2, <1>5, <2>1 DEF Once
<1>11. Living'
  BY DEF Living
<1> QED BY <1>4, <1>5, <1>6, <1>8, <1>9, <1>10, <1>11 DEF LifeInv

\* The first part of stop(), under the mutex, keeps the invariant.
LEMMA LifeStopLock ==
  ASSUME LifeInv, StopLock
  PROVE  LifeInv'
<1> DEFINE f == [Frame EXCEPT !.at = "loop"]
<1>1. Types /\ In("stop", "lock") /\ ~mutex /\ Continue(f) /\ stop'
      /\ UNCHANGED <<mutex, loop, pool, wanted, quit, phase, messages>>
  BY DEF StopLock, LifeInv
<1>2. Stopping
  BY <1>1, StopsOnly
<1>3. stack # <<>> /\ Len(stack) \in Nat \ {0} /\ Frame = stack[1] /\ stack[1] \in Frames
      /\ stack[1].op = "stop"
  BY <1>1, FrameAt
<1>4. ~Frame.hold /\ Frame \in StopFrames
  BY <1>2, <1>3, FrameTypes DEF Stopping
<1>5. f \in Frames /\ f.op = "stop" /\ f.at = "loop" /\ ~f.hold
  BY <1>4 DEF Frames, StopFrames
<1> HIDE DEF f
<1> QED BY <1>1, <1>2, <1>3, <1>5, StopGoesOn DEF Types

\* Who waits for threads in stop() has told them to end.
LEMMA StopIsOver == LifeInv /\ (\E at \in {"loop", "pool"} : In("stop", at)) => stop /\ wanted # 0
<1> SUFFICES ASSUME LifeInv, NEW at \in {"loop", "pool"}, In("stop", at)
             PROVE  stop /\ wanted # 0
  OBVIOUS
<1>1. stack # <<>> /\ Len(stack) \in Nat \ {0} /\ stack[1].at # "lock"
  BY FrameAt DEF LifeInv
<1>2. Stopping
  BY StopsOnly
<1> QED BY <1>1, <1>2 DEF LifeInv, Living, Once

\* Waiting for the main loop thread keeps the invariant.
LEMMA LifeJoinLoop ==
  ASSUME LifeInv, JoinLoop
  PROVE  LifeInv'
<1> DEFINE f == [Frame EXCEPT !.at = "pool", !.i = 1, !.last = Len(pool)]
<1>1. Types /\ In("stop", "loop") /\ Continue(f) /\ loop' = "none"
      /\ UNCHANGED <<stop, mutex, pool, wanted, quit, phase, messages>>
  BY DEF JoinLoop, LifeInv
<1>2. Stopping /\ ~mutex /\ stop
  BY <1>1, StopsOnly, StopIsOver
<1>3. stack # <<>> /\ Len(stack) \in Nat \ {0} /\ Frame = stack[1] /\ stack[1] \in Frames
      /\ stack[1].op = "stop"
  BY <1>1, FrameAt
<1>4. ~Frame.hold /\ Frame \in StopFrames
  BY <1>2, <1>3, FrameTypes DEF Stopping
<1>5. Len(pool) \in Nat /\ pool \in Seq(Threads)
  BY <1>1, LenProperties DEF Types
<1>6. f \in Frames /\ f.op = "stop" /\ f.at = "pool" /\ ~f.hold /\ f.i = 1 /\ f.last = Len(pool)
  BY <1>4, <1>5 DEF Frames, StopFrames
<1> HIDE DEF f
<1> QED BY <1>1, <1>2, <1>3, <1>5, <1>6, StopGoesOn

\* Waiting for a thread of the pool keeps the invariant.
LEMMA LifeJoinThread ==
  ASSUME LifeInv, JoinThread
  PROVE  LifeInv'
<1> DEFINE f == [Frame EXCEPT !.i = @ + 1]
<1>1. Types /\ In("stop", "pool") /\ Continue(f)
      /\ Frame.i <= Frame.last /\ pool[Frame.i] \notin Alive
      /\ pool' = [pool EXCEPT ![Frame.i] = "joined"]
      /\ UNCHANGED <<stop, mutex, loop, wanted, quit, phase, messages>>
  BY DEF JoinThread, LifeInv
<1>2. Stopping /\ ~mutex /\ stop
  BY <1>1, StopsOnly, StopIsOver
<1>3. stack # <<>> /\ Len(stack) \in Nat \ {0} /\ Frame = stack[1] /\ stack[1] \in Frames
      /\ stack[1].op = "stop" /\ stack[1].at = "pool"
  BY <1>1, FrameAt
<1>4. ~Frame.hold /\ Frame \in StopFrames
  BY <1>2, <1>3, FrameTypes DEF Stopping
<1>5. Len(pool) \in Nat /\ pool \in Seq(Threads)
  BY <1>1, LenProperties DEF Types
<1>6. /\ Frame.i \in Nat /\ Frame.i >= 1 /\ Frame.last = Len(pool) /\ loop = "none"
      /\ \A w \in 1..Len(pool) : w < Frame.i => pool[w] \notin Alive
  BY <1>3, <1>4 DEF LifeInv, Joined, StopFrames
<1>7. f \in Frames /\ f.op = "stop" /\ f.at = "pool" /\ ~f.hold
      /\ f.i = Frame.i + 1 /\ f.last = Len(pool)
  BY <1>3, <1>4, <1>6 DEF Frames, StopFrames
<1>8. Frame.i \in 1..Len(pool) /\ "joined" \in Threads
  BY <1>1, <1>5, <1>6 DEF Threads
<1>9. pool' \in Seq(Threads) /\ Len(pool') = Len(pool)
      /\ \A w \in 1..Len(pool) : pool'[w] = IF w = Frame.i THEN "joined" ELSE pool[w]
  BY <1>1, <1>5, <1>8, ExceptSeq
<1>10. \A w \in 1..Len(pool) : w < f.i => pool'[w] \notin Alive
  BY <1>5, <1>6, <1>7, <1>9 DEF Alive
<1> HIDE DEF f
<1> QED BY <1>1, <1>2, <1>3, <1>6, <1>7, <1>9, <1>10, StopGoesOn

\* The end of stop() keeps the invariant.
LEMMA LifeStopReturns ==
  ASSUME LifeInv, StopReturns
  PROVE  LifeInv'
<1>1. Types /\ In("stop", "pool") /\ Frame.i > Frame.last
      /\ quit' = (quit \/ ~Frame.hold) /\ stack' = Tail(stack)
      /\ phase' \in {"exec", "destroy", "gone"}
      /\ UNCHANGED <<stop, mutex, loop, pool, wanted, messages>>
  BY DEF StopReturns, Return, LifeInv, Types
<1>2. Stopping /\ ~mutex /\ stop /\ wanted # 0
  BY <1>1, StopsOnly, StopIsOver
<1>3. stack # <<>> /\ Len(stack) \in Nat \ {0} /\ Frame = stack[1] /\ stack[1] \in Frames
      /\ stack[1].op = "stop" /\ stack[1].at = "pool" /\ ~Frame.hold
  BY <1>1, <1>2, FrameAt DEF Stopping
<1>4. /\ stack' \in Seq(Frames) /\ Len(stack') = Len(stack) - 1
      /\ \A k \in 1..Len(stack') : k + 1 \in 1..Len(stack) /\ stack'[k] = stack[k + 1]
  <2>1. /\ Tail(stack) \in Seq(Frames) /\ Len(Tail(stack)) = Len(stack) - 1
        /\ \A k \in 1..(Len(stack) - 1) : Tail(stack)[k] = stack[k + 1]
    BY <1>1, <1>3, FirstFrame DEF Types
  <2> QED BY <1>1, <1>3, <2>1
<1>5. quit'
  BY <1>1, <1>3
<1>6. Types'
  BY <1>1, <1>4, <1>5 DEF Types
<1>7. Stopping'
  BY <1>2, <1>4 DEF Stopping
<1>8. ~mutex' /\ Locked'
  BY <1>1, <1>2, <1>7 DEF Locked, Stopping
<1>9. Joined'
  BY <1>1, <1>4 DEF LifeInv, Joined
<1>10. /\ loop = "none" /\ Frame.last = Len(pool) /\ Frame.i \in Nat
       /\ \A w \in 1..Len(pool) : w < Frame.i => pool[w] \notin Alive
  BY <1>3, FrameTypes DEF LifeInv, Joined
<1>11. Len(pool) \in Nat
  BY <1>1, LenProperties DEF Types
<1>12. Over'
  BY <1>1, <1>10, <1>11 DEF Over
<1>13. Once' /\ Living'
  BY <1>1, <1>2, <1>5 DEF Once, Living
<1> QED BY <1>6, <1>7, <1>8, <1>9, <1>12, <1>13 DEF LifeInv

-----------------------------------------------------------------------------
(* Steps of the other threads *)

\* The end of the main loop thread keeps the invariant.
LEMMA LifeLoopEnds ==
  ASSUME LifeInv, LoopEnds
  PROVE  LifeInv'
<1> USE DEF LoopEnds
<1>1. Types' /\ Locked'
  BY DEF LifeInv, Types, Locked
<1>2. (Stopping \/ Resizing)' /\ Joined'
  BY DEF LifeInv, Stopping, Resizing, Joined
<1>3. Over' /\ Once' /\ Living'
  BY DEF LifeInv, Over, Once, Living, Stopping
<1> QED BY <1>1, <1>2, <1>3 DEF LifeInv

\* A thread that lives goes on living, or ends when it was told to stop.
LEMMA LifeThread ==
  ASSUME LifeInv, NEW w \in DOMAIN pool, pool[w] \in Alive, NEW s \in Threads, Becomes(w, s),
         stop \/ s \in Alive
  PROVE  LifeInv'
<1>1. Types /\ pool' = [pool EXCEPT ![w] = s]
      /\ UNCHANGED <<stop, mutex, loop, stack, wanted, quit, phase, messages>>
  BY DEF Becomes, LifeInv
<1>2. w \in 1..Len(pool) /\ pool \in Seq(Threads)
  BY <1>1, LenProperties DEF Types
<1>3. pool' \in Seq(Threads) /\ Len(pool') = Len(pool)
      /\ \A v \in 1..Len(pool) : pool'[v] = IF v = w THEN s ELSE pool[v]
  BY <1>1, <1>2, ExceptSeq
<1>4. Types' /\ Locked'
  BY <1>1, <1>3 DEF LifeInv, Types, Locked
<1>5. (Stopping \/ Resizing)'
  BY <1>1 DEF LifeInv, Stopping, Resizing
<1>6. \A v \in 1..Len(pool) : pool[v] \notin Alive => pool'[v] \notin Alive
  BY <1>2, <1>3
<1>7. Joined' /\ Over'
  BY <1>1, <1>3, <1>6 DEF LifeInv, Joined, Over
<1>8. Len(pool) # 0
  BY <1>2
<1>9. pool # <<>>
  BY <1>8
<1>10. Once'
  BY <1>1, <1>9 DEF LifeInv, Once, Stopping
<1>11. Living'
  BY <1>1, <1>3 DEF LifeInv, Living, Stopping
<1> QED BY <1>4, <1>5, <1>7, <1>10, <1>11 DEF LifeInv

\* Every step of the service keeps the invariant.
LEMMA LifeNext ==
  ASSUME NoNestedUpdate
  PROVE  LifeInv /\ [Next]_vars => LifeInv'
<1> SUFFICES ASSUME LifeInv, [Next]_vars PROVE LifeInv'
  OBVIOUS
<1>1. ASSUME NEW n \in Sizes, UpdateService(n) PROVE LifeInv'
  BY <1>1, LifeUpdateService
<1>2. CASE Terminate
  BY <1>2, LifeTerminate
<1>3. CASE Main
  BY <1>3, LifeUpdateLock, LifeGrow, LifeShrink, LifeStopLock, LifeJoinLoop, LifeJoinThread,
     LifeStopReturns, LifeDestroy DEF Main
<1>4. CASE LoopEnds
  BY <1>4, LifeLoopEnds
<1>5. ASSUME NEW w \in DOMAIN pool, TakesTask(w) \/ EndsTask(w) \/ ThreadEnds(w) PROVE LifeInv'
  BY <1>5, LifeThread DEF TakesTask, EndsTask, ThreadEnds, Alive, Threads
<1>6. CASE UNCHANGED vars
  BY <1>6 DEF vars, LifeInv, Types, Locked, Stopping, Resizing, Joined, Over, Once, Living
<1> QED
  BY <1>1, <1>2, <1>3, <1>4, <1>5, <1>6 DEF Next, Gone

-----------------------------------------------------------------------------
(* Theorems *)

\* When a service says that it has finished no thread of it is left, for every
\* number of threads configured and every number of messages, as long as its number
\* of threads is not changed while it stops.
THEOREM FinishedMeansEndedCorrect ==
  ASSUME NoNestedUpdate
  PROVE  Spec => []FinishedMeansEnded
<1>1. LifeInv => FinishedMeansEnded
  <2> SUFFICES ASSUME LifeInv PROVE FinishedMeansEnded
    OBVIOUS
  <2>1. TypeOK
    BY TypesAre DEF LifeInv
  <2>2. DOMAIN pool = 1..Len(pool)
    BY LenProperties DEF LifeInv, Types
  <2> QED BY <2>1, <2>2 DEF FinishedMeansEnded, LifeInv, Over
<1>2. LifeInv /\ [Next]_vars => LifeInv'
  BY LifeNext
<1> QED BY <1>1, <1>2, LifeInit, PTL DEF Spec

\* A service that has settled has the threads it was asked for, MaxAtStart at most
\* from the start, for every number of threads configured.
THEOREM ThreadsAsWantedCorrect ==
  ASSUME NoNestedUpdate
  PROVE  Spec => []ThreadsAsWanted
<1>1. LifeInv => ThreadsAsWanted
  <2> SUFFICES ASSUME LifeInv, stack = <<>>, ~stop
               PROVE  Cardinality({w \in DOMAIN pool : pool[w] \in Alive})
                        \in {wanted, Least(wanted, MaxAtStart)}
    BY DEF ThreadsAsWanted
  <2>1. Len(pool) \in Nat /\ DOMAIN pool = 1..Len(pool)
    BY LenProperties DEF LifeInv, Types
  <2>2. {w \in DOMAIN pool : pool[w] \in Alive} = 1..Len(pool)
    BY <2>1 DEF LifeInv, Living
  <2>3. Cardinality(1..Len(pool)) = Len(pool)
    BY <2>1, FS_Interval
  <2>4. Stopping
    BY DEF Stopping
  <2> QED BY <2>2, <2>3, <2>4 DEF LifeInv, Living
<1>2. LifeInv /\ [Next]_vars => LifeInv'
  BY LifeNext
<1> QED BY <1>1, <1>2, LifeInit, PTL DEF Spec
-----------------------------------------------------------------------------
(* Types of the chain *)

UnitTypes == [run : Nat, part : 0..2]
Starts == [signal : {"START"}, to : Processes, date : Nat, from : Nat]
Messages == Starts \cup {Log}
RunTypes == [process : Processes, date : Nat, result : BOOLEAN, automatic : BOOLEAN]
HandlerTypes == [run : Nat, stage : {"lookup", "start"}, todo : SUBSET Processes]

Typed ==
  /\ active \subseteq Processes
  /\ handlers \subseteq HandlerTypes /\ \A h \in handlers : h.run \in 1..Len(runs)
  /\ link \in [Services -> {"told", "closed", "open", "dead"}]
  /\ inbox \in [Services -> Seq(Messages)]
  /\ wire \in [Services -> Seq(UnitTypes)]
  /\ buffer \in [Services -> Seq(UnitTypes)]
  /\ queue \in [Processes -> Seq([date : Nat, from : Nat])]
  /\ runs \in Seq(RunTypes)
  /\ clock \in 0..MaxClock /\ starts \in 0..MaxStarts /\ faults \in 0..MaxFaults
  /\ owed \subseteq (1..Len(runs)) \X Processes

-----------------------------------------------------------------------------
(* The inductive invariant of the chain *)

\* tempBuffer holds a header that waits for its text; without a connection nothing is on it.
Links ==
  \A s \in Services :
    /\ buffer[s] \in {<<>>} \cup {SubSeq(Units(n), 1, 2) : n \in 1..Len(runs)}
    /\ ~Connected(s) => inbox[s] = <<>> /\ wire[s] = <<>> /\ buffer[s] = <<>>

\* The units that a service has sent and that are not cut out yet.
Stream(s) == buffer[s] \o wire[s]

\* A stream begins anywhere in a message, and then each run of service s has its units
\* once and in order.
IsStream(units, s) ==
  \A k \in 1..Len(units) :
    /\ units[k].run \in 1..Len(runs) /\ Host(runs[units[k].run].process) = s
    /\ units[k].part < 2 =>
         k < Len(units) /\ units[k + 1] = [run |-> units[k].run, part |-> units[k].part + 1]
    /\ \A j \in 1..(k - 1) :
         units[j].run <= units[k].run /\ (units[j].run = units[k].run => units[j].part < units[k].part)

Streams == \A s \in Services : IsStream(Stream(s), s)

\* The start of q on a date has the cause that it names.
Cause(q, date, n) ==
  /\ date <= clock
  /\ n = 0 => \A v \in Views : <<v, q>> \notin Watches
  /\ n # 0 =>
       /\ n \in 1..Len(runs) /\ q \in FollowersFound(n)
       /\ IF runs[n].process \in Views THEN date >= runs[n].date ELSE date = runs[n].date

\* A start that is sent to service s.
Meant(s, m) == m.signal = "START" => Host(m.to) = s /\ Cause(m.to, m.date, m.from)

Causes ==
  /\ \A n \in 1..Len(runs) : runs[n].date <= clock
  /\ \A s \in Services : \A k \in 1..Len(inbox[s]) : Meant(s, inbox[s][k])
  /\ \A q \in Processes : \A k \in 1..Len(queue[q]) : Cause(q, queue[q][k].date, queue[q][k].from)
  /\ \A h \in handlers : h.stage = "start" => h.todo # {} /\ h.todo \subseteq FollowersFound(h.run)

\* No two messages have the same pair.
Distinct(mail) ==
  \A j, k \in 1..Len(mail) :
    /\ mail[j].signal = "START" /\ mail[j].from # 0
    /\ mail[k].signal = "START" /\ mail[k].from = mail[j].from /\ mail[k].to = mail[j].to
    => j = k

\* A pair is at one place only.
Apart ==
  /\ \A s \in Services : Distinct(inbox[s])
  /\ \A s, t \in Services : OfMessages(inbox[s]) \cap OfUnits(Stream(t)) = {}
  /\ \A s \in Services, h \in handlers : OfMessages(inbox[s]) \cap OfHandler(h) = {}
  /\ \A s \in Services, h \in handlers : OfUnits(Stream(s)) \cap OfHandler(h) = {}
  /\ \A g, h \in handlers : g # h => OfHandler(g) \cap OfHandler(h) = {}

\* What has to follow a run is on its way, started or excused.
Balanced ==
  /\ owed \ (started \cup excused) = InFlight
  /\ started \cup excused \subseteq owed
  /\ started \cap excused = {}

\* Before the first fault every service is connected, and excused is what is inactive.
Faultless ==
  /\ Processes \ Edited \subseteq active
  /\ faults = 0 =>
       /\ \A s \in Services : link[s] = "told"
       /\ \A e \in excused : e[2] \in Edited

ChainInv == Typed /\ Links /\ Streams /\ Causes /\ Apart /\ Balanced /\ Faultless
-----------------------------------------------------------------------------
(* What is on the connections *)

\* The pairs of a stretch of units are those of the messages whose start is in it.
LEMMA OfUnitsIs ==
  ASSUME NEW units, NEW e
  PROVE  e \in OfUnits(units) <=>
           \E k \in DOMAIN units : units[k].part = 0 /\ e \in {units[k].run} \X FollowersFound(units[k].run)
BY DEF OfUnits, Pairs, FollowersFound

\* The same of the next state, where runs may have been added.
LEMMA OfUnitsNext ==
  ASSUME NEW units, NEW e
  PROVE  e \in OfUnits(units)' <=>
           \E k \in DOMAIN units : units[k].part = 0 /\ e \in {units[k].run} \X FollowersFound(units[k].run)'
BY DEF OfUnits, Pairs, FollowersFound

\* The pairs of a mail are those of the starts in it that name a run.
LEMMA OfMessagesIs ==
  ASSUME NEW mail, NEW e
  PROVE  e \in OfMessages(mail) <=>
           \E k \in DOMAIN mail :
             mail[k].signal = "START" /\ mail[k].from # 0 /\ e = <<mail[k].from, mail[k].to>>
BY DEF OfMessages

\* A pair is on its way in a stream, in a START or in a handler.
LEMMA InFlightIs ==
  ASSUME NEW e
  PROVE  e \in InFlight <=>
           \/ \E s \in Services : e \in OfUnits(Stream(s)) \/ e \in OfMessages(inbox[s])
           \/ \E h \in handlers : e \in OfHandler(h)
<1>1. \A s \in Services : OnConnection(s) = OfUnits(Stream(s)) \cup OfMessages(inbox[s])
  BY DEF OnConnection, Stream
<1>. QED BY <1>1 DEF InFlight
-----------------------------------------------------------------------------
(* Followers and runs *)

\* Every process has a service; what follows a run, and what is run for a process, are
\* processes.
LEMMA Places ==
  /\ \A p \in Processes : Host(p) \in Services
  /\ \A p : Followers(p) \subseteq Processes
  /\ \A n : FollowersFound(n) \subseteq Processes
  /\ \A p \in Processes : RunFor(p) \in Processes
<1>1. \A p \in Processes : Host(p) \in Services
  BY DEF Services
<1>2. \A p : Followers(p) \subseteq Processes
  BY DEF Followers, Processes
<1>3. \A n : FollowersFound(n) \subseteq Processes
  BY <1>2 DEF FollowersFound
<1>4. ASSUME NEW p \in Processes PROVE RunFor(p) \in Processes
  <2>1. CASE \E v \in Views : <<v, p>> \in Watches
    <3>1. PICK v \in Views : <<v, p>> \in Watches
      BY <2>1
    <3>2. (CHOOSE x \in Views : <<x, p>> \in Watches) \in Views
      BY <3>1
    <3>. QED BY <2>1, <3>2 DEF RunFor, Processes
  <2>2. CASE ~ \E v \in Views : <<v, p>> \in Watches
    BY <2>2 DEF RunFor
  <2>. QED BY <2>1, <2>2
<1>. QED BY <1>1, <1>2, <1>3, <1>4

\* The three units of a message.
LEMMA UnitsAre ==
  ASSUME NEW n \in Nat
  PROVE  /\ Units(n) \in Seq(UnitTypes) /\ Len(Units(n)) = 3
         /\ \A k \in 1..3 : Units(n)[k] = [run |-> n, part |-> k - 1]
<1>1. \A k \in 1..3 : [run |-> n, part |-> k - 1] \in UnitTypes
  BY DEF UnitTypes
<1>2. Units(n) \in [1..3 -> UnitTypes]
  BY <1>1 DEF Units
<1>3. Units(n) \in Seq(UnitTypes)
  BY <1>2, SeqDef
<1>4. DOMAIN Units(n) = 1..3 /\ \A k \in 1..3 : Units(n)[k] = [run |-> n, part |-> k - 1]
  BY DEF Units
<1>5. Len(Units(n)) = 3
  BY <1>3, <1>4, LenProperties
<1>. QED BY <1>3, <1>4, <1>5

\* The fields of a run.
LEMMA RunFacts ==
  ASSUME Typed, NEW n \in 1..Len(runs)
  PROVE  /\ runs[n].process \in Processes /\ runs[n].date \in Nat
         /\ runs[n].result \in BOOLEAN /\ runs[n].automatic \in BOOLEAN
         /\ n \in Nat /\ n > 0 /\ Len(runs) \in Nat
<1>1. Len(runs) \in Nat /\ runs[n] \in RunTypes
  BY DEF Typed
<1>. QED BY <1>1 DEF RunTypes

\* The runs do not change when one is added.
LEMMA RunAdded ==
  ASSUME Typed, NEW r \in RunTypes, runs' = Append(runs, r)
  PROVE  /\ runs' \in Seq(RunTypes) /\ Len(runs) \in Nat /\ Len(runs)' = Len(runs) + 1
         /\ runs'[Len(runs) + 1] = r
         /\ \A n \in 1..Len(runs) : runs'[n] = runs[n] /\ FollowersFound(n)' = FollowersFound(n)
         /\ 1..Len(runs) \subseteq 1..Len(runs)'
<1>1. /\ runs' \in Seq(RunTypes) /\ Len(runs) \in Nat /\ Len(runs)' = Len(runs) + 1
      /\ runs'[Len(runs) + 1] = r /\ \A n \in 1..Len(runs) : runs'[n] = runs[n]
  BY AppendProperties DEF Typed
<1>2. \A n \in 1..Len(runs) : FollowersFound(n)' = FollowersFound(n)
  BY <1>1 DEF FollowersFound, Followers
<1>. QED BY <1>1, <1>2
-----------------------------------------------------------------------------
(* Parts of what is on a connection *)

\* Where nothing is there are no pairs.
LEMMA NoPairs ==
  /\ OfUnits(<<>>) = {} /\ OfMessages(<<>>) = {} /\ Distinct(<<>>)
<1>1. DOMAIN <<>> = {} /\ Len(<<>>) = 0
  OBVIOUS
<1>2. OfUnits(<<>>) = {} /\ OfMessages(<<>>) = {}
  BY <1>1, OfUnitsIs, OfMessagesIs
<1>. QED BY <1>1, <1>2 DEF Distinct

\* One message.
LEMMA OneMessage ==
  ASSUME NEW m
  PROVE  /\ Distinct(<<m>>)
         /\ OfMessages(<<m>>) =
              IF m.signal = "START" /\ m.from # 0 THEN {<<m.from, m.to>>} ELSE {}
<1>1. DOMAIN <<m>> = {1} /\ Len(<<m>>) = 1 /\ <<m>>[1] = m
  OBVIOUS
<1>2. \A e : e \in OfMessages(<<m>>) <=> m.signal = "START" /\ m.from # 0 /\ e = <<m.from, m.to>>
  BY <1>1, OfMessagesIs
<1>. QED BY <1>1, <1>2 DEF Distinct

\* A part of a mail.
LEMMA MailPart ==
  ASSUME NEW mail \in Seq(Messages), Distinct(mail), NEW i \in Nat, NEW j \in Nat, i > 0, j <= Len(mail)
  PROVE  LET part == SubSeq(mail, i, j)
         IN /\ part \in Seq(Messages) /\ Distinct(part)
            /\ \A e : e \in OfMessages(part) <=>
                 \E k \in i..j : mail[k].signal = "START" /\ mail[k].from # 0 /\ e = <<mail[k].from, mail[k].to>>
<1>. DEFINE part == SubSeq(mail, i, j)
<1>1. Len(mail) \in Nat /\ \A k \in i..j : mail[k] \in Messages
  BY LenProperties, ElementOfSeq
<1>2. /\ part \in Seq(Messages)
      /\ Len(part) = (IF i <= j THEN j - i + 1 ELSE 0)
      /\ \A k \in 1..(j - i + 1) : part[k] = mail[i + k - 1]
  BY <1>1, SubSeqProperties
<1>3. DOMAIN part = 1..Len(part)
  BY <1>2, LenProperties
<1>. HIDE DEF part
<1>4. Distinct(part)
  <2>. SUFFICES ASSUME NEW k \in 1..Len(part), NEW l \in 1..Len(part),
                       part[k].signal = "START" /\ part[k].from # 0,
                       part[l].signal = "START" /\ part[l].from = part[k].from /\ part[l].to = part[k].to
                PROVE  k = l
    BY DEF Distinct
  <2>0. k \in 1..(j - i + 1) /\ l \in 1..(j - i + 1)
    BY <1>2
  <2>1. i + k - 1 \in 1..Len(mail) /\ i + l - 1 \in 1..Len(mail)
    BY <1>1, <2>0
  <2>2. part[k] = mail[i + k - 1] /\ part[l] = mail[i + l - 1]
    BY <1>2, <2>0
  <2>3. i + k - 1 = i + l - 1
    BY <2>1, <2>2 DEF Distinct
  <2>. QED BY <2>3
<1>5. ASSUME NEW e
      PROVE  e \in OfMessages(part) <=>
               \E k \in i..j : mail[k].signal = "START" /\ mail[k].from # 0 /\ e = <<mail[k].from, mail[k].to>>
  <2>. DEFINE P(m) == m.signal = "START" /\ m.from # 0 /\ e = <<m.from, m.to>>
  <2>1. ASSUME NEW k \in 1..Len(part) PROVE i + k - 1 \in i..j /\ part[k] = mail[i + k - 1]
    BY <1>1, <1>2
  <2>2. ASSUME NEW k \in i..j PROVE k - i + 1 \in 1..Len(part) /\ part[k - i + 1] = mail[k]
    BY <1>1, <1>2
  <2>3. e \in OfMessages(part) <=>
          \E k \in 1..Len(part) : P(part[k])
    BY <1>3, OfMessagesIs
  <2>4. e \in OfMessages(part) <=> \E k \in i..j : P(mail[k])
    <3>. HIDE DEF P
    <3>. QED BY <2>1, <2>2, <2>3
  <2>. QED BY <2>4
<1>. QED BY <1>2, <1>4, <1>5 DEF part

\* The first of k messages, the others of them and the rest.
LEMMA MailSplit ==
  ASSUME NEW mail \in Seq(Messages), Distinct(mail), NEW k \in 1..Len(mail)
  PROVE  LET first == OfMessages(<<Head(mail)>>)
             others == OfMessages(SubSeq(mail, 2, k))
             rest == SubSeq(mail, k + 1, Len(mail))
         IN /\ Head(mail) = mail[1] /\ Head(mail) \in Messages
            /\ rest \in Seq(Messages) /\ Distinct(rest)
            /\ \A l \in 1..Len(rest) : rest[l] = mail[k + l] /\ k + l \in 1..Len(mail)
            /\ OfMessages(mail) = first \cup others \cup OfMessages(rest)
            /\ first \cap others = {} /\ (first \cup others) \cap OfMessages(rest) = {}
<1>. DEFINE P(j, e) == mail[j].signal = "START" /\ mail[j].from # 0 /\ e = <<mail[j].from, mail[j].to>>
            rest == SubSeq(mail, k + 1, Len(mail))
<1>1. /\ Len(mail) \in Nat /\ DOMAIN mail = 1..Len(mail)
      /\ Head(mail) = mail[1] /\ Head(mail) \in Messages
  BY LenProperties, ElementOfSeq
<1>2. \A e : e \in OfMessages(<<Head(mail)>>) <=> P(1, e)
  BY <1>1, OneMessage
<1>3. \A e : e \in OfMessages(SubSeq(mail, 2, k)) <=> \E j \in 2..k : P(j, e)
  BY <1>1, MailPart
<1>4. /\ rest \in Seq(Messages) /\ Distinct(rest)
      /\ \A e : e \in OfMessages(rest) <=> \E j \in (k + 1)..Len(mail) : P(j, e)
  BY <1>1, MailPart
<1>5. \A e : e \in OfMessages(mail) <=> \E j \in 1..Len(mail) : P(j, e)
  BY <1>1, OfMessagesIs
<1>6. \A e : \A i, j \in 1..Len(mail) : P(i, e) /\ P(j, e) => i = j
  BY DEF Distinct
<1>7. \A l \in 1..Len(rest) : rest[l] = mail[k + l] /\ k + l \in 1..Len(mail)
  <2>1. \A l \in (k + 1)..Len(mail) : mail[l] \in Messages
    BY <1>1, ElementOfSeq
  <2>2. /\ Len(rest) = (IF k + 1 <= Len(mail) THEN Len(mail) - (k + 1) + 1 ELSE 0)
        /\ \A l \in 1..(Len(mail) - (k + 1) + 1) : rest[l] = mail[k + 1 + l - 1]
    BY <1>1, <2>1, SubSeqProperties
  <2>. QED BY <1>1, <2>2
<1>8. \A j : j \in 1..Len(mail) <=> j = 1 \/ j \in 2..k \/ j \in (k + 1)..Len(mail)
  BY <1>1
<1>9. 1 \notin 2..k /\ 1 \notin (k + 1)..Len(mail) /\ (2..k) \cap ((k + 1)..Len(mail)) = {}
  BY <1>1
<1>. HIDE DEF P
<1>10. OfMessages(mail) = OfMessages(<<Head(mail)>>) \cup OfMessages(SubSeq(mail, 2, k)) \cup OfMessages(rest)
  BY <1>2, <1>3, <1>4, <1>5, <1>8
<1>11. OfMessages(<<Head(mail)>>) \cap OfMessages(SubSeq(mail, 2, k)) = {}
  BY <1>2, <1>3, <1>6, <1>8, <1>9
<1>12. (OfMessages(<<Head(mail)>>) \cup OfMessages(SubSeq(mail, 2, k))) \cap OfMessages(rest) = {}
  BY <1>2, <1>3, <1>4, <1>6, <1>8, <1>9
<1>. QED BY <1>1, <1>4, <1>7, <1>10, <1>11, <1>12

\* Mail that is added at the end.
LEMMA MailAdded ==
  ASSUME NEW mail \in Seq(Messages), NEW more \in Seq(Messages), Distinct(mail), Distinct(more),
         OfMessages(mail) \cap OfMessages(more) = {}
  PROVE  /\ mail \o more \in Seq(Messages) /\ Distinct(mail \o more)
         /\ OfMessages(mail \o more) = OfMessages(mail) \cup OfMessages(more)
         /\ \A k \in 1..Len(mail \o more) :
              \/ k \in 1..Len(mail) /\ (mail \o more)[k] = mail[k]
              \/ k - Len(mail) \in 1..Len(more) /\ (mail \o more)[k] = more[k - Len(mail)]
<1>. DEFINE both == mail \o more
            P(m, e) == m.signal = "START" /\ m.from # 0 /\ e = <<m.from, m.to>>
<1>1. /\ Len(mail) \in Nat /\ Len(more) \in Nat
      /\ DOMAIN mail = 1..Len(mail) /\ DOMAIN more = 1..Len(more)
  BY LenProperties
<1>2. /\ both \in Seq(Messages) /\ Len(both) = Len(mail) + Len(more)
      /\ \A k \in 1..(Len(mail) + Len(more)) : both[k] = IF k <= Len(mail) THEN mail[k] ELSE more[k - Len(mail)]
  BY ConcatProperties
<1>3. DOMAIN both = 1..Len(both)
  BY <1>2, LenProperties
<1>. HIDE DEF both
<1>4. ASSUME NEW k \in 1..Len(both)
      PROVE  \/ k \in 1..Len(mail) /\ both[k] = mail[k]
             \/ k - Len(mail) \in 1..Len(more) /\ both[k] = more[k - Len(mail)]
  BY <1>1, <1>2
<1>5. ASSUME NEW k \in 1..Len(mail) PROVE k \in 1..Len(both) /\ both[k] = mail[k]
  BY <1>1, <1>2
<1>6. ASSUME NEW k \in 1..Len(more) PROVE k + Len(mail) \in 1..Len(both) /\ both[k + Len(mail)] = more[k]
  BY <1>1, <1>2
<1>7. /\ \A e : e \in OfMessages(mail) <=> \E k \in 1..Len(mail) : P(mail[k], e)
      /\ \A e : e \in OfMessages(more) <=> \E k \in 1..Len(more) : P(more[k], e)
      /\ \A e : e \in OfMessages(both) <=> \E k \in 1..Len(both) : P(both[k], e)
  BY <1>1, <1>3, OfMessagesIs
<1>8. OfMessages(both) = OfMessages(mail) \cup OfMessages(more)
  <2>. HIDE DEF P
  <2>. QED BY <1>4, <1>5, <1>6, <1>7
<1>9. Distinct(both)
  <2>. SUFFICES ASSUME NEW j \in 1..Len(both), NEW k \in 1..Len(both), NEW e, P(both[j], e), P(both[k], e)
                PROVE  j = k
    BY DEF Distinct
  <2>1. /\ \A x, y \in 1..Len(mail) : P(mail[x], e) /\ P(mail[y], e) => x = y
        /\ \A x, y \in 1..Len(more) : P(more[x], e) /\ P(more[y], e) => x = y
    BY DEF Distinct
  <2>2. ~(e \in OfMessages(mail) /\ e \in OfMessages(more))
    OBVIOUS
  <2>. HIDE DEF P
  <2>3. \A x \in 1..Len(mail), y \in 1..Len(more) : ~(P(mail[x], e) /\ P(more[y], e))
    BY <2>2, <1>7
  <2>4. CASE j \in 1..Len(mail) /\ both[j] = mail[j]
    BY <2>4, <2>1, <2>3, <1>4
  <2>5. CASE j - Len(mail) \in 1..Len(more) /\ both[j] = more[j - Len(mail)]
    <3>1. CASE k \in 1..Len(mail) /\ both[k] = mail[k]
      BY <2>5, <3>1, <2>3
    <3>2. CASE k - Len(mail) \in 1..Len(more) /\ both[k] = more[k - Len(mail)]
      <4>1. j - Len(mail) = k - Len(mail)
        BY <2>5, <3>2, <2>1
      <4>. QED BY <4>1, <1>1, <1>2
    <3>. QED BY <3>1, <3>2, <1>4
  <2>. QED BY <2>4, <2>5, <1>4
<1>. QED BY <1>2, <1>4, <1>8, <1>9 DEF both
-----------------------------------------------------------------------------
(* Streams of units *)

\* Of a stream, what follows position d.
Suffix(part, units, d) ==
  /\ part \in Seq(UnitTypes)
  /\ Len(part) = Len(units) - d
  /\ \A k \in 1..Len(part) : part[k] = units[d + k]

\* What is left of a stream when its first units are gone is a stream, with its own
\* pairs.
LEMMA SuffixIsStream ==
  ASSUME NEW s, NEW units \in Seq(UnitTypes), IsStream(units, s),
         NEW d \in 0..Len(units), NEW part, Suffix(part, units, d)
  PROVE  /\ IsStream(part, s)
         /\ \A e : e \in OfUnits(part) <=>
              \E k \in (d + 1)..Len(units) : units[k].part = 0 /\ e \in {units[k].run} \X FollowersFound(units[k].run)
<1>1. /\ Len(units) \in Nat /\ part \in Seq(UnitTypes)
      /\ Len(part) = Len(units) - d /\ DOMAIN part = 1..Len(part)
      /\ \A k \in 1..Len(part) : part[k] = units[d + k] /\ d + k \in 1..Len(units)
  BY LenProperties DEF Suffix
<1>2. IsStream(part, s)
  <2>. SUFFICES ASSUME NEW k \in 1..Len(part)
                PROVE  /\ part[k].run \in 1..Len(runs) /\ Host(runs[part[k].run].process) = s
                       /\ part[k].part < 2 =>
                            k < Len(part) /\ part[k + 1] = [run |-> part[k].run, part |-> part[k].part + 1]
                       /\ \A j \in 1..(k - 1) :
                            part[j].run <= part[k].run /\ (part[j].run = part[k].run => part[j].part < part[k].part)
    BY DEF IsStream
  <2>1. part[k] = units[d + k] /\ d + k \in 1..Len(units)
    BY <1>1
  <2>2. part[k].run \in 1..Len(runs) /\ Host(runs[part[k].run].process) = s
    BY <2>1 DEF IsStream
  <2>3. ASSUME part[k].part < 2
        PROVE  k < Len(part) /\ part[k + 1] = [run |-> part[k].run, part |-> part[k].part + 1]
    <3>1. d + k < Len(units) /\ units[d + k + 1] = [run |-> units[d + k].run, part |-> units[d + k].part + 1]
      BY <2>1, <2>3 DEF IsStream
    <3>2. k + 1 \in 1..Len(part)
      BY <3>1, <1>1
    <3>3. part[k + 1] = units[d + (k + 1)]
      BY <3>2, <1>1
    <3>4. d + (k + 1) = d + k + 1
      BY <1>1
    <3>. QED BY <3>1, <3>2, <3>3, <3>4, <2>1
  <2>4. ASSUME NEW j \in 1..(k - 1)
        PROVE  part[j].run <= part[k].run /\ (part[j].run = part[k].run => part[j].part < part[k].part)
    <3>1. j \in 1..Len(part) /\ d + j \in 1..(d + k - 1)
      BY <1>1
    <3>2. part[j] = units[d + j]
      BY <3>1, <1>1
    <3>3. /\ units[d + j].run <= units[d + k].run
          /\ units[d + j].run = units[d + k].run => units[d + j].part < units[d + k].part
      <4>1. \A x \in 1..Len(units) : \A y \in 1..(x - 1) :
              units[y].run <= units[x].run /\ (units[y].run = units[x].run => units[y].part < units[x].part)
        BY DEF IsStream
      <4>. QED BY <4>1, <3>1, <2>1
    <3>. QED BY <3>2, <3>3, <2>1
  <2>. QED BY <2>2, <2>3, <2>4
<1>3. ASSUME NEW e
      PROVE  e \in OfUnits(part) <=>
               \E k \in (d + 1)..Len(units) : units[k].part = 0 /\ e \in {units[k].run} \X FollowersFound(units[k].run)
  <2>. DEFINE P(u) == u.part = 0 /\ e \in {u.run} \X FollowersFound(u.run)
  <2>1. e \in OfUnits(part) <=> \E k \in 1..Len(part) : P(part[k])
    BY <1>1, OfUnitsIs
  <2>2. ASSUME NEW k \in 1..Len(part) PROVE d + k \in (d + 1)..Len(units) /\ part[k] = units[d + k]
    BY <1>1
  <2>3. ASSUME NEW k \in (d + 1)..Len(units) PROVE k - d \in 1..Len(part) /\ part[k - d] = units[k]
    <3>1. k - d \in 1..Len(part) /\ d + (k - d) = k
      BY <1>1
    <3>. QED BY <3>1, <1>1
  <2>. HIDE DEF P
  <2>4. e \in OfUnits(part) <=> \E k \in (d + 1)..Len(units) : P(units[k])
    BY <2>1, <2>2, <2>3
  <2>. QED BY <2>4 DEF P
<1>. QED BY <1>2, <1>3

\* A unit is in a stream once.
LEMMA UnitOnce ==
  ASSUME Typed, NEW s, NEW units \in Seq(UnitTypes), IsStream(units, s),
         NEW j \in 1..Len(units), NEW k \in 1..Len(units), units[j].run = units[k].run
  PROVE  /\ units[j].part \in 0..2 /\ units[k].part \in 0..2 /\ units[j].run \in Nat
         /\ units[j].part = units[k].part => j = k
         /\ units[j].part < units[k].part => j < k
<1>1. /\ Len(units) \in Nat /\ units[j] \in UnitTypes /\ units[k] \in UnitTypes
  BY LenProperties, ElementOfSeq
<1>2. units[j].part \in 0..2 /\ units[k].part \in 0..2 /\ units[j].run \in Nat
  BY <1>1 DEF UnitTypes
<1>3. CASE j < k
  <2>1. j \in 1..(k - 1)
    BY <1>1, <1>3
  <2>2. units[j].part < units[k].part
    BY <2>1 DEF IsStream
  <2>. QED BY <1>2, <1>3, <2>2
<1>4. CASE k < j
  <2>1. k \in 1..(j - 1)
    BY <1>1, <1>4
  <2>2. units[k].part < units[j].part
    BY <2>1 DEF IsStream
  <2>. QED BY <1>2, <1>4, <2>2
<1>5. CASE j = k
  BY <1>2, <1>5
<1>. QED BY <1>1, <1>3, <1>4, <1>5

\* A stream to which the units of a new run are added.
LEMMA StreamAdded ==
  ASSUME Typed, NEW s, NEW units \in Seq(UnitTypes), IsStream(units, s),
         NEW r \in RunTypes, Host(r.process) = s, runs' = Append(runs, r),
         NEW n, n = Len(runs) + 1, NEW long, long = units \o Units(n)
  PROVE  /\ long \in Seq(UnitTypes)
         /\ IsStream(long, s)'
         /\ OfUnits(long)' = OfUnits(units) \cup {n} \X FollowersFound(n)'
<1>1. /\ Len(runs) \in Nat /\ n \in Nat /\ Len(runs)' = n /\ runs'[n] = r
      /\ \A m \in 1..Len(runs) : runs'[m] = runs[m] /\ FollowersFound(m)' = FollowersFound(m)
  BY RunAdded
<1>2. /\ Units(n) \in Seq(UnitTypes) /\ Len(Units(n)) = 3
      /\ \A k \in 1..3 : Units(n)[k] = [run |-> n, part |-> k - 1]
  BY <1>1, UnitsAre
<1>3. /\ Len(units) \in Nat /\ DOMAIN units = 1..Len(units)
      /\ \A k \in 1..Len(units) : units[k] \in UnitTypes
  BY LenProperties, ElementOfSeq
<1>4. /\ long \in Seq(UnitTypes) /\ Len(long) = Len(units) + 3
      /\ \A k \in 1..(Len(units) + 3) : long[k] = IF k <= Len(units) THEN units[k] ELSE Units(n)[k - Len(units)]
  <2>1. /\ units \o Units(n) \in Seq(UnitTypes)
        /\ Len(units \o Units(n)) = Len(units) + Len(Units(n))
        /\ \A k \in 1..(Len(units) + Len(Units(n))) :
             (units \o Units(n))[k] = IF k <= Len(units) THEN units[k] ELSE Units(n)[k - Len(units)]
    BY <1>2, ConcatProperties
  <2>. QED BY <2>1, <1>2
<1>5. DOMAIN long = 1..Len(long)
  BY <1>4, LenProperties
<1>6. ASSUME NEW k \in 1..Len(units)
      PROVE  k \in 1..Len(long) /\ long[k] = units[k] /\ units[k].run \in 1..Len(runs)
  <2>1. k \in 1..Len(long) /\ k \in 1..(Len(units) + 3) /\ k <= Len(units)
    BY <1>3, <1>4
  <2>2. units[k].run \in 1..Len(runs)
    BY DEF IsStream
  <2>. QED BY <2>1, <2>2, <1>4
<1>7. ASSUME NEW k \in 1..Len(long), k \notin 1..Len(units)
      PROVE  k - Len(units) \in 1..3 /\ long[k] = [run |-> n, part |-> k - Len(units) - 1]
  <2>1. k - Len(units) \in 1..3 /\ ~(k <= Len(units))
    BY <1>3, <1>4, <1>7
  <2>. QED BY <2>1, <1>2, <1>4
<1>8. IsStream(long, s)'
  <2>. SUFFICES ASSUME NEW k \in 1..Len(long)
                PROVE  /\ long[k].run \in 1..Len(runs)' /\ Host(runs'[long[k].run].process) = s
                       /\ long[k].part < 2 =>
                            k < Len(long) /\ long[k + 1] = [run |-> long[k].run, part |-> long[k].part + 1]
                       /\ \A j \in 1..(k - 1) :
                            long[j].run <= long[k].run /\ (long[j].run = long[k].run => long[j].part < long[k].part)
    BY DEF IsStream, Host
  <2>1. CASE k \in 1..Len(units)
    <3>1. /\ long[k] = units[k] /\ units[k].run \in 1..Len(runs)
      BY <2>1, <1>6
    <3>2. long[k].run \in 1..Len(runs)' /\ Host(runs'[long[k].run].process) = s
      <4>1. Host(runs[units[k].run].process) = s
        BY <2>1 DEF IsStream
      <4>2. runs'[units[k].run] = runs[units[k].run] /\ units[k].run \in 1..n
        BY <3>1, <1>1
      <4>. QED BY <4>1, <4>2, <3>1, <1>1
    <3>3. ASSUME long[k].part < 2
          PROVE  k < Len(long) /\ long[k + 1] = [run |-> long[k].run, part |-> long[k].part + 1]
      <4>1. k < Len(units) /\ units[k + 1] = [run |-> units[k].run, part |-> units[k].part + 1]
        BY <3>1, <3>3, <2>1 DEF IsStream
      <4>2. k + 1 \in 1..Len(units)
        BY <4>1, <1>3, <2>1
      <4>. QED BY <4>1, <4>2, <3>1, <1>3, <1>4, <1>6
    <3>4. ASSUME NEW j \in 1..(k - 1)
          PROVE  long[j].run <= long[k].run /\ (long[j].run = long[k].run => long[j].part < long[k].part)
      <4>1. j \in 1..Len(units)
        BY <2>1, <1>3
      <4>. QED BY <4>1, <3>1, <2>1, <1>6 DEF IsStream
    <3>. QED BY <3>2, <3>3, <3>4
  <2>2. CASE k \notin 1..Len(units)
    <3>1. k - Len(units) \in 1..3 /\ long[k] = [run |-> n, part |-> k - Len(units) - 1]
      BY <2>2, <1>7
    <3>2. long[k].run \in 1..Len(runs)' /\ Host(runs'[long[k].run].process) = s
      BY <3>1, <1>1
    <3>3. ASSUME long[k].part < 2
          PROVE  k < Len(long) /\ long[k + 1] = [run |-> long[k].run, part |-> long[k].part + 1]
      <4>1. k + 1 \in 1..Len(long) /\ k + 1 \notin 1..Len(units) /\ k < Len(long)
        BY <3>1, <3>3, <1>3, <1>4, <2>2
      <4>2. long[k + 1] = [run |-> n, part |-> k + 1 - Len(units) - 1]
        BY <4>1, <1>7
      <4>. QED BY <4>1, <4>2, <3>1, <1>3
    <3>4. ASSUME NEW j \in 1..(k - 1)
          PROVE  long[j].run <= long[k].run /\ (long[j].run = long[k].run => long[j].part < long[k].part)
      <4>1. CASE j \in 1..Len(units)
        <5>1. long[j].run \in 1..Len(runs)
          BY <4>1, <1>6
        <5>2. long[j].run < n /\ long[k].run = n
          BY <5>1, <3>1, <1>1
        <5>. QED BY <5>1, <5>2, <1>1
      <4>2. CASE j \notin 1..Len(units)
        <5>1. j \in 1..Len(long)
          BY <1>3, <1>4
        <5>2. j - Len(units) \in 1..3 /\ long[j] = [run |-> n, part |-> j - Len(units) - 1]
          BY <5>1, <4>2, <1>7
        <5>3. /\ long[j].run = n /\ long[k].run = n
              /\ long[j].part = j - Len(units) - 1 /\ long[k].part = k - Len(units) - 1
          BY <5>2, <3>1
        <5>4. j - Len(units) - 1 < k - Len(units) - 1 /\ n <= n
          BY <1>1, <1>3, <1>4
        <5>. QED BY <5>3, <5>4
      <4>. QED BY <4>1, <4>2
    <3>. QED BY <3>2, <3>3, <3>4
  <2>. QED BY <2>1, <2>2
<1>9. OfUnits(long)' = OfUnits(units) \cup {n} \X FollowersFound(n)'
  <2>1. \A e : e \in OfUnits(long)' <=>
          \E k \in 1..Len(long) : long[k].part = 0 /\ e \in {long[k].run} \X FollowersFound(long[k].run)'
    BY <1>5, OfUnitsNext
  <2>2. \A e : e \in OfUnits(units) <=>
          \E k \in 1..Len(units) : units[k].part = 0 /\ e \in {units[k].run} \X FollowersFound(units[k].run)
    BY <1>3, OfUnitsIs
  <2>3. ASSUME NEW e, e \in OfUnits(units) PROVE e \in OfUnits(long)'
    <3>1. PICK k \in 1..Len(units) : units[k].part = 0 /\ e \in {units[k].run} \X FollowersFound(units[k].run)
      BY <2>2, <2>3
    <3>. QED BY <3>1, <2>1, <1>1, <1>6
  <2>4. ASSUME NEW e, e \in {n} \X FollowersFound(n)' PROVE e \in OfUnits(long)'
    <3>1. PICK k \in 1..Len(long) : k = Len(units) + 1
      BY <1>3, <1>4
    <3>2. k \notin 1..Len(units) /\ k - Len(units) - 1 = 0
      BY <3>1, <1>3
    <3>3. long[k].part = 0 /\ long[k].run = n
      <4>1. long[k] = [run |-> n, part |-> k - Len(units) - 1]
        BY <3>2, <1>7
      <4>. QED BY <4>1, <3>2
    <3>. QED BY <3>1, <3>3, <2>1, <2>4
  <2>5. ASSUME NEW e, e \in OfUnits(long)' PROVE e \in OfUnits(units) \cup {n} \X FollowersFound(n)'
    <3>1. PICK k \in 1..Len(long) : long[k].part = 0 /\ e \in {long[k].run} \X FollowersFound(long[k].run)'
      BY <2>1, <2>5
    <3>2. CASE k \in 1..Len(units)
      BY <3>1, <3>2, <2>2, <1>1, <1>6
    <3>3. CASE k \notin 1..Len(units)
      <4>1. long[k].run = n
        <5>1. long[k] = [run |-> n, part |-> k - Len(units) - 1]
          BY <3>3, <1>7
        <5>. QED BY <5>1
      <4>. QED BY <3>1, <4>1
    <3>. QED BY <3>2, <3>3
  <2>. QED BY <2>3, <2>4, <2>5
<1>. QED BY <1>4, <1>8, <1>9
-----------------------------------------------------------------------------
(* The units that arrive are cut *)

\* The pairs of the messages that are cut out, and those of a start of a header that goes.
CutOut(units) == UNION {{n} \X FollowersFound(n) : n \in Whole(units)}
Lost(units) == IF units[Len(units)].part = 0 THEN OfUnits(<<units[Len(units)]>>) ELSE {}
Divided(all, units, new) == OfUnits(all) = OfUnits(new) \cup CutOut(units) \cup Lost(units)

\* Of the first units of a stream whole messages are cut out, and a start of a header is
\* lost; what stays and what is still to come is a stream.
LEMMA StreamCut ==
  ASSUME Typed, NEW s, NEW all \in Seq(UnitTypes), IsStream(all, s),
         NEW units \in Seq(UnitTypes), Len(units) \in 1..Len(all),
         \A k \in 1..Len(units) : units[k] = all[k],
         NEW rest, Suffix(rest, all, Len(units))
  PROVE  LET kept == Rest(units)
             new == kept \o rest
             lost == Lost(units)
             cut == CutOut(units)
         IN /\ kept \in Seq(UnitTypes)
            /\ kept \in {<<>>} \cup {SubSeq(Units(n), 1, 2) : n \in 1..Len(runs)}
            /\ new \in Seq(UnitTypes) /\ IsStream(new, s)
            /\ Divided(all, units, new)
            /\ OfUnits(new) \cap cut = {} /\ lost \cap (cut \cup OfUnits(new)) = {}
<1>. DEFINE K == Len(units)
            kept == Rest(units)
            new == kept \o rest
            last == units[K]
            lost == IF last.part = 0 THEN OfUnits(<<last>>) ELSE {}
            cut == UNION {{n} \X FollowersFound(n) : n \in Whole(units)}
            waits == last.part = 1 /\ Has(units, last.run, 0)
<1>1. /\ Len(all) \in Nat /\ K \in Nat /\ K > 0 /\ K <= Len(all)
      /\ DOMAIN units = 1..K /\ DOMAIN all = 1..Len(all)
  BY LenProperties
<1>2. \A k \in 1..K : k \in 1..Len(all) /\ units[k] = all[k] /\ units[k] \in UnitTypes
  BY <1>1, ElementOfSeq
<1>3. /\ \A j, k \in 1..Len(all) : all[j].run = all[k].run =>
           /\ all[j].part \in 0..2 /\ all[k].part \in 0..2 /\ all[j].run \in Nat
           /\ all[j].part = all[k].part => j = k
           /\ all[j].part < all[k].part => j < k
  BY UnitOnce
<1>4. \A k \in 1..Len(all) : all[k].part \in 0..2 /\ all[k].run \in Nat
  BY <1>3
<1>5. \A k \in 1..Len(all) : all[k].part < 2 =>
        k + 1 \in 1..Len(all) /\ all[k + 1] = [run |-> all[k].run, part |-> all[k].part + 1]
  <2>1. \A k \in 1..Len(all) : all[k].part < 2 =>
          k < Len(all) /\ all[k + 1] = [run |-> all[k].run, part |-> all[k].part + 1]
    BY DEF IsStream
  <2>2. \A k \in 1..Len(all) : k < Len(all) => k + 1 \in 1..Len(all)
    BY <1>1
  <2>. QED BY <2>1, <2>2
<1>6. /\ rest \in Seq(UnitTypes) /\ Len(rest) = Len(all) - K
      /\ \A k \in 1..Len(rest) : rest[k] = all[K + k]
  BY DEF Suffix
\* A unit is in the stream that is known by its run and its part.
<1>7. \A n, p : Has(units, n, p) <=> \E k \in 1..K : all[k] = [run |-> n, part |-> p]
  BY <1>1, <1>2 DEF Has
<1>. HIDE DEF K
<1>8. ASSUME waits
      PROVE  /\ K > 1 /\ all[K - 1] = [run |-> last.run, part |-> 0]
             /\ all[K] = [run |-> last.run, part |-> 1] /\ last.run \in 1..Len(runs)
  <2>1. K \in 1..Len(all) /\ all[K] = last /\ last \in UnitTypes
    BY <1>1, <1>2
  <2>2. PICK j \in 1..K : all[j] = [run |-> last.run, part |-> 0]
    BY <1>7, <1>8
  <2>3. all[j].run = all[K].run /\ all[j].part = 0 /\ all[K].part = 1
    BY <2>1, <2>2, <1>8
  <2>4. j \in 1..Len(all) /\ j + 1 \in 1..Len(all) /\ all[j + 1] = [run |-> all[j].run, part |-> 0 + 1]
    BY <2>2, <2>3, <1>1, <1>5
  <2>5. all[j + 1].run = all[K].run /\ all[j + 1].part = all[K].part
    BY <2>3, <2>4
  <2>6. j + 1 = K
    BY <2>1, <2>4, <2>5, <1>3
  <2>7. K > 1 /\ K - 1 = j
    BY <2>2, <2>6, <1>1
  <2>8. last = [run |-> last.run, part |-> 1]
    BY <2>1, <1>8 DEF UnitTypes
  <2>9. last.run \in 1..Len(runs)
    BY <2>1 DEF IsStream
  <2>. QED BY <2>1, <2>2, <2>7, <2>8, <2>9
<1>9. ASSUME waits
      PROVE  /\ kept \in Seq(UnitTypes) /\ Len(kept) = 2 /\ kept[1] = all[K - 1] /\ kept[2] = all[K]
             /\ kept = SubSeq(Units(last.run), 1, 2)
  <2>1. kept = SubSeq(units, K - 1, K)
    BY <1>9 DEF Rest, K
  <2>2. K - 1 \in Int /\ K \in Int /\ \A k \in (K - 1)..K : k \in 1..K /\ units[k] \in UnitTypes
    BY <1>1, <1>2, <1>8, <1>9
  <2>3. /\ kept \in Seq(UnitTypes)
        /\ Len(kept) = (IF K - 1 <= K THEN K - (K - 1) + 1 ELSE 0)
        /\ \A k \in 1..(K - (K - 1) + 1) : kept[k] = units[K - 1 + k - 1]
    BY <2>1, <2>2, SubSeqProperties
  <2>. HIDE DEF kept
  <2>4. Len(kept) = 2 /\ kept[1] = units[K - 1] /\ kept[2] = units[K]
    <3>1. K - (K - 1) + 1 = 2 /\ K - 1 <= K /\ K - 1 + 1 - 1 = K - 1 /\ K - 1 + 2 - 1 = K
      BY <1>1
    <3>. QED BY <2>3, <3>1
  <2>5. kept[1] = all[K - 1] /\ kept[2] = all[K]
    BY <2>4, <2>2, <1>1, <1>2
  <2>6. /\ Units(last.run) \in Seq(UnitTypes) /\ Len(Units(last.run)) = 3
        /\ \A k \in 1..3 : Units(last.run)[k] = [run |-> last.run, part |-> k - 1]
    <3>1. last.run \in Nat
      BY <1>1, <1>2 DEF UnitTypes, K
    <3>. QED BY <3>1, UnitsAre
  <2>. DEFINE two == SubSeq(Units(last.run), 1, 2)
  <2>7. /\ two \in Seq(UnitTypes) /\ Len(two) = 2
        /\ two[1] = [run |-> last.run, part |-> 0] /\ two[2] = [run |-> last.run, part |-> 1]
    <3>1. \A k \in 1..2 : Units(last.run)[k] \in UnitTypes
      BY <2>6, ElementOfSeq
    <3>2. /\ two \in Seq(UnitTypes) /\ Len(two) = (IF 1 <= 2 THEN 2 - 1 + 1 ELSE 0)
          /\ \A k \in 1..(2 - 1 + 1) : two[k] = Units(last.run)[1 + k - 1]
      BY <3>1, SubSeqProperties
    <3>. QED BY <3>2, <2>6
  <2>. HIDE DEF two
  <2>8. kept = two
    <3>1. kept[1] = two[1] /\ kept[2] = two[2]
      BY <2>5, <2>7, <1>8, <1>9
    <3>2. \A k \in 1..Len(kept) : kept[k] = two[k]
      <4>1. \A k \in 1..2 : k = 1 \/ k = 2
        OBVIOUS
      <4>. QED BY <4>1, <3>1, <2>4
    <3>3. Len(kept) = Len(two)
      BY <2>4, <2>7
    <3>. QED BY <3>2, <3>3, <2>3, <2>7, SeqEqual
  <2>. QED BY <2>3, <2>4, <2>5, <2>8 DEF two
<1>10. ~waits => kept = <<>> /\ kept \in Seq(UnitTypes)
  BY DEF Rest, K
<1>11. kept \in Seq(UnitTypes) /\ kept \in {<<>>} \cup {SubSeq(Units(n), 1, 2) : n \in 1..Len(runs)}
  BY <1>8, <1>9, <1>10
\* What stays and what is still to come begins after position d.
<1>12. PICK d \in 0..Len(all) : d = IF waits THEN K - 2 ELSE K
  <2>1. CASE waits
    BY <2>1, <1>1, <1>8
  <2>2. CASE ~waits
    BY <2>2, <1>1
  <2>. QED BY <2>1, <2>2
<1>13. Suffix(new, all, d)
  <2>1. CASE waits
    <3>1. /\ new \in Seq(UnitTypes) /\ Len(new) = Len(kept) + Len(rest)
          /\ \A k \in 1..(Len(kept) + Len(rest)) : new[k] = IF k <= Len(kept) THEN kept[k] ELSE rest[k - Len(kept)]
      BY <1>6, <1>11, ConcatProperties
    <3>2. /\ kept \in Seq(UnitTypes) /\ Len(kept) = 2 /\ kept[1] = all[K - 1] /\ kept[2] = all[K]
      BY <2>1, <1>9
    <3>3. d = K - 2 /\ K > 1
      BY <2>1, <1>8, <1>12
    <3>. HIDE DEF new, kept, waits
    <3>4. Len(new) = Len(all) - d
      BY <3>1, <3>2, <3>3, <1>1, <1>6
    <3>5. ASSUME NEW k \in 1..Len(new) PROVE new[k] = all[d + k]
      <4>1. CASE k <= 2
        <5>1. k = 1 \/ k = 2
          BY <4>1
        <5>2. new[k] = kept[k]
          BY <4>1, <3>1, <3>2
        <5>3. d + 1 = K - 1 /\ d + 2 = K
          BY <3>3, <1>1
        <5>. QED BY <5>1, <5>2, <5>3, <3>2
      <4>2. CASE ~(k <= 2)
        <5>1. k - 2 \in 1..Len(rest) /\ d + k = K + (k - 2)
          BY <4>2, <3>1, <3>2, <3>3, <1>1, <1>6
        <5>2. new[k] = rest[k - 2]
          BY <4>2, <3>1, <3>2
        <5>. QED BY <5>1, <5>2, <1>6
      <4>. QED BY <4>1, <4>2
    <3>. QED BY <3>1, <3>4, <3>5 DEF Suffix
  <2>2. CASE ~waits
    <3>1. kept = <<>> /\ d = K
      BY <2>2, <1>10, <1>12
    <3>2. new = rest
      BY <3>1, <1>6, ConcatEmptySeq
    <3>. QED BY <3>1, <3>2 DEF K
  <2>. QED BY <2>1, <2>2
<1>14. /\ new \in Seq(UnitTypes) /\ IsStream(new, s)
       /\ \A e : e \in OfUnits(new) <=>
            \E k \in (d + 1)..Len(all) : all[k].part = 0 /\ e \in {all[k].run} \X FollowersFound(all[k].run)
  <2>1. new \in Seq(UnitTypes)
    BY <1>13 DEF Suffix
  <2>. HIDE DEF new
  <2>. QED BY <2>1, <1>13, SuffixIsStream
<1>. HIDE DEF new, kept
\* The start of a message is in the rest, or the message is whole, or it is lost.
<1>. DEFINE P(k, e) == all[k].part = 0 /\ e \in {all[k].run} \X FollowersFound(all[k].run)
<1>15. ASSUME NEW k \in 1..Len(all), all[k].part = 0
       PROVE  IF k = K THEN last.part = 0 /\ last = all[k] /\ d = K /\ all[k].run \notin Whole(units)
              ELSE k \notin (d + 1)..Len(all) <=> all[k].run \in Whole(units)
  <2>1. K \in 1..Len(all) /\ all[K] = last
    BY <1>1, <1>2
  <2>2. all[k].run \in Whole(units) =>
          \E j \in 1..K : all[j].run = all[k].run /\ all[j].part = 2 /\ j \in 1..Len(all) /\ k < j
    <3>1. SUFFICES ASSUME all[k].run \in Whole(units)
                   PROVE  \E j \in 1..K : all[j].run = all[k].run /\ all[j].part = 2 /\ j \in 1..Len(all) /\ k < j
      OBVIOUS
    <3>2. PICK j \in 1..K : all[j] = [run |-> all[k].run, part |-> 2]
      BY <3>1, <1>7 DEF Whole
    <3>3. j \in 1..Len(all) /\ all[j].run = all[k].run /\ all[j].part = 2
      BY <3>2, <1>2
    <3>. QED BY <3>3, <1>3, <1>15
  <2>3. CASE k = K
    <3>1. last.part = 0 /\ last = all[k]
      BY <2>1, <2>3, <1>15
    <3>2. d = K
      BY <3>1, <1>12
    <3>3. ~ \E j \in 1..K : k < j
      BY <2>3, <1>1
    <3>. QED BY <3>1, <3>2, <3>3, <2>2, <2>3
  <2>4. CASE k # K
    <3>1. ASSUME all[k].run \in Whole(units) PROVE k \notin (d + 1)..Len(all)
      <4>1. PICK j \in 1..K : all[j].run = all[k].run /\ all[j].part = 2 /\ j \in 1..Len(all) /\ k < j
        BY <2>2, <3>1
      <4>2. CASE waits
        <5>1. all[K].part = 1 /\ d = K - 2
          BY <4>2, <1>8, <1>12
        <5>2. j # K
          BY <4>1, <5>1
        <5>3. SUFFICES ASSUME k = K - 1 PROVE FALSE
          BY <4>1, <5>1, <5>2, <1>1
        <5>. QED BY <4>1, <5>2, <5>3, <1>1
      <4>3. CASE ~waits
        BY <4>1, <4>3, <1>1, <1>12
      <4>. QED BY <4>2, <4>3
    <3>2. ASSUME k \notin (d + 1)..Len(all) PROVE all[k].run \in Whole(units)
      <4>1. k < K
        BY <3>2, <2>4, <1>1, <1>12
      <4>2. k + 1 \in 1..Len(all) /\ all[k + 1] = [run |-> all[k].run, part |-> 1]
        BY <1>5, <1>15
      <4>3. all[k] = [run |-> all[k].run, part |-> 0] /\ k \in 1..K
        <5>1. k \in 1..K /\ all[k] \in UnitTypes
          BY <4>1, <1>1, ElementOfSeq
        <5>. QED BY <5>1, <1>15 DEF UnitTypes
      <4>4. k + 1 # K
        <5>1. SUFFICES ASSUME k + 1 = K PROVE FALSE
          OBVIOUS
        <5>2. last.part = 1 /\ last.run = all[k].run
          BY <5>1, <4>2, <2>1
        <5>3. waits
          BY <5>2, <4>3, <1>7
        <5>4. d = K - 2
          BY <5>3, <1>12
        <5>. QED BY <5>1, <5>4, <3>2, <1>1
      <4>5. k + 2 \in 1..K /\ k + 1 + 1 = k + 2
        BY <4>1, <4>4, <1>1
      <4>6. all[k + 2] = [run |-> all[k].run, part |-> 2]
        <5>1. all[k + 1].part = 1 /\ all[k + 1].run = all[k].run
          BY <4>2
        <5>2. all[k + 1 + 1] = [run |-> all[k].run, part |-> 1 + 1]
          BY <5>1, <4>2, <1>5
        <5>. QED BY <5>2, <4>5
      <4>7. Has(units, all[k].run, 0) /\ Has(units, all[k].run, 2)
        BY <4>3, <4>5, <4>6, <1>7
      <4>8. all[k].run \in 1..Len(runs)
        BY DEF IsStream
      <4>. QED BY <4>7, <4>8 DEF Whole
    <3>. QED BY <3>1, <3>2, <2>4
  <2>. QED BY <2>3, <2>4
<1>16. \A n \in Whole(units) : \E k \in 1..Len(all) : k # K /\ all[k].part = 0 /\ all[k].run = n
  <2>. SUFFICES ASSUME NEW n \in Whole(units)
                PROVE  \E k \in 1..Len(all) : k # K /\ all[k].part = 0 /\ all[k].run = n
    OBVIOUS
  <2>1. PICK k \in 1..K : all[k] = [run |-> n, part |-> 0]
    BY <1>7 DEF Whole
  <2>2. k \in 1..Len(all) /\ all[k].part = 0 /\ all[k].run = n
    BY <2>1, <1>2
  <2>. QED BY <2>2, <1>15
<1>17. \A e : e \in OfUnits(all) <=> \E k \in 1..Len(all) : P(k, e)
  BY <1>1, OfUnitsIs
<1>18. \A e : e \in lost <=> all[K].part = 0 /\ P(K, e)
  <2>1. all[K] = last /\ DOMAIN <<last>> = {1} /\ <<last>>[1] = last
    BY <1>1, <1>2
  <2>2. \A e : e \in OfUnits(<<last>>) <=> last.part = 0 /\ e \in {last.run} \X FollowersFound(last.run)
    BY <2>1, OfUnitsIs
  <2>. QED BY <2>1, <2>2
<1>19. \A e : e \in cut <=> \E k \in 1..Len(all) : k # K /\ all[k].run \in Whole(units) /\ P(k, e)
  <2>. SUFFICES ASSUME NEW e
                PROVE  e \in cut <=> \E k \in 1..Len(all) : k # K /\ all[k].run \in Whole(units) /\ P(k, e)
    OBVIOUS
  <2>1. ASSUME e \in cut PROVE \E k \in 1..Len(all) : k # K /\ all[k].run \in Whole(units) /\ P(k, e)
    <3>1. PICK n \in Whole(units) : e \in {n} \X FollowersFound(n)
      BY <2>1
    <3>2. PICK k \in 1..Len(all) : k # K /\ all[k].part = 0 /\ all[k].run = n
      BY <1>16
    <3>. QED BY <3>1, <3>2
  <2>2. ASSUME NEW k \in 1..Len(all), k # K, all[k].run \in Whole(units), P(k, e) PROVE e \in cut
    BY <2>2
  <2>. QED BY <2>1, <2>2
<1>20. \A j, k \in 1..Len(all) : \A e : P(j, e) /\ P(k, e) => j = k
  <2>. SUFFICES ASSUME NEW j \in 1..Len(all), NEW k \in 1..Len(all), NEW e, P(j, e), P(k, e)
                PROVE  j = k
    OBVIOUS
  <2>1. all[j].run = all[k].run /\ all[j].part = all[k].part
    OBVIOUS
  <2>. QED BY <2>1, <1>3
<1>21. \A k \in 1..Len(all) : k \in (d + 1)..Len(all) => k # K \/ ~(all[K].part = 0)
  BY <1>1, <1>15
<1>22. K \in 1..Len(all) /\ \A k \in (d + 1)..Len(all) : k \in 1..Len(all)
  BY <1>1
<1>23. \A e : \A k \in 1..Len(all) : P(k, e) => all[k].part = 0
  OBVIOUS
<1>24. \A k \in 1..Len(all) : all[k].part = 0 =>
         IF k = K THEN all[K].part = 0 /\ k \notin (d + 1)..Len(all) /\ all[k].run \notin Whole(units)
         ELSE k \notin (d + 1)..Len(all) <=> all[k].run \in Whole(units)
  BY <1>1, <1>15
<1>. HIDE DEF P, lost, cut
<1>25. \A e : e \in OfUnits(new) <=> \E k \in (d + 1)..Len(all) : P(k, e)
  BY <1>14 DEF P
<1>26. OfUnits(all) = OfUnits(new) \cup cut \cup lost
  BY <1>17, <1>18, <1>19, <1>22, <1>23, <1>24, <1>25
<1>27. OfUnits(new) \cap cut = {}
  BY <1>19, <1>20, <1>22, <1>23, <1>24, <1>25
<1>28. lost \cap (cut \cup OfUnits(new)) = {}
  BY <1>18, <1>19, <1>20, <1>22, <1>23, <1>24, <1>25
<1>. QED BY <1>11, <1>14, <1>26, <1>27, <1>28 DEF lost, cut, new, kept, K, Lost, CutOut, Divided
-----------------------------------------------------------------------------
(* Steps that end no run *)

\* What is said of runs is the same while none is added.
LEMMA SameRuns ==
  ASSUME runs' = runs
  PROVE  /\ \A n : FollowersFound(n)' = FollowersFound(n)
         /\ \A units : OfUnits(units)' = OfUnits(units)
         /\ \A units, s : IsStream(units, s)' <=> IsStream(units, s)
         /\ \A h : OfHandler(h)' = OfHandler(h)
<1>1. \A n : FollowersFound(n)' = FollowersFound(n)
  BY DEF FollowersFound
<1>2. \A units : OfUnits(units)' = OfUnits(units)
  BY DEF OfUnits, Pairs
<1>3. \A units, s : IsStream(units, s)' <=> IsStream(units, s)
  BY DEF IsStream
<1>4. \A h : OfHandler(h)' = OfHandler(h)
  BY <1>1 DEF OfHandler
<1>. QED BY <1>1, <1>2, <1>3, <1>4

\* The pairs of a stream, in the next state.
LEMMA StreamNext ==
  ASSUME runs' = runs, NEW s, NEW units, Stream(s)' = units
  PROVE  /\ OfUnits(Stream(s))' = OfUnits(units)
         /\ IsStream(Stream(s), s)' <=> IsStream(units, s)
BY SameRuns

\* A pair is on its way, in the next state.
LEMMA FlightNext ==
  ASSUME NEW e
  PROVE  e \in InFlight' <=>
           \/ \E s \in Services : e \in OfUnits(Stream(s))' \/ e \in OfMessages(inbox'[s])
           \/ \E h \in handlers' : e \in OfHandler(h)'
<1>1. \A s \in Services : OnConnection(s)' = OfUnits(Stream(s))' \cup OfMessages(inbox'[s])
  BY DEF OnConnection, Stream, OfMessages
<1>. QED BY <1>1 DEF InFlight

\* Streams stay or get lost.
LEMMA StreamsKept ==
  ASSUME Streams, runs' = runs, \A s \in Services : Stream(s)' = Stream(s) \/ Stream(s)' = <<>>
  PROVE  Streams'
<1>. SUFFICES ASSUME NEW s \in Services PROVE IsStream(Stream(s), s)'
  BY DEF Streams
<1>1. CASE Stream(s)' = Stream(s)
  BY <1>1, StreamNext DEF Streams
<1>2. CASE Stream(s)' = <<>>
  <2>1. IsStream(<<>>, s)
    BY DEF IsStream
  <2>. QED BY <1>2, <2>1, StreamNext
<1>. QED BY <1>1, <1>2

\* Mail gets lost, streams and handlers too.
LEMMA ApartKept ==
  ASSUME Apart, runs' = runs, handlers' \subseteq handlers,
         \A s \in Services :
           /\ Distinct(inbox'[s]) /\ OfMessages(inbox'[s]) \subseteq OfMessages(inbox[s])
           /\ Stream(s)' = Stream(s) \/ Stream(s)' = <<>>
  PROVE  Apart'
<1>1. \A s \in Services : OfUnits(Stream(s))' \subseteq OfUnits(Stream(s))
  BY NoPairs, StreamNext
<1>2. \A h : OfHandler(h)' = OfHandler(h)
  BY SameRuns
<1>3. \A s \in Services : Distinct(inbox[s])'
  BY DEF Distinct
<1>4. \A s, t \in Services : (OfMessages(inbox[s]) \cap OfUnits(Stream(t)) = {})'
  BY <1>1 DEF Apart, OfMessages
<1>5. \A s \in Services, h \in handlers' : (OfMessages(inbox[s]) \cap OfHandler(h) = {})'
  BY <1>2 DEF Apart, OfMessages
<1>6. \A s \in Services, h \in handlers' : (OfUnits(Stream(s)) \cap OfHandler(h) = {})'
  BY <1>1, <1>2 DEF Apart
<1>7. \A g, h \in handlers' : g # h => (OfHandler(g) \cap OfHandler(h) = {})'
  BY <1>2 DEF Apart
<1>. QED BY <1>3, <1>4, <1>5, <1>6, <1>7 DEF Apart

\* Pairs come and are started or excused.
LEMMA BalancedStep ==
  ASSUME Balanced, NEW more, NEW now, NEW not,
         owed' = owed \cup more, more \cap owed = {},
         started' = started \cup now, excused' = excused \cup not, now \cap not = {},
         now \cup not \subseteq InFlight \cup more,
         InFlight' = (InFlight \cup more) \ (now \cup not)
  PROVE  Balanced'
<1>1. (owed \ (started \cup excused) = InFlight)'
  BY DEF Balanced
<1>2. (started \cup excused \subseteq owed)'
  BY DEF Balanced
<1>3. (started \cap excused = {})'
  BY DEF Balanced
<1>. QED BY <1>1, <1>2, <1>3 DEF Balanced

\* A cause stays one.
LEMMA CauseKept ==
  ASSUME Typed, clock' \in Nat, clock <= clock', 1..Len(runs) \subseteq 1..Len(runs'),
         \A n \in 1..Len(runs) : runs'[n] = runs[n] /\ FollowersFound(n)' = FollowersFound(n),
         NEW q, NEW date \in Nat, NEW n, Cause(q, date, n)
  PROVE  Cause(q, date, n)'
<1>1. clock \in Nat /\ date <= clock'
  BY DEF Typed, Cause
<1>2. CASE n = 0
  BY <1>1, <1>2 DEF Cause
<1>3. CASE n # 0
  BY <1>1, <1>3 DEF Cause
<1>. QED BY <1>2, <1>3

\* Whatever is new in a mail, a queue or a handler has its cause; the rest had it
\* before.
LEMMA CausesStep ==
  ASSUME Typed, Causes, clock' \in Nat, clock <= clock', 1..Len(runs) \subseteq 1..Len(runs'),
         \A n \in 1..Len(runs) : runs'[n] = runs[n] /\ FollowersFound(n)' = FollowersFound(n),
         \A n \in 1..Len(runs') : n \in 1..Len(runs) \/ runs'[n].date <= clock',
         \A s \in Services : \A k \in 1..Len(inbox'[s]) :
           (\E j \in 1..Len(inbox[s]) : inbox'[s][k] = inbox[s][j]) \/ Meant(s, inbox[s][k])',
         \A q \in Processes : \A k \in 1..Len(queue'[q]) :
           (\E j \in 1..Len(queue[q]) : queue'[q][k] = queue[q][j]) \/ Cause(q, queue[q][k].date, queue[q][k].from)',
         \A h \in handlers' :
           h \in handlers \/ (h.stage = "start" => h.todo # {} /\ h.todo \subseteq FollowersFound(h.run)')
  PROVE  Causes'
<1>1. ASSUME NEW n \in 1..Len(runs') PROVE runs'[n].date <= clock'
  <2>1. CASE n \in 1..Len(runs)
    <3>1. runs[n].date \in Nat /\ clock \in Nat /\ runs[n].date <= clock
      BY <2>1, RunFacts DEF Causes, Typed
    <3>. QED BY <2>1, <3>1
  <2>. QED BY <2>1
<1>2. ASSUME NEW s \in Services, NEW k \in 1..Len(inbox'[s]) PROVE Meant(s, inbox[s][k])'
  <2>1. ASSUME NEW j \in 1..Len(inbox[s]), NEW m, m = inbox[s][j], m = inbox'[s][k], m.signal = "START"
        PROVE  Host(m.to) = s /\ Cause(m.to, m.date, m.from)'
    <3>1. m \in Messages
      <4>1. inbox[s] \in Seq(Messages)
        BY DEF Typed
      <4>2. inbox[s][j] \in Messages
        BY <4>1, ElementOfSeq
      <4>. QED BY <4>2, <2>1
    <3>2. m.date \in Nat
      <4>1. Log.signal = "LOG"
        BY DEF Log
      <4>. QED BY <2>1, <3>1, <4>1 DEF Messages, Starts
    <3>3. Host(m.to) = s /\ Cause(m.to, m.date, m.from)
      BY <2>1 DEF Causes, Meant
    <3>. QED BY <3>2, <3>3, CauseKept
  <2>. QED BY <2>1 DEF Meant
<1>3. ASSUME NEW q \in Processes, NEW k \in 1..Len(queue'[q])
      PROVE  Cause(q, queue[q][k].date, queue[q][k].from)'
  <2>1. ASSUME NEW j \in 1..Len(queue[q]), queue'[q][k] = queue[q][j]
        PROVE  Cause(q, queue[q][k].date, queue[q][k].from)'
    <3>1. queue[q][j] \in [date : Nat, from : Nat]
      BY ElementOfSeq DEF Typed
    <3>. QED BY <2>1, <3>1, CauseKept DEF Causes
  <2>. QED BY <2>1
<1>4. ASSUME NEW h \in handlers', h.stage = "start" PROVE h.todo # {} /\ h.todo \subseteq FollowersFound(h.run)'
  <2>1. CASE h \in handlers
    BY <1>4, <2>1 DEF Causes, Typed
  <2>. QED BY <1>4, <2>1
<1>. QED BY <1>1, <1>2, <1>3, <1>4 DEF Causes

\* Mail, starts and handlers get lost and nothing else happens.
LEMMA CausesLost ==
  ASSUME ChainInv, clock' = clock, runs' = runs, handlers' \subseteq handlers,
         \A s \in Services : \A k \in 1..Len(inbox'[s]) : \E j \in 1..Len(inbox[s]) : inbox'[s][k] = inbox[s][j],
         \A q \in Processes : \A k \in 1..Len(queue'[q]) : \E j \in 1..Len(queue[q]) : queue'[q][k] = queue[q][j]
  PROVE  Causes'
<1>1. Typed /\ Causes
  BY DEF ChainInv
<1>2. clock' \in Nat /\ clock <= clock'
  BY <1>1, AutomaticChainAssumption DEF Typed
<1>3. /\ 1..Len(runs) \subseteq 1..Len(runs')
      /\ \A n \in 1..Len(runs) : runs'[n] = runs[n] /\ FollowersFound(n)' = FollowersFound(n)
      /\ \A n \in 1..Len(runs') : n \in 1..Len(runs) \/ runs'[n].date <= clock'
  BY SameRuns
<1>. QED BY <1>1, <1>2, <1>3, CausesStep
-----------------------------------------------------------------------------
(* Starts that nothing else has caused *)

\* Nothing that flies is touched.
LEMMA FlightKept ==
  ASSUME runs' = runs, handlers' = handlers,
         \A s \in Services : Stream(s)' = Stream(s) /\ OfMessages(inbox'[s]) = OfMessages(inbox[s])
  PROVE  InFlight' = InFlight
<1>. SUFFICES ASSUME NEW e PROVE e \in InFlight' <=> e \in InFlight
  OBVIOUS
<1>1. \A s \in Services : OfUnits(Stream(s))' = OfUnits(Stream(s))
  BY StreamNext
<1>2. \A h : OfHandler(h)' = OfHandler(h)
  BY SameRuns
<1>. QED BY <1>1, <1>2, FlightNext, InFlightIs

\* A step that moves no pair.
LEMMA Quiet ==
  ASSUME ChainInv, UNCHANGED <<runs, handlers, wire, buffer, account>>,
         \A s \in Services : Distinct(inbox'[s]) /\ OfMessages(inbox'[s]) = OfMessages(inbox[s])
  PROVE  Streams' /\ Apart' /\ Balanced'
<1>1. \A s : Stream(s)' = Stream(s)
  BY DEF Stream
<1>2. Streams'
  BY <1>1, StreamsKept DEF ChainInv
<1>3. Apart'
  BY <1>1, ApartKept DEF ChainInv
<1>4. InFlight' = InFlight
  BY <1>1, FlightKept
<1>5. Balanced'
  BY <1>4 DEF ChainInv, Balanced, account
<1>. QED BY <1>2, <1>3, <1>5

\* What the connections need when the runs are the same.
LEMMA MailOf ==
  ASSUME ChainInv, NEW s \in Services
  PROVE  /\ inbox[s] \in Seq(Messages) /\ Distinct(inbox[s]) /\ Len(inbox[s]) \in Nat
         /\ wire[s] \in Seq(UnitTypes) /\ Len(wire[s]) \in Nat
         /\ buffer[s] \in Seq(UnitTypes) /\ Len(buffer[s]) \in Nat
         /\ Stream(s) \in Seq(UnitTypes) /\ IsStream(Stream(s), s)
         /\ \A k \in 1..Len(inbox[s]) : Meant(s, inbox[s][k]) /\ inbox[s][k] \in Messages
<1>1. /\ inbox[s] \in Seq(Messages) /\ wire[s] \in Seq(UnitTypes) /\ buffer[s] \in Seq(UnitTypes)
      /\ Distinct(inbox[s]) /\ IsStream(Stream(s), s) /\ \A k \in 1..Len(inbox[s]) : Meant(s, inbox[s][k])
  BY DEF ChainInv, Typed, Apart, Streams, Causes
<1>2. Len(inbox[s]) \in Nat /\ Len(wire[s]) \in Nat /\ Len(buffer[s]) \in Nat
  BY <1>1, LenProperties
<1>3. \A k \in 1..Len(inbox[s]) : inbox[s][k] \in Messages
  BY <1>1, ElementOfSeq
<1>4. Stream(s) \in Seq(UnitTypes)
  BY <1>1, ConcatProperties DEF Stream
<1>. QED BY <1>1, <1>2, <1>3, <1>4

\* Time passes.
LEMMA TickKeeps ==
  ASSUME ChainInv, Tick
  PROVE  ChainInv'
<1>. USE DEF Tick, web, network, account
<1>1. MaxClock \in Nat /\ clock \in Nat /\ clock' \in 0..MaxClock /\ clock <= clock' /\ clock' \in Nat
  BY AutomaticChainAssumption DEF ChainInv, Typed
<1>2. \A s \in Services : Distinct(inbox'[s]) /\ OfMessages(inbox'[s]) = OfMessages(inbox[s])
  BY MailOf
<1>3. Streams' /\ Apart' /\ Balanced'
  BY <1>2, Quiet
<1>4. Causes'
  BY <1>1, SameRuns, CausesStep DEF ChainInv
<1>5. Typed'
  BY <1>1 DEF ChainInv, Typed
<1>6. Links'
  BY DEF ChainInv, Links, Connected
<1>7. Faultless'
  BY DEF ChainInv, Faultless
<1>. QED BY <1>3, <1>4, <1>5, <1>6, <1>7 DEF ChainInv

\* The user makes a process active or inactive.
LEMMA EditKeeps ==
  ASSUME ChainInv, NEW p \in Processes, Edit(p)
  PROVE  ChainInv'
<1>. USE DEF Edit, network, account, bounds
<1>1. clock \in Nat
  BY AutomaticChainAssumption DEF ChainInv, Typed
<1>2. \A s \in Services : Distinct(inbox'[s]) /\ OfMessages(inbox'[s]) = OfMessages(inbox[s])
  BY MailOf
<1>3. Streams' /\ Apart' /\ Balanced'
  BY <1>2, Quiet
<1>4. Causes'
  BY <1>1, SameRuns, CausesStep DEF ChainInv
<1>5. Typed'
  BY DEF ChainInv, Typed
<1>6. Links'
  BY DEF ChainInv, Links, Connected
<1>7. Faultless'
  BY DEF ChainInv, Faultless
<1>. QED BY <1>3, <1>4, <1>5, <1>6, <1>7 DEF ChainInv

\* The web application connects, or a service gets its data.
LEMMA ConnectKeeps ==
  ASSUME ChainInv, NEW s \in Services, Connect(s)
  PROVE  ChainInv'
<1>. USE DEF Connect, web, account, bounds
<1>1. clock \in Nat
  BY AutomaticChainAssumption DEF ChainInv, Typed
<1>2. \A t \in Services : Distinct(inbox'[t]) /\ OfMessages(inbox'[t]) = OfMessages(inbox[t])
  BY MailOf
<1>3. Streams' /\ Apart' /\ Balanced'
  BY <1>2, Quiet
<1>4. Causes'
  BY <1>1, SameRuns, CausesStep DEF ChainInv
<1>5. Typed'
  BY DEF ChainInv, Typed
<1>6. Links'
  <2>1. \A t \in Services : Connected(t) => Connected(t)'
    BY DEF ChainInv, Typed, Connected
  <2>. QED BY <2>1 DEF ChainInv, Links
<1>7. Faultless'
  <2>1. link[s] # "told"
    OBVIOUS
  <2>. QED BY <2>1 DEF ChainInv, Faultless
<1>. QED BY <1>3, <1>4, <1>5, <1>6, <1>7 DEF ChainInv

\* A timer starts a process.
LEMMA TimerKeeps ==
  ASSUME ChainInv, NEW p \in Processes, Timer(p)
  PROVE  ChainInv'
<1>. USE DEF Timer, web, network, account
<1>1. clock \in Nat /\ starts' \in 0..MaxStarts
  BY AutomaticChainAssumption DEF ChainInv, Typed
<1>2. \A t \in Services : Distinct(inbox'[t]) /\ OfMessages(inbox'[t]) = OfMessages(inbox[t])
  BY MailOf
<1>3. Streams' /\ Apart' /\ Balanced'
  BY <1>2, Quiet
<1>. DEFINE start == [date |-> clock, from |-> 0]
<1>4. /\ queue[p] \in Seq([date : Nat, from : Nat]) /\ start \in [date : Nat, from : Nat]
      /\ queue' = [queue EXCEPT ![p] = Append(queue[p], start)]
      /\ DOMAIN queue = Processes
  BY <1>1 DEF ChainInv, Typed
<1>5. /\ Append(queue[p], start) \in Seq([date : Nat, from : Nat])
      /\ Len(Append(queue[p], start)) = Len(queue[p]) + 1 /\ Len(queue[p]) \in Nat
      /\ \A k \in 1..Len(queue[p]) : Append(queue[p], start)[k] = queue[p][k]
      /\ Append(queue[p], start)[Len(queue[p]) + 1] = start
  BY <1>4, AppendProperties, LenProperties
<1>6. Causes'
  <2>1. Cause(p, clock, 0)'
    <3>1. \A v \in Views : <<v, p>> \notin Watches
      BY AutomaticChainAssumption
    <3>. QED BY <1>1, <3>1 DEF Cause
  <2>2. ASSUME NEW q \in Processes, NEW k \in 1..Len(queue'[q])
        PROVE  (\E j \in 1..Len(queue[q]) : queue'[q][k] = queue[q][j]) \/ Cause(q, queue[q][k].date, queue[q][k].from)'
    <3>1. CASE q = p
      <4>1. queue'[p] = Append(queue[p], start)
        BY <1>4
      <4>2. CASE k \in 1..Len(queue[p])
        BY <3>1, <4>1, <4>2, <1>5
      <4>3. CASE k \notin 1..Len(queue[p])
        <5>1. k = Len(queue[p]) + 1
          BY <3>1, <4>1, <4>3, <1>5
        <5>2. queue'[q][k].date = clock /\ queue'[q][k].from = 0
          BY <5>1, <3>1, <4>1, <1>5
        <5>. QED BY <5>2, <2>1, <3>1
      <4>. QED BY <4>2, <4>3
    <3>2. CASE q # p
      BY <3>2, <1>4
    <3>. QED BY <3>1, <3>2
  <2>. QED BY <1>1, <2>2, SameRuns, CausesStep DEF ChainInv
<1>7. Typed'
  BY <1>1, <1>4, <1>5 DEF ChainInv, Typed
<1>8. Links'
  BY DEF ChainInv, Links, Connected
<1>9. Faultless'
  BY DEF ChainInv, Faultless
<1>. QED BY <1>3, <1>6, <1>7, <1>8, <1>9 DEF ChainInv

\* The message that starts q, alone or with the request for the log.
StartsOf(q, date, n) == {<<StartMessage(q, date, n)>>, <<StartMessage(q, date, n), Log>>}

\* Its type and its pair.
LEMMA StartMail ==
  ASSUME NEW q \in Processes, NEW date \in Nat, NEW n \in Nat,
         NEW more \in StartsOf(q, date, n)
  PROVE  /\ more \in Seq(Messages) /\ Distinct(more)
         /\ OfMessages(more) = IF n # 0 THEN {<<n, q>>} ELSE {}
         /\ \A k \in 1..Len(more) : more[k].signal = "START" => more[k] = StartMessage(q, date, n)
<1>. DEFINE m == StartMessage(q, date, n)
<1>1. /\ m \in Messages /\ Log \in Messages
      /\ m.signal = "START" /\ m.from = n /\ m.to = q /\ Log.signal # "START"
  BY DEF StartMessage, Messages, Starts, Log
<1>. HIDE DEF m
<1>2. /\ more \in Seq(Messages) /\ Len(more) \in 1..2 /\ DOMAIN more = 1..Len(more)
      /\ more[1] = m /\ \A k \in 1..Len(more) : k = 1 \/ more[k] = Log
  <2>1. CASE more = <<m>>
    BY <2>1, <1>1
  <2>2. CASE more = <<m, Log>>
    BY <2>2, <1>1
  <2>. QED BY <2>1, <2>2 DEF m, StartsOf
<1>3. \A k \in 1..Len(more) : more[k].signal = "START" => k = 1
  BY <1>1, <1>2
<1>4. Distinct(more)
  BY <1>3 DEF Distinct
<1>5. \A e : e \in OfMessages(more) <=> n # 0 /\ e = <<n, q>>
  <2>1. \A e : e \in OfMessages(more) <=>
          \E k \in 1..Len(more) : more[k].signal = "START" /\ more[k].from # 0 /\ e = <<more[k].from, more[k].to>>
    BY <1>2, OfMessagesIs
  <2>2. 1 \in 1..Len(more)
    BY <1>2
  <2>. QED BY <2>1, <2>2, <1>1, <1>2, <1>3
<1>. QED BY <1>2, <1>3, <1>4, <1>5 DEF m

\* What is on its way to the services is what was, and for service s what is in `more'.
OnlyMail(s, more) ==
  \A t \in Services : \A k \in 1..Len(inbox'[t]) :
    \/ \E j \in 1..Len(inbox[t]) : inbox'[t][k] = inbox[t][j]
    \/ t = s /\ \E j \in 1..Len(more) : inbox'[t][k] = more[j]

\* Nothing is on its way that was not.
LEMMA NoMail ==
  ASSUME NEW s, OnlyMail(s, <<>>)
  PROVE  \A t \in Services : \A l \in 1..Len(inbox'[t]) : \E j \in 1..Len(inbox[t]) : inbox'[t][l] = inbox[t][j]
<1>1. Len(<<>>) = 0
  OBVIOUS
<1>. SUFFICES ASSUME NEW t \in Services, NEW l \in 1..Len(inbox'[t])
              PROVE  \E j \in 1..Len(inbox[t]) : inbox'[t][l] = inbox[t][j]
  OBVIOUS
<1>. QED BY <1>1 DEF OnlyMail

\* Mail is added to what is on its way to service s.
LEMMA Sent ==
  ASSUME ChainInv, NEW s \in Services, NEW more \in Seq(Messages), Distinct(more),
         OfMessages(inbox[s]) \cap OfMessages(more) = {},
         inbox' = [inbox EXCEPT ![s] = @ \o more]
  PROVE  /\ inbox' \in [Services -> Seq(Messages)]
         /\ \A t \in Services : t # s => inbox'[t] = inbox[t]
         /\ \A t \in Services : Distinct(inbox'[t])
         /\ OfMessages(inbox'[s]) = OfMessages(inbox[s]) \cup OfMessages(more)
         /\ OnlyMail(s, more)
<1>1. inbox \in [Services -> Seq(Messages)]
  BY DEF ChainInv, Typed
<1>2. /\ inbox'[s] = inbox[s] \o more /\ DOMAIN inbox' = Services
      /\ \A t \in Services : t # s => inbox'[t] = inbox[t]
  BY <1>1
<1>3. /\ inbox[s] \o more \in Seq(Messages) /\ Distinct(inbox[s] \o more)
      /\ OfMessages(inbox[s] \o more) = OfMessages(inbox[s]) \cup OfMessages(more)
      /\ \A k \in 1..Len(inbox[s] \o more) :
           \/ k \in 1..Len(inbox[s]) /\ (inbox[s] \o more)[k] = inbox[s][k]
           \/ k - Len(inbox[s]) \in 1..Len(more) /\ (inbox[s] \o more)[k] = more[k - Len(inbox[s])]
  BY MailOf, MailAdded
<1>4. inbox' \in [Services -> Seq(Messages)]
  BY <1>1, <1>3
<1>5. \A t \in Services : Distinct(inbox'[t])
  BY <1>2, <1>3, MailOf
<1>6. ASSUME NEW t \in Services, NEW k \in 1..Len(inbox'[t])
      PROVE  \/ \E j \in 1..Len(inbox[t]) : inbox'[t][k] = inbox[t][j]
             \/ t = s /\ \E j \in 1..Len(more) : inbox'[t][k] = more[j]
  <2>1. CASE t = s
    BY <2>1, <1>2, <1>3
  <2>2. CASE t # s
    BY <2>2, <1>2
  <2>. QED BY <2>1, <2>2
<1>7. OnlyMail(s, more)
  BY <1>6 DEF OnlyMail
<1>. QED BY <1>2, <1>3, <1>4, <1>5, <1>7

\* What is run for a process waits for no view.
LEMMA RunForFree ==
  ASSUME NEW p \in Processes
  PROVE  \A v \in Views : <<v, RunFor(p)>> \notin Watches
<1>1. CASE \E v \in Views : <<v, p>> \in Watches
  <2>1. PICK v \in Views : <<v, p>> \in Watches
    BY <1>1
  <2>2. (CHOOSE x \in Views : <<x, p>> \in Watches) \in Views
    BY <2>1
  <2>3. RunFor(p) \in Views
    BY <1>1, <2>2 DEF RunFor
  <2>4. RunFor(p) \notin Alerts
    BY <2>3, AutomaticChainAssumption
  <2>. QED BY <2>4, AutomaticChainAssumption
<1>2. CASE ~ \E v \in Views : <<v, p>> \in Watches
  BY <1>2 DEF RunFor
<1>. QED BY <1>1, <1>2

\* The user runs a process, or the view of an alert.
LEMMA UserRunKeeps ==
  ASSUME ChainInv, NEW p \in Processes, UserRun(p)
  PROVE  ChainInv'
<1>. DEFINE q == RunFor(p)
            s == Host(q)
            more == <<StartMessage(q, clock, 0), Log>>
<1>1. clock \in Nat /\ starts' \in 0..MaxStarts /\ 0 \in Nat
  BY AutomaticChainAssumption DEF ChainInv, Typed, UserRun
<1>2. q \in Processes /\ s \in Services
  BY Places
<1>3. Send(s, more) /\ UNCHANGED <<web, link, wire, buffer, queue, runs, owed, started, clock, faults>>
  BY DEF UserRun
<1>. HIDE DEF q
<1>4. /\ more \in Seq(Messages) /\ Distinct(more) /\ OfMessages(more) = {}
      /\ \A k \in 1..Len(more) : more[k].signal = "START" => more[k] = StartMessage(q, clock, 0)
  <2>1. more \in StartsOf(q, clock, 0)
    BY DEF StartsOf
  <2>. HIDE DEF more
  <2>. QED BY <2>1, <1>1, <1>2, StartMail
<1>. HIDE DEF s, more
<1>5. /\ UNCHANGED excused
      /\ inbox' = inbox \/ (Connected(s) /\ inbox' = [inbox EXCEPT ![s] = @ \o more])
  <2>1. CASE Connected(s)
    BY <2>1, <1>3 DEF Send
  <2>2. CASE ~Connected(s)
    <3>1. excused' = excused \cup OfMessages(more) /\ inbox' = inbox
      BY <2>2, <1>3 DEF Send
    <3>. QED BY <3>1, <1>4
  <2>. QED BY <2>1, <2>2
<1>6. /\ inbox' \in [Services -> Seq(Messages)]
      /\ \A t \in Services : Distinct(inbox'[t]) /\ OfMessages(inbox'[t]) = OfMessages(inbox[t])
      /\ \A t \in Services : ~Connected(t) => inbox'[t] = inbox[t]
      /\ OnlyMail(s, more)
  <2>1. CASE inbox' = inbox
    BY <2>1, MailOf DEF ChainInv, Typed, OnlyMail
  <2>2. CASE Connected(s) /\ inbox' = [inbox EXCEPT ![s] = @ \o more]
    <3>1. /\ inbox' \in [Services -> Seq(Messages)]
          /\ \A t \in Services : t # s => inbox'[t] = inbox[t]
          /\ \A t \in Services : Distinct(inbox'[t])
          /\ OfMessages(inbox'[s]) = OfMessages(inbox[s]) \cup OfMessages(more)
          /\ OnlyMail(s, more)
      <4>1. OfMessages(inbox[s]) \cap OfMessages(more) = {}
        BY <1>4
      <4>2. s \in Services /\ more \in Seq(Messages) /\ Distinct(more)
        BY <1>2, <1>4
      <4>3. inbox' = [inbox EXCEPT ![s] = @ \o more]
        BY <2>2
      <4>. QED BY <4>1, <4>2, <4>3, Sent
    <3>. QED BY <3>1, <2>2, <1>4
  <2>. QED BY <2>1, <2>2, <1>5
<1>7. Streams' /\ Apart' /\ Balanced'
  BY <1>3, <1>5, <1>6, Quiet DEF web, account
<1>8. Causes'
  <2>1. ASSUME NEW t \in Services, NEW k \in 1..Len(inbox'[t])
        PROVE  (\E j \in 1..Len(inbox[t]) : inbox'[t][k] = inbox[t][j]) \/ Meant(t, inbox[t][k])'
    <3>1. ASSUME t = s, NEW j \in 1..Len(more), inbox'[t][k] = more[j], more[j].signal = "START"
          PROVE  Meant(t, inbox[t][k])'
      <4>1. inbox'[t][k] = StartMessage(q, clock, 0)
        BY <3>1, <1>4
      <4>2. inbox'[t][k].to = q /\ inbox'[t][k].date = clock /\ inbox'[t][k].from = 0
        BY <4>1 DEF StartMessage
      <4>3. Cause(inbox[t][k].to, inbox[t][k].date, inbox[t][k].from)'
        <5>1. clock' = clock
          BY <1>3
        <5>2. \A v \in Views : <<v, q>> \notin Watches
          BY RunForFree DEF q
        <5>. QED BY <5>1, <5>2, <4>2, <1>1 DEF Cause
      <4>. QED BY <3>1, <4>2, <4>3 DEF Meant, s
    <3>. QED BY <3>1, <1>6 DEF Meant, OnlyMail
  <2>. QED BY <1>1, <1>3, <2>1, SameRuns, CausesStep DEF ChainInv, web
<1>9. Typed'
  BY <1>1, <1>3, <1>6 DEF ChainInv, Typed, web
<1>10. Links'
  BY <1>3, <1>6 DEF ChainInv, Links, Connected
<1>11. Faultless'
  BY <1>3, <1>5 DEF ChainInv, Faultless, web
<1>. QED BY <1>7, <1>8, <1>9, <1>10, <1>11 DEF ChainInv
-----------------------------------------------------------------------------
(* Connections that end and messages that are read *)

\* The pairs at a place know it.
LEMMA PairOfUnits ==
  ASSUME ChainInv, NEW s \in Services, NEW e \in OfUnits(Stream(s))
  PROVE  /\ e = <<e[1], e[2]>> /\ e[1] \in 1..Len(runs) /\ e[2] \in FollowersFound(e[1])
         /\ Host(runs[e[1]].process) = s
<1>1. DOMAIN Stream(s) = 1..Len(Stream(s))
  BY MailOf, LenProperties
<1>2. PICK k \in 1..Len(Stream(s)) :
        Stream(s)[k].part = 0 /\ e \in {Stream(s)[k].run} \X FollowersFound(Stream(s)[k].run)
  BY <1>1, OfUnitsIs
<1>3. Stream(s)[k].run \in 1..Len(runs) /\ Host(runs[Stream(s)[k].run].process) = s
  BY MailOf DEF IsStream
<1>. QED BY <1>2, <1>3

\* A START to a service names a process of that service.
LEMMA PairOfMail ==
  ASSUME ChainInv, NEW s \in Services, NEW e \in OfMessages(inbox[s])
  PROVE  /\ e = <<e[1], e[2]>> /\ e[1] \in 1..Len(runs) /\ e[2] \in FollowersFound(e[1])
         /\ Host(e[2]) = s
<1>1. DOMAIN inbox[s] = 1..Len(inbox[s])
  BY MailOf, LenProperties
<1>2. PICK k \in 1..Len(inbox[s]) :
        inbox[s][k].signal = "START" /\ inbox[s][k].from # 0 /\ e = <<inbox[s][k].from, inbox[s][k].to>>
  BY <1>1, OfMessagesIs
<1>3. Host(inbox[s][k].to) = s /\ Cause(inbox[s][k].to, inbox[s][k].date, inbox[s][k].from)
  BY <1>2, MailOf DEF Meant
<1>. QED BY <1>2, <1>3 DEF Cause

\* A handler has pairs of its run only.
LEMMA PairOfHandler ==
  ASSUME ChainInv, NEW h \in handlers, NEW e \in OfHandler(h)
  PROVE  /\ e = <<h.run, e[2]>> /\ e[1] = h.run /\ e[2] \in FollowersFound(h.run)
         /\ h.run \in 1..Len(runs)
<1>1. h \in HandlerTypes /\ h.run \in 1..Len(runs)
  BY DEF ChainInv, Typed
<1>2. h.stage # "lookup" => h.todo \subseteq FollowersFound(h.run)
  BY <1>1 DEF ChainInv, Causes, HandlerTypes
<1>. QED BY <1>1, <1>2 DEF OfHandler

\* No two connections have a pair in common.
LEMMA ConnectionsApart ==
  ASSUME ChainInv, NEW s \in Services, NEW t \in Services, s # t
  PROVE  OnConnection(s) \cap OnConnection(t) = {}
<1>1. /\ OnConnection(s) = OfUnits(Stream(s)) \cup OfMessages(inbox[s])
      /\ OnConnection(t) = OfUnits(Stream(t)) \cup OfMessages(inbox[t])
  BY DEF OnConnection, Stream
<1>2. OfUnits(Stream(s)) \cap OfUnits(Stream(t)) = {}
  BY PairOfUnits
<1>3. OfMessages(inbox[s]) \cap OfMessages(inbox[t]) = {}
  BY PairOfMail
<1>4. /\ OfMessages(inbox[s]) \cap OfUnits(Stream(t)) = {}
      /\ OfMessages(inbox[t]) \cap OfUnits(Stream(s)) = {}
  BY DEF ChainInv, Apart
<1>. QED BY <1>1, <1>2, <1>3, <1>4

\* The connection with service s is gone with what was on it.
LEMMA Closed ==
  ASSUME ChainInv, NEW s \in Services, NEW rest, Close(s, rest), UNCHANGED <<runs, handlers, owed, started>>
  PROVE  /\ Streams' /\ Apart' /\ Balanced'
         /\ inbox' \in [Services -> Seq(Messages)]
         /\ wire' \in [Services -> Seq(UnitTypes)] /\ buffer' \in [Services -> Seq(UnitTypes)]
         /\ link' = [link EXCEPT ![s] = rest]
         /\ inbox'[s] = <<>> /\ wire'[s] = <<>> /\ buffer'[s] = <<>>
         /\ \A t \in Services : t # s => inbox'[t] = inbox[t] /\ wire'[t] = wire[t] /\ buffer'[t] = buffer[t]
<1>1. /\ inbox \in [Services -> Seq(Messages)]
      /\ wire \in [Services -> Seq(UnitTypes)] /\ buffer \in [Services -> Seq(UnitTypes)]
  BY DEF ChainInv, Typed
<1>2. /\ inbox' = [inbox EXCEPT ![s] = <<>>] /\ wire' = [wire EXCEPT ![s] = <<>>]
      /\ buffer' = [buffer EXCEPT ![s] = <<>>] /\ link' = [link EXCEPT ![s] = rest]
      /\ excused' = excused \cup OnConnection(s)
  BY DEF Close
<1>3. /\ inbox' \in [Services -> Seq(Messages)]
      /\ wire' \in [Services -> Seq(UnitTypes)] /\ buffer' \in [Services -> Seq(UnitTypes)]
      /\ inbox'[s] = <<>> /\ wire'[s] = <<>> /\ buffer'[s] = <<>>
      /\ \A t \in Services : t # s => inbox'[t] = inbox[t] /\ wire'[t] = wire[t] /\ buffer'[t] = buffer[t]
  BY <1>1, <1>2
<1>4. Stream(s)' = <<>>
  <2>1. <<>> \o <<>> = <<>>
    BY EmptySeq, ConcatEmptySeq
  <2>. QED BY <2>1, <1>3 DEF Stream
<1>5. \A t \in Services : t # s => Stream(t)' = Stream(t)
  BY <1>3 DEF Stream
<1>6. Streams'
  BY <1>4, <1>5, StreamsKept DEF ChainInv
<1>7. \A t \in Services : Distinct(inbox'[t]) /\ OfMessages(inbox'[t]) \subseteq OfMessages(inbox[t])
  BY <1>3, NoPairs, MailOf
<1>8. \A t \in Services : Stream(t)' = Stream(t) \/ Stream(t)' = <<>>
  BY <1>4, <1>5
<1>9. Apart'
  BY <1>7, <1>8, ApartKept DEF ChainInv
<1>10. InFlight' = InFlight \ OnConnection(s)
  <2>. SUFFICES ASSUME NEW e
                PROVE  e \in InFlight' <=> e \in InFlight /\ e \notin OnConnection(s)
    OBVIOUS
  <2>1. \A t \in Services : OnConnection(t) = OfUnits(Stream(t)) \cup OfMessages(inbox[t])
    BY DEF OnConnection, Stream
  <2>2. \A h \in handlers : OnConnection(s) \cap OfHandler(h) = {}
    BY <2>1 DEF ChainInv, Apart
  <2>3. \A t \in Services : IF t = s THEN OfUnits(Stream(t))' = {} /\ OfMessages(inbox'[t]) = {}
                            ELSE OfUnits(Stream(t))' = OfUnits(Stream(t)) /\ inbox'[t] = inbox[t]
    BY <1>3, <1>4, <1>5, NoPairs, StreamNext
  <2>4. \A h : OfHandler(h)' = OfHandler(h)
    BY SameRuns
  <2>5. e \in InFlight' <=> \/ \E t \in Services : t # s /\ e \in OnConnection(t)
                            \/ \E h \in handlers : e \in OfHandler(h)
    BY <2>1, <2>3, <2>4, FlightNext
  <2>6. e \in InFlight <=> \/ \E t \in Services : e \in OnConnection(t)
                           \/ \E h \in handlers : e \in OfHandler(h)
    BY <2>1, InFlightIs
  <2>7. \A t \in Services : t # s /\ e \in OnConnection(t) => e \notin OnConnection(s)
    BY ConnectionsApart
  <2>. QED BY <2>2, <2>5, <2>6, <2>7
<1>11. OnConnection(s) \subseteq InFlight
  BY DEF InFlight
<1>12. Balanced'
  <2>. DEFINE none == {}
  <2>1. /\ owed' = owed \cup {} /\ {} \cap owed = {} /\ started' = started \cup {}
        /\ {} \cap OnConnection(s) = {} /\ {} \cup OnConnection(s) \subseteq InFlight \cup {}
        /\ InFlight' = (InFlight \cup {}) \ ({} \cup OnConnection(s))
    BY <1>10, <1>11
  <2>. QED BY <2>1, <1>2, BalancedStep DEF ChainInv
<1>. QED BY <1>2, <1>3, <1>6, <1>9, <1>12

\* A fault is counted.
LEMMA FaultCounts ==
  ASSUME ChainInv, NEW kind, Fault(kind)
  PROVE  faults' \in 0..MaxFaults /\ faults' # 0
BY AutomaticChainAssumption DEF ChainInv, Typed, Fault

\* A service dies with its queue and all that is on its connection.
LEMMA DiesKeeps ==
  ASSUME ChainInv, NEW s \in Services, Dies(s), faults' \in 0..MaxFaults, faults' # 0
  PROVE  ChainInv'
<1>1. /\ Close(s, "dead") /\ UNCHANGED <<web, runs, owed, started, clock, starts>>
      /\ queue' = [p \in Processes |-> IF Host(p) = s THEN <<>> ELSE queue[p]]
  BY DEF Dies
<1>2. /\ Streams' /\ Apart' /\ Balanced'
      /\ inbox' \in [Services -> Seq(Messages)]
      /\ wire' \in [Services -> Seq(UnitTypes)] /\ buffer' \in [Services -> Seq(UnitTypes)]
      /\ link' = [link EXCEPT ![s] = "dead"]
      /\ inbox'[s] = <<>> /\ wire'[s] = <<>> /\ buffer'[s] = <<>>
      /\ \A t \in Services : t # s => inbox'[t] = inbox[t] /\ wire'[t] = wire[t] /\ buffer'[t] = buffer[t]
  BY <1>1, Closed DEF web
<1>3. \A p \in Processes : queue'[p] = <<>> \/ queue'[p] = queue[p]
  BY <1>1
<1>4. Causes'
  <2>1. clock \in Nat /\ clock' = clock /\ Len(<<>>) = 0
    BY <1>1, AutomaticChainAssumption DEF ChainInv, Typed
  <2>2. ASSUME NEW t \in Services, NEW k \in 1..Len(inbox'[t])
        PROVE  \E j \in 1..Len(inbox[t]) : inbox'[t][k] = inbox[t][j]
    <3>1. t # s
      BY <1>2, <2>1
    <3>2. inbox'[t] = inbox[t]
      BY <3>1, <1>2
    <3>. QED BY <3>2
  <2>3. \A q \in Processes : \A k \in 1..Len(queue'[q]) : \E j \in 1..Len(queue[q]) : queue'[q][k] = queue[q][j]
    BY <1>3, <2>1
  <2>. QED BY <1>1, <2>1, <2>2, <2>3, CausesLost DEF web
<1>5. Typed'
  <2>1. queue' \in [Processes -> Seq([date : Nat, from : Nat])]
    <3>1. <<>> \in Seq([date : Nat, from : Nat])
      BY EmptySeq
    <3>. QED BY <1>1, <3>1 DEF ChainInv, Typed
  <2>2. link' \in [Services -> {"told", "closed", "open", "dead"}]
    BY <1>2 DEF ChainInv, Typed
  <2>. QED BY <1>1, <1>2, <2>1, <2>2 DEF ChainInv, Typed, web
<1>6. Links'
  <2>1. \A t \in Services : t # s => (Connected(t)' <=> Connected(t))
    BY <1>2 DEF ChainInv, Typed, Connected
  <2>. QED BY <1>1, <1>2, <2>1 DEF ChainInv, Links
<1>7. Faultless'
  BY <1>1 DEF ChainInv, Faultless, web
<1>. QED BY <1>2, <1>4, <1>5, <1>6, <1>7 DEF ChainInv

\* A service crashes.
LEMMA CrashKeeps ==
  ASSUME ChainInv, NEW s \in Services, Crash(s)
  PROVE  ChainInv'
BY FaultCounts, DiesKeeps DEF Crash

\* A service that has no data yet reads a START and dies of it.
LEMMA ReadDeadlyKeeps ==
  ASSUME ChainInv, NEW s \in Services, ReadDeadly(s)
  PROVE  ChainInv'
<1>1. link[s] = "open" /\ faults' = faults /\ Dies(s)
  BY DEF ReadDeadly
<1>2. faults # 0
  BY <1>1 DEF ChainInv, Faultless
<1>. QED BY <1>1, <1>2, DiesKeeps DEF ChainInv, Typed

\* A connection breaks.
LEMMA CutKeeps ==
  ASSUME ChainInv, NEW s \in Services, Cut(s)
  PROVE  ChainInv'
<1>1. PICK rest \in {"closed", "dead"} : Close(s, rest)
  BY DEF Cut
<1>2. /\ UNCHANGED <<web, queue, runs, owed, started, clock, starts>>
      /\ faults' \in 0..MaxFaults /\ faults' # 0
  BY FaultCounts DEF Cut
<1>3. /\ Streams' /\ Apart' /\ Balanced'
      /\ inbox' \in [Services -> Seq(Messages)]
      /\ wire' \in [Services -> Seq(UnitTypes)] /\ buffer' \in [Services -> Seq(UnitTypes)]
      /\ link' = [link EXCEPT ![s] = rest]
      /\ inbox'[s] = <<>> /\ wire'[s] = <<>> /\ buffer'[s] = <<>>
      /\ \A t \in Services : t # s => inbox'[t] = inbox[t] /\ wire'[t] = wire[t] /\ buffer'[t] = buffer[t]
  BY <1>1, <1>2, Closed DEF web
<1>4. Causes'
  <2>1. clock \in Nat /\ clock' = clock /\ Len(<<>>) = 0
    BY <1>2, AutomaticChainAssumption DEF ChainInv, Typed
  <2>2. ASSUME NEW t \in Services, NEW k \in 1..Len(inbox'[t])
        PROVE  \E j \in 1..Len(inbox[t]) : inbox'[t][k] = inbox[t][j]
    <3>1. t # s
      BY <1>3, <2>1
    <3>2. inbox'[t] = inbox[t]
      BY <3>1, <1>3
    <3>. QED BY <3>2
  <2>3. runs' = runs /\ handlers' = handlers /\ queue' = queue
    BY <1>2 DEF web
  <2>. QED BY <2>1, <2>2, <2>3, CausesLost
<1>5. Typed'
  <2>1. link' \in [Services -> {"told", "closed", "open", "dead"}]
    BY <1>3 DEF ChainInv, Typed
  <2>. QED BY <1>2, <1>3, <2>1 DEF ChainInv, Typed, web
<1>6. Links'
  <2>1. \A t \in Services : t # s => (Connected(t)' <=> Connected(t))
    BY <1>3 DEF ChainInv, Typed, Connected
  <2>. QED BY <1>2, <1>3, <2>1 DEF ChainInv, Links
<1>7. Faultless'
  BY <1>2 DEF ChainInv, Faultless, web
<1>. QED BY <1>3, <1>4, <1>5, <1>6, <1>7 DEF ChainInv

\* The first of k messages is read, the others of them are dropped.
LEMMA MailRead ==
  ASSUME ChainInv, NEW s \in Services, NEW k \in 1..Len(inbox[s]),
         inbox' = [inbox EXCEPT ![s] = SubSeq(@, k + 1, Len(@))],
         UNCHANGED <<web, wire, buffer, runs, owed>>,
         NEW now, NEW not, started' = started \cup now, excused' = excused \cup not, now \cap not = {},
         now \cup not = OfMessages(<<Head(inbox[s])>>) \cup Dropped(s, k)
  PROVE  /\ Streams' /\ Apart' /\ Balanced'
         /\ inbox' \in [Services -> Seq(Messages)]
         /\ OnlyMail(s, <<>>)
         /\ \A t \in Services : ~Connected(t) => inbox'[t] = inbox[t]
<1>1. /\ inbox \in [Services -> Seq(Messages)]
      /\ inbox[s] \in Seq(Messages) /\ Distinct(inbox[s])
  BY MailOf DEF ChainInv, Typed
<1>. DEFINE rest == SubSeq(inbox[s], k + 1, Len(inbox[s]))
            first == OfMessages(<<Head(inbox[s])>>)
<1>2. /\ rest \in Seq(Messages) /\ Distinct(rest)
      /\ \A l \in 1..Len(rest) : rest[l] = inbox[s][k + l] /\ k + l \in 1..Len(inbox[s])
      /\ OfMessages(inbox[s]) = first \cup Dropped(s, k) \cup OfMessages(rest)
      /\ first \cap Dropped(s, k) = {} /\ (first \cup Dropped(s, k)) \cap OfMessages(rest) = {}
  BY <1>1, MailSplit DEF Dropped
<1>3. /\ inbox' = [inbox EXCEPT ![s] = rest] /\ inbox'[s] = rest
      /\ \A t \in Services : t # s => inbox'[t] = inbox[t]
  BY <1>1
<1>. HIDE DEF rest, first
<1>4. inbox' \in [Services -> Seq(Messages)]
  BY <1>1, <1>2, <1>3
<1>5. \A t \in Services : Distinct(inbox'[t]) /\ OfMessages(inbox'[t]) \subseteq OfMessages(inbox[t])
  BY <1>2, <1>3, MailOf
<1>6. \A t : Stream(t)' = Stream(t)
  BY DEF Stream
<1>7. Streams'
  BY <1>6, StreamsKept DEF ChainInv
<1>8. Apart'
  BY <1>5, <1>6, ApartKept DEF ChainInv, web
<1>9. OnlyMail(s, <<>>)
  <2>. SUFFICES ASSUME NEW t \in Services, NEW l \in 1..Len(inbox'[t])
                PROVE  \E j \in 1..Len(inbox[t]) : inbox'[t][l] = inbox[t][j]
    BY DEF OnlyMail
  <2>1. CASE t = s
    BY <2>1, <1>2, <1>3
  <2>2. CASE t # s
    BY <2>2, <1>3
  <2>. QED BY <2>1, <2>2
<1>10. Connected(s)
  <2>1. inbox[s] # <<>>
    <3>1. Len(<<>>) = 0
      OBVIOUS
    <3>. QED BY <3>1
  <2>. QED BY <2>1 DEF ChainInv, Links
<1>11. InFlight' = InFlight \ (now \cup not)
  <2>. SUFFICES ASSUME NEW e
                PROVE  e \in InFlight' <=> e \in InFlight /\ e \notin now \cup not
    OBVIOUS
  <2>1. now \cup not \subseteq OfMessages(inbox[s]) /\ now \cup not = first \cup Dropped(s, k)
    BY <1>2 DEF first
  <2>2. e \in OfMessages(inbox'[s]) <=> e \in OfMessages(inbox[s]) /\ e \notin now \cup not
    BY <2>1, <1>2, <1>3
  <2>3. ASSUME NEW t \in Services, t # s, e \in OfMessages(inbox'[t])
        PROVE  e \in OfMessages(inbox[t]) /\ e \notin now \cup not
    <3>1. e \in OfMessages(inbox[t])
      BY <2>3, <1>3
    <3>2. OnConnection(s) \cap OnConnection(t) = {}
      BY <2>3, ConnectionsApart
    <3>. QED BY <3>1, <3>2, <2>1 DEF OnConnection
  <2>4. \A t \in Services : t # s /\ e \in OfMessages(inbox[t]) => e \in OfMessages(inbox'[t])
    BY <1>3
  <2>5. \A t \in Services : OfUnits(Stream(t))' = OfUnits(Stream(t)) /\ (now \cup not) \cap OfUnits(Stream(t)) = {}
    <3>1. \A t \in Services : OfUnits(Stream(t))' = OfUnits(Stream(t))
      BY <1>6, StreamNext
    <3>2. \A t \in Services : OfMessages(inbox[s]) \cap OfUnits(Stream(t)) = {}
      BY DEF ChainInv, Apart
    <3>. QED BY <3>1, <3>2, <2>1
  <2>6. handlers' = handlers /\ \A h \in handlers : OfHandler(h)' = OfHandler(h) /\ (now \cup not) \cap OfHandler(h) = {}
    <3>1. \A h : OfHandler(h)' = OfHandler(h)
      BY SameRuns
    <3>2. \A h \in handlers : OfMessages(inbox[s]) \cap OfHandler(h) = {}
      BY DEF ChainInv, Apart
    <3>. QED BY <3>1, <3>2, <2>1 DEF web
  <2>7. e \in InFlight' <=>
          \/ \E t \in Services : e \in OfUnits(Stream(t))' \/ e \in OfMessages(inbox'[t])
          \/ \E h \in handlers' : e \in OfHandler(h)'
    BY FlightNext
  <2>8. e \in InFlight <=>
          \/ \E t \in Services : e \in OfUnits(Stream(t)) \/ e \in OfMessages(inbox[t])
          \/ \E h \in handlers : e \in OfHandler(h)
    BY InFlightIs
  <2>9. ASSUME e \in InFlight' PROVE e \in InFlight /\ e \notin now \cup not
    BY <2>9, <2>2, <2>3, <2>5, <2>6, <2>7, <2>8
  <2>10. ASSUME e \in InFlight, e \notin now \cup not PROVE e \in InFlight'
    BY <2>10, <2>2, <2>4, <2>5, <2>6, <2>7, <2>8
  <2>. QED BY <2>9, <2>10
<1>12. now \cup not \subseteq InFlight
  BY <1>2, InFlightIs DEF first
<1>13. Balanced'
  <2>1. /\ owed' = owed \cup {} /\ {} \cap owed = {}
        /\ now \cup not \subseteq InFlight \cup {}
        /\ InFlight' = (InFlight \cup {}) \ (now \cup not)
    BY <1>11, <1>12
  <2>. QED BY <2>1, BalancedStep DEF ChainInv
<1>. QED BY <1>3, <1>4, <1>7, <1>8, <1>9, <1>10, <1>13

\* What a message that is read leaves as it is.
LEMMA ReadFrame ==
  ASSUME ChainInv, NEW s \in Services, NEW k \in 1..Len(inbox[s]), Reads(s, k),
         UNCHANGED <<web, link, wire, buffer, runs, owed, clock, starts>>,
         inbox' \in [Services -> Seq(Messages)], \A t \in Services : ~Connected(t) => inbox'[t] = inbox[t]
  PROVE  /\ faults' \in 0..MaxFaults /\ (faults' = 0 => faults = 0 /\ k = 1)
         /\ Links' /\ Processes \ Edited \subseteq active'
         /\ queue' \in [Processes -> Seq([date : Nat, from : Nat])] => Typed'
<1>1. faults' \in 0..MaxFaults /\ (faults' = 0 => faults = 0 /\ k = 1)
  <2>1. CASE k = 1
    BY <2>1 DEF Reads, ChainInv, Typed
  <2>2. CASE k # 1
    BY <2>2, FaultCounts DEF Reads
  <2>. QED BY <2>1, <2>2
<1>2. Links'
  BY DEF ChainInv, Links, Connected
<1>3. Processes \ Edited \subseteq active'
  BY DEF ChainInv, Faultless, web
<1>4. queue' \in [Processes -> Seq([date : Nat, from : Nat])] => Typed'
  BY <1>1 DEF ChainInv, Typed, web
<1>. QED BY <1>1, <1>2, <1>3, <1>4

\* Nothing is dropped of one message.
LEMMA DroppedOne ==
  ASSUME NEW s
  PROVE  Dropped(s, 1) = {}
<1>1. SubSeq(inbox[s], 2, 1) = <<>>
  BY SubSeqEmpty
<1>. QED BY <1>1, NoPairs DEF Dropped

\* A service reads the request for the log.
LEMMA ReadLogKeeps ==
  ASSUME ChainInv, NEW s \in Services, NEW k \in 1..Len(inbox[s]), ReadLog(s, k)
  PROVE  ChainInv'
<1>1. /\ Reads(s, k) /\ Head(inbox[s]) = Log /\ excused' = excused \cup Dropped(s, k)
      /\ UNCHANGED <<web, link, wire, buffer, queue, runs, owed, started, clock, starts>>
      /\ inbox' = [inbox EXCEPT ![s] = SubSeq(@, k + 1, Len(@))]
  BY DEF ReadLog, Reads
<1>2. OfMessages(<<Head(inbox[s])>>) = {}
  <2>1. Log.signal # "START"
    BY DEF Log
  <2>. QED BY <2>1, <1>1, OneMessage
<1>3. /\ Streams' /\ Apart' /\ Balanced'
      /\ inbox' \in [Services -> Seq(Messages)]
      /\ OnlyMail(s, <<>>)
      /\ \A t \in Services : ~Connected(t) => inbox'[t] = inbox[t]
  <2>1. /\ started' = started \cup {} /\ {} \cap Dropped(s, k) = {}
        /\ {} \cup Dropped(s, k) = OfMessages(<<Head(inbox[s])>>) \cup Dropped(s, k)
        /\ UNCHANGED <<web, wire, buffer, runs, owed>>
    BY <1>1, <1>2
  <2>. QED BY <2>1, <1>1, MailRead
<1>4. /\ faults' = 0 => faults = 0 /\ k = 1
      /\ Links' /\ Processes \ Edited \subseteq active'
      /\ Typed'
  <2>1. queue' \in [Processes -> Seq([date : Nat, from : Nat])]
    BY <1>1 DEF ChainInv, Typed
  <2>. QED BY <2>1, <1>1, <1>3, ReadFrame
<1>5. Causes'
  <2>1. clock \in Nat /\ clock' = clock
    BY <1>1, AutomaticChainAssumption DEF ChainInv, Typed
  <2>2. \A t \in Services : \A l \in 1..Len(inbox'[t]) : \E j \in 1..Len(inbox[t]) : inbox'[t][l] = inbox[t][j]
    BY <1>3, NoMail
  <2>3. runs' = runs /\ handlers' = handlers /\ queue' = queue
    BY <1>1 DEF web
  <2>. QED BY <2>1, <2>2, <2>3, CausesLost
<1>6. Faultless'
  BY <1>1, <1>4, DroppedOne DEF ChainInv, Faultless
<1>. QED BY <1>3, <1>4, <1>5, <1>6 DEF ChainInv

\* A service that is not loaded drops a START.
LEMMA ReadTooEarlyKeeps ==
  ASSUME ChainInv, NEW s \in Services, NEW k \in 1..Len(inbox[s]), ReadTooEarly(s, k)
  PROVE  ChainInv'
<1>1. /\ Reads(s, k) /\ link[s] = "open"
      /\ excused' = excused \cup (Dropped(s, k) \cup OfMessages(<<Head(inbox[s])>>))
      /\ UNCHANGED <<web, link, wire, buffer, queue, runs, owed, started, clock, starts>>
      /\ inbox' = [inbox EXCEPT ![s] = SubSeq(@, k + 1, Len(@))]
  BY DEF ReadTooEarly, Reads
<1>. DEFINE not == Dropped(s, k) \cup OfMessages(<<Head(inbox[s])>>)
<1>2. /\ Streams' /\ Apart' /\ Balanced'
      /\ inbox' \in [Services -> Seq(Messages)]
      /\ OnlyMail(s, <<>>)
      /\ \A t \in Services : ~Connected(t) => inbox'[t] = inbox[t]
  <2>1. /\ started' = started \cup {} /\ {} \cap not = {} /\ excused' = excused \cup not
        /\ {} \cup not = OfMessages(<<Head(inbox[s])>>) \cup Dropped(s, k)
        /\ UNCHANGED <<web, wire, buffer, runs, owed>>
    BY <1>1
  <2>. QED BY <2>1, <1>1, MailRead
<1>3. /\ faults' = 0 => faults = 0
      /\ Links' /\ Processes \ Edited \subseteq active'
      /\ Typed'
  <2>1. queue' \in [Processes -> Seq([date : Nat, from : Nat])]
    BY <1>1 DEF ChainInv, Typed
  <2>. QED BY <2>1, <1>1, <1>2, ReadFrame
<1>4. Causes'
  <2>1. clock \in Nat /\ clock' = clock
    BY <1>1, AutomaticChainAssumption DEF ChainInv, Typed
  <2>2. \A t \in Services : \A l \in 1..Len(inbox'[t]) : \E j \in 1..Len(inbox[t]) : inbox'[t][l] = inbox[t][j]
    BY <1>2, NoMail
  <2>3. runs' = runs /\ handlers' = handlers /\ queue' = queue
    BY <1>1 DEF web
  <2>. QED BY <2>1, <2>2, <2>3, CausesLost
<1>5. Faultless'
  <2>1. faults' # 0
    BY <1>1, <1>3 DEF ChainInv, Faultless
  <2>. QED BY <2>1, <1>3 DEF Faultless
<1>. QED BY <1>2, <1>3, <1>4, <1>5 DEF ChainInv

\* A service reads a START: what was on its way to it waits in its queue.
LEMMA ReadStartKeeps ==
  ASSUME ChainInv, NEW s \in Services, NEW k \in 1..Len(inbox[s]), ReadStart(s, k)
  PROVE  ChainInv'
<1>. DEFINE m == Head(inbox[s])
            start == [date |-> m.date, from |-> m.from]
<1>1. /\ Reads(s, k) /\ m.signal = "START" /\ excused' = excused \cup Dropped(s, k)
      /\ queue' = [queue EXCEPT ![m.to] = Append(@, start)]
      /\ started' = started \cup OfMessages(<<m>>)
      /\ UNCHANGED <<web, link, wire, buffer, runs, owed, clock, starts>>
      /\ inbox' = [inbox EXCEPT ![s] = SubSeq(@, k + 1, Len(@))]
  BY DEF ReadStart, Reads
<1>2. /\ m = inbox[s][1] /\ m \in Messages /\ 1 \in 1..Len(inbox[s])
      /\ OfMessages(<<m>>) \cap Dropped(s, k) = {}
  <2>1. 1 \in 1..Len(inbox[s])
    BY MailOf
  <2>. QED BY <2>1, MailOf, MailSplit DEF Dropped
<1>3. m.to \in Processes /\ m.date \in Nat /\ m.from \in Nat
  <2>1. Log.signal # "START"
    BY DEF Log
  <2>. QED BY <2>1, <1>1, <1>2 DEF Messages, Starts
<1>4. Cause(m.to, m.date, m.from)
  BY <1>1, <1>2, MailOf DEF Meant
<1>5. /\ Streams' /\ Apart' /\ Balanced'
      /\ inbox' \in [Services -> Seq(Messages)]
      /\ OnlyMail(s, <<>>)
      /\ \A t \in Services : ~Connected(t) => inbox'[t] = inbox[t]
  <2>1. UNCHANGED <<web, wire, buffer, runs, owed>>
    BY <1>1
  <2>. QED BY <2>1, <1>1, <1>2, MailRead
<1>. HIDE DEF m
<1>6. /\ queue[m.to] \in Seq([date : Nat, from : Nat]) /\ start \in [date : Nat, from : Nat]
      /\ DOMAIN queue = Processes
  BY <1>3 DEF ChainInv, Typed
<1>7. /\ Append(queue[m.to], start) \in Seq([date : Nat, from : Nat])
      /\ Len(Append(queue[m.to], start)) = Len(queue[m.to]) + 1 /\ Len(queue[m.to]) \in Nat
      /\ \A j \in 1..Len(queue[m.to]) : Append(queue[m.to], start)[j] = queue[m.to][j]
      /\ Append(queue[m.to], start)[Len(queue[m.to]) + 1] = start
  BY <1>6, AppendProperties, LenProperties
<1>8. queue' \in [Processes -> Seq([date : Nat, from : Nat])]
  BY <1>1, <1>3, <1>6, <1>7 DEF ChainInv, Typed
<1>9. /\ faults' = 0 => faults = 0 /\ k = 1
      /\ Links' /\ Processes \ Edited \subseteq active'
      /\ Typed'
  BY <1>1, <1>5, <1>8, ReadFrame
<1>10. Causes'
  <2>1. clock \in Nat /\ clock' = clock
    BY <1>1, AutomaticChainAssumption DEF ChainInv, Typed
  <2>2. \A t \in Services : \A l \in 1..Len(inbox'[t]) : \E j \in 1..Len(inbox[t]) : inbox'[t][l] = inbox[t][j]
    BY <1>5, NoMail
  <2>3. ASSUME NEW q \in Processes, NEW l \in 1..Len(queue'[q])
        PROVE  (\E j \in 1..Len(queue[q]) : queue'[q][l] = queue[q][j]) \/ Cause(q, queue[q][l].date, queue[q][l].from)'
    <3>1. CASE q = m.to
      <4>1. queue'[q] = Append(queue[m.to], start)
        BY <3>1, <1>1, <1>6
      <4>2. CASE l \in 1..Len(queue[m.to])
        BY <3>1, <4>1, <4>2, <1>7
      <4>3. CASE l \notin 1..Len(queue[m.to])
        <5>1. l = Len(queue[m.to]) + 1
          BY <3>1, <4>1, <4>3, <1>7
        <5>2. queue'[q][l].date = m.date /\ queue'[q][l].from = m.from
          BY <5>1, <3>1, <4>1, <1>7
        <5>3. PICK date \in Nat, n \in Nat : date = m.date /\ n = m.from
          BY <1>3
        <5>4. Cause(q, date, n)
          BY <5>3, <3>1, <1>4
        <5>5. Cause(q, date, n)'
          BY <5>4, <2>1, <1>1, SameRuns, CauseKept DEF ChainInv
        <5>. QED BY <5>2, <5>3, <5>5
      <4>. QED BY <4>2, <4>3
    <3>2. CASE q # m.to
      BY <3>2, <1>1, <1>6
    <3>. QED BY <3>1, <3>2
  <2>4. /\ runs' = runs /\ handlers' = handlers /\ Typed /\ Causes
        /\ \A n \in 1..Len(runs) : runs'[n] = runs[n] /\ FollowersFound(n)' = FollowersFound(n)
    BY <1>1, SameRuns DEF ChainInv, web
  <2>. QED BY <2>1, <2>2, <2>3, <2>4, CausesStep
<1>11. Faultless'
  BY <1>1, <1>9, DroppedOne DEF ChainInv, Faultless
<1>. QED BY <1>5, <1>9, <1>10, <1>11 DEF ChainInv

\* The web application dies with its handlers and all connections.
LEMMA RestartKeeps ==
  ASSUME ChainInv, Restart
  PROVE  ChainInv'
<1>1. /\ handlers' = {} /\ excused' = excused \cup InFlight
      /\ link' = [s \in Services |-> IF HasData(s) THEN "closed" ELSE "dead"]
      /\ UNCHANGED <<active, queue, runs, owed, started, clock, starts>>
      /\ \A s \in Services : inbox'[s] = <<>> /\ wire'[s] = <<>> /\ buffer'[s] = <<>>
      /\ faults' \in 0..MaxFaults /\ faults' # 0
  BY FaultCounts DEF Restart
<1>2. /\ inbox' \in [Services -> Seq(Messages)]
      /\ wire' \in [Services -> Seq(UnitTypes)] /\ buffer' \in [Services -> Seq(UnitTypes)]
  <2>1. <<>> \in Seq(Messages) /\ <<>> \in Seq(UnitTypes)
    BY EmptySeq
  <2>. QED BY <2>1 DEF Restart
<1>3. \A s \in Services : Stream(s)' = <<>>
  <2>1. <<>> \o <<>> = <<>>
    BY EmptySeq, ConcatEmptySeq
  <2>. QED BY <2>1, <1>1 DEF Stream
<1>4. Streams'
  BY <1>1, <1>3, StreamsKept DEF ChainInv
<1>5. Apart'
  BY <1>1, <1>3, NoPairs, ApartKept DEF ChainInv
<1>6. InFlight' = {}
  BY <1>1, <1>3, NoPairs, StreamNext, FlightNext
<1>7. Balanced'
  <2>1. /\ owed' = owed \cup {} /\ {} \cap owed = {} /\ started' = started \cup {}
        /\ {} \cap InFlight = {} /\ {} \cup InFlight \subseteq InFlight \cup {}
        /\ InFlight' = (InFlight \cup {}) \ ({} \cup InFlight)
    BY <1>1, <1>6
  <2>. QED BY <2>1, <1>1, BalancedStep DEF ChainInv
<1>8. Causes'
  <2>1. clock \in Nat /\ clock' = clock /\ Len(<<>>) = 0
    BY <1>1, AutomaticChainAssumption DEF ChainInv, Typed
  <2>2. ASSUME NEW t \in Services, NEW k \in 1..Len(inbox'[t])
        PROVE  \E j \in 1..Len(inbox[t]) : inbox'[t][k] = inbox[t][j]
    BY <2>1, <1>1
  <2>3. runs' = runs /\ handlers' = {} /\ queue' = queue
    BY <1>1
  <2>. QED BY <2>1, <2>2, <2>3, CausesLost
<1>9. Typed'
  BY <1>1, <1>2 DEF ChainInv, Typed
<1>10. Links'
  BY <1>1 DEF Links
<1>11. Faultless'
  BY <1>1 DEF ChainInv, Faultless
<1>. QED BY <1>4, <1>5, <1>7, <1>8, <1>9, <1>10, <1>11 DEF ChainInv

-----------------------------------------------------------------------------
(* An execution ends *)

\* The run that ends, and what has to follow it.
LEMMA Ended ==
  ASSUME ChainInv, NEW p \in Processes, Execute(p)
  PROVE  \E r \in RunTypes, n \in Nat :
           /\ n = Len(runs) + 1 /\ runs' = Append(runs, r) /\ r.process = p /\ r.date <= clock
           /\ LET more == {n} \X FollowersFound(n)'
              IN /\ owed' = owed \cup more
                 /\ IF Connected(Host(p))
                    THEN wire' = [wire EXCEPT ![Host(p)] = @ \o Units(n)] /\ UNCHANGED excused
                    ELSE excused' = excused \cup more /\ UNCHANGED wire
<1>1. PICK o \in Outcomes(p) :
        LET n == Len(runs) + 1
            pairs == IF o.result /\ o.automatic THEN {n} \X Followers(p) ELSE {}
        IN /\ runs' = Append(runs, [process |-> p, date |-> Head(queue[p]).date,
                                    result |-> o.result, automatic |-> o.automatic])
           /\ owed' = owed \cup pairs
           /\ IF Connected(Host(p))
              THEN wire' = [wire EXCEPT ![Host(p)] = @ \o Units(n)] /\ UNCHANGED excused
              ELSE excused' = excused \cup pairs /\ UNCHANGED wire
  BY DEF Execute
<1>. DEFINE r == [process |-> p, date |-> Head(queue[p]).date, result |-> o.result, automatic |-> o.automatic]
<1>2. o.result \in BOOLEAN /\ o.automatic \in BOOLEAN
  <2>1. \/ o = [result |-> TRUE, automatic |-> TRUE] \/ o = [result |-> FALSE, automatic |-> TRUE]
        \/ o = [result |-> TRUE, automatic |-> FALSE]
    BY DEF Outcomes
  <2>2. ASSUME NEW a \in BOOLEAN, NEW b \in BOOLEAN, o = [result |-> a, automatic |-> b]
        PROVE  o.result \in BOOLEAN /\ o.automatic \in BOOLEAN
    BY <2>2
  <2>3. TRUE \in BOOLEAN /\ FALSE \in BOOLEAN
    OBVIOUS
  <2>. QED BY <2>1, <2>2, <2>3
<1>3. /\ queue[p] \in Seq([date : Nat, from : Nat]) /\ queue[p] # <<>>
  BY DEF ChainInv, Typed, Execute
<1>4. Head(queue[p]) \in [date : Nat, from : Nat] /\ Head(queue[p]) = queue[p][1] /\ 1 \in 1..Len(queue[p])
  <2>1. Len(queue[p]) \in Nat \ {0}
    BY <1>3, EmptySeq
  <2>2. Head(queue[p]) = queue[p][1] /\ 1 \in 1..Len(queue[p])
    BY <2>1, <1>3
  <2>3. queue[p][1] \in [date : Nat, from : Nat]
    BY <2>2, <1>3, ElementOfSeq
  <2>. QED BY <2>2, <2>3
<1>5. Head(queue[p]).date \in Nat /\ Head(queue[p]).date <= clock
  BY <1>4 DEF ChainInv, Causes, Cause
<1>6. r \in RunTypes /\ r.process = p /\ r.date <= clock /\ r.result = o.result /\ r.automatic = o.automatic
  BY <1>2, <1>5 DEF RunTypes
<1>. HIDE DEF r
<1>7. runs' = Append(runs, r)
  BY <1>1 DEF r
<1>8. PICK n \in Nat : n = Len(runs) + 1
  BY LenProperties DEF ChainInv, Typed
<1>9. runs'[n] = r
  BY <1>6, <1>7, <1>8, RunAdded DEF ChainInv
<1>10. {n} \X FollowersFound(n)' = IF o.result /\ o.automatic THEN {n} \X Followers(p) ELSE {}
  <2>1. FollowersFound(n)' = IF o.result /\ o.automatic THEN Followers(p) ELSE {}
    BY <1>6, <1>9 DEF FollowersFound
  <2>. QED BY <2>1
<1>11. /\ owed' = owed \cup {n} \X FollowersFound(n)'
       /\ IF Connected(Host(p))
          THEN wire' = [wire EXCEPT ![Host(p)] = @ \o Units(n)] /\ UNCHANGED excused
          ELSE excused' = excused \cup {n} \X FollowersFound(n)' /\ UNCHANGED wire
  BY <1>1, <1>8, <1>10
<1>. QED BY <1>6, <1>7, <1>8, <1>11

\* A process is executed: what has to follow the run is owed, and on its way or lost.
LEMMA ExecuteKeeps ==
  ASSUME ChainInv, NEW p \in Processes, Execute(p)
  PROVE  ChainInv'
<1>1. PICK r \in RunTypes, n \in Nat :
        /\ n = Len(runs) + 1 /\ runs' = Append(runs, r) /\ r.process = p /\ r.date <= clock
        /\ owed' = owed \cup {n} \X FollowersFound(n)'
        /\ IF Connected(Host(p))
           THEN wire' = [wire EXCEPT ![Host(p)] = @ \o Units(n)] /\ UNCHANGED excused
           ELSE excused' = excused \cup {n} \X FollowersFound(n)' /\ UNCHANGED wire
  BY Ended
<1>2. /\ UNCHANGED <<web, link, inbox, buffer, started, bounds>>
      /\ queue' = [queue EXCEPT ![p] = Tail(@)] /\ queue[p] # <<>>
  BY DEF Execute
<1>3. /\ runs' \in Seq(RunTypes) /\ Len(runs) \in Nat /\ Len(runs)' = n /\ runs'[n] = r
      /\ \A m \in 1..Len(runs) : runs'[m] = runs[m] /\ FollowersFound(m)' = FollowersFound(m)
      /\ 1..Len(runs) \subseteq 1..Len(runs)' /\ n \notin 1..Len(runs) /\ n \in 1..Len(runs)'
      /\ \A m \in 1..Len(runs)' : m \in 1..Len(runs) \/ m = n
  BY <1>1, RunAdded DEF ChainInv
<1>. DEFINE s == Host(p)
            more == {n} \X FollowersFound(n)'
<1>4. s \in Services /\ FollowersFound(n)' \subseteq Processes
  <2>1. FollowersFound(n)' \subseteq Processes
    BY Places DEF FollowersFound
  <2>. QED BY <2>1, Places
<1>. HIDE DEF s
\* What was on its way is as before.
<1>5. \A h \in handlers : OfHandler(h)' = OfHandler(h)
  <2>1. \A h \in handlers : h.run \in 1..Len(runs)
    BY DEF ChainInv, Typed
  <2>. QED BY <2>1, <1>3 DEF OfHandler
<1>7. ASSUME NEW t \in Services, Stream(t)' = Stream(t)
      PROVE  OfUnits(Stream(t))' = OfUnits(Stream(t)) /\ IsStream(Stream(t), t)'
  <2>1. PICK units : units = Stream(t)
    OBVIOUS
  <2>2. units \in Seq(UnitTypes) /\ IsStream(units, t) /\ DOMAIN units = 1..Len(units)
    BY <2>1, MailOf, LenProperties
  <2>3. \A k \in 1..Len(units) : units[k].run \in 1..Len(runs)
    BY <2>2 DEF IsStream
  <2>4. \A e : e \in OfUnits(units)' <=> e \in OfUnits(units)
    BY <2>2, <2>3, <1>3, OfUnitsIs, OfUnitsNext
  <2>5. IsStream(units, t)'
    BY <2>2, <2>3, <1>3 DEF IsStream
  <2>. QED BY <2>1, <2>4, <2>5, <1>7
<1>8. \A t \in Services : t # s => Stream(t)' = Stream(t)
  BY <1>1, <1>2 DEF Stream, s, ChainInv, Typed
\* The units of the new run are added to the stream of its service.
<1>9. ASSUME Connected(s)
      PROVE  /\ wire' \in [Services -> Seq(UnitTypes)]
             /\ OfUnits(Stream(s))' = OfUnits(Stream(s)) \cup more /\ IsStream(Stream(s), s)'
  <2>1. PICK long : long = Stream(s) \o Units(n)
    OBVIOUS
  <2>2. /\ long \in Seq(UnitTypes) /\ IsStream(long, s)'
        /\ OfUnits(long)' = OfUnits(Stream(s)) \cup more
    <3>1. Stream(s) \in Seq(UnitTypes) /\ IsStream(Stream(s), s)
      BY <1>4, MailOf
    <3>. QED BY <2>1, <3>1, <1>1, StreamAdded DEF ChainInv, s
  <2>3. /\ Units(n) \in Seq(UnitTypes) /\ wire[s] \in Seq(UnitTypes) /\ buffer[s] \in Seq(UnitTypes)
    BY <1>4, MailOf, UnitsAre
  <2>4. wire[s] \o Units(n) \in Seq(UnitTypes)
    BY <2>3, ConcatProperties
  <2>5. wire' = [wire EXCEPT ![s] = wire[s] \o Units(n)] /\ wire \in [Services -> Seq(UnitTypes)]
    BY <1>1, <1>9 DEF s, ChainInv, Typed
  <2>6. wire' \in [Services -> Seq(UnitTypes)] /\ wire'[s] = wire[s] \o Units(n)
    BY <2>4, <2>5, <1>4
  <2>7. Stream(s)' = long
    <3>1. (buffer[s] \o wire[s]) \o Units(n) = buffer[s] \o (wire[s] \o Units(n))
      <4>1. \A a, b, c \in Seq(UnitTypes) : (a \o b) \o c = a \o (b \o c)
        BY ConcatAssociative
      <4>. QED BY <4>1, <2>3
    <3>2. s' = s
      BY DEF s
    <3>. QED BY <3>1, <3>2, <2>1, <2>6, <1>2 DEF Stream
  <2>. QED BY <2>2, <2>6, <2>7
<1>10. ASSUME ~Connected(s)
       PROVE  wire' = wire /\ wire' \in [Services -> Seq(UnitTypes)] /\ Stream(s)' = Stream(s)
  BY <1>1, <1>2, <1>10 DEF s, Stream, ChainInv, Typed
<1>11. \A t \in Services :
         OfUnits(Stream(t))' = IF t = s /\ Connected(s) THEN OfUnits(Stream(t)) \cup more ELSE OfUnits(Stream(t))
  BY <1>7, <1>8, <1>9, <1>10
<1>12. Streams'
  BY <1>7, <1>8, <1>9, <1>10 DEF Streams
\* Nothing that was on its way follows the new run.
<1>13. /\ \A t \in Services : more \cap OfUnits(Stream(t)) = {} /\ more \cap OfMessages(inbox[t]) = {}
       /\ \A h \in handlers : more \cap OfHandler(h) = {}
  BY <1>3, PairOfUnits, PairOfMail, PairOfHandler
<1>14. Apart'
  <2>1. handlers' = handlers /\ inbox' = inbox
    BY <1>2 DEF web
  <2>2. (\A t \in Services : Distinct(inbox[t]))'
    BY <2>1 DEF ChainInv, Apart, Distinct
  <2>3. (\A t, u \in Services : OfMessages(inbox[t]) \cap OfUnits(Stream(u)) = {})'
    BY <2>1, <1>11, <1>13 DEF ChainInv, Apart, OfMessages
  <2>4. (\A t \in Services, h \in handlers : OfMessages(inbox[t]) \cap OfHandler(h) = {})'
    BY <2>1, <1>5 DEF ChainInv, Apart, OfMessages
  <2>5. (\A t \in Services, h \in handlers : OfUnits(Stream(t)) \cap OfHandler(h) = {})'
    BY <2>1, <1>5, <1>11, <1>13 DEF ChainInv, Apart
  <2>6. (\A g, h \in handlers : g # h => OfHandler(g) \cap OfHandler(h) = {})'
    BY <2>1, <1>5 DEF ChainInv, Apart
  <2>. QED BY <2>2, <2>3, <2>4, <2>5, <2>6 DEF Apart
<1>15. InFlight' = IF Connected(s) THEN InFlight \cup more ELSE InFlight
  <2>. SUFFICES ASSUME NEW e
                PROVE  e \in InFlight' <=> e \in InFlight \/ (Connected(s) /\ e \in more)
    OBVIOUS
  <2>1. handlers' = handlers /\ inbox' = inbox
    BY <1>2 DEF web
  <2>. QED BY <2>1, <1>4, <1>5, <1>11, FlightNext, InFlightIs
<1>16. more \cap InFlight = {} /\ more \cap owed = {}
  <2>1. more \cap InFlight = {}
    BY <1>13, InFlightIs
  <2>2. more \cap owed = {}
    BY <1>3 DEF ChainInv, Typed
  <2>. QED BY <2>1, <2>2
<1>17. Balanced'
  <2>1. CASE Connected(s)
    <3>1. /\ owed' = owed \cup more /\ started' = started \cup {} /\ excused' = excused \cup {}
          /\ InFlight' = (InFlight \cup more) \ ({} \cup {})
      BY <2>1, <1>1, <1>2, <1>15 DEF s
    <3>. QED BY <3>1, <1>16, BalancedStep DEF ChainInv
  <2>2. CASE ~Connected(s)
    <3>1. /\ owed' = owed \cup more /\ started' = started \cup {} /\ excused' = excused \cup more
          /\ InFlight' = (InFlight \cup more) \ ({} \cup more)
      BY <2>2, <1>1, <1>2, <1>15, <1>16 DEF s
    <3>2. {} \cup more \subseteq InFlight \cup more /\ {} \cap more = {}
      OBVIOUS
    <3>. QED BY <3>1, <3>2, <1>16, BalancedStep DEF ChainInv
  <2>. QED BY <2>1, <2>2
<1>18. /\ queue' \in [Processes -> Seq([date : Nat, from : Nat])]
       /\ \A q \in Processes : \A k \in 1..Len(queue'[q]) : \E j \in 1..Len(queue[q]) : queue'[q][k] = queue[q][j]
  <2>1. queue \in [Processes -> Seq([date : Nat, from : Nat])]
    BY DEF ChainInv, Typed
  <2>2. /\ Tail(queue[p]) \in Seq([date : Nat, from : Nat]) /\ Len(Tail(queue[p])) = Len(queue[p]) - 1
        /\ \A k \in 1..Len(Tail(queue[p])) : Tail(queue[p])[k] = queue[p][k + 1]
        /\ Len(queue[p]) \in Nat
    BY <2>1, <1>2, HeadTailProperties, LenProperties
  <2>3. queue' \in [Processes -> Seq([date : Nat, from : Nat])] /\ queue'[p] = Tail(queue[p])
    BY <2>1, <2>2, <1>2
  <2>4. ASSUME NEW q \in Processes, NEW k \in 1..Len(queue'[q])
        PROVE  \E j \in 1..Len(queue[q]) : queue'[q][k] = queue[q][j]
    <3>1. CASE q = p
      <4>1. k + 1 \in 1..Len(queue[p]) /\ queue'[q][k] = queue[p][k + 1]
        <5>1. k \in 1..Len(Tail(queue[p])) /\ queue'[q][k] = Tail(queue[p])[k]
          BY <3>1, <2>3
        <5>2. k \in Nat /\ k >= 1 /\ k <= Len(queue[p]) - 1
          BY <5>1, <2>2
        <5>3. Tail(queue[p])[k] = queue[p][k + 1]
          BY <5>1, <2>2
        <5>. QED BY <5>1, <5>2, <5>3, <2>2
      <4>. QED BY <4>1, <3>1
    <3>2. CASE q # p
      BY <3>2, <2>1, <1>2
    <3>. QED BY <3>1, <3>2
  <2>. QED BY <2>3, <2>4
<1>19. Causes'
  <2>1. clock \in Nat /\ clock' = clock /\ inbox' = inbox /\ handlers' = handlers
    BY <1>2, AutomaticChainAssumption DEF ChainInv, Typed, bounds, web
  <2>2. \A m \in 1..Len(runs') : m \in 1..Len(runs) \/ runs'[m].date <= clock'
    BY <2>1, <1>1, <1>3
  <2>3. Typed /\ Causes /\ clock' \in Nat /\ clock <= clock'
    BY <2>1 DEF ChainInv
  <2>4. /\ 1..Len(runs) \subseteq 1..Len(runs')
        /\ \A m \in 1..Len(runs) : runs'[m] = runs[m] /\ FollowersFound(m)' = FollowersFound(m)
    BY <1>3
  <2>5. \A t \in Services : \A k \in 1..Len(inbox'[t]) : \E j \in 1..Len(inbox[t]) : inbox'[t][k] = inbox[t][j]
    BY <2>1
  <2>6. \A q \in Processes : \A k \in 1..Len(queue'[q]) : \E j \in 1..Len(queue[q]) : queue'[q][k] = queue[q][j]
    BY <1>18
  <2>7. \A h \in handlers' : h \in handlers
    BY <2>1
  <2>. QED BY <2>2, <2>3, <2>4, <2>5, <2>6, <2>7, CausesStep
<1>20. Typed'
  <2>1. owed' \subseteq (1..Len(runs')) \X Processes
    BY <1>1, <1>3, <1>4 DEF ChainInv, Typed
  <2>2. handlers' \subseteq HandlerTypes /\ \A h \in handlers' : h.run \in 1..Len(runs')
    BY <1>2, <1>3 DEF ChainInv, Typed, web
  <2>3. wire' \in [Services -> Seq(UnitTypes)]
    BY <1>9, <1>10
  <2>. QED BY <2>1, <2>2, <2>3, <1>2, <1>3, <1>18 DEF ChainInv, Typed, web, bounds
<1>21. Links'
  <2>1. \A t \in Services : ~Connected(t) => wire'[t] = wire[t]
    BY <1>1, <1>10 DEF s, ChainInv, Typed
  <2>2. \A t \in Services : Connected(t)' <=> Connected(t)
    BY <1>2 DEF Connected
  <2>. QED BY <2>1, <2>2, <1>2, <1>3 DEF ChainInv, Links
<1>22. Faultless'
  <2>1. CASE Connected(s)
    BY <2>1, <1>1, <1>2 DEF s, ChainInv, Faultless, web, bounds
  <2>2. CASE ~Connected(s)
    <3>1. faults # 0
      BY <2>2, <1>4 DEF ChainInv, Faultless, Connected
    <3>. QED BY <3>1, <1>2 DEF ChainInv, Faultless, web, bounds
  <2>. QED BY <2>1, <2>2
<1>. QED BY <1>12, <1>14, <1>17, <1>19, <1>20, <1>21, <1>22 DEF ChainInv
-----------------------------------------------------------------------------
(* The web application *)

\* A database that fails, or inactive processes: a handler goes on with fewer pairs.
LEMMA LookupKeeps ==
  ASSUME ChainInv, NEW h \in handlers, Lookup(h)
  PROVE  ChainInv'
<1>. DEFINE found == FollowersFound(h.run)
            chosen == {q \in found : q \in active \/ runs[h.run].process \in Views}
<1>1. /\ h.stage = "lookup"
      /\ UNCHANGED <<active, network, queue, runs, owed, started, clock, starts>>
  BY DEF Lookup
<1>2. h \in HandlerTypes /\ h.run \in 1..Len(runs) /\ OfHandler(h) = {h.run} \X found
  BY <1>1 DEF ChainInv, Typed, OfHandler
\* What the handler goes on with.
<1>pick. PICK todo \in SUBSET found :
        /\ handlers' = (handlers \ {h}) \cup
             IF todo = {} THEN {} ELSE {[run |-> h.run, stage |-> "start", todo |-> todo]}
        /\ excused' = excused \cup {h.run} \X (found \ todo)
        /\ faults' \in 0..MaxFaults
        /\ faults' = 0 => faults = 0 /\ \A q \in found \ todo : q \notin active
  <2>1. CASE /\ handlers' = (handlers \ {h}) \cup
                  IF chosen = {} THEN {} ELSE {[run |-> h.run, stage |-> "start", todo |-> chosen]}
             /\ excused' = excused \cup {h.run} \X (found \ chosen)
             /\ UNCHANGED faults
    <3>1. chosen \in SUBSET found /\ \A q \in found \ chosen : q \notin active
      OBVIOUS
    <3>2. faults' \in 0..MaxFaults /\ faults' = faults
      BY <2>1 DEF ChainInv, Typed
    <3>. HIDE DEF found, chosen
    <3>. QED BY <2>1, <3>1, <3>2
  <2>2. CASE /\ Fault("database") /\ handlers' = handlers \ {h}
             /\ excused' = excused \cup {h.run} \X found
    <3>1. faults' \in 0..MaxFaults /\ faults' # 0
      BY <2>2, FaultCounts
    <3>2. handlers' = handlers \ {h} /\ excused' = excused \cup {h.run} \X (found \ {})
      BY <2>2
    <3>. QED BY <3>1, <3>2
  <2>. QED BY <2>1, <2>2 DEF Lookup
<1>. DEFINE next == IF todo = {} THEN {} ELSE {[run |-> h.run, stage |-> "start", todo |-> todo]}
<1>3. /\ handlers' = (handlers \ {h}) \cup next
      /\ excused' = excused \cup {h.run} \X (found \ todo)
      /\ faults' \in 0..MaxFaults
      /\ faults' = 0 => faults = 0 /\ \A q \in found \ todo : q \notin active
      /\ todo \subseteq found
      /\ \A g \in next : g = [run |-> h.run, stage |-> "start", todo |-> todo] /\ todo # {}
      /\ next = {} => todo = {}
  <2>1. /\ \A g \in next : g = [run |-> h.run, stage |-> "start", todo |-> todo] /\ todo # {}
        /\ next = {} => todo = {}
    OBVIOUS
  <2>. QED BY <2>1, <1>pick
<1>. HIDE DEF found, next
<1>4. /\ \A g : OfHandler(g)' = OfHandler(g)
      /\ \A g \in next : OfHandler(g) = {h.run} \X todo
      /\ \A f, g \in next : f = g
      /\ next = {} => todo = {}
  <2>1. \A g : OfHandler(g)' = OfHandler(g)
    BY <1>1, SameRuns
  <2>2. ASSUME NEW g \in next PROVE OfHandler(g) = {h.run} \X todo
    <3>1. g.stage = "start" /\ g.run = h.run /\ g.todo = todo
      BY <1>3
    <3>. QED BY <3>1 DEF OfHandler
  <2>. QED BY <2>1, <2>2, <1>3
<1>5. \A s : Stream(s)' = Stream(s) /\ inbox' = inbox
  BY <1>1 DEF Stream, network
<1>6. \A s \in Services : OfUnits(Stream(s))' = OfUnits(Stream(s))
  BY <1>1, <1>5, StreamNext
<1>7. \A g \in handlers' : OfHandler(g) \subseteq OfHandler(h) \/ (g \in handlers /\ g # h)
  BY <1>2, <1>3, <1>4
<1>8. Streams'
  BY <1>1, <1>5, StreamsKept DEF ChainInv
<1>9. Apart'
  <2>1. (\A s \in Services : Distinct(inbox[s]))'
    BY <1>5 DEF ChainInv, Apart, Distinct
  <2>2. (\A s, t \in Services : OfMessages(inbox[s]) \cap OfUnits(Stream(t)) = {})'
    BY <1>5, <1>6 DEF ChainInv, Apart, OfMessages
  <2>3. ASSUME NEW s \in Services, NEW g \in handlers' PROVE OfMessages(inbox[s]) \cap OfHandler(g) = {}
    BY <1>7 DEF ChainInv, Apart
  <2>4. ASSUME NEW s \in Services, NEW g \in handlers' PROVE OfUnits(Stream(s)) \cap OfHandler(g) = {}
    BY <1>7 DEF ChainInv, Apart
  <2>5. ASSUME NEW f \in handlers', NEW g \in handlers', f # g PROVE OfHandler(f) \cap OfHandler(g) = {}
    <3>1. CASE f \in next
      <4>1. g \in handlers /\ g # h /\ OfHandler(f) \subseteq OfHandler(h)
        BY <3>1, <2>5, <1>2, <1>3, <1>4
      <4>. QED BY <4>1 DEF ChainInv, Apart
    <3>2. CASE g \in next
      <4>1. f \in handlers /\ f # h /\ OfHandler(g) \subseteq OfHandler(h)
        BY <3>2, <2>5, <1>2, <1>3, <1>4
      <4>. QED BY <4>1 DEF ChainInv, Apart
    <3>3. CASE f \notin next /\ g \notin next
      BY <3>3, <2>5, <1>3 DEF ChainInv, Apart
    <3>. QED BY <3>1, <3>2, <3>3
  <2>. QED BY <2>1, <2>2, <2>3, <2>4, <2>5, <1>4, <1>5, <1>6 DEF Apart, OfMessages
<1>10. InFlight' = InFlight \ ({h.run} \X (found \ todo))
  <2>. SUFFICES ASSUME NEW e
                PROVE  e \in InFlight' <=> e \in InFlight /\ e \notin {h.run} \X (found \ todo)
    OBVIOUS
  <2>1. /\ \A s \in Services : OfHandler(h) \cap OfUnits(Stream(s)) = {} /\ OfHandler(h) \cap OfMessages(inbox[s]) = {}
        /\ \A g \in handlers : g # h => OfHandler(h) \cap OfHandler(g) = {}
    BY DEF ChainInv, Apart
  <2>2. e \in InFlight' <=>
          \/ \E s \in Services : e \in OfUnits(Stream(s)) \/ e \in OfMessages(inbox[s])
          \/ \E g \in handlers' : e \in OfHandler(g)
    BY <1>4, <1>5, <1>6, FlightNext
  <2>3. (\E g \in handlers' : e \in OfHandler(g)) <=>
          (\E g \in handlers : g # h /\ e \in OfHandler(g)) \/ e \in {h.run} \X todo
    <3>1. (\E g \in next : e \in OfHandler(g)) <=> e \in {h.run} \X todo
      <4>1. CASE next = {}
        BY <4>1, <1>4
      <4>2. CASE next # {}
        BY <4>2, <1>4
      <4>. QED BY <4>1, <4>2
    <3>. QED BY <3>1, <1>3
  <2>4. e \in InFlight <=>
          \/ \E s \in Services : e \in OfUnits(Stream(s)) \/ e \in OfMessages(inbox[s])
          \/ \E g \in handlers : g # h /\ e \in OfHandler(g)
          \/ e \in {h.run} \X found
    BY <1>2, InFlightIs
  <2>5. {h.run} \X found = ({h.run} \X todo) \cup ({h.run} \X (found \ todo))
    OBVIOUS
  <2>6. ({h.run} \X todo) \cap ({h.run} \X (found \ todo)) = {}
    OBVIOUS
  <2>7. ASSUME e \in {h.run} \X found
        PROVE  /\ ~ \E s \in Services : e \in OfUnits(Stream(s)) \/ e \in OfMessages(inbox[s])
               /\ ~ \E g \in handlers : g # h /\ e \in OfHandler(g)
    BY <2>7, <2>1, <1>2
  <2>. QED BY <2>2, <2>3, <2>4, <2>5, <2>6, <2>7
<1>11. {h.run} \X (found \ todo) \subseteq InFlight
  BY <1>2, InFlightIs
<1>12. Balanced'
  <2>1. /\ owed' = owed \cup {} /\ {} \cap owed = {} /\ started' = started \cup {}
        /\ {} \cap ({h.run} \X (found \ todo)) = {}
        /\ {} \cup {h.run} \X (found \ todo) \subseteq InFlight \cup {}
        /\ InFlight' = (InFlight \cup {}) \ ({} \cup {h.run} \X (found \ todo))
    BY <1>1, <1>10, <1>11
  <2>. QED BY <2>1, <1>3, BalancedStep DEF ChainInv
<1>13. found \subseteq Processes
  BY Places DEF found
<1>14. Causes'
  <2>1. Typed /\ Causes /\ clock' \in Nat /\ clock <= clock' /\ runs' = runs /\ inbox' = inbox /\ queue' = queue
    BY <1>1, AutomaticChainAssumption DEF ChainInv, Typed, network
  <2>2. \A g \in handlers' : g \in handlers \/ (g.stage = "start" => g.todo # {} /\ g.todo \subseteq FollowersFound(g.run)')
    <3>1. \A g \in next : g.todo = todo /\ g.run = h.run /\ todo # {}
      BY <1>3
    <3>. QED BY <3>1, <1>3, <2>1, SameRuns DEF found
  <2>. QED BY <2>1, <2>2, SameRuns, CausesStep
<1>15. Typed'
  <2>1. \A g \in next : g \in HandlerTypes /\ g.run = h.run
    BY <1>2, <1>3, <1>13 DEF HandlerTypes
  <2>2. handlers' \subseteq HandlerTypes /\ \A g \in handlers' : g.run \in 1..Len(runs')
    BY <2>1, <1>1, <1>2, <1>3 DEF ChainInv, Typed
  <2>. QED BY <2>2, <1>1, <1>3 DEF ChainInv, Typed, network
<1>16. Links'
  BY <1>1 DEF ChainInv, Links, Connected, network
<1>17. Faultless'
  <2>1. faults' = 0 => \A e \in {h.run} \X (found \ todo) : e[2] \in Edited
    BY <1>3, <1>13 DEF ChainInv, Faultless
  <2>. QED BY <2>1, <1>1, <1>3 DEF ChainInv, Faultless, network
<1>. QED BY <1>8, <1>9, <1>12, <1>14, <1>15, <1>16, <1>17 DEF ChainInv

\* Process q is started for handler h.
LEMMA FollowKeeps ==
  ASSUME ChainInv, NEW h \in handlers, h.stage = "start", NEW q \in h.todo,
         NEW date \in Nat, Cause(q, date, h.run), NEW more,
         more \in StartsOf(q, date, h.run),
         Send(Host(q), more),
         handlers' = (handlers \ {h}) \cup IF h.todo = {q} THEN {} ELSE {[h EXCEPT !.todo = @ \ {q}]},
         UNCHANGED <<active, link, wire, buffer, queue, runs, owed, started, bounds>>
  PROVE  ChainInv'
<1>. DEFINE e0 == <<h.run, q>>
            s == Host(q)
            next == IF h.todo = {q} THEN {} ELSE {[h EXCEPT !.todo = @ \ {q}]}
<1>1. /\ h \in HandlerTypes /\ h.run \in 1..Len(runs) /\ OfHandler(h) = {h.run} \X h.todo
      /\ h.run \in Nat /\ h.run # 0 /\ q \in Processes /\ s \in Services
  <2>1. h \in HandlerTypes /\ h.run \in 1..Len(runs)
    BY DEF ChainInv, Typed
  <2>2. OfHandler(h) = {h.run} \X h.todo
    BY DEF OfHandler
  <2>3. h.run \in Nat /\ h.run # 0
    BY <2>1
  <2>4. q \in Processes
    BY <2>1 DEF HandlerTypes
  <2>. QED BY <2>1, <2>2, <2>3, <2>4, Places
<1>2. /\ more \in Seq(Messages) /\ Distinct(more) /\ OfMessages(more) = {e0}
      /\ \A k \in 1..Len(more) : more[k].signal = "START" => more[k] = StartMessage(q, date, h.run)
  <2>1. PICK n \in Nat : n = h.run
    BY <1>1
  <2>2. q \in Processes /\ more \in StartsOf(q, date, n)
    BY <2>1, <1>1
  <2>3. /\ more \in Seq(Messages) /\ Distinct(more)
        /\ OfMessages(more) = IF n # 0 THEN {<<n, q>>} ELSE {}
        /\ \A k \in 1..Len(more) : more[k].signal = "START" => more[k] = StartMessage(q, date, n)
    BY <2>2, StartMail
  <2>. QED BY <2>1, <2>3, <1>1
<1>. HIDE DEF s
<1>3. /\ handlers' = (handlers \ {h}) \cup next
      /\ \A g \in next : g \in HandlerTypes /\ g.stage = "start" /\ g.run = h.run /\ g.todo = h.todo \ {q} /\ g.todo # {}
      /\ \A f, g \in next : f = g
      /\ next = {} => h.todo = {q}
  <2>1. CASE h.todo = {q}
    BY <2>1
  <2>2. CASE h.todo # {q}
    <3>1. PICK g : g = [h EXCEPT !.todo = h.todo \ {q}]
      OBVIOUS
    <3>2. g \in HandlerTypes /\ g.stage = "start" /\ g.run = h.run /\ g.todo = h.todo \ {q}
      BY <3>1, <1>1 DEF HandlerTypes
    <3>3. next = {g} /\ h.todo \ {q} # {}
      BY <2>2, <3>1
    <3>. QED BY <3>2, <3>3
  <2>. QED BY <2>1, <2>2
<1>. HIDE DEF next
<1>4. /\ \A g : OfHandler(g)' = OfHandler(g)
      /\ \A g \in next : OfHandler(g) = {h.run} \X (h.todo \ {q})
  <2>1. \A g : OfHandler(g)' = OfHandler(g)
    BY SameRuns
  <2>2. ASSUME NEW g \in next PROVE OfHandler(g) = {h.run} \X (h.todo \ {q})
    <3>1. g.stage = "start" /\ g.run = h.run /\ g.todo = h.todo \ {q}
      BY <1>3
    <3>. QED BY <3>1 DEF OfHandler
  <2>. QED BY <2>1, <2>2
<1>5. \A t : Stream(t)' = Stream(t)
  BY DEF Stream
<1>6. \A t \in Services : OfUnits(Stream(t))' = OfUnits(Stream(t))
  BY <1>5, StreamNext
\* The pair was with the handler and nowhere else.
<1>7. /\ e0 \in OfHandler(h)
      /\ \A t \in Services : e0 \notin OfUnits(Stream(t)) /\ e0 \notin OfMessages(inbox[t])
      /\ \A g \in handlers : g # h => e0 \notin OfHandler(g)
      /\ \A g \in next : e0 \notin OfHandler(g) /\ OfHandler(g) \subseteq OfHandler(h)
  <2>1. e0 \in OfHandler(h)
    BY <1>1
  <2>2. /\ \A t \in Services : e0 \notin OfUnits(Stream(t)) /\ e0 \notin OfMessages(inbox[t])
        /\ \A g \in handlers : g # h => e0 \notin OfHandler(g)
    BY <2>1 DEF ChainInv, Apart
  <2>. QED BY <2>1, <2>2, <1>1, <1>4
<1>8. /\ inbox' \in [Services -> Seq(Messages)]
      /\ \A t \in Services : Distinct(inbox'[t])
      /\ \A t \in Services : ~Connected(t) => inbox'[t] = inbox[t]
      /\ \A t \in Services : OfMessages(inbox'[t]) =
           IF t = s /\ Connected(s) THEN OfMessages(inbox[t]) \cup {e0} ELSE OfMessages(inbox[t])
      /\ OnlyMail(s, more)
      /\ excused' = IF Connected(s) THEN excused ELSE excused \cup {e0}
  <2>1. CASE ~Connected(s)
    <3>1. inbox' = inbox /\ excused' = excused \cup {e0}
      BY <2>1, <1>2 DEF Send, s
    <3>. QED BY <2>1, <3>1, MailOf DEF ChainInv, Typed, OnlyMail
  <2>2. CASE Connected(s)
    <3>1. inbox' = [inbox EXCEPT ![s] = @ \o more] /\ excused' = excused
      BY <2>2 DEF Send, s
    <3>2. OfMessages(inbox[s]) \cap OfMessages(more) = {}
      BY <1>1, <1>2, <1>7
    <3>3. /\ inbox' \in [Services -> Seq(Messages)]
          /\ \A t \in Services : t # s => inbox'[t] = inbox[t]
          /\ \A t \in Services : Distinct(inbox'[t])
          /\ OfMessages(inbox'[s]) = OfMessages(inbox[s]) \cup OfMessages(more)
          /\ OnlyMail(s, more)
      BY <3>1, <3>2, <1>1, <1>2, Sent
    <3>. QED BY <2>2, <3>1, <3>3, <1>2
  <2>. QED BY <2>1, <2>2
<1>9. Streams'
  BY <1>5, StreamsKept DEF ChainInv
<1>10. \A g \in handlers' : e0 \notin OfHandler(g) /\ (OfHandler(g) \subseteq OfHandler(h) \/ (g \in handlers /\ g # h))
  BY <1>3, <1>7
<1>11. Apart'
  <2>1. (\A t \in Services : Distinct(inbox[t]))'
    BY <1>8 DEF Distinct
  <2>2. ASSUME NEW t \in Services, NEW u \in Services PROVE OfMessages(inbox'[t]) \cap OfUnits(Stream(u)) = {}
    BY <1>7, <1>8 DEF ChainInv, Apart
  <2>3. ASSUME NEW t \in Services, NEW g \in handlers' PROVE OfMessages(inbox'[t]) \cap OfHandler(g) = {}
    <3>1. OfMessages(inbox[t]) \cap OfHandler(g) = {}
      BY <1>10 DEF ChainInv, Apart
    <3>. QED BY <3>1, <1>8, <1>10
  <2>4. ASSUME NEW t \in Services, NEW g \in handlers' PROVE OfUnits(Stream(t)) \cap OfHandler(g) = {}
    BY <1>10 DEF ChainInv, Apart
  <2>5. ASSUME NEW f \in handlers', NEW g \in handlers', f # g PROVE OfHandler(f) \cap OfHandler(g) = {}
    <3>1. CASE f \in next
      <4>1. g \in handlers /\ g # h /\ OfHandler(f) \subseteq OfHandler(h)
        BY <3>1, <2>5, <1>3, <1>7
      <4>. QED BY <4>1 DEF ChainInv, Apart
    <3>2. CASE g \in next
      <4>1. f \in handlers /\ f # h /\ OfHandler(g) \subseteq OfHandler(h)
        BY <3>2, <2>5, <1>3, <1>7
      <4>. QED BY <4>1 DEF ChainInv, Apart
    <3>3. CASE f \notin next /\ g \notin next
      BY <3>3, <2>5, <1>3 DEF ChainInv, Apart
    <3>. QED BY <3>1, <3>2, <3>3
  <2>. QED BY <2>1, <2>2, <2>3, <2>4, <2>5, <1>4, <1>6 DEF Apart, OfMessages
<1>12. InFlight' = IF Connected(s) THEN InFlight ELSE InFlight \ {e0}
  <2>. SUFFICES ASSUME NEW e
                PROVE  e \in InFlight' <=> e \in InFlight /\ (Connected(s) \/ e # e0)
    OBVIOUS
  <2>1. e \in InFlight' <=>
          \/ \E t \in Services : e \in OfUnits(Stream(t)) \/ e \in OfMessages(inbox'[t])
          \/ \E g \in handlers' : e \in OfHandler(g)
    BY <1>4, <1>6, FlightNext
  <2>2. (\E g \in handlers' : e \in OfHandler(g)) <=>
          (\E g \in handlers : g # h /\ e \in OfHandler(g)) \/ (e \in OfHandler(h) /\ e # e0)
    <3>1. (\E g \in next : e \in OfHandler(g)) <=> e \in {h.run} \X (h.todo \ {q})
      <4>1. CASE next = {}
        BY <4>1, <1>3
      <4>2. CASE next # {}
        BY <4>2, <1>4
      <4>. QED BY <4>1, <4>2
    <3>2. e \in {h.run} \X (h.todo \ {q}) <=> e \in OfHandler(h) /\ e # e0
      BY <1>1
    <3>. QED BY <3>1, <3>2, <1>3
  <2>3. (\E t \in Services : e \in OfMessages(inbox'[t])) <=>
          (\E t \in Services : e \in OfMessages(inbox[t])) \/ (Connected(s) /\ e = e0)
    BY <1>1, <1>8
  <2>4. e \in InFlight <=>
          \/ \E t \in Services : e \in OfUnits(Stream(t)) \/ e \in OfMessages(inbox[t])
          \/ \E g \in handlers : g # h /\ e \in OfHandler(g)
          \/ e \in OfHandler(h)
    BY InFlightIs
  <2>. QED BY <2>1, <2>2, <2>3, <2>4, <1>7
<1>13. e0 \in InFlight
  BY <1>7, InFlightIs
<1>14. Balanced'
  <2>1. CASE Connected(s)
    <3>1. InFlight' = InFlight /\ excused' = excused
      BY <2>1, <1>8, <1>12
    <3>. QED BY <3>1 DEF ChainInv, Balanced
  <2>2. CASE ~Connected(s)
    <3>1. /\ owed' = owed \cup {} /\ {} \cap owed = {} /\ started' = started \cup {}
          /\ {} \cap {e0} = {} /\ {} \cup {e0} \subseteq InFlight \cup {}
          /\ InFlight' = (InFlight \cup {}) \ ({} \cup {e0}) /\ excused' = excused \cup {e0}
      BY <2>2, <1>8, <1>12, <1>13
    <3>. QED BY <3>1, BalancedStep DEF ChainInv
  <2>. QED BY <2>1, <2>2
<1>15. Causes'
  <2>1. Typed /\ Causes /\ clock' = clock /\ clock' \in Nat /\ clock <= clock' /\ runs' = runs /\ queue' = queue
    BY AutomaticChainAssumption DEF ChainInv, Typed, bounds
  <2>2. \A g \in handlers' : g \in handlers \/ (g.stage = "start" => g.todo # {} /\ g.todo \subseteq FollowersFound(g.run)')
    <3>1. h.todo \subseteq FollowersFound(h.run)
      BY DEF ChainInv, Causes
    <3>. QED BY <3>1, <1>3, <2>1, SameRuns
  <2>3. ASSUME NEW t \in Services, NEW k \in 1..Len(inbox'[t])
        PROVE  (\E j \in 1..Len(inbox[t]) : inbox'[t][k] = inbox[t][j]) \/ Meant(t, inbox[t][k])'
    <3>1. ASSUME t = s, NEW j \in 1..Len(more), inbox'[t][k] = more[j], more[j].signal = "START"
          PROVE  Meant(t, inbox[t][k])'
      <4>1. inbox'[t][k] = StartMessage(q, date, h.run)
        BY <3>1, <1>2
      <4>2. inbox'[t][k].to = q /\ inbox'[t][k].date = date /\ inbox'[t][k].from = h.run
        BY <4>1 DEF StartMessage
      <4>3. Cause(q, date, h.run)'
        BY <2>1, SameRuns, CauseKept
      <4>. QED BY <3>1, <4>2, <4>3 DEF Meant, s
    <3>. QED BY <3>1, <1>8 DEF Meant, OnlyMail
  <2>. QED BY <2>1, <2>2, <2>3, SameRuns, CausesStep
<1>16. Typed'
  <2>1. handlers' \subseteq HandlerTypes /\ \A g \in handlers' : g.run \in 1..Len(runs')
    BY <1>1, <1>3 DEF ChainInv, Typed
  <2>. QED BY <2>1, <1>8 DEF ChainInv, Typed, bounds
<1>17. Links'
  BY <1>8 DEF ChainInv, Links, Connected
<1>18. Faultless'
  <2>1. CASE Connected(s)
    BY <2>1, <1>8 DEF ChainInv, Faultless, bounds
  <2>2. CASE ~Connected(s)
    <3>1. faults # 0
      BY <2>2, <1>1 DEF ChainInv, Faultless, Connected
    <3>. QED BY <3>1 DEF ChainInv, Faultless, bounds
  <2>. QED BY <2>1, <2>2
<1>. QED BY <1>9, <1>11, <1>14, <1>15, <1>16, <1>17, <1>18 DEF ChainInv

\* A handler starts a process that waits for the run.
LEMMA StartNextKeeps ==
  ASSUME ChainInv, NEW h \in handlers, StartNext(h)
  PROVE  ChainInv'
<1>1. PICK q \in h.todo :
        /\ Send(Host(q), <<StartMessage(q, runs[h.run].date, h.run)>>)
        /\ handlers' = (handlers \ {h}) \cup IF h.todo = {q} THEN {} ELSE {[h EXCEPT !.todo = @ \ {q}]}
  BY DEF StartNext
<1>2. /\ h.stage = "start" /\ runs[h.run].process \notin Views
      /\ UNCHANGED <<active, link, wire, buffer, queue, runs, owed, started, bounds>>
  BY DEF StartNext
<1>3. h.run \in 1..Len(runs) /\ q \in FollowersFound(h.run)
  BY <1>2 DEF ChainInv, Typed, Causes
<1>4. PICK date \in Nat : date = runs[h.run].date
  BY <1>3, RunFacts DEF ChainInv
<1>5. Cause(q, date, h.run)
  BY <1>2, <1>3, <1>4, RunFacts DEF ChainInv, Causes, Cause
<1>6. PICK more : more = <<StartMessage(q, date, h.run)>>
  OBVIOUS
<1>7. more \in StartsOf(q, date, h.run) /\ Send(Host(q), more)
  BY <1>1, <1>4, <1>6 DEF StartsOf
<1>. QED BY <1>1, <1>2, <1>5, <1>7, FollowKeeps

\* A view has one alert.
LEMMA OneAlert ==
  ASSUME NEW n, runs[n].process \in Views, NEW q \in FollowersFound(n), NEW p \in FollowersFound(n)
  PROVE  p = q
<1>1. runs[n].process \notin Interpolators \cup Alerts
  BY AutomaticChainAssumption
<1>2. <<runs[n].process, p>> \in Watches /\ <<runs[n].process, q>> \in Watches
  BY <1>1 DEF FollowersFound, Followers
<1>. QED BY <1>2, AutomaticChainAssumption

\* A handler starts the alert of a view.
LEMMA StartAlertKeeps ==
  ASSUME ChainInv, NEW h \in handlers, StartAlert(h)
  PROVE  ChainInv'
<1>1. PICK q \in h.todo :
        /\ Send(Host(q), <<StartMessage(q, clock, h.run), Log>>)
        /\ handlers' = handlers \ {h}
  BY DEF StartAlert
<1>2. /\ h.stage = "start" /\ runs[h.run].process \in Views
      /\ UNCHANGED <<active, link, wire, buffer, queue, runs, owed, started, bounds>>
  BY DEF StartAlert
<1>3. h.run \in 1..Len(runs) /\ h.todo \subseteq FollowersFound(h.run)
  BY <1>2 DEF ChainInv, Typed, Causes
<1>4. h.todo = {q}
  BY <1>2, <1>3, OneAlert
<1>5. PICK date \in Nat : date = clock
  BY AutomaticChainAssumption DEF ChainInv, Typed
<1>6. Cause(q, date, h.run)
  <2>1. runs[h.run].date <= clock
    BY <1>3 DEF ChainInv, Causes
  <2>2. h.run # 0 /\ runs[h.run].date \in Nat
    BY <1>3, RunFacts DEF ChainInv
  <2>. QED BY <2>1, <2>2, <1>2, <1>3, <1>5 DEF Cause
<1>7. handlers' = (handlers \ {h}) \cup IF h.todo = {q} THEN {} ELSE {[h EXCEPT !.todo = @ \ {q}]}
  BY <1>1, <1>4
<1>8. PICK more : more = <<StartMessage(q, date, h.run), Log>>
  OBVIOUS
<1>9. more \in StartsOf(q, date, h.run) /\ Send(Host(q), more)
  BY <1>1, <1>5, <1>8 DEF StartsOf
<1>. QED BY <1>2, <1>6, <1>7, <1>9, FollowKeeps

\* The requests for the log of what is found in a portion.
LEMMA LogMail ==
  ASSUME NEW n \in Nat, NEW logs, logs = [i \in 1..n |-> Log]
  PROVE  /\ logs \in Seq(Messages) /\ Distinct(logs) /\ OfMessages(logs) = {}
         /\ \A k \in 1..Len(logs) : logs[k].signal # "START"
<1>1. Log \in Messages /\ Log.signal # "START"
  BY DEF Messages, Log
<1>2. logs \in [1..n -> Messages] /\ \A k \in 1..n : logs[k] = Log
  BY <1>1
<1>3. logs \in Seq(Messages) /\ DOMAIN logs = 1..n
  BY <1>2, SeqDef
<1>4. Len(logs) = n
  BY <1>3, LenProperties
<1>5. OfMessages(logs) = {}
  BY <1>1, <1>2, <1>3, OfMessagesIs
<1>. QED BY <1>1, <1>2, <1>3, <1>4, <1>5 DEF Distinct

\* A portion arrives: what is cut out of it passes from the stream to new handlers.
LEMMA DeliverKeeps ==
  ASSUME ChainInv, NEW s \in Services, NEW k \in 1..Len(wire[s]), Deliver(s, k)
  PROVE  ChainInv'
<1>1. PICK units, logs, lost :
        /\ units = buffer[s] \o SubSeq(wire[s], 1, k)
        /\ logs = [i \in 1..Cardinality(Whole(units)) |-> Log]
        /\ lost = Lost(units) /\ (units[Len(units)].part # 0 => lost = {})
        /\ IF units[Len(units)].part = 0 THEN Fault("split") ELSE UNCHANGED faults
        /\ buffer' = [buffer EXCEPT ![s] = Rest(units)]
        /\ handlers' = handlers \cup {[run |-> n, stage |-> "lookup", todo |-> {}] : n \in Whole(units)}
        /\ inbox' = [inbox EXCEPT ![s] = @ \o logs]
        /\ excused' = excused \cup lost
  BY DEF Deliver, Lost
<1>2. /\ wire' = [wire EXCEPT ![s] = SubSeq(wire[s], k + 1, Len(wire[s]))]
      /\ UNCHANGED <<active, link, queue, runs, owed, started, clock, starts>>
  BY DEF Deliver
<1>. DEFINE rest == SubSeq(wire[s], k + 1, Len(wire[s]))
            front == SubSeq(wire[s], 1, k)
            cut == CutOut(units)
            new == {[run |-> n, stage |-> "lookup", todo |-> {}] : n \in Whole(units)}
<1>3. /\ buffer[s] \in Seq(UnitTypes) /\ wire[s] \in Seq(UnitTypes) /\ Stream(s) \in Seq(UnitTypes)
      /\ IsStream(Stream(s), s) /\ Len(wire[s]) \in Nat /\ Len(buffer[s]) \in Nat
      /\ \A j \in 1..Len(wire[s]) : wire[s][j] \in UnitTypes
  BY MailOf, ElementOfSeq
<1>4. /\ front \in Seq(UnitTypes) /\ Len(front) = k /\ \A j \in 1..k : front[j] = wire[s][j]
  <2>1. 1 \in Int /\ k \in Int /\ k >= 1 /\ \A j \in 1..k : wire[s][j] \in UnitTypes
    BY <1>3
  <2>2. /\ front \in Seq(UnitTypes) /\ Len(front) = (IF 1 <= k THEN k - 1 + 1 ELSE 0)
        /\ \A j \in 1..(k - 1 + 1) : front[j] = wire[s][1 + j - 1]
    BY <2>1, SubSeqProperties
  <2>. QED BY <2>1, <2>2
<1>5. /\ rest \in Seq(UnitTypes) /\ Len(rest) = Len(wire[s]) - k
      /\ \A j \in 1..Len(rest) : rest[j] = wire[s][k + j]
  <2>1. k + 1 \in Int /\ Len(wire[s]) \in Int /\ \A j \in (k + 1)..Len(wire[s]) : wire[s][j] \in UnitTypes
    BY <1>3
  <2>2. /\ rest \in Seq(UnitTypes)
        /\ Len(rest) = (IF k + 1 <= Len(wire[s]) THEN Len(wire[s]) - (k + 1) + 1 ELSE 0)
        /\ \A j \in 1..(Len(wire[s]) - (k + 1) + 1) : rest[j] = wire[s][k + 1 + j - 1]
    BY <2>1, SubSeqProperties
  <2>. HIDE DEF rest
  <2>3. Len(rest) = Len(wire[s]) - k
    BY <2>2, <1>3
  <2>4. ASSUME NEW j \in 1..Len(rest) PROVE rest[j] = wire[s][k + j]
    <3>1. j \in 1..(Len(wire[s]) - (k + 1) + 1) /\ k + 1 + j - 1 = k + j
      BY <2>3, <1>3
    <3>. QED BY <3>1, <2>2
  <2>. QED BY <2>2, <2>3, <2>4
<1>. HIDE DEF rest, front, cut, new
<1>6. /\ units \in Seq(UnitTypes) /\ Len(units) = Len(buffer[s]) + k
      /\ \A j \in 1..(Len(buffer[s]) + k) : units[j] = IF j <= Len(buffer[s]) THEN buffer[s][j] ELSE front[j - Len(buffer[s])]
  <2>1. units = buffer[s] \o front
    BY <1>1 DEF front
  <2>2. /\ buffer[s] \o front \in Seq(UnitTypes) /\ Len(buffer[s] \o front) = Len(buffer[s]) + Len(front)
        /\ \A j \in 1..(Len(buffer[s]) + Len(front)) :
             (buffer[s] \o front)[j] = IF j <= Len(buffer[s]) THEN buffer[s][j] ELSE front[j - Len(buffer[s])]
    BY <1>3, <1>4, ConcatProperties
  <2>. QED BY <2>1, <2>2, <1>4
<1>7. /\ Len(Stream(s)) = Len(buffer[s]) + Len(wire[s])
      /\ \A j \in 1..(Len(buffer[s]) + Len(wire[s])) :
           Stream(s)[j] = IF j <= Len(buffer[s]) THEN buffer[s][j] ELSE wire[s][j - Len(buffer[s])]
  BY <1>3, ConcatProperties DEF Stream
<1>8. PICK all \in Seq(UnitTypes), tail \in Seq(UnitTypes), a \in Seq(UnitTypes), w \in Seq(UnitTypes) :
        all = Stream(s) /\ tail = rest /\ a = buffer[s] /\ w = wire[s]
  BY <1>3, <1>5
<1>9. PICK b \in Nat, l \in Nat : b = Len(a) /\ l = Len(w)
  BY <1>3, <1>8
<1>10. /\ k \in Nat /\ 1 <= k /\ k <= l /\ Len(units) = b + k /\ Len(all) = b + l /\ Len(tail) = l - k
       /\ \A j \in 1..(b + k) : units[j] = IF j <= b THEN a[j] ELSE w[j - b]
       /\ \A j \in 1..(b + l) : all[j] = IF j <= b THEN a[j] ELSE w[j - b]
       /\ \A j \in 1..(l - k) : tail[j] = w[k + j]
  <2>1. k \in 1..l
    BY <1>8, <1>9
  <2>2. /\ Len(units) = b + k
        /\ \A j \in 1..(b + k) : units[j] = IF j <= b THEN a[j] ELSE front[j - b]
    BY <1>6, <1>8, <1>9
  <2>3. \A j \in 1..k : front[j] = w[j]
    BY <1>4, <1>8
  <2>4. /\ Len(all) = b + l
        /\ \A j \in 1..(b + l) : all[j] = IF j <= b THEN a[j] ELSE w[j - b]
    BY <1>7, <1>8, <1>9
  <2>5. Len(tail) = l - k /\ \A j \in 1..(l - k) : tail[j] = w[k + j]
    <3>1. Len(tail) = l - k /\ \A j \in 1..Len(tail) : tail[j] = w[k + j]
      BY <1>5, <1>8, <1>9
    <3>. QED BY <3>1
  <2>6. ASSUME NEW j \in 1..(b + k) PROVE units[j] = IF j <= b THEN a[j] ELSE w[j - b]
    <3>1. j \in Nat /\ (~(j <= b) => j - b \in 1..k)
      BY <2>1
    <3>. QED BY <3>1, <2>2, <2>3
  <2>. QED BY <2>1, <2>2, <2>4, <2>5, <2>6
<1>11. Len(units) \in 1..Len(all) /\ \A j \in 1..Len(units) : units[j] = all[j]
  <2>1. Len(units) \in 1..Len(all)
    BY <1>10
  <2>2. ASSUME NEW j \in 1..Len(units) PROVE units[j] = all[j]
    <3>1. j \in 1..(b + k) /\ j \in 1..(b + l)
      BY <1>10
    <3>. QED BY <3>1, <1>10
  <2>. QED BY <2>1, <2>2
<1>12. Suffix(tail, all, Len(units))
  <2>1. Len(tail) = Len(all) - Len(units)
    BY <1>10
  <2>2. ASSUME NEW j \in 1..Len(tail) PROVE tail[j] = all[Len(units) + j]
    <3>0. k \in Nat /\ 1 <= k /\ k <= l /\ Len(tail) = l - k /\ Len(units) = b + k
      BY <1>10
    <3>1. /\ j \in 1..(l - k) /\ b + k + j \in 1..(b + l) /\ ~(b + k + j <= b)
          /\ b + k + j - b = k + j /\ Len(units) + j = b + k + j
      BY <3>0
    <3>2. all[b + k + j] = w[k + j]
      BY <3>1, <1>10
    <3>. QED BY <3>1, <3>2, <1>10
  <2>. QED BY <2>1, <2>2 DEF Suffix
<1>13. /\ Rest(units) \in Seq(UnitTypes)
       /\ Rest(units) \in {<<>>} \cup {SubSeq(Units(n), 1, 2) : n \in 1..Len(runs)}
       /\ IsStream(Rest(units) \o rest, s)
       /\ OfUnits(Stream(s)) = OfUnits(Rest(units) \o rest) \cup cut \cup lost
       /\ OfUnits(Rest(units) \o rest) \cap cut = {} /\ lost \cap (cut \cup OfUnits(Rest(units) \o rest)) = {}
  <2>1. Typed /\ IsStream(all, s) /\ units \in Seq(UnitTypes) /\ lost = Lost(units) /\ cut = CutOut(units)
    BY <1>1, <1>3, <1>6, <1>8 DEF ChainInv, cut
  <2>2. /\ Rest(units) \in Seq(UnitTypes)
        /\ Rest(units) \in {<<>>} \cup {SubSeq(Units(n), 1, 2) : n \in 1..Len(runs)}
        /\ IsStream(Rest(units) \o tail, s)
        /\ OfUnits(all) = OfUnits(Rest(units) \o tail) \cup CutOut(units) \cup Lost(units)
        /\ OfUnits(Rest(units) \o tail) \cap CutOut(units) = {}
        /\ Lost(units) \cap (CutOut(units) \cup OfUnits(Rest(units) \o tail)) = {}
    <3>1. Rest(units) \in Seq(UnitTypes)
      BY <2>1, <1>11, <1>12, StreamCut
    <3>2. Rest(units) \in {<<>>} \cup {SubSeq(Units(n), 1, 2) : n \in 1..Len(runs)}
      BY <2>1, <1>11, <1>12, StreamCut
    <3>3. IsStream(Rest(units) \o tail, s)
      BY <2>1, <1>11, <1>12, StreamCut
    <3>4. OfUnits(all) = OfUnits(Rest(units) \o tail) \cup CutOut(units) \cup Lost(units)
      <4>1. Divided(all, units, Rest(units) \o tail)
        BY <2>1, <1>11, <1>12, StreamCut
      <4>. QED BY <4>1 DEF Divided
    <3>5. OfUnits(Rest(units) \o tail) \cap CutOut(units) = {}
      BY <2>1, <1>11, <1>12, StreamCut
    <3>6. Lost(units) \cap (CutOut(units) \cup OfUnits(Rest(units) \o tail)) = {}
      BY <2>1, <1>11, <1>12, StreamCut
    <3>. QED BY <3>1, <3>2, <3>3, <3>4, <3>5, <3>6
  <2>. QED BY <2>1, <2>2, <1>8
<1>14. /\ wire' \in [Services -> Seq(UnitTypes)] /\ buffer' \in [Services -> Seq(UnitTypes)]
       /\ buffer'[s] = Rest(units) /\ wire'[s] = rest
       /\ \A t \in Services : t # s => buffer'[t] = buffer[t] /\ wire'[t] = wire[t]
  <2>1. wire' = [wire EXCEPT ![s] = rest]
    BY <1>2 DEF rest
  <2>. QED BY <2>1, <1>1, <1>5, <1>13 DEF ChainInv, Typed
<1>15. /\ Stream(s)' = Rest(units) \o rest
       /\ \A t \in Services : t # s => Stream(t)' = Stream(t)
  BY <1>14 DEF Stream
<1>16. /\ IsStream(Stream(s), s)'
       /\ OfUnits(Stream(s)) = OfUnits(Stream(s))' \cup cut \cup lost
       /\ OfUnits(Stream(s))' \cap cut = {} /\ lost \cap (cut \cup OfUnits(Stream(s))') = {}
  <2>1. PICK left : left = Rest(units) \o rest
    OBVIOUS
  <2>2. Stream(s)' = left
    BY <2>1, <1>15
  <2>3. OfUnits(Stream(s))' = OfUnits(left) /\ (IsStream(Stream(s), s)' <=> IsStream(left, s))
    BY <2>2, <1>2, StreamNext
  <2>. QED BY <2>1, <2>3, <1>13
<1>17. \A t \in Services : t # s => OfUnits(Stream(t))' = OfUnits(Stream(t)) /\ IsStream(Stream(t), t)'
  BY <1>2, <1>15, StreamNext DEF ChainInv, Streams
<1>18. Streams'
  BY <1>16, <1>17 DEF Streams
\* The new handlers have the pairs of the messages that were cut out.
<1>19. /\ handlers' = handlers \cup new /\ new \subseteq HandlerTypes
       /\ \A g \in new : g.run \in Whole(units) /\ g.run \in 1..Len(runs) /\ g.stage = "lookup"
       /\ \A g \in new : OfHandler(g) = {g.run} \X FollowersFound(g.run)
       /\ \A f, g \in new : f.run = g.run => f = g
       /\ \A n \in Whole(units) : \E g \in new : g.run = n
       /\ \A h : OfHandler(h)' = OfHandler(h)
  <2>1. handlers' = handlers \cup new
    BY <1>1 DEF new
  <2>2. \A n \in Whole(units) : n \in 1..Len(runs)
    BY DEF Whole
  <2>3. Len(runs) \in Nat
    BY LenProperties DEF ChainInv, Typed
  <2>4. ASSUME NEW g \in new
        PROVE  g \in HandlerTypes /\ g.run \in Whole(units) /\ g = [run |-> g.run, stage |-> "lookup", todo |-> {}]
    <3>1. PICK n \in Whole(units) : g = [run |-> n, stage |-> "lookup", todo |-> {}]
      BY DEF new
    <3>2. n \in Nat
      BY <2>2, <2>3
    <3>. QED BY <3>1, <3>2 DEF HandlerTypes
  <2>5. \A g \in new : g.run \in 1..Len(runs) /\ g.stage = "lookup"
    BY <2>2, <2>4
  <2>6. \A g \in new : OfHandler(g) = {g.run} \X FollowersFound(g.run)
    BY <2>5 DEF OfHandler
  <2>7. \A f, g \in new : f.run = g.run => f = g
    BY <2>4
  <2>8. \A n \in Whole(units) : \E g \in new : g.run = n
    <3>. SUFFICES ASSUME NEW n \in Whole(units) PROVE \E g \in new : g.run = n
      OBVIOUS
    <3>1. [run |-> n, stage |-> "lookup", todo |-> {}] \in new
      BY DEF new
    <3>. QED BY <3>1
  <2>9. \A h : OfHandler(h)' = OfHandler(h)
    BY <1>2, SameRuns
  <2>. QED BY <2>1, <2>4, <2>5, <2>6, <2>7, <2>8, <2>9
<1>20. \A e : e \in cut <=> \E g \in new : e \in OfHandler(g)
  BY <1>19 DEF cut, CutOut
<1>21. \A g \in new : OfHandler(g) \subseteq cut
  BY <1>20
<1>22. /\ logs \in Seq(Messages) /\ Distinct(logs) /\ OfMessages(logs) = {}
       /\ \A j \in 1..Len(logs) : logs[j].signal # "START"
  <2>1. Len(runs) \in Nat
    BY LenProperties DEF ChainInv, Typed
  <2>2. IsFiniteSet(1..Len(runs))
    BY <2>1, FS_Interval
  <2>3. Whole(units) \in SUBSET (1..Len(runs))
    BY DEF Whole
  <2>4. Cardinality(Whole(units)) \in Nat
    BY <2>2, <2>3, FS_Subset, FS_CardinalityType
  <2>. QED BY <2>4, <1>1, LogMail
<1>23. /\ inbox' \in [Services -> Seq(Messages)]
       /\ \A t \in Services : Distinct(inbox'[t])
       /\ \A t \in Services : OfMessages(inbox'[t]) = OfMessages(inbox[t])
       /\ \A t \in Services : t # s => inbox'[t] = inbox[t]
       /\ OnlyMail(s, logs)
  <2>1. /\ OfMessages(inbox[s]) \cap OfMessages(logs) = {}
        /\ inbox' = [inbox EXCEPT ![s] = @ \o logs]
    BY <1>1, <1>22
  <2>2. /\ inbox' \in [Services -> Seq(Messages)]
        /\ \A t \in Services : t # s => inbox'[t] = inbox[t]
        /\ \A t \in Services : Distinct(inbox'[t])
        /\ OfMessages(inbox'[s]) = OfMessages(inbox[s]) \cup OfMessages(logs)
        /\ OnlyMail(s, logs)
    BY <2>1, <1>22, Sent
  <2>. QED BY <2>2, <1>22
<1>24. Apart'
  <2>1. \A t \in Services : OfUnits(Stream(t))' \subseteq OfUnits(Stream(t))
    BY <1>16, <1>17
  <2>2. (\A t \in Services : Distinct(inbox[t]))'
    BY <1>23 DEF Distinct
  <2>3. ASSUME NEW t \in Services, NEW u \in Services PROVE OfMessages(inbox'[t]) \cap OfUnits(Stream(u))' = {}
    BY <2>1, <1>23 DEF ChainInv, Apart
  <2>4. ASSUME NEW t \in Services, NEW g \in handlers' PROVE OfMessages(inbox'[t]) \cap OfHandler(g) = {}
    <3>1. CASE g \in handlers
      BY <3>1, <1>23 DEF ChainInv, Apart
    <3>2. CASE g \in new
      <4>1. OfHandler(g) \subseteq OfUnits(Stream(s))
        BY <3>2, <1>16, <1>21
      <4>. QED BY <4>1, <1>23 DEF ChainInv, Apart
    <3>. QED BY <3>1, <3>2, <1>19
  <2>5. ASSUME NEW t \in Services, NEW g \in handlers' PROVE OfUnits(Stream(t))' \cap OfHandler(g) = {}
    <3>1. CASE g \in handlers
      BY <3>1, <2>1 DEF ChainInv, Apart
    <3>2. CASE g \in new /\ t = s
      BY <3>2, <1>16, <1>21
    <3>3. CASE g \in new /\ t # s
      <4>1. OfHandler(g) \subseteq OfUnits(Stream(s))
        BY <3>3, <1>16, <1>21
      <4>2. OfUnits(Stream(s)) \cap OfUnits(Stream(t)) = {}
        BY <3>3, PairOfUnits
      <4>. QED BY <4>1, <4>2, <2>1
    <3>. QED BY <3>1, <3>2, <3>3, <1>19
  <2>6. ASSUME NEW f \in handlers, NEW g \in new PROVE OfHandler(f) \cap OfHandler(g) = {}
    <3>1. OfHandler(g) \subseteq OfUnits(Stream(s))
      BY <1>16, <1>21
    <3>. QED BY <3>1 DEF ChainInv, Apart
  <2>7. ASSUME NEW f \in new, NEW g \in new, f # g PROVE OfHandler(f) \cap OfHandler(g) = {}
    BY <2>7, <1>19
  <2>8. ASSUME NEW f \in handlers', NEW g \in handlers', f # g PROVE OfHandler(f) \cap OfHandler(g) = {}
    BY <2>6, <2>7, <2>8, <1>19 DEF ChainInv, Apart
  <2>. QED BY <2>2, <2>3, <2>4, <2>5, <2>8, <1>19 DEF Apart, OfMessages
<1>25. InFlight' = InFlight \ lost
  <2>. SUFFICES ASSUME NEW e
                PROVE  e \in InFlight' <=> e \in InFlight /\ e \notin lost
    OBVIOUS
  <2>1. e \in InFlight' <=>
          \/ \E t \in Services : e \in OfUnits(Stream(t))' \/ e \in OfMessages(inbox'[t])
          \/ \E g \in handlers' : e \in OfHandler(g)'
    BY FlightNext
  <2>2. e \in InFlight <=>
          \/ \E t \in Services : e \in OfUnits(Stream(t)) \/ e \in OfMessages(inbox[t])
          \/ \E g \in handlers : e \in OfHandler(g)
    BY InFlightIs
  <2>3. (\E g \in handlers' : e \in OfHandler(g)') <=> (\E g \in handlers : e \in OfHandler(g)) \/ e \in cut
    BY <1>19, <1>20
  <2>4. (\E t \in Services : e \in OfMessages(inbox'[t])) <=> (\E t \in Services : e \in OfMessages(inbox[t]))
    BY <1>23
  <2>5. /\ (\E t \in Services : e \in OfUnits(Stream(t))) <=>
             (\E t \in Services : e \in OfUnits(Stream(t))') \/ e \in cut \/ e \in lost
    BY <1>16, <1>17
  <2>6. ASSUME e \in lost
        PROVE  /\ e \notin cut /\ \A t \in Services : e \notin OfUnits(Stream(t))' /\ e \notin OfMessages(inbox[t])
               /\ \A g \in handlers : e \notin OfHandler(g)
    <3>1. e \in OfUnits(Stream(s))
      BY <2>6, <1>16
    <3>2. /\ \A t \in Services : e \notin OfMessages(inbox[t])
          /\ \A g \in handlers : e \notin OfHandler(g)
      BY <3>1 DEF ChainInv, Apart
    <3>3. \A t \in Services : t # s => e \notin OfUnits(Stream(t))
      BY <3>1, PairOfUnits
    <3>. QED BY <2>6, <3>2, <3>3, <1>16, <1>17
  <2>. QED BY <2>1, <2>2, <2>3, <2>4, <2>5, <2>6
<1>26. Balanced'
  <2>1. lost \subseteq InFlight
    BY <1>16, InFlightIs
  <2>2. /\ owed' = owed \cup {} /\ {} \cap owed = {} /\ started' = started \cup {} /\ excused' = excused \cup lost
        /\ {} \cap lost = {} /\ {} \cup lost \subseteq InFlight \cup {}
        /\ InFlight' = (InFlight \cup {}) \ ({} \cup lost)
    BY <2>1, <1>1, <1>2, <1>25
  <2>. QED BY <2>2, BalancedStep DEF ChainInv
<1>27. Causes'
  <2>1. Typed /\ Causes /\ clock' = clock /\ clock' \in Nat /\ clock <= clock' /\ runs' = runs /\ queue' = queue
    BY <1>2, AutomaticChainAssumption DEF ChainInv, Typed
  <2>2. \A g \in handlers' : g \in handlers \/ g.stage # "start"
    BY <1>19
  <2>3. ASSUME NEW t \in Services, NEW j \in 1..Len(inbox'[t])
        PROVE  (\E i \in 1..Len(inbox[t]) : inbox'[t][j] = inbox[t][i]) \/ Meant(t, inbox[t][j])'
    BY <1>22, <1>23 DEF Meant, OnlyMail
  <2>. QED BY <2>1, <2>2, <2>3, SameRuns, CausesStep
<1>28. faults' \in 0..MaxFaults /\ (faults' = 0 => faults = 0 /\ lost = {})
  <2>1. CASE units[Len(units)].part = 0
    BY <2>1, <1>1, FaultCounts
  <2>2. CASE units[Len(units)].part # 0
    BY <2>2, <1>1 DEF ChainInv, Typed
  <2>. QED BY <2>1, <2>2
<1>29. Typed'
  <2>1. handlers' \subseteq HandlerTypes /\ \A g \in handlers' : g.run \in 1..Len(runs')
    BY <1>2, <1>19 DEF ChainInv, Typed
  <2>. QED BY <2>1, <1>2, <1>14, <1>23, <1>28 DEF ChainInv, Typed
<1>30. Links'
  <2>1. Connected(s)
    <3>1. wire[s] # <<>>
      <4>1. Len(<<>>) = 0
        OBVIOUS
      <4>. QED BY <4>1
    <3>. QED BY <3>1 DEF ChainInv, Links
  <2>2. \A t \in Services : Connected(t)' <=> Connected(t)
    BY <1>2 DEF Connected
  <2>. QED BY <2>1, <2>2, <1>2, <1>13, <1>14, <1>23 DEF ChainInv, Links
<1>31. Faultless'
  BY <1>1, <1>2, <1>28 DEF ChainInv, Faultless
<1>. QED BY <1>18, <1>24, <1>26, <1>27, <1>29, <1>30, <1>31 DEF ChainInv
-----------------------------------------------------------------------------
(* The invariant holds *)

\* At the beginning there is nothing anywhere.
LEMMA ChainInitHolds ==
  ASSUME ChainInit
  PROVE  ChainInv
<1>. USE DEF ChainInit
<1>1. /\ \A s \in Services : inbox[s] = <<>> /\ wire[s] = <<>> /\ buffer[s] = <<>> /\ link[s] = "told"
      /\ \A q \in Processes : queue[q] = <<>>
      /\ Len(<<>>) = 0
  OBVIOUS
<1>2. ASSUME NEW s \in Services
      PROVE  Stream(s) = <<>> /\ OfUnits(Stream(s)) = {} /\ OfMessages(inbox[s]) = {} /\ Distinct(inbox[s])
  <2>1. Stream(s) = <<>>
    BY <1>1 DEF Stream
  <2>. QED BY <2>1, <1>1, NoPairs
<1>3. Typed
  BY <1>1, AutomaticChainAssumption DEF Typed
<1>4. Links
  BY <1>1 DEF Links
<1>5. Streams
  BY <1>1, <1>2 DEF Streams, IsStream
<1>6. Causes
  BY <1>1 DEF Causes
<1>7. Apart
  BY <1>2 DEF Apart
<1>8. Balanced
  <2>1. InFlight = {}
    BY <1>2, InFlightIs
  <2>. QED BY <2>1 DEF Balanced
<1>9. Faultless
  BY <1>1 DEF Faultless
<1>. QED BY <1>3, <1>4, <1>5, <1>6, <1>7, <1>8, <1>9 DEF ChainInv

\* Nothing happens.
LEMMA ChainStutters ==
  ASSUME ChainInv, UNCHANGED chainVars
  PROVE  ChainInv'
<1>. USE DEF chainVars, web, network, account, bounds
<1>1. clock \in Nat /\ clock <= clock' /\ clock' \in Nat
  BY AutomaticChainAssumption DEF ChainInv, Typed
<1>2. \A s \in Services : Distinct(inbox'[s]) /\ OfMessages(inbox'[s]) = OfMessages(inbox[s])
  BY MailOf
<1>3. Streams' /\ Apart' /\ Balanced'
  BY <1>2, Quiet
<1>4. Causes'
  BY <1>1, SameRuns, CausesStep DEF ChainInv
<1>5. Typed'
  BY DEF ChainInv, Typed
<1>6. Links'
  BY DEF ChainInv, Links, Connected
<1>7. Faultless'
  BY DEF ChainInv, Faultless
<1>. QED BY <1>3, <1>4, <1>5, <1>6, <1>7 DEF ChainInv

\* Every step of the chain keeps the invariant.
LEMMA ChainStep == ChainInv /\ [ChainNext]_chainVars => ChainInv'
<1>. SUFFICES ASSUME ChainInv, [ChainNext]_chainVars
              PROVE  ChainInv'
  OBVIOUS
<1>1. CASE UNCHANGED chainVars
  BY <1>1, ChainStutters
<1>2. ASSUME NEW p \in Processes, Timer(p) \/ UserRun(p) \/ Edit(p) \/ Execute(p)
      PROVE  ChainInv'
  BY <1>2, TimerKeeps, UserRunKeeps, EditKeeps, ExecuteKeeps
<1>3. ASSUME NEW s \in Services, Crash(s) \/ Cut(s) \/ Connect(s) \/ ReadDeadly(s)
      PROVE  ChainInv'
  BY <1>3, CrashKeeps, CutKeeps, ConnectKeeps, ReadDeadlyKeeps
<1>4. ASSUME NEW s \in Services, NEW k \in 1..Len(inbox[s]), Read(s, k)
      PROVE  ChainInv'
  BY <1>4, ReadLogKeeps, ReadStartKeeps, ReadTooEarlyKeeps DEF Read
<1>5. ASSUME NEW s \in Services, NEW k \in 1..Len(wire[s]), Deliver(s, k)
      PROVE  ChainInv'
  BY <1>5, DeliverKeeps
<1>6. ASSUME NEW h \in handlers, Handle(h)
      PROVE  ChainInv'
  BY <1>6, LookupKeeps, StartNextKeeps, StartAlertKeeps DEF Handle
<1>7. CASE Restart
  BY <1>7, RestartKeeps
<1>8. CASE Tick
  BY <1>8, TickKeeps
<1>. QED BY <1>1, <1>2, <1>3, <1>4, <1>5, <1>6, <1>7, <1>8 DEF ChainNext

\* The invariant holds in every state of the chain.
LEMMA ChainInvCorrect == ChainSpec => []ChainInv
<1>1. ChainInit => ChainInv
  BY ChainInitHolds
<1>. QED BY <1>1, ChainStep, PTL DEF ChainSpec

-----------------------------------------------------------------------------
(* What the chain promises *)

\* The invariant implies the type invariant.
LEMMA ChainTypeHolds ==
  ASSUME ChainInv
  PROVE  ChainTypeOK
<1>1. ASSUME NEW h \in handlers
      PROVE  /\ h.run \in 1..Len(runs)
             /\ h.stage = "start" => h.todo # {} /\ h.todo \subseteq Followers(runs[h.run].process)
  <2>1. h.run \in 1..Len(runs)
    BY DEF ChainInv, Typed
  <2>2. FollowersFound(h.run) \subseteq Followers(runs[h.run].process)
    BY DEF FollowersFound
  <2>. QED BY <2>1, <2>2 DEF ChainInv, Causes
<1>2. owed \cup started \cup excused \subseteq (1..Len(runs)) \X Processes
  BY DEF ChainInv, Typed, Balanced
<1>3. \A s \in Services :
        /\ buffer[s] \in {<<>>} \cup {SubSeq(Units(n), 1, 2) : n \in 1..Len(runs)}
        /\ ~Connected(s) => inbox[s] = <<>> /\ wire[s] = <<>> /\ buffer[s] = <<>>
  BY DEF ChainInv, Links
<1>. QED BY <1>1, <1>2, <1>3 DEF ChainInv, Typed, ChainTypeOK

\* The invariant implies that each process that has to follow a run is accounted for.
LEMMA AccountedHolds ==
  ASSUME ChainInv
  PROVE  Accounted
BY ChainTypeHolds DEF ChainInv, Balanced, Faultless, Accounted

\* The invariant implies that what waits because of a run follows its success.
LEMMA OnlyAfterSuccessHolds ==
  ASSUME ChainInv
  PROVE  OnlyAfterSuccess
<1>. SUFFICES ASSUME NEW q \in Processes, NEW k \in DOMAIN queue[q],
                     NEW r, r = queue[q][k], NEW cause, cause = runs[r.from]
              PROVE  /\ r.from = 0 => \A v \in Views : <<v, q>> \notin Watches
                     /\ r.from # 0 =>
                          /\ cause.result /\ cause.automatic
                          /\ \/ <<cause.process, q>> \in Inputs /\ r.date = cause.date
                             \/ <<cause.process, q>> \in Watches /\ r.date >= cause.date
  BY DEF OnlyAfterSuccess
<1>1. Cause(q, r.date, r.from)
  <2>1. DOMAIN queue[q] = 1..Len(queue[q])
    BY LenProperties DEF ChainInv, Typed
  <2>. QED BY <2>1 DEF ChainInv, Causes
<1>2. CASE r.from = 0
  BY <1>1, <1>2 DEF Cause
<1>3. CASE r.from # 0
  <2>1. /\ q \in FollowersFound(r.from)
        /\ IF cause.process \in Views THEN r.date >= cause.date ELSE r.date = cause.date
    BY <1>1, <1>3 DEF Cause
  <2>2. cause.result /\ cause.automatic /\ q \in Followers(cause.process)
    BY <2>1 DEF FollowersFound
  <2>3. IF cause.process \in Views THEN <<cause.process, q>> \in Watches ELSE <<cause.process, q>> \in Inputs
    BY <2>2 DEF Followers
  <2>. QED BY <1>3, <2>1, <2>2, <2>3
<1>. QED BY <1>2, <1>3

\* Every variable of the chain has its type: tempBuffer holds nothing or a header that
\* waits for its text, a handler that starts processes has some to start and they follow
\* its run, and without a connection nothing is on it.
THEOREM ChainTypeCorrect == ChainSpec => []ChainTypeOK
<1>1. ChainInv => ChainTypeOK
  BY ChainTypeHolds
<1>. QED BY <1>1, ChainInvCorrect, PTL

\* Each process that has to follow a run was started, or was excused, or is on its way in
\* one place only: in what the service has sent, in a call of onProcessFinished or in a
\* START to its service.  None is lost, doubled or made up, and without a fault only what
\* the user has made inactive is excused.
THEOREM AccountedCorrect == ChainSpec => []Accounted
<1>1. ChainInv => Accounted
  BY AccountedHolds
<1>. QED BY <1>1, ChainInvCorrect, PTL

\* What waits to be executed because another process has finished follows a success of an
\* input of its, on the date of that run, and an alert only its view and not on an
\* earlier date, whatever dies, breaks or gets lost.
THEOREM OnlyAfterSuccessCorrect == ChainSpec => []OnlyAfterSuccess
<1>1. ChainInv => OnlyAfterSuccess
  BY OnlyAfterSuccessHolds
<1>. QED BY <1>1, ChainInvCorrect, PTL
================================================================================
