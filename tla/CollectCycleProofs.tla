-------------------------- MODULE CollectCycleProofs --------------------------
(* What holds of the runs of a collector for every set of files. *)
EXTENDS CollectCycle, TLAPS

\* One data set, whose files the server lists by date and no two of which have
\* records of the same time; the final timestamp is that of the data.
Regular ==
  /\ ~Custom
  /\ Sorted
  /\ Datasets = 1
  /\ \A f, g \in Files : f # g => Mark[f] < Stamp[g] \/ Mark[g] < Stamp[f]

-----------------------------------------------------------------------------
(* Types *)

LEMMA NewerNat ==
  ASSUME NEW a \in Nat, NEW b \in Nat
  PROVE  Newer(a, b) \in Nat /\ Newer(a, b) >= a /\ Newer(a, b) >= b /\ Newer(a, b) \in {a, b}
BY DEF Newer

LEMMA TypeInit == Init => TypeOK
<1> SUFFICES ASSUME Init PROVE TypeOK
  OBVIOUS
<1>1. stored \in [Files -> 0..2]
  BY DEF Init
<1>2. /\ past \in Nat /\ stamp \in Nat /\ before \in Nat /\ started \in Nat
      /\ fileTime \in Nat /\ lastTime \in Nat
  BY DEF Init
<1>3. listed \in 0..Datasets /\ faults \in 0..MaxFaults /\ failed \subseteq Faults
  BY CollectCycleAssumption DEF Init
<1> QED
  BY <1>1, <1>2, <1>3 DEF Init, TypeOK, Steps, Statuses

LEMMA TypeNext == TypeOK /\ [Next]_vars => TypeOK'
<1> USE CollectCycleAssumption DEF TypeOK, Steps, Statuses, failures
<1> SUFFICES ASSUME TypeOK, [Next]_vars PROVE TypeOK'
  OBVIOUS
<1>1. ASSUME NEW f \in Files, Publish(f) PROVE TypeOK'
  BY <1>1 DEF Publish, register, filter, delivery, outcome
<1>2. CASE Begin
  <2>1. Watermark \in Nat
    BY NewerNat DEF Watermark
  <2>2. started' \in Nat
    BY <1>2 DEF Begin
  <2>3. /\ past' = Watermark /\ before' = Watermark /\ status' = "START" /\ stamp' = 0
        /\ pc' \in {"next", "abort"}
        /\ faults' = faults \/ (faults < MaxFaults /\ faults' = faults + 1)
        /\ failed' \subseteq Faults
        /\ listed' = 0 /\ todo' = {} /\ fileTime' = 0 /\ lastTime' = 0
        /\ result' = "START" /\ done' = FALSE /\ found' = FALSE
        /\ UNCHANGED <<published, offered, stored, file>>
    BY <1>2 DEF Begin, Fails
  <2>4. faults' \in 0..MaxFaults /\ listed' \in 0..Datasets
    BY <2>3
  <2> QED BY <2>1, <2>2, <2>3, <2>4
<1>3. CASE ListDataset
  BY <1>3 DEF ListDataset, MoreDatasets, Fails, register, filter, outcome
<1>4. CASE Download
  BY <1>4 DEF Download, Fails, register, filter, outcome
<1>5. CASE ReadFile
  BY <1>5 DEF ReadFile, Fails, register, filter, delivery
<1>6. CASE StoreFile
  <2>1. LastTime(TRUE) \in Nat /\ LastTime(FALSE) \in Nat
    BY NewerNat DEF LastTime
  <2>2. stored' \in [Files -> 0..2]
    <3>1. stored[file] \in 0..2
      OBVIOUS
    <3>2. (IF stored[file] = 2 THEN 2 ELSE stored[file] + 1) \in 0..2
      BY <3>1
    <3> QED BY <1>6, <3>2 DEF StoreFile
  <2>3. /\ lastTime' \in {LastTime(TRUE), LastTime(FALSE)}
        /\ result' \in {"DONE", "ERROR"}
        /\ done' = TRUE \/ done' = done
        /\ faults' = faults \/ (faults < MaxFaults /\ faults' = faults + 1)
        /\ failed' \subseteq Faults
        /\ pc = "store" /\ pc' = "log"
        /\ UNCHANGED <<published, offered, past, status, stamp, listed, todo, file,
                       before, started, fileTime, found>>
    BY <1>6 DEF StoreFile, Fails, register, filter, delivery
  <2>4. faults' \in 0..MaxFaults
    BY <2>3
  <2> HIDE DEF Steps, Statuses
  <2>5. result' \in Statuses /\ pc' \in Steps
    BY <2>3 DEF Steps, Statuses
  <2> QED BY <2>1, <2>2, <2>3, <2>4, <2>5
<1>7. CASE LogFile
  BY <1>7 DEF LogFile, Fails, filter, delivery, outcome
<1>8. CASE Delivered
  BY <1>8 DEF Delivered, register, filter, delivery, outcome
<1>9. CASE Finish
  BY <1>9 DEF Finish, Fails, filter, delivery, outcome
<1>10. CASE NoData \/ Abort
  BY <1>10 DEF NoData, Abort, FinishEmpty, Fails, filter, delivery, outcome
<1>11. CASE UpdateService
  BY <1>11 DEF UpdateService, Interrupted, filter, delivery, outcome
<1>12. CASE Crash
  BY <1>12 DEF Crash, Fails, register, filter, delivery, outcome
<1>13. CASE Restart
  BY <1>13 DEF Restart, Interrupted, filter, delivery, outcome
<1>14. CASE UNCHANGED vars
  BY <1>14 DEF vars, register, filter, delivery, outcome
<1> QED
  BY <1>1, <1>2, <1>3, <1>4, <1>5, <1>6, <1>7, <1>8, <1>9, <1>10, <1>11, <1>12, <1>13, <1>14
  DEF Next, Run

\* Every variable of the collector keeps its type, whatever fails.
THEOREM CollectTypeCorrect == Spec => []TypeOK
<1>1. QED BY TypeInit, TypeNext, PTL DEF Spec

-----------------------------------------------------------------------------
(* No listed file is skipped *)

\* Files with data that were listed and are not stored.
Missing == {f \in offered \ Empty : stored[f] = 0}

\* A timestamp that hides none of the missing files from the next run.
Hides(n) == \E f \in Missing : Stamp[f] <= n

\* What the timestamps of the run and of the log may be.
TimesOK ==
  /\ before = past
  /\ ~Hides(past)
  /\ ~Hides(lastTime)
  /\ "store" \notin failed \/ Quiet => ~Hides(stamp)
  /\ pc = "log" /\ "store" \notin failed => ~Hides(fileTime)
  /\ pc = "next" /\ listed = 0 => lastTime = 0 /\ stamp = 0 /\ todo = {}

\* Where the missing files are while nothing has failed.
Pending == todo \cup (IF pc \in {"read", "store"} THEN {file} ELSE {})

\* The file in work is older than those to come, and all that is missing is to come.
OrderOK ==
  /\ pc \in {"read", "store", "log"} =>
       listed = 1 /\ \A g \in todo : Mark[file] < Stamp[g]
  /\ pc \in {"read", "store"} => ~HadError
  /\ pc = "read" => fileTime = 0
  /\ pc = "store" => fileTime = Mark[file] /\ file \notin Empty
  /\ pc \in {"next", "read", "store", "log"} /\ listed = 1 /\ ~HadError => Missing \subseteq Pending

\* The inductive invariant behind NothingSkipped.
CollectInv == TypeOK /\ (Harmless => TimesOK /\ OrderOK)

\* Before and after a step that does no harm.
Steady == TypeOK /\ TimesOK /\ OrderOK
HarmlessStep == Harmless' /\ failed \subseteq failed'

LEMMA CollectInvInit == Init => CollectInv
<1> SUFFICES ASSUME Init PROVE CollectInv
  OBVIOUS
<1>1. Missing = {}
  BY DEF Init, Missing
<1>2. TimesOK
  BY <1>1 DEF Init, TimesOK, Hides
<1>3. OrderOK
  BY DEF Init, OrderOK
<1> QED BY <1>2, <1>3, TypeInit DEF CollectInv

LEMMA Positive ==
  \A f \in Files : Stamp[f] \in Nat /\ Mark[f] \in Nat /\ 0 < Stamp[f] /\ Stamp[f] <= Mark[f]
<1> SUFFICES ASSUME NEW f \in Files
             PROVE  Stamp[f] \in Nat /\ Mark[f] \in Nat /\ 0 < Stamp[f] /\ Stamp[f] <= Mark[f]
  OBVIOUS
<1>1. Stamp[f] \in Nat \ {0} /\ Mark[f] \in Nat \ {0}
  BY CollectCycleAssumption
<1> QED BY <1>1, CollectCycleAssumption

LEMMA NothingHidden == TypeOK => ~Hides(0)
BY Positive DEF Hides, Missing, TypeOK

\* What has failed is not forgotten.
LEMMA FailuresStay == [Next]_vars => failed \subseteq failed'
<1> SUFFICES ASSUME [Next]_vars PROVE failed \subseteq failed'
  OBVIOUS
<1> USE DEF Fails, failures
<1>1. CASE UNCHANGED vars
  BY <1>1 DEF vars
<1>2. CASE Run
  BY <1>2 DEF Run, ListDataset, Download, ReadFile, StoreFile, LogFile, Delivered, Finish,
              NoData, Abort, FinishEmpty
<1>3. CASE Begin \/ UpdateService \/ Crash \/ Restart \/ \E f \in Files : Publish(f)
  BY <1>3 DEF Begin, UpdateService, Crash, Restart, Publish
<1> QED BY <1>1, <1>2, <1>3 DEF Next

\* A failure that did harm did so from then on.
LEMMA HarmlessBefore == failed \subseteq failed' /\ Harmless' => Harmless
BY DEF Harmless

\* The steps that offer and store nothing: they keep the queue of files or leave it
\* for good, and write the register with what the run has stored or not at all.
LEMMA CollectKeeps ==
  ASSUME Steady, HarmlessStep,
         UNCHANGED <<offered, stored, past, before, lastTime>>,
         \/ pc' = pc /\ UNCHANGED <<listed, todo, file, fileTime, result>>
         \/ pc' \notin {"next", "read", "store", "log"},
         \/ stamp' = stamp /\ (Quiet' => Quiet \/ "store" \notin failed)
         \/ stamp' \in {0, lastTime}
  PROVE  TimesOK' /\ OrderOK'
<1>1. Missing' = Missing
  BY DEF Missing
<1>2. ~Hides(0)
  BY NothingHidden DEF Steady
<1>3. /\ before' = past'
      /\ ~Hides(past)'
      /\ ~Hides(lastTime)'
  BY <1>1 DEF Steady, TimesOK, Hides
<1>4. ("store" \notin failed \/ Quiet)' => ~Hides(stamp)'
  <2>1. CASE stamp' = stamp /\ (Quiet' => Quiet \/ "store" \notin failed)
    BY <1>1, <2>1 DEF Steady, HarmlessStep, TimesOK, Hides
  <2>2. CASE stamp' \in {0, lastTime}
    BY <1>1, <1>2, <2>2 DEF Steady, HarmlessStep, TimesOK, Hides
  <2> QED BY <2>1, <2>2
<1>5. (pc = "log" /\ "store" \notin failed)' => ~Hides(fileTime)'
  BY <1>1 DEF Steady, HarmlessStep, TimesOK, Hides
<1>6. (pc = "next" /\ listed = 0)' => (lastTime = 0 /\ stamp = 0 /\ todo = {})'
  BY DEF Steady, TimesOK
<1>7. TimesOK'
  BY <1>3, <1>4, <1>5, <1>6 DEF TimesOK
<1>8. OrderOK'
  BY <1>1 DEF Steady, OrderOK, HadError, Pending
<1> QED BY <1>7, <1>8

LEMMA CollectInvBegin ==
  ASSUME Steady, HarmlessStep, Begin
  PROVE  TimesOK' /\ OrderOK'
<1>1. Missing' = Missing
  BY DEF Begin, Missing
<1>2. ~Hides(0) /\ ~Hides(past) /\ ~Hides(stamp)
  BY NothingHidden DEF Steady, TimesOK, Begin, Quiet
<1>3. ~Hides(Watermark)
  BY <1>2 DEF Watermark, Newer
<1>4. /\ past' = Watermark /\ before' = Watermark /\ lastTime' = 0 /\ stamp' = 0
      /\ todo' = {} /\ listed' = 0 /\ pc' \in {"next", "abort"}
  BY DEF Begin
<1>5. /\ ~Hides(past)' /\ ~Hides(lastTime)' /\ ~Hides(stamp)'
  BY <1>1, <1>2, <1>3, <1>4 DEF Hides
<1>6. TimesOK'
  BY <1>4, <1>5 DEF TimesOK
<1>7. OrderOK'
  BY <1>4 DEF OrderOK
<1> QED BY <1>6, <1>7

LEMMA CollectInvListDataset ==
  ASSUME Regular, Steady, HarmlessStep, ListDataset
  PROVE  TimesOK' /\ OrderOK'
<1>1. CASE pc' \in {"abort", "nodata"}
  <2>1. /\ UNCHANGED <<offered, stored, past, before, lastTime, stamp>>
        /\ ~Quiet'
    BY <1>1 DEF ListDataset, register, filter, outcome, Quiet
  <2> QED BY <1>1, <2>1, CollectKeeps
<1>2. CASE pc' = "next"
  <2>1. /\ listed = 0 /\ listed' = 1 /\ pc = "next"
        /\ todo' = {f \in published : Dataset[f] = 1 /\ Passes(f)}
        /\ offered' = offered \cup todo'
        /\ UNCHANGED <<published, stored, past, stamp, before, lastTime>>
    BY <1>2 DEF ListDataset, MoreDatasets, register, filter, outcome, Regular, Steady, TypeOK
  <2>2. /\ lastTime = 0 /\ stamp = 0 /\ before = past /\ ~Hides(past)
    BY <2>1 DEF Steady, TimesOK
  <2>3. \A f \in Files : Dataset[f] = 1
    <3> SUFFICES ASSUME NEW f \in Files PROVE Dataset[f] = 1
      OBVIOUS
    <3>1. Dataset[f] \in 1..1
      BY CollectCycleAssumption DEF Regular
    <3> QED BY <3>1
  <2>4. \A f \in todo' : Stamp[f] > past
    BY <2>1, <2>2, Positive DEF Passes, Steady, TypeOK
  <2>5. Missing' \subseteq Missing \cup todo'
    BY <2>1 DEF Missing
  <2>6. \A f \in Missing : Stamp[f] > past /\ f \in published
    <3> SUFFICES ASSUME NEW f \in Missing PROVE Stamp[f] > past /\ f \in published
      OBVIOUS
    <3>1. f \in published /\ f \in Files /\ past \in Nat
      BY DEF Missing, Steady, TypeOK
    <3>2. ~(Stamp[f] <= past)
      BY <2>2 DEF Hides
    <3> QED BY <3>1, <3>2, Positive
  <2>7. Missing \subseteq todo'
    BY <2>1, <2>2, <2>3, <2>6 DEF Passes, Steady, TypeOK
  <2>8. ~Hides(past)' /\ Missing' \subseteq todo'
    BY <2>1, <2>4, <2>5, <2>7, Positive DEF Hides, Steady, TypeOK
  <2>9. ~Hides(0)'
    BY <2>1, <2>8, Positive DEF Hides, Steady, TypeOK
  <2>10. ~Hides(lastTime)' /\ ~Hides(stamp)'
    BY <2>1, <2>2, <2>9 DEF Hides
  <2>11. TimesOK'
    BY <1>2, <2>1, <2>2, <2>8, <2>10 DEF TimesOK
  <2>12. OrderOK'
    BY <1>2, <2>8 DEF OrderOK, Pending
  <2> QED BY <2>11, <2>12
<1> QED BY <1>1, <1>2 DEF ListDataset

LEMMA CollectInvDownload ==
  ASSUME Regular, Steady, HarmlessStep, Download
  PROVE  TimesOK' /\ OrderOK'
<1>1. /\ UNCHANGED <<offered, stored, past, stamp, before, lastTime, listed, result>>
      /\ pc = "next" /\ fileTime' = 0
      /\ pc' \in {"next", "read", "abort"}
  BY DEF Download, register, filter, outcome
<1>2. PICK f \in todo : /\ \A g \in todo : Stamp[f] <= Stamp[g]
                        /\ todo' = todo \ {f}
                        /\ file' = f
  BY DEF Download, Regular
<1>3. listed = 1
  BY <1>1, <1>2 DEF Steady, TimesOK, TypeOK, Regular
<1>4. CASE pc' = "abort"
  BY <1>1, <1>4, CollectKeeps DEF Quiet
<1>5. CASE pc' \in {"next", "read"}
  <2>1. Missing' = Missing
    BY <1>1 DEF Missing
  <2>2. TimesOK'
    BY <1>1, <1>3, <1>5, <2>1 DEF Steady, HarmlessStep, TimesOK, Hides, Quiet
  <2>3. pc' = "read" => ~HadError
    BY DEF Download
  <2>4. pc' = "next" => HadError
    BY <1>1, <1>5 DEF Download
  <2>5. \A g \in todo' : Mark[f] < Stamp[g]
    <3> SUFFICES ASSUME NEW g \in todo' PROVE Mark[f] < Stamp[g]
      OBVIOUS
    <3>1. f \in Files /\ g \in Files /\ f # g /\ Stamp[f] <= Stamp[g]
      BY <1>2 DEF Steady, TypeOK
    <3> QED BY <3>1, Positive DEF Regular
  <2>6. ~HadError => Missing \subseteq todo' \cup {file'}
    BY <1>1, <1>2, <1>3 DEF Steady, OrderOK, Pending
  <2>7. HadError' = HadError
    BY <1>1 DEF HadError
  <2>8. OrderOK'
    BY <1>1, <1>2, <1>3, <1>5, <2>1, <2>3, <2>4, <2>5, <2>6, <2>7 DEF OrderOK, Pending
  <2> QED BY <2>2, <2>8
<1> QED BY <1>1, <1>4, <1>5

LEMMA CollectInvReadFile ==
  ASSUME Steady, HarmlessStep, ReadFile
  PROVE  TimesOK' /\ OrderOK'
<1>1. /\ UNCHANGED <<offered, stored, past, stamp, before, lastTime, listed, todo, file>>
      /\ pc = "read" /\ pc' \in {"store", "log"}
  BY DEF ReadFile, register, filter, delivery
<1>2. Missing' = Missing
  BY <1>1 DEF Missing
<1>3. ~Hides(0)
  BY NothingHidden DEF Steady
<1>4. pc' = "log" => fileTime' = 0
  BY <1>1 DEF ReadFile, Steady, OrderOK
<1>5. pc' = "store" => file \notin Empty /\ fileTime' = Mark[file] /\ result' = result
  BY DEF ReadFile
<1>6. pc' = "log" /\ ~HadError' => file \in Empty
  BY DEF ReadFile, HadError, HarmlessStep, Harmless, Fails
<1>7. TimesOK'
  BY <1>1, <1>2, <1>3, <1>4 DEF Steady, HarmlessStep, TimesOK, Hides, Quiet
<1>8. Missing \subseteq todo \cup {file} /\ listed = 1 /\ ~HadError
      /\ \A g \in todo : Mark[file] < Stamp[g]
  BY <1>1 DEF Steady, OrderOK, Pending
<1>9. pc' = "store" => ~HadError'
  BY <1>5, <1>8 DEF HadError
<1>10. pc' = "log" /\ ~HadError' => Missing \subseteq todo
  BY <1>6, <1>8 DEF Missing
<1>11. OrderOK'
  BY <1>1, <1>2, <1>5, <1>8, <1>9, <1>10 DEF OrderOK, Pending
<1> QED BY <1>7, <1>11

LEMMA CollectInvStoreFile ==
  ASSUME Steady, HarmlessStep, StoreFile
  PROVE  TimesOK' /\ OrderOK'
<1>1. /\ UNCHANGED <<offered, past, stamp, before, listed, todo, file, fileTime>>
      /\ pc = "store" /\ pc' = "log"
  BY DEF StoreFile, register, filter, delivery
<1>2. /\ fileTime = Mark[file] /\ file \in Files
      /\ listed = 1 /\ \A g \in todo : Mark[file] < Stamp[g]
      /\ Missing \subseteq todo \cup {file}
  BY <1>1 DEF Steady, OrderOK, TypeOK, Pending
<1>3. CASE /\ stored' = [stored EXCEPT ![file] = IF @ = 2 THEN 2 ELSE @ + 1]
           /\ lastTime' = LastTime(TRUE)
  <2>1. stored'[file] # 0
    BY <1>2, <1>3 DEF Steady, TypeOK
  <2>2. \A f \in Files : f # file => stored'[f] = stored[f]
    BY <1>3 DEF Steady, TypeOK
  <2>3. Missing' \subseteq Missing /\ Missing' \subseteq todo
    BY <1>1, <1>2, <2>1, <2>2 DEF Missing, Steady, TypeOK
  <2>4. \A f \in Missing' : Mark[file] < Stamp[f]
    BY <1>2, <2>3
  <2>5. ~Hides(fileTime)'
    BY <1>1, <1>2, <2>3, <2>4, Positive DEF Hides, Steady, TypeOK
  <2>6. ~Hides(past)' /\ (~Hides(stamp) => ~Hides(stamp)')
    BY <1>1, <2>3 DEF Hides, Steady, TimesOK
  <2>7. lastTime' = lastTime \/ lastTime' = fileTime'
    BY <1>1, <1>3 DEF LastTime, Newer
  <2>8. ~Hides(lastTime)'
    BY <2>3, <2>5, <2>7 DEF Hides, Steady, TimesOK
  <2>9. TimesOK'
    BY <1>1, <2>5, <2>6, <2>8 DEF TimesOK, Steady, HarmlessStep, Quiet
  <2>10. OrderOK'
    BY <1>1, <1>2, <2>3 DEF OrderOK, Pending
  <2> QED BY <2>9, <2>10
<1>4. CASE "store" \in failed' /\ stored' = stored /\ lastTime' = lastTime /\ result' = "ERROR"
  <2>1. Missing' = Missing
    BY <1>1, <1>4 DEF Missing
  <2>2. TimesOK'
    BY <1>1, <1>4, <2>1 DEF Steady, HarmlessStep, TimesOK, Hides, Quiet
  <2>3. OrderOK'
    BY <1>1, <1>2, <1>4 DEF OrderOK, HadError
  <2> QED BY <2>2, <2>3
<1> QED BY <1>3, <1>4 DEF StoreFile, Fails, LastTime

LEMMA CollectInvLogFile ==
  ASSUME Steady, HarmlessStep, LogFile
  PROVE  TimesOK' /\ OrderOK'
<1>1. /\ UNCHANGED <<offered, stored, past, before, lastTime, result, fileTime, listed, todo, file>>
      /\ pc = "log"
  BY DEF LogFile, filter, delivery, outcome
<1>2. CASE pc' = "abort" /\ stamp' = stamp
  BY <1>1, <1>2, CollectKeeps DEF Quiet
<1>3. CASE pc' = "next" /\ stamp' = fileTime
  <2>1. Missing' = Missing
    BY <1>1 DEF Missing
  <2>2. listed = 1
    BY <1>1 DEF Steady, OrderOK
  <2>3. TimesOK'
    BY <1>1, <1>3, <2>1, <2>2 DEF Steady, HarmlessStep, TimesOK, Hides, Quiet
  <2>4. OrderOK'
    BY <1>1, <1>3, <2>1 DEF Steady, OrderOK, HadError, Pending
  <2> QED BY <2>3, <2>4
<1> QED BY <1>2, <1>3 DEF LogFile

LEMMA CollectInvNext ==
  ASSUME Regular
  PROVE  CollectInv /\ [Next]_vars => CollectInv'
<1> SUFFICES ASSUME CollectInv, [Next]_vars, Harmless' PROVE TimesOK' /\ OrderOK'
  BY TypeNext DEF CollectInv
<1> USE DEF register, filter, delivery, outcome
<1>1. Steady /\ HarmlessStep
  BY FailuresStay, HarmlessBefore DEF CollectInv, Steady, HarmlessStep
<1>2. ASSUME NEW f \in Files, Publish(f) PROVE TimesOK' /\ OrderOK'
  BY <1>1, <1>2, CollectKeeps DEF Publish, Quiet
<1>3. CASE Begin
  BY <1>1, <1>3, CollectInvBegin
<1>4. CASE ListDataset
  BY <1>1, <1>4, CollectInvListDataset
<1>5. CASE Download
  BY <1>1, <1>5, CollectInvDownload
<1>6. CASE ReadFile
  BY <1>1, <1>6, CollectInvReadFile
<1>7. CASE StoreFile
  BY <1>1, <1>7, CollectInvStoreFile
<1>8. CASE LogFile
  BY <1>1, <1>8, CollectInvLogFile
<1>9. CASE Delivered
  BY <1>1, <1>9, CollectKeeps DEF Delivered, Quiet
<1>10. CASE Finish
  BY <1>1, <1>10, CollectKeeps DEF Finish, Quiet, Regular
<1>11. CASE NoData \/ Abort
  BY <1>1, <1>11, CollectKeeps DEF NoData, Abort, FinishEmpty, Fails, Quiet, HarmlessStep, Harmless
<1>12. CASE UpdateService
  BY <1>1, <1>12, CollectKeeps DEF UpdateService, Quiet
<1>13. CASE Crash
  BY <1>1, <1>13, CollectKeeps DEF Crash, Fails, Quiet, HarmlessStep, Harmless
<1>14. CASE Restart
  BY <1>1, <1>14, CollectKeeps DEF Restart, Quiet
<1>15. CASE UNCHANGED vars
  BY <1>1, <1>15, CollectKeeps DEF vars, Quiet
<1> QED
  BY <1>2, <1>3, <1>4, <1>5, <1>6, <1>7, <1>8, <1>9, <1>10, <1>11, <1>12, <1>13, <1>14, <1>15
  DEF Next, Run

\* Between two runs every listed file with data is stored or will be listed again,
\* for every set of files of a series with one data set listed by date, unless the
\* failures so far were the harmful ones.
THEOREM NothingSkippedCorrect ==
  ASSUME Regular
  PROVE  Spec => []NothingSkipped
<1>1. CollectInv => NothingSkipped
  <2> SUFFICES ASSUME CollectInv, Harmless, Quiet, NEW f \in offered \ Empty, stored[f] = 0
               PROVE  Stamp[f] > Watermark
    BY DEF NothingSkipped, Kept, CollectInv, TypeOK
  <2>1. ~(Stamp[f] <= past) /\ ~(Stamp[f] <= stamp)
    BY DEF CollectInv, TimesOK, Hides, Missing
  <2> QED BY <2>1, Positive DEF Watermark, Newer, CollectInv, TypeOK
<1>2. CollectInv /\ [Next]_vars => CollectInv'
  BY CollectInvNext
<1> QED BY <1>1, <1>2, CollectInvInit, PTL DEF Spec

-----------------------------------------------------------------------------
(* DONE means that everything listed is stored *)

\* A register says DONE only between two runs, with nothing missing, and a run that
\* delivered everything and met no error left nothing out.
DoneOK ==
  /\ pc # "idle" => status # "DONE"
  /\ pc = "idle" /\ status = "DONE" => Missing = {}
  /\ pc = "finish" /\ ~HadError => Missing = {}

\* The inductive invariant behind DoneMeansAll.
DoneInv == CollectInv /\ (Harmless => DoneOK)

LEMMA DoneInvInit == Init => DoneInv
BY CollectInvInit DEF Init, DoneInv, DoneOK

\* A step that offers and stores nothing and writes nothing but INTERRUPTED.
LEMMA DoneKeeps ==
  ASSUME DoneOK, UNCHANGED <<offered, stored, result>>,
         status' = status \/ status' # "DONE",
         \/ pc' = pc
         \/ pc' \notin {"idle", "finish"} /\ status' # "DONE"
         \/ pc' = "idle" /\ status' # "DONE"
  PROVE  DoneOK'
<1>1. Missing' = Missing
  BY DEF Missing
<1> QED BY <1>1 DEF DoneOK, HadError

LEMMA DoneInvNext ==
  ASSUME Regular
  PROVE  DoneInv /\ [Next]_vars => DoneInv'
<1> SUFFICES ASSUME DoneInv, [Next]_vars, Harmless' PROVE DoneOK'
  BY CollectInvNext DEF DoneInv
<1> USE DEF register, filter, delivery, outcome
<1>1. Harmless /\ Steady /\ DoneOK
  BY FailuresStay, HarmlessBefore DEF DoneInv, CollectInv, Steady
<1>2. ASSUME NEW f \in Files, Publish(f) PROVE DoneOK'
  BY <1>1, <1>2, DoneKeeps DEF Publish
<1>3. CASE Begin
  BY <1>3 DEF Begin, DoneOK
<1>4. CASE ListDataset
  BY <1>1, <1>4 DEF ListDataset, DoneOK
<1>5. CASE Download
  BY <1>1, <1>5 DEF Download, DoneOK
<1>6. CASE ReadFile
  BY <1>1, <1>6 DEF ReadFile, DoneOK
<1>7. CASE StoreFile
  BY <1>1, <1>7 DEF StoreFile, DoneOK
<1>8. CASE LogFile
  BY <1>1, <1>8 DEF LogFile, DoneOK
<1>9. CASE Delivered
  <2>1. /\ UNCHANGED <<status, offered, stored, result>>
        /\ pc = "next" /\ pc' \in {"finish", "nodata"} /\ todo = {} /\ ~MoreDatasets
    BY <1>9 DEF Delivered
  <2>2. Missing' = Missing
    BY <2>1 DEF Missing
  <2>3. listed = 1
    BY <2>1 DEF MoreDatasets, Regular, CollectInv, DoneInv, TypeOK
  <2>4. ~HadError => Missing = {}
    BY <1>1, <2>1, <2>3 DEF Steady, OrderOK, Pending
  <2> QED BY <1>1, <2>1, <2>2, <2>4 DEF DoneOK, HadError
<1>10. CASE Finish
  <2>1. UNCHANGED <<offered, stored, result>> /\ pc = "finish"
    BY <1>10 DEF Finish
  <2>2. Missing' = Missing
    BY <2>1 DEF Missing
  <2>3. CASE status' = result /\ pc' = "idle"
    BY <1>1, <2>1, <2>2, <2>3 DEF DoneOK, HadError
  <2>4. CASE status' = status /\ pc' = "abort"
    BY <1>1, <2>1, <2>4, DoneKeeps DEF DoneOK
  <2> QED BY <1>10, <2>3, <2>4 DEF Finish
<1>11. CASE NoData \/ Abort
  BY <1>1, <1>11, DoneKeeps DEF NoData, Abort, FinishEmpty, DoneOK
<1>12. CASE UpdateService
  BY <1>1, <1>12, DoneKeeps DEF UpdateService, Interrupted
<1>13. CASE Crash
  BY <1>1, <1>13, DoneKeeps DEF Crash, DoneOK
<1>14. CASE Restart
  BY <1>1, <1>14, DoneKeeps DEF Restart, Interrupted, DoneOK
<1>15. CASE UNCHANGED vars
  BY <1>1, <1>15, DoneKeeps DEF vars
<1> QED
  BY <1>2, <1>3, <1>4, <1>5, <1>6, <1>7, <1>8, <1>9, <1>10, <1>11, <1>12, <1>13, <1>14, <1>15
  DEF Next, Run

\* A register says DONE only when every file with data that was ever listed is
\* stored, for every set of files of a series with one data set listed by date,
\* unless the failures so far were the harmful ones.
THEOREM DoneMeansAllCorrect ==
  ASSUME Regular
  PROVE  Spec => []DoneMeansAll
<1>1. DoneInv => DoneMeansAll
  <2> SUFFICES ASSUME DoneInv, Harmless, status = "DONE", pc = "idle",
                      NEW f \in offered \ Empty
               PROVE  stored[f] > 0
    BY DEF DoneMeansAll
  <2>1. stored[f] # 0 /\ stored[f] \in 0..2
    BY DEF DoneInv, DoneOK, CollectInv, TypeOK, Missing
  <2> QED BY <2>1
<1>2. DoneInv /\ [Next]_vars => DoneInv'
  BY DoneInvNext
<1> QED BY <1>1, <1>2, DoneInvInit, PTL DEF Spec

-----------------------------------------------------------------------------
(* START means that a run is under way *)

\* A run that has tried a file has a result, and it ends as finished only then.
ResultOK ==
  /\ done => result # "START"
  /\ pc = "log" => result # "START"
  /\ pc = "next" /\ found => result # "START"
  /\ pc = "finish" => result # "START"

\* The inductive invariant behind StartMeansRunning.
StartInv == TypeOK /\ ResultOK /\ StartMeansRunning

LEMMA StartInvNext == StartInv /\ [Next]_vars => StartInv'
<1> SUFFICES ASSUME StartInv, [Next]_vars PROVE ResultOK' /\ StartMeansRunning'
  BY TypeNext DEF StartInv
<1> USE DEF StartInv, ResultOK, StartMeansRunning, register, filter, delivery, outcome, failures
<1>1. ASSUME NEW f \in Files, Publish(f) PROVE ResultOK' /\ StartMeansRunning'
  BY <1>1 DEF Publish
<1>2. CASE Begin
  BY <1>2 DEF Begin
<1>3. CASE ListDataset
  BY <1>3 DEF ListDataset, Fails
<1>4. CASE Download
  BY <1>4 DEF Download, Fails, HadError
<1>5. CASE ReadFile
  BY <1>5 DEF ReadFile, Fails
<1>6. CASE StoreFile
  BY <1>6 DEF StoreFile, Fails
<1>7. CASE LogFile
  BY <1>7 DEF LogFile, Fails
<1>8. CASE Delivered
  BY <1>8 DEF Delivered
<1>9. CASE Finish
  BY <1>9 DEF Finish, Fails
<1>10. CASE NoData \/ Abort
  BY <1>10 DEF NoData, Abort, FinishEmpty, Fails
<1>11. CASE UpdateService
  BY <1>11 DEF UpdateService, Interrupted
<1>12. CASE Crash
  BY <1>12 DEF Crash, Fails
<1>13. CASE Restart
  BY <1>13 DEF Restart, Interrupted
<1>14. CASE UNCHANGED vars
  BY <1>14 DEF vars
<1> QED
  BY <1>1, <1>2, <1>3, <1>4, <1>5, <1>6, <1>7, <1>8, <1>9, <1>10, <1>11, <1>12, <1>13, <1>14
  DEF Next, Run

\* A register says START only while a run is under way or the service is down, for
\* every set of files and of failures but those of the log.
THEOREM StartMeansRunningCorrect == Spec => []StartMeansRunning
<1>1. Init => StartInv
  BY TypeInit DEF Init, StartInv, ResultOK, StartMeansRunning
<1>2. StartInv => StartMeansRunning
  BY DEF StartInv
<1> QED BY <1>1, <1>2, StartInvNext, PTL DEF Spec

-----------------------------------------------------------------------------
(* No file is stored twice *)

\* Failures that abandon no run.
Gentle == failed \subseteq {"read", "store", "unreadable"}

\* The next run does not ask for f: it is not newer than the timestamp.
Behind(f) == Stamp[f] <= Watermark

\* This run does not list f: its filter discards it or its data set was listed, and
\* then the run will leave a timestamp that is not older.
Left(f) ==
  Stamp[f] <= before \/ (found /\ Dataset[f] <= listed /\ Stamp[f] <= lastTime)

\* Where the files that were not stored are.
OnceOK ==
  /\ pc \notin {"abort", "stuck", "down"}
  /\ pc # "idle" => before = past
  /\ pc = "idle" => \A f \in Files : stored[f] > 0 => Behind(f)
  /\ pc # "idle" => \A f \in Files : stored[f] > 0 => Left(f)
  /\ \A f \in Files : stored[f] <= 1
  /\ \A f \in todo : stored[f] = 0 /\ Dataset[f] <= listed
  /\ pc \in {"read", "store"} =>
       stored[file] = 0 /\ file \notin todo /\ Dataset[file] <= listed
  /\ pc = "store" => found /\ fileTime = Mark[file]
  /\ pc = "nodata" => ~found

\* The inductive invariant behind StoredOnce.
OnceInv == TypeOK /\ (Gentle => OnceOK)

LEMMA GentleBefore == failed \subseteq failed' /\ Gentle' => Gentle
BY DEF Gentle

LEMMA OnceInvInit == Init => OnceInv
<1> SUFFICES ASSUME Init PROVE OnceOK
  BY TypeInit DEF OnceInv
<1>1. \A f \in Files : stored[f] = 0
  BY DEF Init
<1> QED BY <1>1 DEF Init, OnceOK

\* A step that lists and stores nothing, on the way of the run.
LEMMA OnceKeeps ==
  ASSUME OnceOK, TypeOK,
         UNCHANGED <<stored, listed, todo, past, before, lastTime>>,
         found' = found \/ (found' = TRUE /\ pc' # "nodata"),
         pc # "idle", pc' \notin {"idle", "abort", "stuck", "down", "store"},
         pc' = "read" => UNCHANGED <<pc, file>>,
         pc' = "nodata" => ~found
  PROVE  OnceOK'
<1>1. \A f \in Files : Left(f) => Left(f)'
  BY DEF Left
<1> QED BY <1>1 DEF OnceOK

\* The run takes the timestamp of the log for its filter: what is stored is behind it.
LEMMA OnceInvBegin ==
  ASSUME TypeOK, OnceOK, Gentle', Begin
  PROVE  OnceOK'
<1>1. /\ pc = "idle" /\ pc' = "next" /\ todo' = {} /\ stored' = stored
      /\ past' = Watermark /\ before' = Watermark /\ found' = FALSE
  BY DEF Begin, Fails, Gentle
<1>2. \A f \in Files : stored'[f] > 0 => Left(f)'
  BY <1>1 DEF OnceOK, Behind, Left
<1> QED BY <1>1, <1>2 DEF OnceOK

LEMMA OnceInvListDataset ==
  ASSUME TypeOK, OnceOK, Gentle', ListDataset
  PROVE  OnceOK'
<1>1. /\ pc = "next" /\ pc' = "next" /\ listed' = listed + 1 /\ listed \in Nat
      /\ todo' = {f \in published : Dataset[f] = listed + 1 /\ Passes(f)}
      /\ UNCHANGED <<stored, past, before, lastTime, found>>
  BY DEF ListDataset, Fails, Gentle, register, filter, outcome, TypeOK
<1>2. \A f \in Files : Dataset[f] \in Nat /\ Stamp[f] \in Nat /\ stored[f] \in 0..2
  BY CollectCycleAssumption, Positive DEF TypeOK
<1>3. \A f \in Files : Left(f) => Left(f)'
  BY <1>1, <1>2 DEF Left
<1>4. \A f \in todo' : f \in Files /\ Dataset[f] = listed + 1 /\ stored[f] = 0
  <2> SUFFICES ASSUME NEW f \in todo' PROVE f \in Files /\ Dataset[f] = listed + 1 /\ stored[f] = 0
    OBVIOUS
  <2>1. f \in Files /\ Dataset[f] = listed + 1 /\ Passes(f)
    BY <1>1 DEF TypeOK
  <2>2. ~(Stamp[f] <= before)
    BY <2>1, Positive DEF Passes, TypeOK
  <2>3. ~Left(f)
    BY <1>1, <1>2, <2>1, <2>2 DEF Left
  <2>4. ~(stored[f] > 0)
    BY <1>1, <2>1, <2>3 DEF OnceOK
  <2> QED BY <1>2, <2>1, <2>4
<1> QED BY <1>1, <1>2, <1>3, <1>4 DEF OnceOK

LEMMA OnceInvDownload ==
  ASSUME TypeOK, OnceOK, Gentle', Download
  PROVE  OnceOK'
<1>1. /\ pc = "next" /\ pc' \in {"next", "read"}
      /\ UNCHANGED <<stored, listed, past, before, lastTime, found>>
  BY DEF Download, Fails, Gentle, register, filter, outcome
<1>2. PICK f \in todo : todo' = todo \ {f} /\ file' = f
  BY DEF Download
<1>3. \A g \in Files : Left(g) => Left(g)'
  BY <1>1 DEF Left
<1> QED BY <1>1, <1>2, <1>3 DEF OnceOK

LEMMA OnceInvReadFile ==
  ASSUME TypeOK, OnceOK, Gentle', ReadFile
  PROVE  OnceOK'
<1>1. /\ UNCHANGED <<stored, past, before, lastTime, listed, todo, file>>
      /\ pc = "read" /\ pc' \in {"store", "log"} /\ found' = TRUE
      /\ pc' = "store" => fileTime' = Mark[file]
  BY DEF ReadFile, register, filter, delivery
<1>2. \A f \in Files : Left(f) => Left(f)'
  BY <1>1 DEF Left
<1> QED BY <1>1, <1>2 DEF OnceOK

LEMMA OnceInvStoreFile ==
  ASSUME TypeOK, OnceOK, Gentle', StoreFile
  PROVE  OnceOK'
<1>1. /\ UNCHANGED <<past, before, listed, todo, file, found>>
      /\ pc = "store" /\ pc' = "log"
  BY DEF StoreFile, register, filter, delivery
<1>2. /\ stored[file] = 0 /\ file \in Files /\ file \notin todo
      /\ found /\ fileTime = Mark[file] /\ Dataset[file] <= listed
  BY <1>1 DEF OnceOK, TypeOK
<1>3. CASE /\ stored' = [stored EXCEPT ![file] = IF @ = 2 THEN 2 ELSE @ + 1]
           /\ lastTime' = LastTime(TRUE)
  <2>1. stored'[file] = 1 /\ \A f \in Files : f # file => stored'[f] = stored[f]
    BY <1>2, <1>3 DEF TypeOK
  <2>2. lastTime' >= lastTime /\ lastTime' >= fileTime
        /\ lastTime' \in Nat /\ lastTime \in Nat /\ fileTime \in Nat
    BY <1>3, NewerNat DEF LastTime, TypeOK
  <2>3. Left(file)'
    BY <1>1, <1>2, <2>2, Positive DEF Left
  <2>4. \A f \in Files : Left(f) => Left(f)'
    BY <1>1, <2>2, Positive DEF Left
  <2>5. \A f \in Files : stored'[f] > 0 => Left(f)'
    BY <1>1, <2>1, <2>3, <2>4 DEF OnceOK
  <2>6. \A f \in Files : stored'[f] <= 1
    BY <2>1 DEF OnceOK
  <2>7. \A f \in todo : stored'[f] = 0 /\ Dataset[f] <= listed
    BY <1>2, <2>1 DEF OnceOK, TypeOK
  <2> QED BY <1>1, <2>5, <2>6, <2>7 DEF OnceOK
<1>4. CASE stored' = stored /\ lastTime' = lastTime
  BY <1>1, <1>4, OnceKeeps
<1> QED BY <1>3, <1>4 DEF StoreFile, Fails, LastTime

LEMMA OnceInvFinish ==
  ASSUME ~Custom, TypeOK, OnceOK, Gentle', Finish
  PROVE  OnceOK'
<1>1. /\ UNCHANGED <<stored, past, listed, todo>>
      /\ pc = "finish" /\ pc' = "idle" /\ stamp' = lastTime
  BY DEF Finish, Fails, Gentle, filter, delivery, outcome
<1>2. \A f \in Files : Left(f) => Behind(f)'
  BY <1>1, Positive DEF Left, Behind, Watermark, Newer, OnceOK, TypeOK
<1> QED BY <1>1, <1>2 DEF OnceOK

LEMMA OnceInvNoData ==
  ASSUME TypeOK, OnceOK, Gentle', NoData
  PROVE  OnceOK'
<1>1. /\ UNCHANGED <<stored, past, listed, todo>>
      /\ pc = "nodata" /\ pc' = "idle" /\ stamp' = 0
  BY DEF NoData, FinishEmpty, Fails, Gentle, filter, delivery, outcome
<1>2. \A f \in Files : Left(f) => Behind(f)'
  BY <1>1, Positive DEF Left, Behind, Watermark, Newer, OnceOK, TypeOK
<1> QED BY <1>1, <1>2 DEF OnceOK

LEMMA OnceInvNext ==
  ASSUME ~Custom
  PROVE  OnceInv /\ [Next]_vars => OnceInv'
<1> SUFFICES ASSUME OnceInv, [Next]_vars, Gentle' PROVE OnceOK'
  BY TypeNext DEF OnceInv
<1> USE DEF register, filter, delivery, outcome
<1>1. TypeOK /\ OnceOK
  BY FailuresStay, GentleBefore DEF OnceInv
<1>2. ASSUME NEW f \in Files, Publish(f) PROVE OnceOK'
  BY <1>1, <1>2 DEF Publish, OnceOK, Left, Behind, Watermark
<1>3. CASE Begin
  BY <1>1, <1>3, OnceInvBegin
<1>4. CASE ListDataset
  BY <1>1, <1>4, OnceInvListDataset
<1>5. CASE Download
  BY <1>1, <1>5, OnceInvDownload
<1>6. CASE ReadFile
  BY <1>1, <1>6, OnceInvReadFile
<1>7. CASE StoreFile
  BY <1>1, <1>7, OnceInvStoreFile
<1>8. CASE LogFile
  <2>1. pc = "log" /\ pc' = "next" /\ UNCHANGED <<stored, listed, todo, past, before, lastTime, found>>
    BY <1>8 DEF LogFile, Fails, Gentle
  <2> QED BY <1>1, <2>1, OnceKeeps
<1>9. CASE Delivered
  <2>1. pc = "next" /\ pc' \in {"finish", "nodata"} /\ (pc' = "nodata" => ~found)
        /\ UNCHANGED <<stored, listed, todo, past, before, lastTime, found>>
    BY <1>9 DEF Delivered
  <2> QED BY <1>1, <2>1, OnceKeeps
<1>10. CASE Finish
  BY <1>1, <1>10, OnceInvFinish
<1>11. CASE NoData
  BY <1>1, <1>11, OnceInvNoData
<1>12. CASE Abort \/ Restart
  BY <1>1, <1>12 DEF Abort, FinishEmpty, Restart, OnceOK
<1>13. CASE Crash
  BY <1>13 DEF Crash, Fails, Gentle
<1>14. CASE UpdateService
  BY <1>1, <1>14 DEF UpdateService, OnceOK, Left, Behind, Watermark
<1>15. CASE UNCHANGED vars
  BY <1>1, <1>15 DEF vars, OnceOK, Left, Behind, Watermark
<1> QED
  BY <1>2, <1>3, <1>4, <1>5, <1>6, <1>7, <1>8, <1>9, <1>10, <1>11, <1>12, <1>13, <1>14, <1>15
  DEF Next, Run

\* No file is stored twice while no failure abandons a run, for every set of files:
\* with several data sets, in whatever order the server lists them and whatever is
\* in them, as long as the final timestamp is that of the data.
THEOREM StoredOnceCorrect ==
  ASSUME ~Custom
  PROVE  Spec => []StoredOnce
<1>1. OnceInv => StoredOnce
  BY DEF OnceInv, OnceOK, Gentle, StoredOnce
<1>2. OnceInv /\ [Next]_vars => OnceInv'
  BY OnceInvNext
<1> QED BY <1>1, <1>2, OnceInvInit, PTL DEF Spec
=============================================================================
