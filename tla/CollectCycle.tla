----------------------------- MODULE CollectCycle -----------------------------
(***************************************************************************)
(* The runs of one collector: which files of the input data series a run   *)
(* stores, and the data timestamp it leaves in the log, from which the     *)
(* next run takes what it asks the server for.                             *)
(*                                                                         *)
(* A run lists the files of each data set that are newer than the last     *)
(* collected timestamp (the maximum of data_timestamp over the registers   *)
(* of the process), downloads them one by one, reads and stores each, and  *)
(* writes the timestamp of the file in its register after each.  At the    *)
(* end the register gets the final status and the newest timestamp that    *)
(* was stored, or NULL when the run was abandoned.                         *)
(*                                                                         *)
(* A register that is not the last is never written again, so only the     *)
(* maximum of their timestamps is kept.  Timestamps are positive numbers;  *)
(* 0 is NULL.                                                              *)
(***************************************************************************)
EXTENDS Naturals

CONSTANTS
  Files,     \* the files the server will ever offer
  Stamp,     \* Stamp[f]: the date in the name of f
  Mark,      \* Mark[f]: the newest date of f, in its name or in its records
  Dataset,   \* Dataset[f]: position of the data set f belongs to
  Datasets,  \* number of active data sets of the series
  Empty,     \* files without a record for this collector
  Sorted,    \* does the server list files by date?
  Custom,    \* is the series of the semantics "DCP - CSV custom"?
  Faults,    \* which calls may fail: see FaultKinds
  MaxFaults  \* bound: failures of a behaviour

\* "download": listing the server or downloading a file fails
\* "folder": no folder matches the folder mask of a data set
\* "read": reading a file fails; "unreadable": it cannot be opened
\* "store": the intersection or the storager fails
\* "logger": the log database is down; "crash": the service dies
FaultKinds == {"download", "folder", "read", "unreadable", "store", "logger", "crash"}

ASSUME CollectCycleAssumption ==
  /\ Stamp \in [Files -> Nat \ {0}]
  /\ Mark \in [Files -> Nat \ {0}]
  /\ \A f \in Files : Stamp[f] <= Mark[f]
  /\ Datasets \in Nat
  /\ Dataset \in [Files -> 1..Datasets]
  /\ Empty \subseteq Files
  /\ Sorted \in BOOLEAN
  /\ Custom \in BOOLEAN
  /\ Faults \subseteq FaultKinds
  /\ MaxFaults \in Nat

VARIABLES
  published, \* files the server has
  offered,   \* history: files some run has listed
  stored,    \* stored[f]: times f was stored (2: twice or more)
  past,      \* MAX(data_timestamp) of the registers before the last
  status,    \* status of the last register
  stamp,     \* data_timestamp of the last register
  pc,        \* where the run is
  listed,    \* data sets the run has listed
  todo,      \* files of the data set being retrieved still to be delivered
  file,      \* file being processed
  before,    \* discardBefore of the filter of the run
  started,   \* processingStartTime: the newest date there was
  fileTime,  \* thisFileLastDateTime
  lastTime,  \* lastDateTime
  result,    \* the local status of collect()
  done,      \* verifyStatusDoneExist
  found,     \* filehasfounded
  faults,    \* number of failures so far
  failed     \* history: what has failed so far

register == <<past, status, stamp>>
filter == <<before, started>>
delivery == <<listed, todo, file>>
outcome == <<lastTime, result, done, found>>
failures == <<faults, failed>>
vars == <<published, offered, stored, register, pc, delivery, filter, fileTime, outcome, failures>>

\* "stuck": the run has ended without releasing its process.
Steps == {"idle", "next", "read", "store", "log", "finish", "nodata", "abort", "stuck", "down"}
Statuses == {"none", "START", "DONE", "WARNING", "ERROR", "INTERRUPTED"}

\* Every variable has its type; only listed files are processed.
TypeOK ==
  /\ published \subseteq Files
  /\ offered \subseteq published
  /\ stored \in [Files -> 0..2]
  /\ past \in Nat /\ stamp \in Nat
  /\ status \in Statuses
  /\ pc \in Steps
  /\ listed \in 0..Datasets
  /\ todo \subseteq offered
  /\ file \in Files
  /\ pc \in {"read", "store", "log"} => file \in offered
  /\ before \in Nat /\ started \in Nat
  /\ fileTime \in Nat /\ lastTime \in Nat
  /\ result \in Statuses
  /\ done \in BOOLEAN /\ found \in BOOLEAN
  /\ faults \in 0..MaxFaults
  /\ failed \subseteq Faults

Init ==
  /\ published = {} /\ offered = {}
  /\ stored = [f \in Files |-> 0]
  /\ past = 0 /\ status = "none" /\ stamp = 0
  /\ pc = "idle"
  /\ listed = 0 /\ todo = {} /\ file \in Files
  /\ before = 0 /\ started = 0
  /\ fileTime = 0 /\ lastTime = 0
  /\ result = "START" /\ done = FALSE /\ found = FALSE
  /\ faults = 0 /\ failed = {}

-----------------------------------------------------------------------------
(* Helpers *)

Newer(a, b) == IF a > b THEN a ELSE b

\* getDataLastTimestamp: MAX(data_timestamp) of the process.
Watermark == Newer(past, stamp)

\* Mutant: a file dated exactly as the last collected data passes.
PassesAgain(f) == Stamp[f] >= before

\* isValidTimestamp for a collector without dates in its own filter: nothing is
\* discarded before the first data was collected.
Passes(f) == before = 0 \/ Stamp[f] > before

\* A call fails, as it may.
Fails(kind) ==
  /\ kind \in Faults
  /\ faults < MaxFaults
  /\ faults' = faults + 1
  /\ failed' = failed \cup {kind}

\* Mutant: one data set too many.
MoreDatasetsOffByOne == listed <= Datasets

\* The loop over the data sets goes on.
MoreDatasets == listed < Datasets

\* Mutant: the failure of a file does not stop the run.
GoesOn == FALSE

\* "if some error happened don't continue": the later files are still downloaded
\* and the callback leaves them.
HadError == result = "ERROR"

\* Mutant: the timestamp is taken whether the file is stored or not.
LastTimeAnyway(ok) == Newer(lastTime, fileTime)

\* The newest timestamp among the files stored by this run.
LastTime(ok) == IF ok THEN Newer(lastTime, fileTime) ELSE lastTime

-----------------------------------------------------------------------------
(* The server: the files of a data set appear in the order of their dates *)

Publish(f) ==
  /\ f \notin published
  /\ \A g \in Files : Dataset[g] = Dataset[f] /\ Stamp[g] < Stamp[f] => g \in published
  /\ published' = published \cup {f}
  /\ UNCHANGED <<offered, stored, register, pc, delivery, filter, fileTime, outcome, failures>>

-----------------------------------------------------------------------------
(* collect() *)

\* The trigger starts a register, the run takes its filter from the log.
Begin ==
  /\ pc = "idle"
  /\ past' = Watermark /\ status' = "START" /\ stamp' = 0
  /\ before' = Watermark
  /\ started' \in {n \in {Mark[f] : f \in Files} \cup {0} : \A f \in published : Mark[f] <= n}
  /\ \/ pc' = "next" /\ UNCHANGED failures
     \/ pc' = "abort" /\ Fails("logger")
  /\ listed' = 0 /\ todo' = {}
  /\ fileTime' = 0 /\ lastTime' = 0
  /\ result' = "START" /\ done' = FALSE /\ found' = FALSE
  /\ UNCHANGED <<published, offered, stored, file>>

\* The files of the next data set are listed, those the filter lets pass kept.
ListDataset ==
  /\ pc = "next" /\ todo = {} /\ MoreDatasets
  /\ listed' = listed + 1
  /\ \/ /\ todo' = {f \in published : Dataset[f] = listed + 1 /\ Passes(f)}
        /\ offered' = offered \cup todo'
        /\ UNCHANGED <<pc, failures>>
     \/ pc' = "abort" /\ Fails("download") /\ UNCHANGED <<todo, offered>>
     \/ pc' = "nodata" /\ Fails("folder") /\ UNCHANGED <<todo, offered>>
  /\ UNCHANGED <<published, stored, register, file, filter, fileTime, outcome>>

\* The next file is downloaded and given to the callback, which leaves it alone
\* after an error.
Download ==
  /\ pc = "next"
  /\ \E f \in todo :
       /\ Sorted => \A g \in todo : Stamp[f] <= Stamp[g]
       /\ todo' = todo \ {f}
       /\ file' = f
  /\ \/ HadError /\ UNCHANGED <<pc, failures>>
     \/ ~HadError /\ pc' = "read" /\ UNCHANGED failures
     \/ pc' = "abort" /\ Fails("download")
  /\ fileTime' = 0
  /\ UNCHANGED <<published, offered, stored, register, listed, filter, outcome>>

\* getSeries: a file without data, or one that cannot be opened, is only a
\* warning, and not even that once a file was stored.
ReadFile ==
  /\ pc = "read"
  /\ found' = TRUE
  /\ \/ /\ file \notin Empty
        /\ fileTime' = Mark[file] /\ pc' = "store"
        /\ UNCHANGED <<result, failures>>
     \/ /\ \/ file \in Empty /\ UNCHANGED failures
           \/ Fails("unreadable")
        /\ result' = IF done THEN result ELSE "WARNING"
        /\ pc' = "log"
        /\ UNCHANGED fileTime
     \/ Fails("read") /\ result' = "ERROR" /\ pc' = "log" /\ UNCHANGED fileTime
  /\ UNCHANGED <<published, offered, stored, register, delivery, filter, lastTime, done>>

\* The intersection and the storager.
StoreFile ==
  /\ pc = "store"
  /\ \/ /\ stored' = [stored EXCEPT ![file] = IF @ = 2 THEN 2 ELSE @ + 1]
        /\ lastTime' = LastTime(TRUE)
        /\ done' = TRUE /\ result' = "DONE"
        /\ UNCHANGED failures
     \/ /\ Fails("store")
        /\ lastTime' = LastTime(FALSE)
        /\ result' = "ERROR"
        /\ UNCHANGED <<stored, done>>
  /\ pc' = "log"
  /\ UNCHANGED <<published, offered, register, delivery, filter, fileTime, found>>

\* The callback ends with the timestamp of its file in the register, stored or
\* not.  (A logger that fails here or already in a handler abandons the run.)
LogFile ==
  /\ pc = "log"
  /\ \/ status' = "START" /\ stamp' = fileTime /\ pc' = "next" /\ UNCHANGED failures
     \/ pc' = "abort" /\ Fails("logger") /\ UNCHANGED <<status, stamp>>
  /\ UNCHANGED <<published, offered, stored, past, delivery, filter, fileTime, outcome>>

\* Everything was delivered.
Delivered ==
  /\ pc = "next" /\ todo = {} /\ ~MoreDatasets
  /\ pc' = IF found THEN "finish" ELSE "nodata"
  /\ UNCHANGED <<published, offered, stored, register, delivery, filter, fileTime, outcome, failures>>

\* logger->result at the end of a run; if it throws, the error tail comes next.
Finish ==
  /\ pc = "finish"
  /\ \/ /\ status' = result
        /\ stamp' = IF Custom THEN started ELSE lastTime
        /\ pc' = "idle"
        /\ UNCHANGED failures
     \/ pc' = "abort" /\ Fails("logger") /\ UNCHANGED <<status, stamp>>
  /\ UNCHANGED <<published, offered, stored, past, delivery, filter, fileTime, outcome>>

\* The handlers of collect(): a WARNING or an ERROR without a timestamp.  A logger
\* that throws here is caught by nobody in collect(): notifyWaitQueue is not called,
\* the process stays in processingQueue_, and what is triggered from then on waits.
FinishEmpty(at, final) ==
  /\ pc = at
  /\ \/ status' = final /\ stamp' = 0 /\ pc' = "idle" /\ UNCHANGED failures
     \/ Fails("logger") /\ pc' = "stuck" /\ UNCHANGED <<status, stamp>>
  /\ UNCHANGED <<published, offered, stored, past, delivery, filter, fileTime, outcome>>

NoData == FinishEmpty("nodata", "WARNING")
Abort == FinishEmpty("abort", "ERROR")

Run ==
  \/ ListDataset \/ Download \/ ReadFile \/ StoreFile \/ LogFile
  \/ Delivered \/ Finish \/ NoData \/ Abort

-----------------------------------------------------------------------------
(* The service *)

\* Mutant: the log is left as it was found.
NotInterrupted == status

\* checkTableConsistency: what has status START was interrupted.
Interrupted == IF status = "START" THEN "INTERRUPTED" ELSE status

\* Every UPDATE_SERVICE message sets the connection of the logger anew, also while
\* a run is under way.
UpdateService ==
  /\ pc # "down"
  /\ status = "START"
  /\ status' = Interrupted
  /\ UNCHANGED <<published, offered, stored, past, stamp, pc, delivery, filter, fileTime, outcome, failures>>

Crash ==
  /\ pc \notin {"down", "idle"}
  /\ Fails("crash")
  /\ pc' = "down"
  /\ UNCHANGED <<published, offered, stored, register, delivery, filter, fileTime, outcome>>

\* The first UPDATE_SERVICE of the new process, then its collectors are scheduled.
Restart ==
  /\ pc = "down"
  /\ status' = Interrupted
  /\ pc' = "idle"
  /\ UNCHANGED <<published, offered, stored, past, stamp, delivery, filter, fileTime, outcome, failures>>

Next ==
  \/ \E f \in Files : Publish(f)
  \/ Begin \/ Run
  \/ UpdateService \/ Crash \/ Restart

Spec == Init /\ [][Next]_vars

\* The timer triggers again and again, a run goes on, the service is restarted.
\* Files need not appear, failures and edits need not happen (failures are bounded,
\* so in the end the calls succeed).
Fairness == WF_vars(Begin) /\ WF_vars(Run) /\ WF_vars(Restart)

FairSpec == Spec /\ Fairness

-----------------------------------------------------------------------------
(* Properties *)

\* No run is under way.
Quiet == pc \in {"idle", "stuck", "down"}

\* What has failed so far leaves the watermark below the files that were not stored:
\* every listed file could be opened, and a failure of the storager and a run that
\* ended without a final timestamp have not both happened.  (The register of a
\* "DCP - CSV custom" series gets the start of the run whatever has failed.)
Harmless ==
  /\ Custom => failed = {}
  /\ "unreadable" \notin failed
  /\ "store" \in failed => {"logger", "crash"} \cap failed = {}

\* f is stored or will be listed again.
Kept(f) == stored[f] > 0 \/ Stamp[f] > Watermark

\* Between two runs every file with data that was ever listed is stored or will be
\* listed again, unless the failures so far were the harmful ones.
NothingSkipped == Harmless /\ Quiet => \A f \in offered \ Empty : Kept(f)

\* "if any exception happens, don't update the data timestamp": the same, whatever
\* has failed.
FailedIsAskedAgain == Quiet => \A f \in offered \ Empty : Kept(f)

\* No file is stored twice as long as no run was abandoned: the timestamp it leaves
\* is NULL, or that of an older file after a crash, although it has stored files.
StoredOnce ==
  failed \subseteq {"read", "store", "unreadable"} => \A f \in Files : stored[f] <= 1

\* A register says DONE (and the linked processes run) only if everything that was
\* listed is stored.
DoneMeansAll ==
  Harmless /\ status = "DONE" /\ pc = "idle" => \A f \in offered \ Empty : stored[f] > 0

\* A register says that a run is under way only while one is, or until the service
\* has been restarted, unless the log could not be written.  (The runs that leave
\* their process stuck are those that could not write the log.)
StartMeansRunning == "logger" \notin failed /\ status = "START" => pc # "idle"

\* Every file with data that the server has is stored in the end, unless harmful
\* failures come in between or the process is stuck in processingQueue_ because the
\* logger threw in a handler.  (A service that dies then and starts again takes the
\* process up, and has to store the file.)
EverythingStored ==
  \A f \in Files \ Empty : f \in published ~> stored[f] > 0 \/ ~Harmless \/ pc = "stuck"
=============================================================================
