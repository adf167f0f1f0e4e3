------------------------------ MODULE AnalysisRun ------------------------------
(***************************************************************************)
(* The executions of the analyses in their service: AnalysisExecutor runs  *)
(* one in a thread of the service, cuts its objects (or the rows of its    *)
(* grid) into packages that the threads of a second pool work on, stores   *)
(* the result through the StoragerManager, reports and gives its context   *)
(* back to the ContextManager.                                             *)
(*                                                                         *)
(* All analyses share one Python interpreter.  A thread that runs a script *)
(* holds the mutex of the interpreter (GILLock), makes its own Python      *)
(* state the current one and loads its script as the module "analysis",    *)
(* which replaces the one before; an operator that the script calls gives  *)
(* the mutex away while it works in C++ (OperatorLock).                    *)
(*                                                                         *)
(* Contexts and messages are found by a hash of the analysis and the date: *)
(* two executions of an analysis for the same date share it.               *)
(***************************************************************************)
EXTENDS Naturals, Sequences, FiniteSets

CONSTANTS
  Runs,       \* executions
  None,       \* no execution, no package, no script
  Analysis,   \* the analysis of each execution
  Date,       \* the date of each execution
  Size,       \* objects or rows of each analysis
  Grids,      \* analyses that make a grid, the others are of monitored objects
  Target,     \* the URI that each analysis stores to
  PoolSize,   \* threads of the pool for the packages
  Faults,     \* what may fail: see FaultKinds
  MaxFaults   \* bound: how often

\* "load": the objects cannot be read; "script": the script raises an exception or an
\* operator fails
\* "misuse": an operator that the analysis may not use; "store": the storager throws
\* "nogrid": no grid is configured; "log": the log database is down
\* "validate": the user has an analysis validated
FaultKinds == {"load", "script", "misuse", "store", "nogrid", "log", "validate"}

Analyses == {Analysis[r] : r \in Runs}

ASSUME AnalysisRunAssumption ==
  /\ None \notin Runs /\ None \notin Analyses /\ None \notin Runs \X Nat
  /\ DOMAIN Analysis = Runs /\ DOMAIN Date = Runs
  /\ Size \in [Analyses -> Nat \ {0}]
  /\ Grids \subseteq Analyses
  /\ DOMAIN Target = Analyses
  /\ PoolSize \in Nat \ {0}
  /\ Faults \subseteq FaultKinds
  /\ MaxFaults \in Nat

VARIABLES
  pc,        \* where each execution is
  context,   \* the maps of contexts: the execution whose context a hash leads to
  errors,    \* analysisErrorMap_: the hashes with an error
  hasError,  \* executions whose context has an error
  results,   \* how often each object of each execution got its value
  tasks,     \* ThreadPool::tasks: packages that wait for a thread
  job,       \* the state of each package
  at,        \* the object that each package is at
  script,    \* the analysis whose function each package calls
  holder,    \* the package that holds the mutex of the interpreter
  current,   \* the package whose Python state is the current one
  module,    \* the analysis whose script is the module "analysis"
  uris,      \* vecURIs_: the executions that are storing
  asleep,    \* the executions that wait in conditionVariable_ for a URI
  stored,    \* executions whose result is in the database
  signal,    \* what analysisFinished said of each execution
  mishaps,   \* history: what has happened to each execution, see Mishaps
  faults     \* number of faults

contexts == <<context, errors, hasError>>
python == <<script, holder, current, module>>
packages == <<tasks, job, at>>
outcome == <<uris, asleep, stored, signal>>
vars == <<pc, contexts, results, packages, python, outcome, mishaps, faults>>

\* "shared": it began when another one of the same hash had not given its context back
\* "misuse", "nogrid", "log", "validate": the fault of that name
Mishaps == {"shared", "misuse", "nogrid", "log", "validate"}

Steps == {"waiting", "load", "split", "wait", "store", "storing", "clean", "report", "clear", "over"}
JobStates == {"none", "queued", "taken", "loaded", "calling", "operator", "done"}

\* AnalysisHashCode
Hash(r) == <<Analysis[r], Date[r]>>
Hashes == {Hash(r) : r \in Runs}
SizeOf(r) == Size[Analysis[r]]
IsGrid(r) == Analysis[r] \in Grids
Objects(r) == 0..(SizeOf(r) - 1)

Fault(f) == f \in Faults /\ faults < MaxFaults /\ faults' = faults + 1

-----------------------------------------------------------------------------
(* The packages of an execution *)

\* How many of size objects the pool makes packages of.
Packages(pool, size) == IF pool < size THEN pool ELSE size

\* Mutant: what the division leaves is dropped.
LastAlike(pool, size, i) == i * (size \div Packages(pool, size)) - 1

First(pool, size, i) == (i - 1) * (size \div Packages(pool, size))

\* The last package takes the rest of the division.
Last(pool, size, i) ==
  IF i = Packages(pool, size) THEN size - 1 ELSE i * (size \div Packages(pool, size)) - 1

PackagesOf(r) == 1..Packages(PoolSize, SizeOf(r))
FirstOf(p) == First(PoolSize, SizeOf(p[1]), p[2])
LastOf(p) == Last(PoolSize, SizeOf(p[1]), p[2])
JobIds == UNION {{<<r, i>> : i \in PackagesOf(r)} : r \in Runs}

Working == {p \in JobIds : job[p] \notin {"none", "queued", "done"}}

-----------------------------------------------------------------------------
(* An execution begins *)

\* Mutant: nobody waits for the execution of the same analysis before it.
BeginsAny(r) ==
  /\ pc[r] = "waiting"
  /\ mishaps' = [mishaps EXCEPT ![r] = @ \cup
       {m \in {"shared"} : \E s \in Runs : s # r /\ Hash(s) = Hash(r) /\ pc[s] \notin {"waiting", "over"}}]

\* The executions of an analysis come one after the other: the next may begin once
\* the signal that the one before has finished was emitted.
Begins(r) ==
  /\ pc[r] = "waiting"
  /\ \A s \in Runs : s # r /\ Analysis[s] = Analysis[r] => pc[s] \in {"waiting", "clear", "over"}
  /\ mishaps' = [mishaps EXCEPT ![r] = @ \cup
       {m \in {"shared"} : \E s \in Runs : s # r /\ Hash(s) = Hash(r) /\ pc[s] \notin {"waiting", "over"}}]

\* addMonitoredObjectContext
BeginObjects(r) ==
  /\ Begins(r) /\ ~IsGrid(r)
  /\ \/ /\ context[Hash(r)] = None
        /\ context' = [context EXCEPT ![Hash(r)] = r]
        /\ pc' = [pc EXCEPT ![r] = "load"]
        /\ UNCHANGED errors
     \/ /\ context[Hash(r)] # None
        /\ errors' = [errors EXCEPT ![Hash(r)] = TRUE]
        /\ pc' = [pc EXCEPT ![r] = "report"]
        /\ UNCHANGED context
  /\ UNCHANGED <<hasError, results, packages, python, outcome, faults>>

\* addGridContext looks into the map of the monitored objects: a context that is
\* there stays.
BeginGrid(r) ==
  /\ Begins(r) /\ IsGrid(r)
  /\ context' = [context EXCEPT ![Hash(r)] = IF @ = None THEN r ELSE @]
  /\ pc' = [pc EXCEPT ![r] = "load"]
  /\ UNCHANGED <<errors, hasError, results, packages, python, outcome, faults>>

\* Without an output grid the error goes to a context that nobody finds.
BeginNoGrid(r) ==
  /\ Fault("nogrid")
  /\ pc[r] = "waiting" /\ IsGrid(r)
  /\ \A s \in Runs : s # r /\ Analysis[s] = Analysis[r] => pc[s] \in {"waiting", "clear", "over"}
  /\ mishaps' = [mishaps EXCEPT ![r] = @ \cup {"nogrid"}]
  /\ hasError' = hasError \cup {r}
  /\ pc' = [pc EXCEPT ![r] = "report"]
  /\ UNCHANGED <<context, errors, results, packages, python, outcome>>

Load(r) ==
  /\ pc[r] = "load"
  /\ \/ pc' = [pc EXCEPT ![r] = "split"] /\ UNCHANGED <<hasError, faults>>
     \/ Fault("load") /\ hasError' = hasError \cup {r} /\ pc' = [pc EXCEPT ![r] = "clean"]
  /\ UNCHANGED <<context, errors, results, packages, python, outcome, mishaps>>

\* The next package is made and put into the pool.
Enqueue(r) ==
  /\ pc[r] = "split"
  /\ \E i \in PackagesOf(r) :
       /\ job[<<r, i>>] = "none"
       /\ \A k \in PackagesOf(r) : k < i => job[<<r, k>>] # "none"
       /\ job' = [job EXCEPT ![<<r, i>>] = "queued"]
       /\ at' = [at EXCEPT ![<<r, i>>] = FirstOf(<<r, i>>)]
       /\ tasks' = Append(tasks, <<r, i>>)
       /\ pc' = [pc EXCEPT ![r] = IF i = Packages(PoolSize, SizeOf(r)) THEN "wait" ELSE @]
  /\ UNCHANGED <<contexts, results, python, outcome, mishaps, faults>>

-----------------------------------------------------------------------------
(* A thread of the pool works on a package: runMonitoredObjectScript and
   runScriptGridAnalysis *)

Take ==
  /\ tasks # <<>> /\ Cardinality(Working) < PoolSize
  /\ tasks' = Tail(tasks)
  /\ job' = [job EXCEPT ![Head(tasks)] = "taken"]
  /\ UNCHANGED <<pc, contexts, results, at, python, outcome, mishaps, faults>>

\* What the ContextManager knows of errors.
Known(h) == errors[h] \/ (context[h] # None /\ context[h] \in hasError)

\* After an error the packages of monitored objects that come later do nothing.
Skip(p) ==
  /\ job[p] = "taken" /\ holder = None
  /\ ~IsGrid(p[1]) /\ Known(Hash(p[1]))
  /\ current' = p
  /\ job' = [job EXCEPT ![p] = "done"]
  /\ UNCHANGED <<pc, contexts, results, tasks, at, script, holder, module, outcome, mishaps, faults>>

\* The script becomes the module "analysis".
LoadScript(p) ==
  /\ job[p] = "taken" /\ holder = None
  /\ IsGrid(p[1]) \/ ~Known(Hash(p[1]))
  /\ holder' = p /\ current' = p
  /\ module' = Analysis[p[1]]
  /\ job' = [job EXCEPT ![p] = "loaded"]
  /\ UNCHANGED <<pc, contexts, results, tasks, at, script, outcome, mishaps, faults>>

\* The function is taken from the module.
Import(p) ==
  /\ job[p] = "loaded"
  /\ script' = [script EXCEPT ![p] = module]
  /\ job' = [job EXCEPT ![p] = "calling"]
  /\ UNCHANGED <<pc, contexts, results, tasks, at, holder, current, module, outcome, mishaps, faults>>

\* The function calls an operator that gives the interpreter away while it works.
Call(p) ==
  /\ job[p] = "calling" /\ context[Hash(p[1])] # None
  /\ job' = [job EXCEPT ![p] = "operator"]
  /\ holder' = None /\ current' = None
  /\ UNCHANGED <<pc, contexts, results, tasks, at, script, module, outcome, mishaps, faults>>

\* The function is through with an object and its value goes to the execution and the
\* object that the Python state c names; an execution that is no grid is found by its
\* hash.  The mutex is given back after the last object.  (A grid package then swaps the
\* Python state it found back in, PythonInterpreter.cpp 391; nobody reads the current
\* state before the next package swaps its own in.)
Value(p, c) ==
  /\ IsGrid(p[1]) \/ context[Hash(c[1])] # None
  /\ LET r == IF IsGrid(p[1]) THEN p[1] ELSE context[Hash(c[1])]
     IN  results' = [results EXCEPT ![r][at[c]] = @ + 1]
  /\ IF at[p] < LastOf(p)
     THEN at' = [at EXCEPT ![p] = @ + 1] /\ job' = [job EXCEPT ![p] = "calling"] /\ holder' = p
     ELSE UNCHANGED at /\ job' = [job EXCEPT ![p] = "done"] /\ holder' = None
  /\ UNCHANGED <<pc, contexts, tasks, module, outcome, mishaps, faults>>

\* The function needs no such operator.
Compute(p) == job[p] = "calling" /\ Value(p, current) /\ UNCHANGED <<script, current>>

\* Mutant: it goes on in whatever Python state is the current one.
ReturnAnywhere(p) ==
  /\ job[p] = "operator" /\ holder = None
  /\ current' = IF current = None THEN p ELSE current
  /\ Value(p, current')
  /\ UNCHANGED script

\* Mutant: the function is taken from the module again.
ReturnImports(p) ==
  /\ job[p] = "operator" /\ holder = None
  /\ current' = p
  /\ Value(p, p)
  /\ script' = [script EXCEPT ![p] = module]

\* The operator returns to the script in its own Python state.
Return(p) ==
  /\ job[p] = "operator" /\ holder = None
  /\ current' = p
  /\ Value(p, p)
  /\ UNCHANGED script

\* The script does not load or raises an exception, as it does without its context.
Raise(p) ==
  /\ \/ job[p] \in {"loaded", "calling"}
     \/ job[p] = "operator" /\ holder = None
  /\ \/ Fault("script")
     \/ job[p] # "loaded" /\ context[Hash(p[1])] = None /\ UNCHANGED faults
  /\ hasError' = hasError \cup {p[1]}
  /\ job' = [job EXCEPT ![p] = "done"]
  /\ holder' = None /\ current' = p
  /\ UNCHANGED <<pc, context, errors, results, tasks, at, script, module, outcome, mishaps>>

\* The context that the operators of a package find: a grid is found by its hash, and
\* the hash of monitored objects leads to nobody else.
Found(p) == IF IsGrid(p[1]) THEN context[Hash(p[1])] ELSE p[1]

\* An operator fails: it leaves its error in the context that it found, and the script
\* goes on with a value that is no number.
OperatorFails(p) ==
  /\ Fault("script")
  /\ \/ job[p] = "calling" /\ context[Hash(p[1])] # None
     \/ job[p] = "operator" /\ Found(p) # None
  /\ hasError' = hasError \cup {Found(p)}
  /\ UNCHANGED <<pc, context, errors, results, packages, python, outcome, mishaps>>

\* An operator finds that the analysis may not use it and returns no value.
Misuse(p) ==
  /\ Fault("misuse") /\ job[p] = "calling"
  /\ ~errors[Hash(p[1])]
  /\ errors' = [errors EXCEPT ![Hash(p[1])] = TRUE]
  /\ mishaps' = [mishaps EXCEPT ![p[1]] = @ \cup {"misuse"}]
  /\ UNCHANGED <<pc, context, hasError, results, packages, python, outcome>>

\* validateAnalysisScript loads a script too, in the main thread and without GILLock.
Validate ==
  /\ Fault("validate")
  /\ module' = None
  /\ mishaps' = [r \in Runs |-> mishaps[r] \cup {m \in {"validate"} : pc[r] \in {"split", "wait"}}]
  /\ UNCHANGED <<pc, contexts, results, packages, script, holder, current, outcome>>

Work(p) ==
  \/ Skip(p) \/ LoadScript(p) \/ Import(p) \/ Call(p) \/ Compute(p) \/ Return(p)
  \/ Raise(p) \/ OperatorFails(p) \/ Misuse(p)

-----------------------------------------------------------------------------
(* An execution ends *)

Empty(r) == \A k \in Objects(r) : results[r][k] = 0

\* Mutant: the errors of the context are not looked at.
GatherAnyway(r) ==
  /\ pc[r] = "wait"
  /\ \A i \in PackagesOf(r) : job[<<r, i>>] = "done"
  /\ \/ (IsGrid(r) \/ ~Empty(r)) /\ pc' = [pc EXCEPT ![r] = "store"] /\ UNCHANGED hasError
     \/ (~IsGrid(r) /\ Empty(r)) /\ pc' = [pc EXCEPT ![r] = "clean"] /\ hasError' = hasError \cup {r}
  /\ UNCHANGED <<context, errors, results, packages, python, outcome, mishaps, faults>>

\* All packages are done: without an error the result is stored, if there is any.
Gather(r) ==
  /\ pc[r] = "wait"
  /\ \A i \in PackagesOf(r) : job[<<r, i>>] = "done"
  /\ \/ /\ r \notin hasError /\ (IsGrid(r) \/ ~Empty(r))
        /\ pc' = [pc EXCEPT ![r] = "store"]
        /\ UNCHANGED hasError
     \/ /\ r \in hasError \/ (~IsGrid(r) /\ Empty(r))
        /\ pc' = [pc EXCEPT ![r] = "clean"]
        /\ hasError' = hasError \cup {r}
  /\ UNCHANGED <<context, errors, results, packages, python, outcome, mishaps, faults>>

\* StoragerManager::store: nothing is stored to the same URI.
Free(r) == \A s \in uris : Target[Analysis[s]] # Target[Analysis[r]]

\* The URI is taken.
Enter(r) ==
  /\ pc[r] = "store" /\ r \notin asleep
  /\ Free(r)
  /\ uris' = uris \cup {r}
  /\ pc' = [pc EXCEPT ![r] = "storing"]
  /\ UNCHANGED <<contexts, results, packages, python, asleep, stored, signal, mishaps, faults>>

\* The URI is in use: the thread sleeps until somebody notifies it, and looks again then.
Sleep(r) ==
  /\ pc[r] = "store" /\ r \notin asleep
  /\ ~Free(r)
  /\ asleep' = asleep \cup {r}
  /\ UNCHANGED <<pc, contexts, results, packages, python, uris, stored, signal, mishaps, faults>>

\* Mutant: a storager that throws leaves its URI behind.
StoreKeeps(r) ==
  /\ pc[r] = "storing"
  /\ asleep' = {}
  /\ pc' = [pc EXCEPT ![r] = "clean"]
  /\ \/ uris' = uris \ {r} /\ stored' = stored \cup {r} /\ UNCHANGED <<hasError, faults>>
     \/ Fault("store") /\ hasError' = hasError \cup {r} /\ UNCHANGED <<uris, stored>>
  /\ UNCHANGED <<context, errors, results, packages, python, signal, mishaps>>

\* Mutant: a storager that throws notifies nobody.
StoreSilent(r) ==
  /\ pc[r] = "storing"
  /\ uris' = uris \ {r}
  /\ pc' = [pc EXCEPT ![r] = "clean"]
  /\ \/ asleep' = {} /\ stored' = stored \cup {r} /\ UNCHANGED <<hasError, faults>>
     \/ Fault("store") /\ hasError' = hasError \cup {r} /\ UNCHANGED <<asleep, stored>>
  /\ UNCHANGED <<context, errors, results, packages, python, signal, mishaps>>

\* The storager returns or throws; the URI is free again and all who sleep are notified.
Store(r) ==
  /\ pc[r] = "storing"
  /\ uris' = uris \ {r} /\ asleep' = {}
  /\ pc' = [pc EXCEPT ![r] = "clean"]
  /\ \/ stored' = stored \cup {r} /\ UNCHANGED <<hasError, faults>>
     \/ Fault("store") /\ hasError' = hasError \cup {r} /\ UNCHANGED stored
  /\ UNCHANGED <<context, errors, results, packages, python, signal, mishaps>>

\* The Python states of the packages are deleted.
Clean(r) ==
  /\ pc[r] = "clean" /\ holder = None
  /\ current' = None
  /\ pc' = [pc EXCEPT ![r] = "report"]
  /\ UNCHANGED <<contexts, results, packages, script, holder, module, outcome, mishaps, faults>>

\* The result is what the ContextManager knows of errors; analysisFinished is emitted
\* whatever becomes of the log.
Report(r) ==
  /\ pc[r] = "report"
  /\ pc' = [pc EXCEPT ![r] = "clear"]
  /\ \/ /\ signal' = [signal EXCEPT ![r] = IF Known(Hash(r)) THEN "failed" ELSE "done"]
        /\ UNCHANGED <<mishaps, faults>>
     \/ /\ Fault("log")
        /\ signal' = [signal EXCEPT ![r] = "failed"]
        /\ mishaps' = [mishaps EXCEPT ![r] = @ \cup {"log"}]
  /\ UNCHANGED <<contexts, results, packages, python, uris, asleep, stored>>

\* clearContext
Clear(r) ==
  /\ pc[r] = "clear"
  /\ context' = [context EXCEPT ![Hash(r)] = None]
  /\ errors' = [errors EXCEPT ![Hash(r)] = FALSE]
  /\ pc' = [pc EXCEPT ![r] = "over"]
  /\ UNCHANGED <<hasError, results, packages, python, outcome, mishaps, faults>>

Execute(r) ==
  \/ Load(r) \/ Enqueue(r) \/ Gather(r) \/ Enter(r) \/ Sleep(r) \/ Store(r)
  \/ Clean(r) \/ Report(r) \/ Clear(r)

-----------------------------------------------------------------------------

Init ==
  /\ pc = [r \in Runs |-> "waiting"]
  /\ context = [h \in Hashes |-> None] /\ errors = [h \in Hashes |-> FALSE] /\ hasError = {}
  /\ results = [r \in Runs |-> [k \in Objects(r) |-> 0]]
  /\ tasks = <<>> /\ job = [p \in JobIds |-> "none"] /\ at = [p \in JobIds |-> 0]
  /\ script = [p \in JobIds |-> None] /\ holder = None /\ current = None /\ module = None
  /\ uris = {} /\ asleep = {} /\ stored = {} /\ signal = [r \in Runs |-> "none"]
  /\ mishaps = [r \in Runs |-> {}] /\ faults = 0

Next ==
  \/ \E r \in Runs : BeginObjects(r) \/ BeginGrid(r) \/ BeginNoGrid(r) \/ Execute(r)
  \/ Take \/ Validate
  \/ \E p \in JobIds : Work(p)

Spec == Init /\ [][Next]_vars

\* The threads of both pools go on.  The mutex of the interpreter is asked for a
\* bounded number of times, so that weak fairness is enough to get it.
Fairness ==
  /\ \A r \in Runs : WF_vars(Execute(r))
  /\ WF_vars(Take)
  /\ \A p \in JobIds : WF_vars(Work(p))

FairSpec == Spec /\ Fairness

-----------------------------------------------------------------------------
(* Properties *)

\* Every variable has its type, and no package leaves the objects of its execution.
TypeOK ==
  /\ pc \in [Runs -> Steps]
  /\ context \in [Hashes -> Runs \cup {None}] /\ errors \in [Hashes -> BOOLEAN]
  /\ hasError \subseteq Runs
  /\ DOMAIN results = Runs /\ \A r \in Runs : results[r] \in [Objects(r) -> Nat]
  /\ tasks \in Seq(JobIds)
  /\ job \in [JobIds -> JobStates]
  /\ at \in [JobIds -> Nat] /\ \A p \in JobIds : at[p] \in Objects(p[1])
  /\ script \in [JobIds -> Analyses \cup {None}] /\ module \in Analyses \cup {None}
  /\ holder \in JobIds \cup {None} /\ current \in JobIds \cup {None}
  /\ uris \subseteq Runs /\ asleep \subseteq Runs /\ stored \subseteq Runs
  /\ signal \in [Runs -> {"none", "done", "failed"}]
  /\ mishaps \in [Runs -> SUBSET Mishaps] /\ faults \in 0..MaxFaults

\* No package goes on with the script of another analysis, whatever was loaded while
\* an operator had given the interpreter away; a validation can break this.
OwnScript ==
  \A p \in JobIds :
    job[p] \in {"calling", "operator"} /\ "validate" \notin mishaps[p[1]] =>
      script[p] = Analysis[p[1]]

\* A stored result has exactly one value for each object: the packages cover the
\* objects, and no thread writes the value of another one.
EachObjectOnce ==
  \A r \in stored : mishaps[r] \cap {"shared", "misuse"} = {} => \A k \in Objects(r) : results[r][k] = 1

\* While a thread works on a package its execution has not begun to store, to delete the
\* Python states or to report.  And until it reports, the hash of an execution leads to
\* the context that it was given, with the error of a misused operator if there was one;
\* but for one that began when another one of its hash had not given its context back,
\* whose context that one takes away, and one without a grid, which was given none.
NothingTakenAway ==
  /\ \A p \in Working : pc[p[1]] \in {"split", "wait"}
  /\ \A r \in Runs :
       pc[r] \notin {"waiting", "clear", "over"} /\ mishaps[r] \cap {"shared", "nogrid"} = {} =>
         context[Hash(r)] = r /\ (errors[Hash(r)] <=> "misuse" \in mishaps[r])

\* Whoever sleeps until a URI is free has somebody to wake it up: another execution that
\* is storing to that URI now, also after storagers have thrown.
SleepersAreWoken ==
  \A r \in asleep : \E s \in uris :
    s # r /\ Target[Analysis[s]] = Target[Analysis[r]] /\ pc[s] = "storing"

\* An execution is reported as done if and only if its result was stored.
ReportIsRight ==
  \A r \in Runs :
    signal[r] # "none" /\ mishaps[r] \cap {"shared", "misuse", "nogrid", "log"} = {} =>
      (signal[r] = "done" <=> r \in stored)

\* Every execution that begins is reported and gives its context back, also when others
\* wait for the same URI and the same interpreter.
EachFinishes == \A r \in Runs : pc[r] # "waiting" ~> pc[r] = "over"
=============================================================================
