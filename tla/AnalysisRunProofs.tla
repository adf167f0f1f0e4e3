--------------------------- MODULE AnalysisRunProofs ---------------------------
(***************************************************************************)
(* What holds of the executions of analyses for every set of executions,   *)
(* every number of objects and threads, and all faults: the packages are a *)
(* partition of the objects, nothing is taken away from a thread that      *)
(* works on a package or from its execution, it goes on with its own       *)
(* script, who sleeps for a URI is woken up, the report is right, and what *)
(* is stored has one value for each object.                                *)
(***************************************************************************)
EXTENDS AnalysisRun, TLAPS

-----------------------------------------------------------------------------
(* The packages *)

\* What a package has of the objects, before the rest.
LEMMA Share ==
  ASSUME NEW pool \in Nat \ {0}, NEW size \in Nat \ {0}
  PROVE  LET n == Packages(pool, size)
             q == size \div n
         IN  /\ n \in Nat \ {0} /\ n <= size /\ n <= pool
             /\ q \in Nat \ {0}
             /\ n * q <= size
<1>. DEFINE n == Packages(pool, size)
            q == size \div n
<1>1. n \in Nat \ {0} /\ n <= size /\ n <= pool
  BY DEF Packages
<1>. HIDE DEF n
<1>2. q \in Nat /\ n * q <= size /\ size < n * q + n
  BY <1>1, SMT
<1>3. q # 0
  BY <1>1, <1>2
<1>. QED BY <1>1, <1>2, <1>3 DEF n

\* No package is empty, none leaves the objects, and none has an object of a later one.
THEOREM PackagesDisjoint ==
  ASSUME NEW pool \in Nat \ {0}, NEW size \in Nat \ {0}, NEW i \in 1..Packages(pool, size)
  PROVE  /\ First(pool, size, i) \in 0..(size - 1)
         /\ Last(pool, size, i) \in 0..(size - 1)
         /\ First(pool, size, i) <= Last(pool, size, i)
         /\ \A j \in 1..Packages(pool, size) : i < j => Last(pool, size, i) < First(pool, size, j)
<1>. DEFINE n == Packages(pool, size)
            q == size \div n
<1>1. n \in Nat \ {0} /\ q \in Nat \ {0} /\ n * q <= size
  BY Share
<1>2. First(pool, size, i) = (i - 1) * q
  BY DEF First
<1>3. Last(pool, size, i) = IF i = n THEN size - 1 ELSE i * q - 1
  BY DEF Last
<1>4. \A j \in 1..n : First(pool, size, j) = (j - 1) * q
  BY DEF First
<1>. HIDE DEF n, q
<1>5. i \in 1..n /\ i \in Nat /\ i - 1 \in Nat
  BY <1>1 DEF n
<1>6. i * q = (i - 1) * q + q /\ (i - 1) * q \in Nat /\ i * q \in Nat
  BY <1>1, <1>5
<1>7. i * q <= n * q
  BY <1>1, <1>5
<1>8. i # n => i * q + q <= n * q
  <2>1. SUFFICES ASSUME i # n PROVE i * q + q <= n * q
    OBVIOUS
  <2>2. i + 1 <= n /\ (i + 1) * q = i * q + q
    BY <1>1, <1>5, <2>1
  <2>. QED BY <1>1, <1>5, <2>2
<1>9. /\ First(pool, size, i) \in 0..(size - 1)
      /\ Last(pool, size, i) \in 0..(size - 1)
      /\ First(pool, size, i) <= Last(pool, size, i)
  <2>1. n * q \in Nat
    BY <1>1
  <2>. QED BY <1>1, <1>2, <1>3, <1>6, <1>7, <1>8, <2>1
<1>10. ASSUME NEW j \in 1..n, i < j
       PROVE  Last(pool, size, i) < First(pool, size, j)
  <2>1. i # n /\ i <= j - 1 /\ j - 1 \in Nat
    BY <1>1, <1>5, <1>10
  <2>2. i * q <= (j - 1) * q /\ (j - 1) * q \in Nat
    BY <1>1, <1>5, <2>1
  <2>. QED BY <1>3, <1>4, <1>6, <2>1, <2>2
<1>. QED BY <1>9, <1>10 DEF n

\* Every object is in a package, whatever the number of threads and of objects.
THEOREM PackagesCover ==
  ASSUME NEW pool \in Nat \ {0}, NEW size \in Nat \ {0}, NEW k \in 0..(size - 1)
  PROVE  \E i \in 1..Packages(pool, size) : k \in First(pool, size, i)..Last(pool, size, i)
<1>. DEFINE n == Packages(pool, size)
            q == size \div n
            m == k \div q
<1>1. n \in Nat \ {0} /\ q \in Nat \ {0} /\ n * q <= size
  BY Share
<1>2. \A i \in 1..n : /\ First(pool, size, i) = (i - 1) * q
                      /\ Last(pool, size, i) = IF i = n THEN size - 1 ELSE i * q - 1
  BY DEF First, Last
<1>. HIDE DEF n, q
<1>3. m \in Nat /\ m * q <= k /\ k < m * q + q
  BY <1>1, SMT
<1>. HIDE DEF m
<1>4. CASE m + 1 < n
  <2>1. m + 1 \in 1..n /\ m + 1 # n /\ (m + 1) - 1 = m
    BY <1>1, <1>3, <1>4
  <2>2. First(pool, size, m + 1) = m * q /\ Last(pool, size, m + 1) = (m + 1) * q - 1
    BY <1>2, <2>1
  <2>3. (m + 1) * q = m * q + q /\ m * q \in Nat
    BY <1>1, <1>3
  <2>4. k \in First(pool, size, m + 1)..Last(pool, size, m + 1)
    BY <1>1, <1>3, <2>2, <2>3
  <2>. QED BY <2>1, <2>4 DEF n
<1>5. CASE m + 1 >= n
  <2>1. n \in 1..n /\ n - 1 <= m /\ n - 1 \in Nat
    BY <1>1, <1>3, <1>5
  <2>2. (n - 1) * q <= m * q /\ (n - 1) * q \in Nat /\ m * q \in Nat
    BY <1>1, <1>3, <2>1
  <2>3. First(pool, size, n) = (n - 1) * q /\ Last(pool, size, n) = size - 1
    BY <1>2, <2>1
  <2>4. k \in First(pool, size, n)..Last(pool, size, n)
    BY <1>3, <2>2, <2>3
  <2>. QED BY <2>1, <2>4 DEF n
<1>. QED BY <1>1, <1>3, <1>4, <1>5

-----------------------------------------------------------------------------
(* Types *)

LEMMA JobIdsFacts ==
  ASSUME NEW p \in JobIds
  PROVE  /\ p[1] \in Runs /\ p[2] \in PackagesOf(p[1])
         /\ Hash(p[1]) \in Hashes /\ Analysis[p[1]] \in Analyses
BY DEF JobIds, Hashes, Analyses

LEMMA SizeType ==
  ASSUME NEW r \in Runs
  PROVE  SizeOf(r) \in Nat \ {0} /\ 0 \in Objects(r)
<1>1. Size \in [Analyses -> Nat \ {0}] /\ Analysis[r] \in Analyses
  BY AnalysisRunAssumption DEF Analyses
<1>2. SizeOf(r) \in Nat \ {0}
  BY <1>1 DEF SizeOf
<1>. QED BY <1>2 DEF Objects

\* A package begins and ends at an object of its execution.
LEMMA PackageBounds ==
  ASSUME NEW p \in JobIds
  PROVE  FirstOf(p) \in Objects(p[1]) /\ LastOf(p) \in Objects(p[1])
<1>1. p[1] \in Runs /\ p[2] \in 1..Packages(PoolSize, SizeOf(p[1]))
  BY JobIdsFacts DEF PackagesOf
<1>2. SizeOf(p[1]) \in Nat \ {0} /\ PoolSize \in Nat \ {0}
  BY <1>1, SizeType, AnalysisRunAssumption
<1>. QED BY <1>1, <1>2, PackagesDisjoint DEF FirstOf, LastOf, Objects

LEMMA TypeInit == Init => TypeOK
<1>. SUFFICES ASSUME Init PROVE TypeOK
  OBVIOUS
<1>1. \A p \in JobIds : 0 \in Objects(p[1])
  BY JobIdsFacts, SizeType
<1>2. at \in [JobIds -> Nat] /\ \A p \in JobIds : at[p] \in Objects(p[1])
  BY <1>1 DEF Init
<1>3. DOMAIN results = Runs /\ \A r \in Runs : results[r] \in [Objects(r) -> Nat]
  BY DEF Init
<1>4. tasks \in Seq(JobIds) /\ faults \in 0..MaxFaults
  BY AnalysisRunAssumption DEF Init
<1>. QED BY <1>2, <1>3, <1>4 DEF Init, TypeOK, Steps, JobStates

LEMMA ValueType ==
  ASSUME TypeOK, NEW p \in JobIds, NEW c, Value(p, c)
  PROVE  /\ DOMAIN results' = Runs /\ \A r \in Runs : results'[r] \in [Objects(r) -> Nat]
         /\ job' \in [JobIds -> JobStates]
         /\ at' \in [JobIds -> Nat] /\ \A q \in JobIds : at'[q] \in Objects(q[1])
         /\ holder' \in JobIds \cup {None}
<1>. USE DEF TypeOK
<1>1. PICK r, k : results' = [results EXCEPT ![r][k] = @ + 1]
  <2>. DEFINE r == IF IsGrid(p[1]) THEN p[1] ELSE context[Hash(c[1])]
  <2>1. results' = [results EXCEPT ![r][at[c]] = @ + 1]
    BY DEF Value
  <2>. QED BY <2>1
<1>2. DOMAIN results' = Runs /\ \A x \in Runs : results'[x] \in [Objects(x) -> Nat]
  <2>1. DOMAIN results' = Runs
    BY <1>1
  <2>2. ASSUME NEW x \in Runs PROVE results'[x] \in [Objects(x) -> Nat]
    <3>1. CASE x # r
      BY <1>1, <3>1
    <3>2. CASE x = r
      <4>1. results'[x] = [results[x] EXCEPT ![k] = results[x][k] + 1]
        BY <1>1, <3>2
      <4>2. results[x] \in [Objects(x) -> Nat]
        OBVIOUS
      <4>3. k \in Objects(x) => results[x][k] + 1 \in Nat
        BY <4>2
      <4>. QED BY <4>1, <4>2, <4>3
    <3>. QED BY <3>1, <3>2
  <2>. QED BY <2>1, <2>2
<1>3. job' \in [JobIds -> JobStates] /\ holder' \in JobIds \cup {None}
  BY DEF Value, JobStates
<1>4. at' \in [JobIds -> Nat] /\ \A q \in JobIds : at'[q] \in Objects(q[1])
  <2>1. CASE at' = at
    BY <2>1
  <2>2. CASE at' # at
    <3>1. at' = [at EXCEPT ![p] = @ + 1] /\ at[p] < LastOf(p)
      BY <2>2 DEF Value
    <3>2. LastOf(p) \in Objects(p[1]) /\ at[p] \in Objects(p[1])
      BY PackageBounds
    <3>3. SizeOf(p[1]) \in Nat
      BY JobIdsFacts, SizeType
    <3>4. at[p] + 1 \in Objects(p[1]) /\ at[p] + 1 \in Nat
      BY <3>1, <3>2, <3>3 DEF Objects
    <3>. QED BY <3>1, <3>4
  <2>. QED BY <2>1, <2>2
<1>. QED BY <1>2, <1>3, <1>4

LEMMA FaultType ==
  ASSUME TypeOK, NEW f, Fault(f)
  PROVE  faults' \in 0..MaxFaults
BY AnalysisRunAssumption DEF Fault, TypeOK

LEMMA WorkType ==
  ASSUME TypeOK, NEW p \in JobIds, Work(p)
  PROVE  TypeOK'
<1>. USE DEF TypeOK
<1>0. p[1] \in Runs /\ Hash(p[1]) \in Hashes /\ Analysis[p[1]] \in Analyses
  BY JobIdsFacts
<1>1. CASE Skip(p)
  BY <1>1 DEF Skip, contexts, outcome, JobStates
<1>2. CASE LoadScript(p)
  BY <1>0, <1>2 DEF LoadScript, contexts, outcome, JobStates
<1>3. CASE Import(p)
  BY <1>3 DEF Import, contexts, outcome, JobStates
<1>4. CASE Call(p)
  BY <1>4 DEF Call, contexts, outcome, JobStates
<1>5. CASE Compute(p) \/ Return(p)
  <2>1. PICK c : Value(p, c)
    BY <1>5 DEF Compute, Return
  <2>2. /\ DOMAIN results' = Runs /\ \A r \in Runs : results'[r] \in [Objects(r) -> Nat]
        /\ job' \in [JobIds -> JobStates]
        /\ at' \in [JobIds -> Nat] /\ \A q \in JobIds : at'[q] \in Objects(q[1])
        /\ holder' \in JobIds \cup {None}
    BY <2>1, ValueType
  <2>3. UNCHANGED <<pc, contexts, tasks, module, outcome, mishaps, faults>>
    BY <2>1 DEF Value
  <2>4. UNCHANGED script /\ current' \in {current, p}
    BY <1>5 DEF Compute, Return
  <2>. QED BY <2>2, <2>3, <2>4 DEF contexts, outcome
<1>6. CASE Raise(p)
  <2>1. faults' \in 0..MaxFaults
    BY <1>6, FaultType DEF Raise
  <2>. QED BY <1>0, <1>6, <2>1 DEF Raise, outcome, JobStates
<1>7. CASE Misuse(p)
  <2>1. faults' \in 0..MaxFaults
    BY <1>7, FaultType DEF Misuse
  <2>2. mishaps' \in [Runs -> SUBSET Mishaps]
    BY <1>0, <1>7 DEF Misuse, Mishaps
  <2>. QED BY <1>0, <1>7, <2>1, <2>2 DEF Misuse, packages, python, outcome
<1>8. CASE OperatorFails(p)
  <2>1. faults' \in 0..MaxFaults
    BY <1>8, FaultType DEF OperatorFails
  <2>2. Found(p) \in Runs
    BY <1>0, <1>8 DEF OperatorFails, Found
  <2>. QED BY <1>8, <2>1, <2>2 DEF OperatorFails, packages, python, outcome
<1>. QED BY <1>1, <1>2, <1>3, <1>4, <1>5, <1>6, <1>7, <1>8 DEF Work

LEMMA BeginsType ==
  ASSUME TypeOK, NEW r \in Runs, Begins(r)
  PROVE  mishaps' \in [Runs -> SUBSET Mishaps]
<1>. DEFINE M == {m \in {"shared"} : \E s \in Runs : s # r /\ Hash(s) = Hash(r)
                                                   /\ pc[s] \notin {"waiting", "over"}}
<1>1. M \subseteq Mishaps
  BY DEF Mishaps
<1>2. mishaps' = [mishaps EXCEPT ![r] = @ \cup M]
  BY DEF Begins
<1>. HIDE DEF M
<1>. QED BY <1>1, <1>2 DEF TypeOK

LEMMA BeginType ==
  ASSUME TypeOK, NEW r \in Runs, BeginObjects(r) \/ BeginGrid(r) \/ BeginNoGrid(r)
  PROVE  TypeOK'
<1>. USE DEF TypeOK
<1>0. Hash(r) \in Hashes
  BY DEF Hashes
<1>1. CASE BeginObjects(r)
  <2>1. mishaps' \in [Runs -> SUBSET Mishaps]
    BY <1>1, BeginsType DEF BeginObjects
  <2>2. /\ \/ context' = [context EXCEPT ![Hash(r)] = r] /\ errors' = errors
           \/ context' = context /\ errors' = [errors EXCEPT ![Hash(r)] = TRUE]
        /\ \E x \in {"load", "report"} : pc' = [pc EXCEPT ![r] = x]
        /\ UNCHANGED <<hasError, results, packages, python, outcome, faults>>
    BY <1>1 DEF BeginObjects
  <2>3. pc' \in [Runs -> Steps]
    BY <2>2 DEF Steps
  <2>4. context' \in [Hashes -> Runs \cup {None}] /\ errors' \in [Hashes -> BOOLEAN]
    <3>1. context' = [context EXCEPT ![Hash(r)] = r] \/ context' = context
      BY <2>2
    <3>2. errors' = errors \/ errors' = [errors EXCEPT ![Hash(r)] = TRUE]
      BY <2>2
    <3>3. context' \in [Hashes -> Runs \cup {None}]
      BY <3>1
    <3>4. errors' \in [Hashes -> BOOLEAN]
      BY <3>2
    <3>. QED BY <3>3, <3>4
  <2>. QED BY <2>1, <2>2, <2>3, <2>4 DEF packages, python, outcome
<1>2. CASE BeginGrid(r)
  <2>1. mishaps' \in [Runs -> SUBSET Mishaps]
    BY <1>2, BeginsType DEF BeginGrid
  <2>. QED BY <1>0, <1>2, <2>1 DEF BeginGrid, packages, python, outcome, Steps
<1>3. CASE BeginNoGrid(r)
  <2>1. faults' \in 0..MaxFaults
    BY <1>3, FaultType DEF BeginNoGrid
  <2>2. mishaps' \in [Runs -> SUBSET Mishaps]
    BY <1>3 DEF BeginNoGrid, Mishaps
  <2>. QED BY <1>3, <2>1, <2>2 DEF BeginNoGrid, packages, python, outcome, Steps
<1>. QED BY <1>1, <1>2, <1>3

LEMMA ExecuteType ==
  ASSUME TypeOK, NEW r \in Runs, Execute(r)
  PROVE  TypeOK'
<1>. USE DEF TypeOK
<1>0. Hash(r) \in Hashes
  BY DEF Hashes
<1>1. CASE Load(r)
  <2>1. faults' \in 0..MaxFaults
    BY <1>1, FaultType DEF Load
  <2>. QED BY <1>1, <2>1 DEF Load, packages, python, outcome, Steps
<1>2. CASE Enqueue(r)
  <2>1. PICK i \in PackagesOf(r) :
          /\ job' = [job EXCEPT ![<<r, i>>] = "queued"]
          /\ at' = [at EXCEPT ![<<r, i>>] = FirstOf(<<r, i>>)]
          /\ tasks' = Append(tasks, <<r, i>>)
          /\ pc' = [pc EXCEPT ![r] = IF i = Packages(PoolSize, SizeOf(r)) THEN "wait" ELSE @]
    BY <1>2 DEF Enqueue
  <2>2. <<r, i>> \in JobIds
    BY DEF JobIds
  <2>3. FirstOf(<<r, i>>) \in Objects(r) /\ FirstOf(<<r, i>>) \in Nat
    BY <2>2, PackageBounds DEF Objects
  <2>4. at' \in [JobIds -> Nat] /\ \A p \in JobIds : at'[p] \in Objects(p[1])
    <3>1. at' \in [JobIds -> Nat]
      BY <2>1, <2>3
    <3>2. ASSUME NEW p \in JobIds PROVE at'[p] \in Objects(p[1])
      <4>1. CASE p = <<r, i>>
        BY <2>1, <2>3, <4>1
      <4>2. CASE p # <<r, i>>
        BY <2>1, <4>2
      <4>. QED BY <4>1, <4>2
    <3>. QED BY <3>1, <3>2
  <2>5. tasks' \in Seq(JobIds) /\ job' \in [JobIds -> JobStates]
    BY <2>1, <2>2 DEF JobStates
  <2>. QED BY <1>2, <2>1, <2>4, <2>5 DEF Enqueue, contexts, python, outcome, Steps
<1>3. CASE Gather(r)
  BY <1>3 DEF Gather, packages, python, outcome, Steps
<1>4. CASE Enter(r)
  BY <1>4 DEF Enter, contexts, packages, python, Steps
<1>5. CASE Store(r)
  <2>1. faults' \in 0..MaxFaults
    BY <1>5, FaultType DEF Store
  <2>. QED BY <1>5, <2>1 DEF Store, packages, python, Steps
<1>6. CASE Clean(r)
  BY <1>6 DEF Clean, contexts, packages, outcome, Steps
<1>7. CASE Report(r)
  <2>1. faults' \in 0..MaxFaults
    BY <1>7, FaultType DEF Report
  <2>2. mishaps' \in [Runs -> SUBSET Mishaps]
    <3>1. mishaps' = mishaps \/ mishaps' = [mishaps EXCEPT ![r] = @ \cup {"log"}]
      BY <1>7 DEF Report
    <3>. QED BY <3>1 DEF Mishaps
  <2>. QED BY <1>7, <2>1, <2>2 DEF Report, contexts, packages, python, Steps
<1>8. CASE Clear(r)
  BY <1>0, <1>8 DEF Clear, packages, python, outcome, Steps
<1>9. CASE Sleep(r)
  BY <1>9 DEF Sleep, contexts, packages, python
<1>. QED BY <1>1, <1>2, <1>3, <1>4, <1>5, <1>6, <1>7, <1>8, <1>9 DEF Execute

LEMMA TypeNext == TypeOK /\ [Next]_vars => TypeOK'
<1>. SUFFICES ASSUME TypeOK, [Next]_vars PROVE TypeOK'
  OBVIOUS
<1>1. ASSUME NEW r \in Runs, BeginObjects(r) \/ BeginGrid(r) \/ BeginNoGrid(r) PROVE TypeOK'
  BY <1>1, BeginType
<1>2. ASSUME NEW r \in Runs, Execute(r) PROVE TypeOK'
  BY <1>2, ExecuteType
<1>3. CASE Take
  <2>1. tasks # <<>> /\ tasks \in Seq(JobIds)
    BY <1>3 DEF Take, TypeOK
  <2>2. Head(tasks) \in JobIds /\ Tail(tasks) \in Seq(JobIds)
    BY <2>1
  <2>. QED BY <1>3, <2>2 DEF Take, TypeOK, contexts, python, outcome, JobStates
<1>4. CASE Validate
  <2>1. faults' \in 0..MaxFaults
    BY <1>4, FaultType DEF Validate
  <2>2. mishaps' \in [Runs -> SUBSET Mishaps]
    BY <1>4 DEF Validate, Mishaps, TypeOK
  <2>. QED BY <1>4, <2>1, <2>2 DEF Validate, TypeOK, contexts, packages, outcome
<1>5. ASSUME NEW p \in JobIds, Work(p) PROVE TypeOK'
  BY <1>5, WorkType
<1>6. CASE UNCHANGED vars
  BY <1>6 DEF vars, contexts, packages, python, outcome, TypeOK
<1>. QED BY <1>1, <1>2, <1>3, <1>4, <1>5, <1>6 DEF Next

\* The executions, their contexts and packages and the interpreter keep their types, and
\* no package leaves the objects of its execution.
THEOREM AnalysisTypeCorrect == Spec => []TypeOK
BY TypeInit, TypeNext, PTL DEF Spec

-----------------------------------------------------------------------------
(* Nobody works on a package of an execution that has none yet, or no longer *)

Untouched == {"waiting", "load"}
Ended == {"store", "storing", "clean", "report", "clear", "over"}

\* The packages of an execution exist from its split on and are done with its wait.
Idle ==
  \A p \in JobIds : /\ pc[p[1]] \in Untouched => job[p] = "none"
                    /\ pc[p[1]] \in Ended => job[p] \in {"none", "done"}

\* What waits for a thread is queued, once.
Queue ==
  \A i \in 1..Len(tasks) :
    /\ job[tasks[i]] = "queued"
    /\ \A j \in 1..Len(tasks) : tasks[i] = tasks[j] => i = j

IdleInv == TypeOK /\ Idle /\ Queue

LEMMA JobIdsPair ==
  ASSUME NEW p \in JobIds
  PROVE  p = <<p[1], p[2]>>
BY DEF JobIds

\* What a thread does to its package.
LEMMA WorkJob ==
  ASSUME TypeOK, NEW p \in JobIds, Work(p)
  PROVE  /\ pc' = pc /\ tasks' = tasks
         /\ job[p] \in {"taken", "loaded", "calling", "operator"}
         /\ \E x \in {"loaded", "calling", "operator", "done"} : job' = [job EXCEPT ![p] = x]
<1>. USE DEF TypeOK, packages
<1>1. CASE Skip(p) \/ LoadScript(p) \/ Import(p) \/ Call(p) \/ Raise(p)
  BY <1>1 DEF Skip, LoadScript, Import, Call, Raise
<1>2. CASE Compute(p) \/ Return(p)
  BY <1>2 DEF Compute, Return, Value
<1>3. CASE OperatorFails(p) \/ Misuse(p)
  <2>1. /\ job' = job /\ pc' = pc /\ tasks' = tasks
        /\ job[p] \in {"calling", "operator"}
    BY <1>3 DEF OperatorFails, Misuse
  <2>2. job' = [job EXCEPT ![p] = job[p]]
    BY <2>1
  <2>. QED BY <2>1, <2>2
<1>. QED BY <1>1, <1>2, <1>3 DEF Work

\* The steps of an execution but for the one that makes packages.
LEMMA ExecutePc ==
  ASSUME TypeOK, NEW r \in Runs,
         \/ BeginObjects(r) \/ BeginGrid(r) \/ BeginNoGrid(r) \/ Load(r) \/ Gather(r)
         \/ Enter(r) \/ Sleep(r) \/ Store(r) \/ Clean(r) \/ Report(r) \/ Clear(r)
  PROVE  /\ job' = job /\ tasks' = tasks
         /\ \E x \in Steps :
              /\ pc' = [pc EXCEPT ![r] = x]
              /\ \/ pc[r] = "waiting" /\ x \in {"load", "report"}
                 \/ pc[r] = "load" /\ x \in {"split", "clean"}
                 \/ /\ pc[r] = "wait" /\ x \in Ended
                    /\ \A i \in PackagesOf(r) : job[<<r, i>>] = "done"
                 \/ pc[r] \in Ended /\ x \in Ended
<1>. USE DEF TypeOK, packages, Steps, Ended
<1>1. CASE BeginObjects(r)
  BY <1>1 DEF BeginObjects, Begins
<1>2. CASE BeginGrid(r)
  BY <1>2 DEF BeginGrid, Begins
<1>3. CASE BeginNoGrid(r) \/ Load(r)
  BY <1>3 DEF BeginNoGrid, Load
<1>4. CASE Gather(r)
  BY <1>4 DEF Gather
<1>5. CASE Enter(r) \/ Store(r) \/ Clean(r) \/ Report(r) \/ Clear(r)
  BY <1>5 DEF Enter, Store, Clean, Report, Clear
<1>6. CASE Sleep(r)
  <2>1. pc' = [pc EXCEPT ![r] = "store"] /\ pc[r] = "store" /\ job' = job /\ tasks' = tasks
    BY <1>6 DEF Sleep
  <2>. QED BY <2>1
<1>. QED BY <1>1, <1>2, <1>3, <1>4, <1>5, <1>6

LEMMA IdleInit == Init => IdleInv
<1>. SUFFICES ASSUME Init PROVE Idle /\ Queue
  BY TypeInit DEF IdleInv
<1>1. Idle
  BY JobIdsFacts DEF Init, Idle, Ended
<1>2. Queue
  BY DEF Init, Queue
<1>. QED BY <1>1, <1>2

LEMMA IdleNext == IdleInv /\ [Next]_vars => IdleInv'
<1>. SUFFICES ASSUME IdleInv, [Next]_vars PROVE Idle' /\ Queue'
  BY TypeNext DEF IdleInv
<1>. USE DEF IdleInv
<1>0. pc \in [Runs -> Steps] /\ job \in [JobIds -> JobStates] /\ tasks \in Seq(JobIds)
  BY DEF TypeOK
<1>1. ASSUME NEW r \in Runs,
             \/ BeginObjects(r) \/ BeginGrid(r) \/ BeginNoGrid(r) \/ Load(r) \/ Gather(r)
             \/ Enter(r) \/ Sleep(r) \/ Store(r) \/ Clean(r) \/ Report(r) \/ Clear(r)
      PROVE  Idle' /\ Queue'
  <2>1. job' = job /\ tasks' = tasks
    BY <1>1, ExecutePc
  <2>2. PICK x \in Steps :
          /\ pc' = [pc EXCEPT ![r] = x]
          /\ \/ pc[r] = "waiting" /\ x \in {"load", "report"}
             \/ pc[r] = "load" /\ x \in {"split", "clean"}
             \/ /\ pc[r] = "wait" /\ x \in Ended
                /\ \A i \in PackagesOf(r) : job[<<r, i>>] = "done"
             \/ pc[r] \in Ended /\ x \in Ended
    BY <1>1, ExecutePc
  <2>3. ASSUME NEW p \in JobIds
        PROVE  /\ pc'[p[1]] \in Untouched => job[p] = "none"
               /\ pc'[p[1]] \in Ended => job[p] \in {"none", "done"}
    <3>1. p[1] \in Runs /\ p[2] \in PackagesOf(p[1]) /\ p = <<p[1], p[2]>>
      BY JobIdsFacts, JobIdsPair
    <3>2. CASE p[1] # r
      BY <1>0, <2>2, <3>1, <3>2 DEF Idle
    <3>3. CASE p[1] = r
      BY <1>0, <2>2, <3>1, <3>3 DEF Idle, Untouched, Ended
    <3>. QED BY <3>2, <3>3
  <2>. QED BY <2>1, <2>3 DEF Idle, Queue
<1>2. ASSUME NEW r \in Runs, Enqueue(r) PROVE Idle' /\ Queue'
  <2>1. PICK i \in PackagesOf(r) :
          /\ job[<<r, i>>] = "none"
          /\ job' = [job EXCEPT ![<<r, i>>] = "queued"]
          /\ tasks' = Append(tasks, <<r, i>>)
          /\ pc' = [pc EXCEPT ![r] = IF i = Packages(PoolSize, SizeOf(r)) THEN "wait" ELSE @]
    BY <1>2 DEF Enqueue
  <2>2. pc[r] = "split" /\ <<r, i>> \in JobIds
    BY <1>2 DEF Enqueue, JobIds
  <2>3. ASSUME NEW p \in JobIds
        PROVE  /\ pc'[p[1]] \in Untouched => job'[p] = "none"
               /\ pc'[p[1]] \in Ended => job'[p] \in {"none", "done"}
    <3>1. p[1] \in Runs
      BY JobIdsFacts
    <3>2. CASE p[1] # r
      BY <1>0, <2>1, <3>1, <3>2 DEF Idle
    <3>3. CASE p[1] = r
      <4>1. pc'[r] \in {"split", "wait"}
        BY <1>0, <2>1, <2>2
      <4>. QED BY <3>3, <4>1 DEF Untouched, Ended
    <3>. QED BY <3>2, <3>3
  <2>4. Queue'
    <3>. DEFINE n == Len(tasks)
    <3>1. /\ n \in Nat /\ Len(tasks') = n + 1 /\ tasks'[n + 1] = <<r, i>>
          /\ \A j \in 1..n : tasks'[j] = tasks[j] /\ tasks[j] \in JobIds
      BY <1>0, <2>1, <2>2
    <3>. HIDE DEF n
    <3>2. \A j \in 1..n : tasks[j] # <<r, i>> /\ job[tasks[j]] = "queued"
      BY <2>1 DEF Queue, n
    <3>3. \A j \in 1..(n + 1) : job'[tasks'[j]] = "queued"
      BY <1>0, <2>1, <2>2, <3>1, <3>2
    <3>4. \A j, k \in 1..(n + 1) : tasks'[j] = tasks'[k] => j = k
      BY <3>1, <3>2 DEF Queue, n
    <3>. QED BY <3>1, <3>3, <3>4 DEF Queue
  <2>. QED BY <2>3, <2>4 DEF Idle
<1>3. CASE Take
  <2>. DEFINE h == Head(tasks)
  <2>1. tasks # <<>> /\ tasks' = Tail(tasks) /\ job' = [job EXCEPT ![h] = "taken"] /\ pc' = pc
    BY <1>3 DEF Take
  <2>2. /\ Len(tasks) \in Nat /\ Len(tasks) # 0 /\ h = tasks[1] /\ h \in JobIds
        /\ Len(tasks') = Len(tasks) - 1
        /\ \A j \in 1..Len(tasks') : tasks'[j] = tasks[j + 1] /\ tasks[j + 1] \in JobIds
    BY <1>0, <2>1
  <2>3. job[h] = "queued"
    BY <2>2 DEF Queue
  <2>. HIDE DEF h
  <2>4. Idle'
    BY <1>0, <2>1, <2>2, <2>3 DEF Idle
  <2>5. ASSUME NEW j \in 1..Len(tasks')
        PROVE  /\ job'[tasks'[j]] = "queued"
               /\ \A k \in 1..Len(tasks') : tasks'[j] = tasks'[k] => j = k
    <3>1. j + 1 \in 1..Len(tasks) /\ 1 \in 1..Len(tasks) /\ j + 1 # 1
      BY <2>2
    <3>2. tasks[j + 1] # h /\ job[tasks[j + 1]] = "queued"
      BY <2>2, <3>1 DEF Queue
    <3>3. job'[tasks'[j]] = "queued"
      BY <1>0, <2>1, <2>2, <3>2
    <3>4. ASSUME NEW k \in 1..Len(tasks'), tasks'[j] = tasks'[k] PROVE j = k
      <4>1. k + 1 \in 1..Len(tasks) /\ tasks[j + 1] = tasks[k + 1]
        BY <2>2, <3>4
      <4>2. j + 1 = k + 1
        BY <3>1, <4>1 DEF Queue
      <4>. QED BY <2>2, <4>2
    <3>. QED BY <3>3, <3>4
  <2>. QED BY <2>4, <2>5 DEF Queue
<1>4. CASE Validate \/ UNCHANGED vars
  <2>1. pc' = pc /\ job' = job /\ tasks' = tasks
    BY <1>4 DEF Validate, vars, packages
  <2>. QED BY <2>1 DEF Idle, Queue
<1>5. ASSUME NEW p \in JobIds, Work(p) PROVE Idle' /\ Queue'
  <2>1. pc' = pc /\ tasks' = tasks /\ job[p] \in {"taken", "loaded", "calling", "operator"}
    BY <1>5, WorkJob
  <2>2. PICK x : job' = [job EXCEPT ![p] = x]
    BY <1>5, WorkJob
  <2>3. pc[p[1]] \notin Untouched /\ pc[p[1]] \notin Ended
    BY <2>1 DEF Idle
  <2>4. Idle'
    BY <1>0, <2>1, <2>2, <2>3 DEF Idle
  <2>5. \A i \in 1..Len(tasks) : tasks[i] # p
    BY <2>1 DEF Queue
  <2>6. \A i \in 1..Len(tasks) : tasks[i] \in JobIds
    BY <1>0
  <2>7. Queue'
    BY <1>0, <2>1, <2>2, <2>5, <2>6 DEF Queue
  <2>. QED BY <2>4, <2>7
<1>. QED BY <1>1, <1>2, <1>3, <1>4, <1>5 DEF Next, Execute

-----------------------------------------------------------------------------
(* One interpreter *)

\* Between its script and an operator a package holds the mutex of the interpreter.
Held == \A p \in JobIds : job[p] \in {"loaded", "calling"} => holder = p

\* The script that a package has loaded is still there, but for a validation.
Loaded ==
  \A p \in JobIds :
    job[p] = "loaded" /\ "validate" \notin mishaps[p[1]] => module = Analysis[p[1]]

ScriptInv == IdleInv /\ Held /\ Loaded /\ OwnScript

\* No step but those of the threads and a validation touches the interpreter.
LEMMA Elsewhere ==
  ASSUME TypeOK, NEW r \in Runs,
         BeginObjects(r) \/ BeginGrid(r) \/ BeginNoGrid(r) \/ Execute(r)
  PROVE  /\ UNCHANGED <<holder, module, script>>
         /\ \A p \in JobIds : job'[p] \in {"loaded", "calling", "operator"} => job'[p] = job[p]
         /\ \A s \in Runs : mishaps[s] \subseteq mishaps'[s]
<1>. USE DEF TypeOK, python, packages
<1>1. CASE BeginObjects(r) \/ BeginGrid(r)
  <2>1. UNCHANGED <<holder, module, script, job>> /\ Begins(r)
    BY <1>1 DEF BeginObjects, BeginGrid
  <2>2. \A s \in Runs : mishaps[s] \subseteq mishaps'[s]
    BY <2>1 DEF Begins
  <2>. QED BY <2>1, <2>2
<1>2. CASE BeginNoGrid(r)
  BY <1>2 DEF BeginNoGrid
<1>3. CASE Load(r) \/ Gather(r) \/ Enter(r) \/ Sleep(r) \/ Store(r) \/ Clean(r) \/ Clear(r)
  BY <1>3 DEF Load, Gather, Enter, Sleep, Store, Clean, Clear
<1>4. CASE Report(r)
  BY <1>4 DEF Report
<1>5. CASE Enqueue(r)
  BY <1>5 DEF Enqueue
<1>. QED BY <1>1, <1>2, <1>3, <1>4, <1>5 DEF Execute

LEMMA NoneIsNoJob == None \notin JobIds
<1>1. JobIds \subseteq Runs \X Nat
  BY AnalysisRunAssumption DEF JobIds, PackagesOf, Packages
<1>. QED BY <1>1, AnalysisRunAssumption

\* What each step of a thread does to the interpreter.
LEMMA WorkScript ==
  ASSUME TypeOK, Held, Loaded, OwnScript, NEW p \in JobIds, Work(p)
  PROVE  Held' /\ Loaded' /\ OwnScript'
<1>0. /\ job \in [JobIds -> JobStates] /\ script \in [JobIds -> Analyses \cup {None}]
      /\ p[1] \in Runs
  BY JobIdsFacts DEF TypeOK
<1>1. CASE Skip(p)
  <2>1. job' = [job EXCEPT ![p] = "done"] /\ UNCHANGED <<holder, module, script, mishaps>>
    BY <1>1 DEF Skip
  <2>. QED BY <1>0, <2>1 DEF Held, Loaded, OwnScript
<1>2. CASE LoadScript(p)
  <2>1. /\ holder = None /\ holder' = p /\ module' = Analysis[p[1]]
        /\ job' = [job EXCEPT ![p] = "loaded"] /\ UNCHANGED <<script, mishaps>>
    BY <1>2 DEF LoadScript
  <2>2. \A q \in JobIds : job[q] \notin {"loaded", "calling"}
    BY <2>1, NoneIsNoJob DEF Held
  <2>. QED BY <1>0, <2>1, <2>2 DEF Held, Loaded, OwnScript
<1>3. CASE Import(p)
  <2>1. /\ job[p] = "loaded" /\ job' = [job EXCEPT ![p] = "calling"]
        /\ script' = [script EXCEPT ![p] = module] /\ UNCHANGED <<holder, module, mishaps>>
    BY <1>3 DEF Import
  <2>. QED BY <1>0, <2>1 DEF Held, Loaded, OwnScript
<1>4. CASE Call(p)
  <2>1. /\ job[p] = "calling" /\ job' = [job EXCEPT ![p] = "operator"] /\ holder' = None
        /\ UNCHANGED <<script, module, mishaps>>
    BY <1>4 DEF Call
  <2>2. \A q \in JobIds : q # p => job[q] \notin {"loaded", "calling"}
    BY <2>1 DEF Held
  <2>. QED BY <1>0, <2>1, <2>2 DEF Held, Loaded, OwnScript
<1>5. CASE Compute(p) \/ Return(p)
  <2>1. /\ job[p] \in {"calling", "operator"} /\ UNCHANGED <<script, module, mishaps>>
        /\ job[p] = "operator" => holder = None
    BY <1>5 DEF Compute, Return, Value
  <2>2. \/ job' = [job EXCEPT ![p] = "calling"] /\ holder' = p
        \/ job' = [job EXCEPT ![p] = "done"] /\ holder' = None
    BY <1>5 DEF Compute, Return, Value
  <2>3. \A q \in JobIds : q # p => job[q] \notin {"loaded", "calling"}
    BY <2>1, NoneIsNoJob DEF Held
  <2>. QED BY <1>0, <2>1, <2>2, <2>3 DEF Held, Loaded, OwnScript
<1>6. CASE Raise(p)
  <2>1. /\ job' = [job EXCEPT ![p] = "done"] /\ UNCHANGED <<script, module, mishaps>>
        /\ job[p] \in {"loaded", "calling"} \/ holder = None
    BY <1>6 DEF Raise
  <2>2. \A q \in JobIds : q # p => job[q] \notin {"loaded", "calling"}
    BY <2>1, NoneIsNoJob DEF Held
  <2>. QED BY <1>0, <2>1, <2>2 DEF Held, Loaded, OwnScript
<1>7. CASE Misuse(p)
  <2>1. /\ UNCHANGED <<job, holder, script, module>>
        /\ mishaps' = [mishaps EXCEPT ![p[1]] = @ \cup {"misuse"}]
    BY <1>7 DEF Misuse, packages, python
  <2>2. \A q \in JobIds : mishaps[q[1]] \subseteq mishaps'[q[1]]
    BY <1>0, <2>1, JobIdsFacts DEF TypeOK
  <2>. QED BY <2>1, <2>2 DEF Held, Loaded, OwnScript
<1>8. CASE OperatorFails(p)
  BY <1>8 DEF OperatorFails, packages, python, Held, Loaded, OwnScript
<1>. QED BY <1>1, <1>2, <1>3, <1>4, <1>5, <1>6, <1>7, <1>8 DEF Work

LEMMA ScriptNext == ScriptInv /\ [Next]_vars => ScriptInv'
<1>. SUFFICES ASSUME ScriptInv, [Next]_vars PROVE Held' /\ Loaded' /\ OwnScript'
  BY IdleNext DEF ScriptInv
<1>. USE DEF ScriptInv, IdleInv
<1>1. ASSUME NEW r \in Runs, BeginObjects(r) \/ BeginGrid(r) \/ BeginNoGrid(r) \/ Execute(r)
      PROVE  Held' /\ Loaded' /\ OwnScript'
  <2>1. /\ UNCHANGED <<holder, module, script>>
        /\ \A p \in JobIds : job'[p] \in {"loaded", "calling", "operator"} => job'[p] = job[p]
        /\ \A p \in JobIds : mishaps[p[1]] \subseteq mishaps'[p[1]]
    BY <1>1, Elsewhere, JobIdsFacts
  <2>. QED BY <2>1 DEF Held, Loaded, OwnScript
<1>2. CASE Take
  <2>1. UNCHANGED <<holder, module, script, mishaps>> /\ job' = [job EXCEPT ![Head(tasks)] = "taken"]
    BY <1>2 DEF Take, python
  <2>2. \A p \in JobIds : job'[p] \in {"loaded", "calling", "operator"} => job'[p] = job[p]
    BY <2>1 DEF TypeOK
  <2>. QED BY <2>1, <2>2 DEF Held, Loaded, OwnScript
<1>3. CASE Validate
  <2>1. /\ UNCHANGED <<holder, script, job, pc>>
        /\ mishaps' = [r \in Runs |-> mishaps[r] \cup {m \in {"validate"} : pc[r] \in {"split", "wait"}}]
    BY <1>3 DEF Validate, packages
  <2>2. ASSUME NEW p \in JobIds
        PROVE  /\ mishaps[p[1]] \subseteq mishaps'[p[1]]
               /\ job[p] = "loaded" => "validate" \in mishaps'[p[1]]
    <3>1. p[1] \in Runs
      BY JobIdsFacts
    <3>2. job[p] = "loaded" => pc[p[1]] \in {"split", "wait"}
      BY <3>1 DEF Idle, Untouched, Ended, TypeOK, Steps
    <3>. QED BY <2>1, <3>1, <3>2
  <2>. QED BY <2>1, <2>2 DEF Held, Loaded, OwnScript
<1>4. ASSUME NEW p \in JobIds, Work(p) PROVE Held' /\ Loaded' /\ OwnScript'
  BY <1>4, WorkScript
<1>5. CASE UNCHANGED vars
  BY <1>5 DEF vars, packages, python, Held, Loaded, OwnScript
<1>. QED BY <1>1, <1>2, <1>3, <1>4, <1>5 DEF Next

\* A package goes on with the script of its own analysis, whoever loads a script while
\* its operators work, unless an analysis is validated.
THEOREM OwnScriptCorrect == Spec => []OwnScript
<1>1. Init => ScriptInv
  BY IdleInit DEF Init, ScriptInv, Held, Loaded, OwnScript
<1>2. ScriptInv => OwnScript
  BY DEF ScriptInv
<1>. QED BY <1>1, <1>2, ScriptNext, PTL DEF Spec

-----------------------------------------------------------------------------
(* The sleepers of the StoragerManager *)

\* Who is in vecURIs_ is storing, and who sleeps has still to store.
Writers ==
  /\ \A r \in uris : pc[r] = "storing"
  /\ \A r \in asleep : pc[r] = "store"

SleepInv == TypeOK /\ Writers /\ SleepersAreWoken

\* A step of somebody who neither stores nor sleeps.
LEMMA SleepKeeps ==
  ASSUME SleepInv, UNCHANGED <<uris, asleep>>,
         \A r \in Runs : pc'[r] = pc[r] \/ pc[r] \notin {"store", "storing"}
  PROVE  Writers' /\ SleepersAreWoken'
<1>1. uris \subseteq Runs /\ asleep \subseteq Runs
  BY DEF SleepInv, TypeOK
<1>2. \A r \in uris \cup asleep : pc'[r] = pc[r]
  BY <1>1 DEF SleepInv, Writers
<1>. QED BY <1>2 DEF SleepInv, Writers, SleepersAreWoken

LEMMA SleepStorager ==
  ASSUME SleepInv, NEW r \in Runs, Enter(r) \/ Sleep(r) \/ Store(r)
  PROVE  Writers' /\ SleepersAreWoken'
<1>. USE DEF SleepInv
<1>0. pc \in [Runs -> Steps] /\ uris \subseteq Runs /\ asleep \subseteq Runs
  BY DEF TypeOK
<1>1. CASE Enter(r)
  <2>1. /\ r \notin asleep /\ uris' = uris \cup {r} /\ asleep' = asleep
        /\ pc' = [pc EXCEPT ![r] = "storing"]
    BY <1>1 DEF Enter
  <2>2. \A s \in Runs : s # r => pc'[s] = pc[s]
    BY <1>0, <2>1
  <2>3. pc[r] = "store" /\ pc'[r] = "storing"
    BY <1>0, <1>1, <2>1 DEF Enter
  <2>4. Writers'
    BY <1>0, <2>1, <2>2, <2>3 DEF Writers
  <2>5. \A s \in uris : pc'[s] = pc[s]
    BY <1>0, <2>2, <2>3 DEF Writers
  <2>6. SleepersAreWoken'
    BY <2>1, <2>5 DEF SleepersAreWoken
  <2>. QED BY <2>4, <2>6
<1>2. CASE Sleep(r)
  <2>1. /\ pc[r] = "store" /\ ~Free(r) /\ asleep' = asleep \cup {r}
        /\ pc' = pc /\ uris' = uris
    BY <1>2 DEF Sleep
  <2>2. Writers'
    BY <2>1 DEF Writers
  <2>3. \E s \in uris : s # r /\ Target[Analysis[s]] = Target[Analysis[r]] /\ pc[s] = "storing"
    BY <2>1 DEF Free, Writers
  <2>4. SleepersAreWoken'
    BY <2>1, <2>3 DEF SleepersAreWoken
  <2>. QED BY <2>2, <2>4
<1>3. CASE Store(r)
  <2>1. asleep' = {} /\ uris' = uris \ {r} /\ pc' = [pc EXCEPT ![r] = "clean"]
    BY <1>3 DEF Store
  <2>2. \A s \in uris' : pc'[s] = pc[s]
    BY <1>0, <2>1
  <2>. QED BY <2>1, <2>2 DEF Writers, SleepersAreWoken
<1>. QED BY <1>1, <1>2, <1>3

LEMMA SleepNext == SleepInv /\ [Next]_vars => SleepInv'
<1>. SUFFICES ASSUME SleepInv, [Next]_vars PROVE Writers' /\ SleepersAreWoken'
  BY TypeNext DEF SleepInv
<1>0. pc \in [Runs -> Steps]
  BY DEF SleepInv, TypeOK
<1>1. ASSUME NEW r \in Runs, Enter(r) \/ Sleep(r) \/ Store(r)
      PROVE  Writers' /\ SleepersAreWoken'
  BY <1>1, SleepStorager
<1>2. ASSUME NEW r \in Runs, BeginObjects(r) \/ BeginGrid(r) \/ BeginNoGrid(r)
      PROVE  Writers' /\ SleepersAreWoken'
  <2>1. UNCHANGED <<uris, asleep>> /\ pc[r] = "waiting" /\ \E x : pc' = [pc EXCEPT ![r] = x]
    BY <1>2 DEF BeginObjects, BeginGrid, BeginNoGrid, Begins, outcome
  <2>. QED BY <1>0, <2>1, SleepKeeps
<1>3. ASSUME NEW r \in Runs,
             Load(r) \/ Enqueue(r) \/ Gather(r) \/ Clean(r) \/ Report(r) \/ Clear(r)
      PROVE  Writers' /\ SleepersAreWoken'
  <2>1. /\ UNCHANGED <<uris, asleep>> /\ pc[r] \notin {"store", "storing"}
        /\ \E x : pc' = [pc EXCEPT ![r] = x]
    BY <1>3 DEF Load, Enqueue, Gather, Clean, Report, Clear, outcome
  <2>. QED BY <1>0, <2>1, SleepKeeps
<1>4. ASSUME NEW p \in JobIds, Work(p) PROVE Writers' /\ SleepersAreWoken'
  <2>1. CASE Skip(p) \/ LoadScript(p) \/ Import(p) \/ Call(p)
    BY <2>1, SleepKeeps DEF Skip, LoadScript, Import, Call, outcome
  <2>2. CASE Compute(p) \/ Return(p)
    BY <2>2, SleepKeeps DEF Compute, Return, Value, outcome
  <2>3. CASE Raise(p) \/ OperatorFails(p) \/ Misuse(p)
    BY <2>3, SleepKeeps DEF Raise, OperatorFails, Misuse, outcome
  <2>. QED BY <1>4, <2>1, <2>2, <2>3 DEF Work
<1>5. CASE Take \/ Validate \/ UNCHANGED vars
  BY <1>5, SleepKeeps DEF Take, Validate, vars, outcome
<1>. QED BY <1>1, <1>2, <1>3, <1>4, <1>5 DEF Next, Execute

\* No execution sleeps for a URI that nobody stores to, for any number of executions that
\* store to it and whatever storagers throw: each sleeper has an execution to wake it up.
THEOREM SleepersAreWokenCorrect == Spec => []SleepersAreWoken
<1>1. Init => SleepInv
  BY TypeInit DEF Init, SleepInv, Writers, SleepersAreWoken
<1>2. SleepInv => SleepersAreWoken
  BY DEF SleepInv
<1>. QED BY <1>1, <1>2, SleepNext, PTL DEF Spec

-----------------------------------------------------------------------------
(* The contexts *)

\* Between the call of the executor and its signal.
Active == Steps \ {"waiting", "clear", "over"}

\* No other execution of r's hash had begun and not given its context back when r
\* began, and r was given a context.
Own(r) == mishaps[r] \cap {"shared", "nogrid"} = {}

\* The executions of an analysis come one after the other.
OneByOne ==
  \A r, s \in Runs : r # s /\ Analysis[r] = Analysis[s] => ~(pc[r] \in Active /\ pc[s] \in Active)

\* While r is active no other execution of its hash begins.
Alone ==
  \A r, s \in Runs :
    r # s /\ Hash(r) = Hash(s) /\ Own(r) /\ pc[r] \in Active => pc[s] \in {"waiting", "over"}

\* A hash leads to nothing when no execution of it is under way.
Fresh ==
  \A h \in Hashes : (\A r \in Runs : Hash(r) = h => pc[r] \in {"waiting", "over"}) =>
    context[h] = None /\ ~errors[h]

\* The hash of an execution leads to it, with the error of its own operators and no other.
OwnContext ==
  \A r \in Runs : pc[r] \in Active /\ Own(r) =>
    /\ context[Hash(r)] = r
    /\ errors[Hash(r)] <=> "misuse" \in mishaps[r]

\* The hash of an execution that works on its objects leads to no other execution.
NoOther ==
  \A r \in Runs : pc[r] \in {"load", "split", "wait"} /\ ~IsGrid(r) =>
    context[Hash(r)] \in {r, None}

\* No operator is misused before the execution begins.
Innocent == \A r \in Runs : pc[r] = "waiting" => "misuse" \notin mishaps[r]

\* A hash leads to an execution of its own analysis and date.
Homely == \A h \in Hashes : context[h] # None => Hash(context[h]) = h

ContextInv == IdleInv /\ OneByOne /\ Alone /\ Fresh /\ OwnContext /\ NoOther /\ Innocent /\ Homely

LEMMA HashFacts ==
  /\ \A r \in Runs : Hash(r) \in Hashes
  /\ \A r, s \in Runs : Hash(r) = Hash(s) => Analysis[r] = Analysis[s]
BY DEF Hash, Hashes

LEMMA NoneIsNoRun == None \notin Runs
BY AnalysisRunAssumption

\* A step that leaves the contexts alone and begins and ends no execution.
Calm ==
  /\ UNCHANGED <<context, errors>>
  /\ \A r \in Runs : /\ mishaps[r] \subseteq mishaps'[r]
                     /\ "misuse" \in mishaps'[r] => "misuse" \in mishaps[r]
  /\ \A r \in Runs : \/ pc'[r] = pc[r]
                     \/ pc[r] \in Active /\ pc'[r] \in Active \cup {"clear"}
  /\ \A r \in Runs : pc'[r] \in {"load", "split", "wait"} => pc[r] \in {"load", "split", "wait"}

LEMMA CalmKeeps ==
  ASSUME TypeOK, OneByOne, Alone, Fresh, OwnContext, NoOther, Innocent, Homely, Calm
  PROVE  OneByOne' /\ Alone' /\ Fresh' /\ OwnContext' /\ NoOther' /\ Innocent' /\ Homely'
<1>1. \A r \in Runs : /\ pc'[r] \in Active => pc[r] \in Active
                      /\ pc[r] \in {"waiting", "over"} <=> pc'[r] \in {"waiting", "over"}
  BY DEF Calm, Active
<1>2. \A r \in Runs : Own(r)' => Own(r)
  BY DEF Calm, Own
<1>3. OneByOne'
  BY <1>1 DEF OneByOne
<1>4. Alone'
  BY <1>1, <1>2 DEF Alone
<1>5. Fresh'
  BY <1>1 DEF Fresh, Calm
<1>6. OwnContext'
  <2>1. \A r \in Runs : "misuse" \in mishaps'[r] <=> "misuse" \in mishaps[r]
    BY DEF Calm
  <2>. QED BY <1>1, <1>2, <2>1 DEF OwnContext, Calm
<1>7. NoOther'
  BY DEF NoOther, Calm
<1>8. Innocent'
  BY DEF Innocent, Calm, Active
<1>9. Homely'
  BY DEF Homely, Hash, Calm
<1>. QED BY <1>3, <1>4, <1>5, <1>6, <1>7, <1>8, <1>9

LEMMA ContextBegin ==
  ASSUME ContextInv, NEW r \in Runs, BeginObjects(r) \/ BeginGrid(r)
  PROVE  OneByOne' /\ Alone' /\ Fresh' /\ OwnContext' /\ NoOther' /\ Innocent' /\ Homely'
<1>0. /\ pc \in [Runs -> Steps] /\ mishaps \in [Runs -> SUBSET Mishaps]
      /\ context \in [Hashes -> Runs \cup {None}] /\ errors \in [Hashes -> BOOLEAN]
      /\ Hash(r) \in Hashes
  BY HashFacts DEF ContextInv, IdleInv, TypeOK
<1>1. Begins(r) /\ pc[r] = "waiting"
  BY DEF BeginObjects, BeginGrid, Begins
<1>2. PICK x \in {"load", "report"} : pc' = [pc EXCEPT ![r] = x]
  BY DEF BeginObjects, BeginGrid
<1>3. pc'[r] = x /\ \A s \in Runs : s # r => pc'[s] = pc[s]
  BY <1>0, <1>2
<1>4. \A s \in Runs : s # r => mishaps'[s] = mishaps[s]
  BY <1>0, <1>1 DEF Begins
<1>5. \A s \in Runs : s # r /\ Analysis[s] = Analysis[r] => pc[s] \notin Active
  BY <1>1 DEF Begins, Active
<1>6. \A s \in Runs : s # r /\ Hash(s) = Hash(r) => pc[s] \notin Active
  BY <1>5, HashFacts
<1>7. Own(r)' => \A s \in Runs : s # r /\ Hash(s) = Hash(r) => pc[s] \in {"waiting", "over"}
  <2>1. SUFFICES ASSUME NEW s \in Runs, s # r, Hash(s) = Hash(r), pc[s] \notin {"waiting", "over"}
                 PROVE  "shared" \in mishaps'[r]
    BY DEF Own
  <2>2. mishaps'[r] = mishaps[r] \cup {m \in {"shared"} : \E t \in Runs :
                         t # r /\ Hash(t) = Hash(r) /\ pc[t] \notin {"waiting", "over"}}
    BY <1>0, <1>1 DEF Begins
  <2>. QED BY <2>1, <2>2
<1>8. \A h \in Hashes : h # Hash(r) => context'[h] = context[h] /\ errors'[h] = errors[h]
  <2>1. context' = context \/ \E v : context' = [context EXCEPT ![Hash(r)] = v]
    BY DEF BeginObjects, BeginGrid
  <2>2. errors' = errors \/ errors' = [errors EXCEPT ![Hash(r)] = TRUE]
    BY DEF BeginObjects, BeginGrid
  <2>. QED BY <1>0, <2>1, <2>2
<1>9. context[Hash(r)] = None =>
        context'[Hash(r)] = r /\ errors'[Hash(r)] = errors[Hash(r)]
  BY <1>0 DEF BeginObjects, BeginGrid
<1>10. pc'[r] \in Active
  BY <1>3 DEF Active, Steps
<1>11. OneByOne'
  BY <1>3, <1>5 DEF OneByOne, ContextInv
<1>12. \A s \in Runs : s # r /\ Own(s)' => Own(s)
  BY <1>4 DEF Own
<1>13. Alone'
  BY <1>3, <1>6, <1>7, <1>12 DEF Alone, ContextInv
<1>14. Fresh'
  <2>1. SUFFICES ASSUME NEW h \in Hashes, \A s \in Runs : Hash(s) = h => pc'[s] \in {"waiting", "over"}
                 PROVE  context'[h] = None /\ ~errors'[h]
    BY DEF Fresh
  <2>2. h # Hash(r)
    BY <1>3, <2>1
  <2>3. \A s \in Runs : Hash(s) = h => pc[s] \in {"waiting", "over"}
    BY <1>3, <2>1, <2>2
  <2>. QED BY <1>8, <2>2, <2>3 DEF Fresh, ContextInv
<1>17. "misuse" \notin mishaps'[r]
  BY <1>0, <1>1 DEF Begins, Innocent, ContextInv
<1>18. Innocent'
  BY <1>3, <1>4, <1>10 DEF Innocent, Active, ContextInv
<1>15. OwnContext'
  <2>1. SUFFICES ASSUME NEW s \in Runs, pc'[s] \in Active, Own(s)'
                 PROVE  /\ context'[Hash(s)] = s
                        /\ errors'[Hash(s)] <=> "misuse" \in mishaps'[s]
    BY DEF OwnContext
  <2>2. CASE s = r
    <3>1. \A t \in Runs : Hash(t) = Hash(r) => pc[t] \in {"waiting", "over"}
      BY <1>1, <1>7, <2>1, <2>2
    <3>2. context[Hash(r)] = None /\ ~errors[Hash(r)]
      BY <1>0, <3>1 DEF Fresh, ContextInv
    <3>. QED BY <1>9, <1>17, <2>2, <3>2
  <2>3. CASE s # r
    <3>1. Hash(s) # Hash(r) /\ Hash(s) \in Hashes /\ pc[s] \in Active
      BY <1>3, <1>6, <2>1, <2>3, HashFacts
    <3>. QED BY <1>4, <1>8, <1>12, <2>1, <2>3, <3>1 DEF OwnContext, ContextInv
  <2>. QED BY <2>2, <2>3
<1>16. NoOther'
  <2>1. SUFFICES ASSUME NEW s \in Runs, pc'[s] \in {"load", "split", "wait"}, ~IsGrid(s)
                 PROVE  context'[Hash(s)] \in {s, None}
    BY DEF NoOther
  <2>2. CASE s = r
    <3>1. BeginObjects(r) /\ pc'[r] # "report"
      BY <2>1, <2>2 DEF BeginGrid
    <3>2. context' = [context EXCEPT ![Hash(r)] = r]
      BY <1>0, <3>1 DEF BeginObjects
    <3>. QED BY <1>0, <2>2, <3>2
  <2>3. CASE s # r
    <3>1. pc[s] \in {"load", "split", "wait"}
      BY <1>3, <2>1, <2>3
    <3>2. Hash(s) # Hash(r) /\ Hash(s) \in Hashes
      BY <1>6, <2>3, <3>1, HashFacts DEF Active, Steps
    <3>. QED BY <1>8, <2>1, <3>1, <3>2 DEF NoOther, ContextInv
  <2>. QED BY <2>2, <2>3
<1>19. Homely'
  <2>1. context' = context \/ context' = [context EXCEPT ![Hash(r)] = r]
    BY <1>0 DEF BeginObjects, BeginGrid
  <2>. QED BY <1>0, <2>1 DEF Homely, ContextInv, Hash
<1>. QED BY <1>11, <1>13, <1>14, <1>15, <1>16, <1>18, <1>19

LEMMA ContextBeginNoGrid ==
  ASSUME ContextInv, NEW r \in Runs, BeginNoGrid(r)
  PROVE  OneByOne' /\ Alone' /\ Fresh' /\ OwnContext' /\ NoOther' /\ Innocent' /\ Homely'
<1>1. /\ pc \in [Runs -> Steps] /\ mishaps \in [Runs -> SUBSET Mishaps]
      /\ pc' = [pc EXCEPT ![r] = "report"]
      /\ mishaps' = [mishaps EXCEPT ![r] = @ \cup {"nogrid"}]
      /\ UNCHANGED <<context, errors>>
  BY DEF BeginNoGrid, ContextInv, IdleInv, TypeOK
<1>2. \A s \in Runs : s # r /\ Analysis[s] = Analysis[r] => pc[s] \notin Active
  BY DEF BeginNoGrid, Active
<1>3. \A s \in Runs : s # r /\ Hash(s) = Hash(r) => pc[s] \notin Active
  BY <1>2, HashFacts
<1>4. /\ pc'[r] = "report" /\ ~Own(r)'
      /\ \A s \in Runs : s # r => pc'[s] = pc[s] /\ mishaps'[s] = mishaps[s]
  BY <1>1 DEF Own
<1>5. \A s \in Runs : s # r /\ Own(s)' => Own(s)
  BY <1>4 DEF Own
<1>6. OneByOne'
  BY <1>2, <1>4 DEF OneByOne, ContextInv
<1>7. Alone'
  BY <1>3, <1>4, <1>5 DEF Alone, ContextInv
<1>8. pc[r] = "waiting"
  BY DEF BeginNoGrid
<1>9. Fresh'
  BY <1>1, <1>4, <1>8 DEF Fresh, ContextInv
<1>10. OwnContext'
  BY <1>1, <1>4, <1>5 DEF OwnContext, ContextInv
<1>11. NoOther'
  BY <1>1, <1>4 DEF NoOther, ContextInv
<1>12. Innocent'
  BY <1>4 DEF Innocent, ContextInv
<1>13. Homely'
  BY <1>1 DEF Homely, Hash, ContextInv
<1>. QED BY <1>6, <1>7, <1>9, <1>10, <1>11, <1>12, <1>13

LEMMA ContextClear ==
  ASSUME ContextInv, NEW r \in Runs, Clear(r)
  PROVE  OneByOne' /\ Alone' /\ Fresh' /\ OwnContext' /\ NoOther' /\ Innocent' /\ Homely'
<1>1. /\ pc \in [Runs -> Steps]
      /\ context \in [Hashes -> Runs \cup {None}] /\ errors \in [Hashes -> BOOLEAN]
      /\ Hash(r) \in Hashes
      /\ pc[r] = "clear" /\ pc' = [pc EXCEPT ![r] = "over"]
      /\ context' = [context EXCEPT ![Hash(r)] = None]
      /\ errors' = [errors EXCEPT ![Hash(r)] = FALSE]
      /\ mishaps' = mishaps
  BY HashFacts DEF Clear, ContextInv, IdleInv, TypeOK
<1>2. pc'[r] = "over" /\ \A s \in Runs : s # r => pc'[s] = pc[s]
  BY <1>1
<1>3. /\ context'[Hash(r)] = None /\ ~errors'[Hash(r)]
      /\ \A h \in Hashes : h # Hash(r) => context'[h] = context[h] /\ errors'[h] = errors[h]
  BY <1>1
<1>4. "over" \notin Active
  BY DEF Active
<1>5. \A s \in Runs : Own(s)' = Own(s)
  BY <1>1 DEF Own
<1>6. OneByOne'
  BY <1>2, <1>4 DEF OneByOne, ContextInv
<1>7. Alone'
  BY <1>2, <1>4, <1>5 DEF Alone, ContextInv
<1>8. Fresh'
  <2>1. SUFFICES ASSUME NEW h \in Hashes, h # Hash(r),
                        \A s \in Runs : Hash(s) = h => pc'[s] \in {"waiting", "over"}
                 PROVE  context'[h] = None /\ ~errors'[h]
    BY <1>3 DEF Fresh
  <2>2. \A s \in Runs : Hash(s) = h => pc[s] \in {"waiting", "over"}
    BY <1>2, <2>1
  <2>. QED BY <1>3, <2>1, <2>2 DEF Fresh, ContextInv
<1>9. OwnContext'
  <2>1. SUFFICES ASSUME NEW s \in Runs, pc'[s] \in Active, Own(s)'
                 PROVE  /\ context'[Hash(s)] = s
                        /\ errors'[Hash(s)] <=> "misuse" \in mishaps'[s]
    BY DEF OwnContext
  <2>2. s # r /\ pc[s] \in Active /\ Own(s)
    BY <1>2, <1>4, <1>5, <2>1
  <2>3. Hash(s) # Hash(r)
    BY <1>1, <2>2 DEF Alone, ContextInv
  <2>. QED BY <1>1, <1>3, <2>2, <2>3, HashFacts DEF OwnContext, ContextInv
<1>10. NoOther'
  <2>1. SUFFICES ASSUME NEW s \in Runs, pc'[s] \in {"load", "split", "wait"}, ~IsGrid(s)
                 PROVE  context'[Hash(s)] \in {s, None}
    BY DEF NoOther
  <2>2. pc[s] \in {"load", "split", "wait"}
    BY <1>2, <2>1
  <2>3. Hash(s) = Hash(r) \/ context'[Hash(s)] = context[Hash(s)]
    BY <1>3, HashFacts
  <2>. QED BY <1>3, <2>1, <2>2, <2>3 DEF NoOther, ContextInv
<1>11. Innocent'
  BY <1>1, <1>2 DEF Innocent, ContextInv
<1>12. Homely'
  BY <1>3 DEF Homely, Hash, ContextInv
<1>. QED BY <1>6, <1>7, <1>8, <1>9, <1>10, <1>11, <1>12

\* The execution of a package that a thread works on splits its objects or waits.
LEMMA AtWork ==
  ASSUME IdleInv, NEW p \in JobIds, job[p] \notin {"none", "queued", "done"}
  PROVE  p[1] \in Runs /\ pc[p[1]] \in {"split", "wait"}
<1>1. p[1] \in Runs
  BY JobIdsFacts
<1>. QED BY <1>1 DEF IdleInv, Idle, Untouched, Ended, TypeOK, Steps

LEMMA ContextMisuse ==
  ASSUME ContextInv, NEW p \in JobIds, Misuse(p)
  PROVE  OneByOne' /\ Alone' /\ Fresh' /\ OwnContext' /\ NoOther' /\ Innocent' /\ Homely'
<1>. DEFINE r == p[1]
<1>1. /\ r \in Runs /\ pc[r] \in {"split", "wait"} /\ Hash(r) \in Hashes
  BY AtWork, HashFacts DEF Misuse, ContextInv
<1>. HIDE DEF r
<1>2. /\ errors \in [Hashes -> BOOLEAN] /\ mishaps \in [Runs -> SUBSET Mishaps]
      /\ pc' = pc /\ context' = context
      /\ errors' = [errors EXCEPT ![Hash(r)] = TRUE]
      /\ mishaps' = [mishaps EXCEPT ![r] = @ \cup {"misuse"}]
  BY DEF Misuse, ContextInv, IdleInv, TypeOK, r
<1>3. /\ "misuse" \in mishaps'[r]
      /\ \A s \in Runs : s # r => mishaps'[s] = mishaps[s]
      /\ \A h \in Hashes : h # Hash(r) => errors'[h] = errors[h]
      /\ \A s \in Runs : Own(s)' = Own(s)
  BY <1>1, <1>2 DEF Own
<1>4. OneByOne' /\ Alone' /\ NoOther'
  BY <1>2, <1>3 DEF OneByOne, Alone, NoOther, ContextInv
<1>5. Fresh'
  BY <1>1, <1>2, <1>3 DEF Fresh, ContextInv
<1>6. OwnContext'
  <2>1. SUFFICES ASSUME NEW s \in Runs, pc[s] \in Active, Own(s)
                 PROVE  /\ context[Hash(s)] = s
                        /\ errors'[Hash(s)] <=> "misuse" \in mishaps'[s]
    BY <1>2, <1>3 DEF OwnContext
  <2>2. context[Hash(s)] = s
    BY <2>1 DEF OwnContext, ContextInv
  <2>3. CASE s = r
    <3>1. errors'[Hash(r)] = TRUE
      BY <1>1, <1>2
    <3>. QED BY <1>3, <2>2, <2>3, <3>1
  <2>4. CASE s # r
    <3>1. Hash(s) # Hash(r) /\ Hash(s) \in Hashes
      BY <1>1, <2>1, <2>4, HashFacts DEF Alone, ContextInv
    <3>2. errors[Hash(s)] <=> "misuse" \in mishaps[s]
      BY <2>1 DEF OwnContext, ContextInv
    <3>. QED BY <1>3, <2>2, <2>4, <3>1, <3>2
  <2>. QED BY <2>3, <2>4
<1>7. Innocent'
  BY <1>1, <1>2, <1>3 DEF Innocent, ContextInv
<1>8. Homely'
  BY <1>2 DEF Homely, Hash, ContextInv
<1>. QED BY <1>4, <1>5, <1>6, <1>7, <1>8

LEMMA WorkIsCalm ==
  ASSUME TypeOK, NEW p \in JobIds, Work(p), ~Misuse(p)
  PROVE  Calm /\ UNCHANGED <<pc, mishaps>>
<1>1. UNCHANGED <<pc, context, errors, mishaps>>
  BY DEF Work, Skip, LoadScript, Import, Call, Compute, Return, Value, Raise, OperatorFails,
         contexts, packages
<1>. QED BY <1>1 DEF Calm

LEMMA ExecuteIsCalm ==
  ASSUME TypeOK, NEW r \in Runs, Execute(r), ~Clear(r)
  PROVE  Calm
<1>. USE DEF TypeOK, Active, Steps
<1>1. CASE Load(r) \/ Gather(r) \/ Enter(r) \/ Store(r) \/ Clean(r)
  <2>1. UNCHANGED <<context, errors, mishaps>>
    BY <1>1 DEF Load, Gather, Enter, Store, Clean, contexts
  <2>2. PICK x \in {"split", "clean", "store", "storing", "report"} :
          /\ pc' = [pc EXCEPT ![r] = x]
          /\ pc[r] \in {"load", "wait", "store", "storing", "clean"}
          /\ x = "split" => pc[r] = "load"
    BY <1>1 DEF Load, Gather, Enter, Store, Clean
  <2>. QED BY <2>1, <2>2 DEF Calm
<1>2. CASE Enqueue(r)
  <2>1. UNCHANGED <<context, errors, mishaps>> /\ pc[r] = "split"
    BY <1>2 DEF Enqueue, contexts
  <2>2. pc' = pc \/ pc' = [pc EXCEPT ![r] = "wait"]
    BY <1>2 DEF Enqueue
  <2>. QED BY <2>1, <2>2 DEF Calm
<1>3. CASE Report(r)
  <2>1. /\ UNCHANGED <<context, errors>> /\ pc[r] = "report"
        /\ pc' = [pc EXCEPT ![r] = "clear"]
        /\ mishaps' = mishaps \/ mishaps' = [mishaps EXCEPT ![r] = @ \cup {"log"}]
    BY <1>3 DEF Report, contexts
  <2>2. ASSUME NEW s \in Runs
        PROVE  mishaps[s] \subseteq mishaps'[s] /\ ("misuse" \in mishaps'[s] => "misuse" \in mishaps[s])
    <3>1. mishaps'[s] = mishaps[s] \/ mishaps'[s] = mishaps[s] \cup {"log"}
      BY <2>1
    <3>. QED BY <3>1
  <2>3. pc'[r] = "clear" /\ \A s \in Runs : s # r => pc'[s] = pc[s]
    BY <2>1
  <2>. QED BY <2>1, <2>2, <2>3 DEF Calm
<1>4. CASE Sleep(r)
  BY <1>4 DEF Sleep, contexts, Calm
<1>. QED BY <1>1, <1>2, <1>3, <1>4 DEF Execute

LEMMA ContextNext == ContextInv /\ [Next]_vars => ContextInv'
<1>. SUFFICES ASSUME ContextInv, [Next]_vars
              PROVE  OneByOne' /\ Alone' /\ Fresh' /\ OwnContext' /\ NoOther' /\ Innocent' /\ Homely'
  BY IdleNext DEF ContextInv
<1>0. Calm => OneByOne' /\ Alone' /\ Fresh' /\ OwnContext' /\ NoOther' /\ Innocent' /\ Homely'
  BY CalmKeeps DEF ContextInv, IdleInv
<1>1. ASSUME NEW r \in Runs, BeginObjects(r) \/ BeginGrid(r) \/ BeginNoGrid(r) \/ Execute(r)
      PROVE  OneByOne' /\ Alone' /\ Fresh' /\ OwnContext' /\ NoOther' /\ Innocent' /\ Homely'
  BY <1>0, <1>1, ContextBegin, ContextBeginNoGrid, ContextClear, ExecuteIsCalm DEF ContextInv, IdleInv
<1>2. CASE Take
  BY <1>0, <1>2 DEF Take, contexts, Calm
<1>3. CASE Validate
  <2>1. /\ UNCHANGED <<pc, context, errors>>
        /\ \A r \in Runs : /\ mishaps[r] \subseteq mishaps'[r]
                           /\ "misuse" \in mishaps'[r] => "misuse" \in mishaps[r]
    BY <1>3 DEF Validate, contexts
  <2>. QED BY <1>0, <2>1 DEF Calm
<1>4. ASSUME NEW p \in JobIds, Work(p)
      PROVE  OneByOne' /\ Alone' /\ Fresh' /\ OwnContext' /\ NoOther' /\ Innocent' /\ Homely'
  BY <1>0, <1>4, ContextMisuse, WorkIsCalm DEF ContextInv, IdleInv
<1>5. CASE UNCHANGED vars
  BY <1>0, <1>5 DEF vars, contexts, Calm
<1>. QED BY <1>1, <1>2, <1>3, <1>4, <1>5 DEF Next

LEMMA ContextInit == Init => ContextInv
<1>. SUFFICES ASSUME Init PROVE OneByOne /\ Alone /\ Fresh /\ OwnContext /\ NoOther /\ Innocent /\ Homely
  BY IdleInit DEF ContextInv
<1>1. \A r \in Runs : pc[r] = "waiting"
  BY DEF Init
<1>2. \A h \in Hashes : context[h] = None /\ ~errors[h]
  BY DEF Init
<1>3. Innocent
  BY DEF Init, Innocent
<1>. QED BY <1>1, <1>2, <1>3 DEF OneByOne, Alone, Fresh, OwnContext, NoOther, Homely, Active

\* While a thread works on a package its execution has not begun to store, to delete the
\* Python states or to report, and until an execution reports its hash leads to its own
\* context and to the errors of its own operators, for any number of executions, packages
\* and threads and any failures; but for executions that began when another one of their
\* hash had not given its context back, and those without a grid.
THEOREM NothingTakenAwayCorrect == Spec => []NothingTakenAway
<1>1. ASSUME ContextInv PROVE NothingTakenAway
  <2>1. \A p \in Working : pc[p[1]] \in {"split", "wait"}
    BY <1>1, AtWork DEF Working, ContextInv
  <2>2. ASSUME NEW r \in Runs, pc[r] \notin {"waiting", "clear", "over"},
               mishaps[r] \cap {"shared", "nogrid"} = {}
        PROVE  context[Hash(r)] = r /\ (errors[Hash(r)] <=> "misuse" \in mishaps[r])
    <3>1. pc[r] \in Active /\ Own(r)
      BY <1>1, <2>2 DEF Active, Own, ContextInv, IdleInv, TypeOK
    <3>. QED BY <1>1, <3>1 DEF ContextInv, OwnContext
  <2>. QED BY <2>1, <2>2 DEF NothingTakenAway
<1>. QED BY <1>1, ContextInit, ContextNext, PTL DEF Spec

-----------------------------------------------------------------------------
(* The report *)

\* Who is stored, failed and reported at each step.
Verdict ==
  \A r \in Runs :
    /\ pc[r] \notin {"clear", "over"} => signal[r] = "none"
    /\ pc[r] \notin Ended => r \notin stored
    /\ pc[r] \in {"store", "storing"} => r \notin hasError /\ r \notin stored
    /\ pc[r] \in {"clean", "report"} /\ Own(r) => (r \in stored <=> r \notin hasError)

ReportInv == ContextInv /\ Verdict /\ ReportIsRight

LEMMA OwnBegins ==
  ASSUME ContextInv, NEW r \in Runs, Begins(r), Own(r)'
  PROVE  context[Hash(r)] = None
<1>1. /\ pc[r] = "waiting" /\ mishaps \in [Runs -> SUBSET Mishaps]
      /\ mishaps'[r] = mishaps[r] \cup {m \in {"shared"} : \E t \in Runs :
                         t # r /\ Hash(t) = Hash(r) /\ pc[t] \notin {"waiting", "over"}}
  BY DEF Begins, ContextInv, IdleInv, TypeOK
<1>2. \A s \in Runs : Hash(s) = Hash(r) => pc[s] \in {"waiting", "over"}
  BY <1>1 DEF Own
<1>. QED BY <1>2, HashFacts DEF Fresh, ContextInv

\* A step that stores and reports nothing and fails at most an execution that is not
\* stored or reported yet.
LEMMA ReportKeeps ==
  ASSUME ContextInv, Verdict, ReportIsRight,
         UNCHANGED <<signal, stored>>,
         \A r \in Runs : mishaps[r] \subseteq mishaps'[r],
         \A r \in Runs : r \in hasError => r \in hasError',
         \A r \in Runs :
           \/ pc'[r] = pc[r] /\ pc[r] \in Ended \ {"clear", "over"} => (r \in hasError' <=> r \in hasError)
           \/ pc'[r] \notin Ended /\ pc[r] \notin Ended,
         \A r \in Runs : pc'[r] = pc[r] \/ (pc[r] \notin Ended /\ pc'[r] \notin Ended)
  PROVE  Verdict' /\ ReportIsRight'
<1>1. \A r \in Runs : Own(r)' => Own(r)
  BY DEF Own
<1>2. ReportIsRight'
  BY DEF ReportIsRight
<1>3. Verdict'
  BY <1>1 DEF Verdict, Ended
<1>. QED BY <1>2, <1>3

LEMMA ReportBegin ==
  ASSUME ContextInv, Verdict, ReportIsRight, NEW r \in Runs,
         BeginObjects(r) \/ BeginGrid(r) \/ BeginNoGrid(r)
  PROVE  Verdict' /\ ReportIsRight'
<1>1. /\ pc \in [Runs -> Steps] /\ mishaps \in [Runs -> SUBSET Mishaps]
      /\ pc[r] = "waiting" /\ UNCHANGED <<signal, stored>>
      /\ hasError' \subseteq hasError \cup {r} /\ hasError \subseteq hasError'
  BY DEF BeginObjects, BeginGrid, BeginNoGrid, Begins, outcome, ContextInv, IdleInv, TypeOK
<1>2. PICK x \in {"load", "report"} : pc' = [pc EXCEPT ![r] = x]
  BY DEF BeginObjects, BeginGrid, BeginNoGrid
<1>3. x = "report" => ~Own(r)'
  <2>1. CASE BeginNoGrid(r)
    BY <1>1, <2>1 DEF BeginNoGrid, Own
  <2>2. CASE BeginGrid(r)
    BY <1>1, <1>2, <2>2 DEF BeginGrid
  <2>3. CASE BeginObjects(r)
    <3>1. Begins(r)
      BY <2>3 DEF BeginObjects
    <3>2. x = "report" => context[Hash(r)] # None
      BY <1>1, <1>2, <2>3 DEF BeginObjects
    <3>. QED BY <3>1, <3>2, OwnBegins
  <2>. QED BY <2>1, <2>2, <2>3
<1>4. pc'[r] = x /\ \A s \in Runs : s # r => pc'[s] = pc[s]
  BY <1>1, <1>2
<1>5. \A s \in Runs : s # r => mishaps'[s] = mishaps[s]
  BY <1>1 DEF BeginObjects, BeginGrid, BeginNoGrid, Begins
<1>6. signal[r] = "none" /\ r \notin stored
  BY <1>1 DEF Verdict, Ended
<1>7. Verdict'
  <2>1. \A s \in Runs : s # r /\ Own(s)' => Own(s)
    BY <1>5 DEF Own
  <2>. QED BY <1>1, <1>3, <1>4, <1>6, <2>1 DEF Verdict
<1>8. ReportIsRight'
  BY <1>1, <1>5, <1>6 DEF ReportIsRight
<1>. QED BY <1>7, <1>8

\* What the ContextManager knows of an execution with a context of its own.
LEMMA KnownIsError ==
  ASSUME ContextInv, NEW r \in Runs, pc[r] \in Active, Own(r), "misuse" \notin mishaps[r]
  PROVE  Known(Hash(r)) <=> r \in hasError
<1>1. context[Hash(r)] = r /\ ~errors[Hash(r)]
  BY DEF ContextInv, OwnContext
<1>. QED BY <1>1, NoneIsNoRun DEF Known

LEMMA ReportReport ==
  ASSUME ContextInv, Verdict, ReportIsRight, NEW r \in Runs, Report(r)
  PROVE  Verdict' /\ ReportIsRight'
<1>1. /\ pc \in [Runs -> Steps] /\ mishaps \in [Runs -> SUBSET Mishaps]
      /\ signal \in [Runs -> {"none", "done", "failed"}]
      /\ pc[r] = "report" /\ pc' = [pc EXCEPT ![r] = "clear"]
      /\ UNCHANGED <<stored, hasError>>
  BY DEF Report, contexts, ContextInv, IdleInv, TypeOK
<1>2. \/ /\ signal' = [signal EXCEPT ![r] = IF Known(Hash(r)) THEN "failed" ELSE "done"]
         /\ mishaps' = mishaps
      \/ /\ signal' = [signal EXCEPT ![r] = "failed"]
         /\ mishaps' = [mishaps EXCEPT ![r] = @ \cup {"log"}]
  BY DEF Report
<1>3. /\ pc'[r] = "clear"
      /\ \A s \in Runs : s # r => pc'[s] = pc[s] /\ signal'[s] = signal[s] /\ mishaps'[s] = mishaps[s]
      /\ mishaps[r] \subseteq mishaps'[r]
  <2>1. \A s \in Runs : s # r => signal'[s] = signal[s]
    BY <1>1, <1>2
  <2>2. \A s \in Runs : s # r => mishaps'[s] = mishaps[s]
    BY <1>1, <1>2
  <2>3. mishaps[r] \subseteq mishaps'[r]
    BY <1>1, <1>2
  <2>. QED BY <1>1, <2>1, <2>2, <2>3
<1>4. Verdict'
  <2>1. \A s \in Runs : s # r /\ Own(s)' => Own(s)
    BY <1>3 DEF Own
  <2>. QED BY <1>1, <1>3, <2>1 DEF Verdict, Ended
<1>5. ASSUME mishaps'[r] \cap {"shared", "misuse", "nogrid", "log"} = {}
      PROVE  signal'[r] = "done" <=> r \in stored
  <2>1. Own(r) /\ "misuse" \notin mishaps[r] /\ "log" \notin mishaps'[r]
    BY <1>3, <1>5 DEF Own
  <2>2. signal'[r] = IF Known(Hash(r)) THEN "failed" ELSE "done"
    BY <1>1, <1>2, <2>1
  <2>3. Known(Hash(r)) <=> r \in hasError
    BY <1>1, <2>1, KnownIsError DEF Active, Steps
  <2>4. r \in stored <=> r \notin hasError
    BY <1>1, <2>1 DEF Verdict
  <2>. QED BY <2>2, <2>3, <2>4
<1>6. ReportIsRight'
  BY <1>1, <1>3, <1>5 DEF ReportIsRight
<1>. QED BY <1>4, <1>6

LEMMA ReportExecute ==
  ASSUME ContextInv, Verdict, ReportIsRight, NEW r \in Runs, Execute(r)
  PROVE  Verdict' /\ ReportIsRight'
<1>0. /\ pc \in [Runs -> Steps] /\ TypeOK
  BY DEF ContextInv, IdleInv, TypeOK
<1>1. CASE Load(r) \/ Gather(r) \/ Enter(r) \/ Clean(r) \/ Clear(r)
  <2>1. UNCHANGED <<signal, stored, mishaps>>
    BY <1>1 DEF Load, Gather, Enter, Clean, Clear, outcome
  <2>2. PICK x \in Steps :
          /\ pc' = [pc EXCEPT ![r] = x]
          /\ \/ pc[r] = "load" /\ x = "split" /\ hasError' = hasError
             \/ pc[r] = "load" /\ x = "clean" /\ hasError' = hasError \cup {r}
             \/ pc[r] = "wait" /\ x = "store" /\ r \notin hasError /\ hasError' = hasError
             \/ pc[r] = "wait" /\ x = "clean" /\ hasError' = hasError \cup {r}
             \/ pc[r] = "store" /\ x = "storing" /\ hasError' = hasError
             \/ pc[r] = "clean" /\ x = "report" /\ hasError' = hasError
             \/ pc[r] = "clear" /\ x = "over" /\ hasError' = hasError
    BY <1>1 DEF Load, Gather, Enter, Clean, Clear, contexts, Steps
  <2>3. pc'[r] = x /\ \A s \in Runs : s # r => pc'[s] = pc[s] /\ (s \in hasError' <=> s \in hasError)
    BY <1>0, <2>2
  <2>4. \A s \in Runs : Own(s)' = Own(s)
    BY <2>1 DEF Own
  <2>5. /\ pc[r] \notin {"clear", "over"} => signal[r] = "none"
        /\ pc[r] \notin Ended => r \notin stored
        /\ pc[r] \in {"store", "storing"} => r \notin hasError /\ r \notin stored
        /\ pc[r] \in {"clean", "report"} /\ Own(r) => (r \in stored <=> r \notin hasError)
    BY DEF Verdict
  <2>6. /\ x \notin {"clear", "over"} => signal[r] = "none"
        /\ x \notin Ended => r \notin stored
        /\ x \in {"store", "storing"} => r \notin hasError' /\ r \notin stored
        /\ x \in {"clean", "report"} /\ Own(r) => (r \in stored <=> r \notin hasError')
    BY <2>2, <2>5 DEF Ended
  <2>7. Verdict'
    BY <2>1, <2>3, <2>4, <2>6 DEF Verdict
  <2>8. ReportIsRight'
    BY <2>1 DEF ReportIsRight
  <2>. QED BY <2>7, <2>8
<1>2. CASE Enqueue(r)
  <2>1. UNCHANGED <<signal, stored, mishaps, hasError>> /\ pc[r] = "split"
    BY <1>2 DEF Enqueue, contexts, outcome
  <2>2. pc' = pc \/ pc' = [pc EXCEPT ![r] = "wait"]
    BY <1>0, <1>2 DEF Enqueue
  <2>3. \A s \in Runs : pc'[s] = pc[s] \/ (pc[s] \notin Ended /\ pc'[s] \notin Ended)
    BY <1>0, <2>1, <2>2 DEF Ended
  <2>. QED BY <2>1, <2>3, ReportKeeps
<1>3. CASE Store(r)
  <2>1. /\ pc[r] = "storing" /\ pc' = [pc EXCEPT ![r] = "clean"] /\ UNCHANGED <<signal, mishaps>>
        /\ \/ stored' = stored \cup {r} /\ hasError' = hasError
           \/ stored' = stored /\ hasError' = hasError \cup {r}
    BY <1>3 DEF Store
  <2>2. r \notin hasError /\ r \notin stored /\ signal[r] = "none"
    BY <2>1 DEF Verdict
  <2>3. /\ pc'[r] = "clean" /\ (r \in stored' <=> r \notin hasError')
        /\ \A s \in Runs : s # r => /\ pc'[s] = pc[s]
                                    /\ s \in stored' <=> s \in stored
                                    /\ s \in hasError' <=> s \in hasError
    BY <1>0, <2>1, <2>2
  <2>4. \A s \in Runs : Own(s)' = Own(s)
    BY <2>1 DEF Own
  <2>5. Verdict'
    BY <2>1, <2>2, <2>3, <2>4 DEF Verdict, Ended
  <2>6. ReportIsRight'
    BY <2>1, <2>2, <2>3 DEF ReportIsRight
  <2>. QED BY <2>5, <2>6
<1>4. CASE Report(r)
  BY <1>4, ReportReport
<1>5. CASE Sleep(r)
  BY <1>5, ReportKeeps DEF Sleep, contexts
<1>. QED BY <1>1, <1>2, <1>3, <1>4, <1>5 DEF Execute

\* The error of an operator goes to the execution itself or to one that is not active.
LEMMA FoundElsewhere ==
  ASSUME ContextInv, NEW p \in JobIds, OperatorFails(p)
  PROVE  Found(p) \in Runs /\ (Found(p) = p[1] \/ pc[Found(p)] \notin Active)
<1>1. p[1] \in Runs /\ pc[p[1]] \in {"split", "wait"}
  BY AtWork DEF OperatorFails, ContextInv
<1>2. CASE ~IsGrid(p[1])
  BY <1>1, <1>2 DEF Found
<1>3. CASE IsGrid(p[1])
  <2>1. Found(p) = context[Hash(p[1])] /\ Found(p) # None
    BY <1>3 DEF Found, OperatorFails
  <2>2. Found(p) \in Runs /\ Analysis[Found(p)] = Analysis[p[1]]
    BY <1>1, <2>1, HashFacts DEF ContextInv, Homely, IdleInv, TypeOK
  <2>. QED BY <1>1, <2>2 DEF ContextInv, OneByOne, Active, Steps
<1>. QED BY <1>2, <1>3

LEMMA ReportNext == ReportInv /\ [Next]_vars => ReportInv'
<1>. SUFFICES ASSUME ReportInv, [Next]_vars PROVE Verdict' /\ ReportIsRight'
  BY ContextNext DEF ReportInv
<1>. USE DEF ReportInv
<1>1. ASSUME NEW r \in Runs, BeginObjects(r) \/ BeginGrid(r) \/ BeginNoGrid(r) \/ Execute(r)
      PROVE  Verdict' /\ ReportIsRight'
  BY <1>1, ReportBegin, ReportExecute
<1>2. CASE Take \/ Validate
  <2>1. UNCHANGED <<pc, signal, stored, hasError>> /\ \A r \in Runs : mishaps[r] \subseteq mishaps'[r]
    BY <1>2 DEF Take, Validate, contexts, outcome
  <2>. QED BY <2>1, ReportKeeps
<1>3. ASSUME NEW p \in JobIds, Work(p)
      PROVE  Verdict' /\ ReportIsRight'
  <2>1. IdleInv
    BY DEF ContextInv
  <2>2. /\ UNCHANGED <<pc, signal, stored>> /\ job[p] \notin {"none", "queued", "done"}
        /\ \/ hasError' = hasError \/ hasError' = hasError \cup {p[1]}
           \/ OperatorFails(p) /\ hasError' = hasError \cup {Found(p)}
    BY <1>3 DEF Work, Skip, LoadScript, Import, Call, Compute, Return, Value, Raise, OperatorFails,
                Misuse, contexts, outcome
  <2>3. p[1] \in Runs /\ pc[p[1]] \in {"split", "wait"}
    BY <2>1, <2>2, AtWork
  <2>4. \A r \in Runs : mishaps[r] \subseteq mishaps'[r]
    <3>1. mishaps' = mishaps \/ mishaps' = [mishaps EXCEPT ![p[1]] = @ \cup {"misuse"}]
      BY <1>3 DEF Work, Skip, LoadScript, Import, Call, Compute, Return, Value, Raise, OperatorFails, Misuse
    <3>. QED BY <2>1, <3>1 DEF IdleInv, TypeOK
  <2>5. OperatorFails(p) => Found(p) \in Runs /\ (Found(p) = p[1] \/ pc[Found(p)] \notin Active)
    BY <1>3, <2>1, <2>3, FoundElsewhere
  <2>6. \A r \in Runs : pc[r] \in Ended \ {"clear", "over"} => (r \in hasError' <=> r \in hasError)
    BY <2>2, <2>3, <2>5 DEF Ended, Active, Steps
  <2>. QED BY <2>2, <2>4, <2>5, <2>6, ReportKeeps
<1>4. CASE UNCHANGED vars
  BY <1>4, ReportKeeps DEF vars, contexts, outcome
<1>. QED BY <1>1, <1>2, <1>3, <1>4 DEF Next

LEMMA ReportInit == Init => ReportInv
<1>. SUFFICES ASSUME Init PROVE Verdict /\ ReportIsRight
  BY ContextInit DEF ReportInv
<1>. QED BY DEF Init, Verdict, ReportIsRight

\* An execution is reported as done if and only if its result is in the database, for
\* every set of executions, objects, threads and faults, but for those whose context was
\* shared, that misuse an operator, that have no grid, or that cannot be logged.
THEOREM ReportIsRightCorrect == Spec => []ReportIsRight
<1>1. ReportInv => ReportIsRight
  BY DEF ReportInv
<1>. QED BY <1>1, ReportInit, ReportNext, PTL DEF Spec

-----------------------------------------------------------------------------
(* The values *)

\* The package that holds the mutex of the interpreter has its Python state current.
Current == holder # None => current = holder

\* An execution without a grid has failed.
GridMissing == \A r \in Runs : "nogrid" \in mishaps[r] => r \in hasError

\* No error of r and nobody who shares its context.
Sound(r) == r \notin hasError /\ mishaps[r] \cap {"shared", "misuse"} = {}

\* The objects of a package that it is through with.
Through(p, k) == job[p] = "done" \/ (job[p] # "none" /\ k < at[p])

\* Of the objects of each package those have one value that it is through with, the
\* others none.
Values ==
  \A p \in JobIds : Sound(p[1]) =>
    /\ job[p] # "none" => at[p] \in FirstOf(p)..LastOf(p)
    /\ \A k \in FirstOf(p)..LastOf(p) : results[p[1]][k] = IF Through(p, k) THEN 1 ELSE 0

\* Nothing is stored before all packages are done.
Complete ==
  \A r \in Runs :
    /\ pc[r] \in {"store", "storing"} \/ r \in stored
    /\ mishaps[r] \cap {"shared", "misuse"} = {}
    => \A k \in Objects(r) : results[r][k] = 1

ValueInv == ReportInv /\ ScriptInv /\ Current /\ GridMissing /\ Values /\ Complete

\* The packages of an execution have no object in common.
LEMMA PackagesApart ==
  ASSUME NEW p \in JobIds, NEW q \in JobIds, p # q, p[1] = q[1],
         NEW k \in FirstOf(p)..LastOf(p)
  PROVE  k \notin FirstOf(q)..LastOf(q)
<1>1. /\ p[1] \in Runs /\ p[2] \in 1..Packages(PoolSize, SizeOf(p[1]))
      /\ q[2] \in 1..Packages(PoolSize, SizeOf(p[1]))
  BY JobIdsFacts DEF PackagesOf
<1>2. p[2] # q[2]
  BY JobIdsPair
<1>3. SizeOf(p[1]) \in Nat \ {0} /\ PoolSize \in Nat \ {0}
  BY <1>1, SizeType, AnalysisRunAssumption
<1>4. Packages(PoolSize, SizeOf(p[1])) \in Nat
  BY <1>3, Share
<1>5. p[2] < q[2] \/ q[2] < p[2]
  BY <1>1, <1>2, <1>4
<1>6. p[2] < q[2] => LastOf(p) < FirstOf(q)
  BY <1>1, <1>3, PackagesDisjoint DEF FirstOf, LastOf
<1>7. q[2] < p[2] => LastOf(q) < FirstOf(p)
  BY <1>1, <1>3, PackagesDisjoint DEF FirstOf, LastOf
<1>8. FirstOf(p) \in Nat /\ LastOf(p) \in Nat /\ FirstOf(q) \in Nat /\ LastOf(q) \in Nat
  BY PackageBounds DEF Objects
<1>. QED BY <1>5, <1>6, <1>7, <1>8

\* The value of an object goes to the object and the execution that were computed.
LEMMA ValueGoesHome ==
  ASSUME ContextInv, Held, Current, NEW p \in JobIds, Compute(p) \/ Return(p)
  PROVE  /\ p[1] \in Runs /\ pc[p[1]] \in {"split", "wait"}
         /\ job[p] \in {"calling", "operator"}
         /\ results' = [results EXCEPT ![p[1]][at[p]] = @ + 1]
         /\ IF at[p] < LastOf(p)
            THEN at' = [at EXCEPT ![p] = @ + 1] /\ job' = [job EXCEPT ![p] = "calling"]
            ELSE at' = at /\ job' = [job EXCEPT ![p] = "done"]
         /\ UNCHANGED <<pc, hasError, stored, mishaps>>
<1>1. Value(p, p) /\ job[p] \in {"calling", "operator"}
  <2>1. Compute(p) => current = p
    BY NoneIsNoJob DEF Compute, Held, Current
  <2>. QED BY <2>1 DEF Compute, Return
<1>2. p[1] \in Runs /\ pc[p[1]] \in {"split", "wait"}
  BY <1>1, AtWork DEF ContextInv
<1>3. ~IsGrid(p[1]) => context[Hash(p[1])] = p[1]
  BY <1>1, <1>2 DEF Value, ContextInv, NoOther
<1>4. results' = [results EXCEPT ![p[1]][at[p]] = @ + 1]
  BY <1>1, <1>3 DEF Value
<1>. QED BY <1>1, <1>2, <1>4 DEF Value, contexts, outcome

LEMMA ValueKeeps ==
  ASSUME ValueInv, NEW p \in JobIds, Compute(p) \/ Return(p)
  PROVE  Values' /\ Complete'
<1>. USE DEF ValueInv
<1>. DEFINE r == p[1]
<1>0. /\ TypeOK /\ job \in [JobIds -> JobStates] /\ at \in [JobIds -> Nat]
      /\ DOMAIN results = Runs /\ \A s \in Runs : results[s] \in [Objects(s) -> Nat]
      /\ at[p] \in Objects(r)
  BY DEF ScriptInv, IdleInv, TypeOK
<1>1. /\ r \in Runs /\ pc[r] \in {"split", "wait"}
      /\ job[p] \in {"calling", "operator"}
      /\ results' = [results EXCEPT ![r][at[p]] = @ + 1]
      /\ IF at[p] < LastOf(p)
         THEN at' = [at EXCEPT ![p] = @ + 1] /\ job' = [job EXCEPT ![p] = "calling"]
         ELSE at' = at /\ job' = [job EXCEPT ![p] = "done"]
      /\ UNCHANGED <<pc, hasError, stored, mishaps>>
  BY ValueGoesHome DEF ReportInv, ScriptInv
<1>. HIDE DEF r
<1>2. /\ \A s \in Runs : s # r => results'[s] = results[s]
      /\ results'[r][at[p]] = results[r][at[p]] + 1
      /\ \A k \in Objects(r) : k # at[p] => results'[r][k] = results[r][k]
  BY <1>0, <1>1
<1>3. \A q \in JobIds : q # p => at'[q] = at[q] /\ job'[q] = job[q]
  BY <1>0, <1>1
<1>4. \A s \in Runs : Sound(s)' = Sound(s)
  BY <1>1 DEF Sound
<1>5. ASSUME NEW q \in JobIds, Sound(q[1])
      PROVE  /\ job'[q] # "none" => at'[q] \in FirstOf(q)..LastOf(q)
             /\ \A k \in FirstOf(q)..LastOf(q) :
                  results'[q[1]][k] = IF Through(q, k)' THEN 1 ELSE 0
  <2>1. /\ job[q] # "none" => at[q] \in FirstOf(q)..LastOf(q)
        /\ \A k \in FirstOf(q)..LastOf(q) : results[q[1]][k] = IF Through(q, k) THEN 1 ELSE 0
    BY <1>5 DEF Values
  <2>2. FirstOf(q) \in Objects(q[1]) /\ LastOf(q) \in Objects(q[1]) /\ q[1] \in Runs
    BY PackageBounds, JobIdsFacts
  <2>3. SizeOf(q[1]) \in Nat
    BY <2>2, SizeType
  <2>4. FirstOf(q) \in Nat /\ LastOf(q) \in Nat /\ FirstOf(q)..LastOf(q) \subseteq Objects(q[1])
    BY <2>2, <2>3 DEF Objects
  <2>5. CASE q[1] # r
    <3>1. q # p /\ results'[q[1]] = results[q[1]]
      BY <1>2, <2>2, <2>5 DEF r
    <3>. QED BY <1>3, <2>1, <3>1 DEF Through
  <2>6. CASE q[1] = r /\ q # p
    <3>1. Sound(p[1])
      BY <1>5, <2>6 DEF r
    <3>2. at[p] \in FirstOf(p)..LastOf(p)
      BY <1>1, <3>1 DEF Values
    <3>3. at[p] \notin FirstOf(q)..LastOf(q)
      BY <2>6, <3>2, PackagesApart DEF r
    <3>4. \A k \in FirstOf(q)..LastOf(q) : results'[q[1]][k] = results[q[1]][k]
      BY <1>2, <2>4, <2>6, <3>3
    <3>. QED BY <1>3, <2>1, <2>6, <3>4 DEF Through
  <2>7. CASE q = p
    <3>1. at[p] \in FirstOf(p)..LastOf(p) /\ at[p] \in Nat
      BY <1>0, <1>1, <2>1, <2>7
    <3>2. job'[p] # "none" => at'[p] \in FirstOf(p)..LastOf(p)
      BY <1>0, <1>1, <2>4, <2>7, <3>1
    <3>3. ASSUME NEW k \in FirstOf(p)..LastOf(p)
          PROVE  results'[r][k] = IF Through(p, k)' THEN 1 ELSE 0
      <4>1. k \in Objects(r) /\ k \in Nat
        BY <2>4, <2>7, <3>3 DEF r
      <4>2. results[r][k] = IF k < at[p] THEN 1 ELSE 0
        BY <1>1, <2>1, <2>7, <3>3 DEF Through, r
      <4>3. Through(p, k)' <=> k <= at[p]
        BY <1>0, <1>1, <2>4, <2>7, <3>1, <3>3 DEF Through
      <4>4. results'[r][k] = IF k = at[p] THEN 1 ELSE results[r][k]
        BY <1>2, <3>1, <4>1, <4>2
      <4>. QED BY <3>1, <4>1, <4>2, <4>3, <4>4
    <3>. QED BY <2>7, <3>2, <3>3 DEF r
  <2>. QED BY <2>5, <2>6, <2>7
<1>6. Values'
  BY <1>4, <1>5, JobIdsFacts DEF Values
<1>7. Complete'
  <2>1. ASSUME NEW s \in Runs, pc[s] \in {"store", "storing"} \/ s \in stored
        PROVE  results'[s] = results[s]
    <3>1. s # r
      BY <1>1, <2>1 DEF ReportInv, Verdict, Ended
    <3>. QED BY <1>2, <3>1
  <2>. QED BY <1>1, <2>1 DEF Complete
<1>. QED BY <1>6, <1>7

\* A step that gives no object a value and begins or ends no package of an execution
\* without an error.
LEMMA ValuesStay ==
  ASSUME Values, UNCHANGED <<results, at>>,
         hasError \subseteq hasError',
         \A r \in Runs : mishaps[r] \subseteq mishaps'[r],
         \A p \in JobIds : Sound(p[1])' =>
           job'[p] = job[p] \/ (job[p] \notin {"none", "done"} /\ job'[p] \notin {"none", "done"})
  PROVE  Values'
<1>1. \A p \in JobIds : Sound(p[1])' => Sound(p[1])
  BY JobIdsFacts DEF Sound
<1>2. \A p \in JobIds : Sound(p[1])' =>
        /\ job'[p] # "none" => job[p] # "none"
        /\ \A k : Through(p, k)' <=> Through(p, k)
  BY DEF Through
<1>. QED BY <1>1, <1>2 DEF Values

LEMMA CompleteStays ==
  ASSUME Complete, UNCHANGED results,
         \A r \in Runs : mishaps[r] \subseteq mishaps'[r],
         \A r \in Runs : pc'[r] \in {"store", "storing"} \/ r \in stored' =>
                         pc[r] \in {"store", "storing"} \/ r \in stored
  PROVE  Complete'
BY DEF Complete

\* All packages done without an error: every object has its value.
LEMMA AllDone ==
  ASSUME TypeOK, Values, NEW r \in Runs, Sound(r),
         \A i \in PackagesOf(r) : job[<<r, i>>] = "done"
  PROVE  \A k \in Objects(r) : results[r][k] = 1
<1>1. SUFFICES ASSUME NEW k \in Objects(r) PROVE results[r][k] = 1
  OBVIOUS
<1>2. SizeOf(r) \in Nat \ {0} /\ PoolSize \in Nat \ {0} /\ k \in 0..(SizeOf(r) - 1)
  BY <1>1, SizeType, AnalysisRunAssumption DEF Objects
<1>3. PICK i \in PackagesOf(r) : k \in First(PoolSize, SizeOf(r), i)..Last(PoolSize, SizeOf(r), i)
  BY <1>2, PackagesCover DEF PackagesOf
<1>4. <<r, i>> \in JobIds /\ job[<<r, i>>] = "done"
  BY DEF JobIds
<1>5. k \in FirstOf(<<r, i>>)..LastOf(<<r, i>>)
  BY <1>3 DEF FirstOf, LastOf
<1>. QED BY <1>4, <1>5 DEF Values, Through

LEMMA GatherComplete ==
  ASSUME ValueInv, NEW r \in Runs, Gather(r)
  PROVE  Complete'
<1>1. /\ pc \in [Runs -> Steps] /\ TypeOK /\ UNCHANGED <<results, stored, mishaps>>
      /\ \/ r \notin hasError /\ pc' = [pc EXCEPT ![r] = "store"]
         \/ pc' = [pc EXCEPT ![r] = "clean"]
      /\ \A i \in PackagesOf(r) : job[<<r, i>>] = "done"
  BY DEF Gather, outcome, ValueInv, ScriptInv, IdleInv, TypeOK
<1>2. \A s \in Runs : s # r => pc'[s] = pc[s]
  BY <1>1
<1>3. pc[r] = "wait" /\ r \notin stored
  BY DEF Gather, ValueInv, ReportInv, Verdict, Ended
<1>4. pc'[r] \in {"store", "storing"} /\ mishaps[r] \cap {"shared", "misuse"} = {} => Sound(r)
  BY <1>1 DEF Sound
<1>5. pc'[r] \in {"store", "storing"} /\ mishaps[r] \cap {"shared", "misuse"} = {} =>
        \A k \in Objects(r) : results[r][k] = 1
  BY <1>1, <1>4, AllDone DEF ValueInv
<1>. QED BY <1>1, <1>2, <1>3, <1>5 DEF Complete, ValueInv

LEMMA EnqueueValues ==
  ASSUME ValueInv, NEW r \in Runs, Enqueue(r)
  PROVE  Values'
<1>1. /\ job \in [JobIds -> JobStates] /\ at \in [JobIds -> Nat]
      /\ UNCHANGED <<results, hasError, mishaps>>
  BY DEF Enqueue, contexts, ValueInv, ScriptInv, IdleInv, TypeOK
<1>2. PICK i \in PackagesOf(r) :
        /\ job[<<r, i>>] = "none"
        /\ job' = [job EXCEPT ![<<r, i>>] = "queued"]
        /\ at' = [at EXCEPT ![<<r, i>>] = FirstOf(<<r, i>>)]
  BY DEF Enqueue
<1>. DEFINE p == <<r, i>>
<1>3. p \in JobIds
  BY DEF JobIds
<1>4. job[p] = "none" /\ job'[p] = "queued" /\ at'[p] = FirstOf(p)
  BY <1>1, <1>2, <1>3
<1>5. \A q \in JobIds : q # p => job'[q] = job[q] /\ at'[q] = at[q]
  BY <1>1, <1>2
<1>. HIDE DEF p
<1>6. \A q \in JobIds : Sound(q[1])' = Sound(q[1])
  BY <1>1 DEF Sound
<1>7. /\ at'[p] \in FirstOf(p)..LastOf(p)
      /\ \A k \in FirstOf(p)..LastOf(p) : ~Through(p, k) /\ ~Through(p, k)'
  <2>1. FirstOf(p) \in Objects(p[1]) /\ LastOf(p) \in Objects(p[1]) /\ FirstOf(p) <= LastOf(p)
    <3>1. p[1] \in Runs /\ p[2] \in 1..Packages(PoolSize, SizeOf(p[1]))
      BY <1>3, JobIdsFacts DEF PackagesOf
    <3>2. SizeOf(p[1]) \in Nat \ {0} /\ PoolSize \in Nat \ {0}
      BY <3>1, SizeType, AnalysisRunAssumption
    <3>3. FirstOf(p) <= LastOf(p)
      BY <3>1, <3>2, PackagesDisjoint DEF FirstOf, LastOf
    <3>. QED BY <1>3, <3>3, PackageBounds
  <2>. QED BY <1>4, <2>1 DEF Through, Objects
<1>8. \A q \in JobIds : q # p => (job'[q] = "none" <=> job[q] = "none") /\ \A k : Through(q, k)' = Through(q, k)
  BY <1>5 DEF Through
<1>. QED BY <1>1, <1>3, <1>4, <1>5, <1>6, <1>7, <1>8 DEF Values, ValueInv

LEMMA ExecuteValues ==
  ASSUME ValueInv, NEW r \in Runs, Execute(r)
  PROVE  Current' /\ GridMissing' /\ Values' /\ Complete'
<1>. USE DEF ValueInv
<1>0. /\ TypeOK /\ pc \in [Runs -> Steps] /\ mishaps \in [Runs -> SUBSET Mishaps]
  BY DEF ScriptInv, IdleInv, TypeOK
<1>1. /\ results' = results /\ holder' = holder
      /\ current' = current \/ holder = None
      /\ hasError \subseteq hasError'
  BY DEF Execute, Load, Enqueue, Gather, Enter, Sleep, Store, Clean, Report, Clear, contexts, python
<1>2. mishaps' = mishaps \/ mishaps' = [mishaps EXCEPT ![r] = @ \cup {"log"}]
  BY DEF Execute, Load, Enqueue, Gather, Enter, Sleep, Store, Clean, Report, Clear
<1>3. \A s \in Runs : /\ mishaps[s] \subseteq mishaps'[s]
                      /\ "nogrid" \in mishaps'[s] => "nogrid" \in mishaps[s]
  BY <1>0, <1>2
<1>4. Current'
  BY <1>1 DEF Current
<1>5. GridMissing'
  BY <1>1, <1>3 DEF GridMissing
<1>6. CASE Enqueue(r)
  <2>1. pc[r] = "split" /\ stored' = stored
    BY <1>6 DEF Enqueue, outcome
  <2>2. pc' = pc \/ pc' = [pc EXCEPT ![r] = "wait"]
    BY <1>0, <1>6 DEF Enqueue
  <2>3. \A s \in Runs : pc'[s] \in {"store", "storing"} => pc[s] \in {"store", "storing"}
    BY <1>0, <2>2
  <2>. QED BY <1>1, <1>3, <1>4, <1>5, <1>6, <2>1, <2>3, EnqueueValues, CompleteStays
<1>7. CASE ~Enqueue(r)
  <2>1. at' = at /\ job' = job
    BY <1>7 DEF Execute, Load, Gather, Enter, Sleep, Store, Clean, Report, Clear, packages
  <2>2. Values'
    BY <1>1, <1>3, <2>1, ValuesStay
  <2>3. CASE Gather(r)
    BY <1>4, <1>5, <2>2, <2>3, GatherComplete
  <2>4. CASE ~Gather(r)
    <3>1. PICK x \in Steps : /\ pc' = [pc EXCEPT ![r] = x]
                             /\ x \in {"store", "storing"} => pc[r] = "store"
      <4>1. CASE Sleep(r)
        BY <1>0, <4>1 DEF Sleep, Steps
      <4>2. CASE ~Sleep(r)
        BY <1>7, <2>4, <4>2 DEF Execute, Load, Enter, Store, Clean, Report, Clear, Steps
      <4>. QED BY <4>1, <4>2
    <3>2. stored' = stored \/ (pc[r] = "storing" /\ stored' = stored \cup {r})
      BY <1>7, <2>4 DEF Execute, Load, Enter, Sleep, Store, Clean, Report, Clear, outcome
    <3>3. \A s \in Runs : pc'[s] \in {"store", "storing"} \/ s \in stored' =>
                          pc[s] \in {"store", "storing"} \/ s \in stored
      BY <1>0, <3>1, <3>2
    <3>. QED BY <1>1, <1>3, <1>4, <1>5, <2>2, <3>3, CompleteStays
  <2>. QED BY <2>3, <2>4
<1>. QED BY <1>6, <1>7

LEMMA BeginValues ==
  ASSUME ValueInv, NEW r \in Runs, BeginObjects(r) \/ BeginGrid(r) \/ BeginNoGrid(r)
  PROVE  Current' /\ GridMissing' /\ Values' /\ Complete'
<1>. USE DEF ValueInv
<1>0. /\ pc \in [Runs -> Steps] /\ mishaps \in [Runs -> SUBSET Mishaps]
  BY DEF ScriptInv, IdleInv, TypeOK
<1>1. /\ UNCHANGED <<results, at, job, holder, current, stored>>
      /\ hasError \subseteq hasError'
      /\ \E x \in {"load", "report"} : pc' = [pc EXCEPT ![r] = x]
  BY DEF BeginObjects, BeginGrid, BeginNoGrid, packages, python, outcome
<1>2. \A s \in Runs : /\ mishaps[s] \subseteq mishaps'[s]
                      /\ "nogrid" \in mishaps'[s] => "nogrid" \in mishaps[s] \/ s \in hasError'
  <2>1. CASE BeginNoGrid(r)
    BY <1>0, <2>1 DEF BeginNoGrid
  <2>2. CASE Begins(r)
    BY <1>0, <2>2 DEF Begins
  <2>. QED BY <2>1, <2>2 DEF BeginObjects, BeginGrid
<1>3. \A s \in Runs : pc'[s] \in {"store", "storing"} => pc[s] \in {"store", "storing"}
  BY <1>0, <1>1
<1>4. Current' /\ GridMissing'
  BY <1>1, <1>2 DEF Current, GridMissing
<1>5. Values'
  BY <1>1, <1>2, ValuesStay
<1>6. Complete'
  BY <1>1, <1>2, <1>3, CompleteStays
<1>. QED BY <1>4, <1>5, <1>6

LEMMA WorkValues ==
  ASSUME ValueInv, NEW p \in JobIds, Work(p)
  PROVE  Current' /\ GridMissing' /\ Values' /\ Complete'
<1>. USE DEF ValueInv
<1>0. /\ TypeOK /\ job \in [JobIds -> JobStates] /\ mishaps \in [Runs -> SUBSET Mishaps]
      /\ p[1] \in Runs
  BY JobIdsFacts DEF ScriptInv, IdleInv, TypeOK
<1>1. job[p] \in {"taken", "loaded", "calling", "operator"} /\ pc[p[1]] \in {"split", "wait"}
  BY <1>0, WorkJob, AtWork DEF ScriptInv
<1>2. UNCHANGED <<pc, stored>> /\ hasError \subseteq hasError'
  BY DEF Work, Skip, LoadScript, Import, Call, Compute, Return, Value, Raise, OperatorFails, Misuse, contexts,
         outcome
<1>3. mishaps' = mishaps \/ mishaps' = [mishaps EXCEPT ![p[1]] = @ \cup {"misuse"}]
  BY DEF Work, Skip, LoadScript, Import, Call, Compute, Return, Value, Raise, OperatorFails, Misuse
<1>4. \A s \in Runs : /\ mishaps[s] \subseteq mishaps'[s]
                      /\ "nogrid" \in mishaps'[s] => "nogrid" \in mishaps[s]
  BY <1>0, <1>3
<1>5. GridMissing'
  BY <1>2, <1>4 DEF GridMissing
<1>6. Current'
  <2>1. CASE Skip(p) \/ LoadScript(p) \/ Import(p) \/ Call(p) \/ Raise(p) \/ OperatorFails(p) \/ Misuse(p)
    BY <2>1 DEF Skip, LoadScript, Import, Call, Raise, OperatorFails, Misuse, python, Current
  <2>2. CASE Compute(p)
    <3>1. current = p /\ current' = current
      BY <2>2, NoneIsNoJob DEF Compute, Current, ScriptInv, Held
    <3>2. holder' \in {p, None}
      BY <2>2 DEF Compute, Value
    <3>. QED BY <3>1, <3>2 DEF Current
  <2>3. CASE Return(p)
    BY <2>3 DEF Return, Value, Current
  <2>. QED BY <2>1, <2>2, <2>3 DEF Work
<1>7. CASE Compute(p) \/ Return(p)
  BY <1>5, <1>6, <1>7, ValueKeeps
<1>8. CASE ~(Compute(p) \/ Return(p))
  <2>1. UNCHANGED <<results, at>>
    BY <1>8 DEF Work, Skip, LoadScript, Import, Call, Raise, OperatorFails, Misuse, packages
  <2>2. Skip(p) => ~Sound(p[1])'
    <3>1. SUFFICES ASSUME Skip(p), Sound(p[1])' PROVE FALSE
      OBVIOUS
    <3>2. Sound(p[1]) /\ Known(Hash(p[1]))
      BY <1>2, <1>4, <3>1, <1>0 DEF Sound, Skip
    <3>3. Own(p[1]) /\ "misuse" \notin mishaps[p[1]]
      BY <1>0, <3>2 DEF Own, Sound, GridMissing
    <3>. QED BY <1>0, <1>1, <3>2, <3>3, KnownIsError DEF Sound, Active, Steps, ReportInv
  <2>3. Raise(p) => ~Sound(p[1])'
    BY DEF Raise, Sound
  <2>4. \A q \in JobIds : Sound(q[1])' =>
          job'[q] = job[q] \/ (job[q] \notin {"none", "done"} /\ job'[q] \notin {"none", "done"})
    <3>1. CASE Skip(p) \/ Raise(p)
      <4>1. job' = [job EXCEPT ![p] = "done"] /\ ~Sound(p[1])'
        BY <2>2, <2>3, <3>1 DEF Skip, Raise
      <4>. QED BY <1>0, <4>1
    <3>2. CASE ~(Skip(p) \/ Raise(p))
      <4>1. \E x \in {"loaded", "calling", "operator"} : job' = [job EXCEPT ![p] = x] \/ job' = job
        BY <1>8, <3>2 DEF Work, LoadScript, Import, Call, OperatorFails, Misuse, packages
      <4>. QED BY <1>0, <1>1, <4>1
    <3>. QED BY <3>1, <3>2
  <2>5. Values'
    BY <1>2, <1>4, <2>1, <2>4, ValuesStay
  <2>6. Complete'
    BY <1>2, <1>4, <2>1, CompleteStays
  <2>. QED BY <1>5, <1>6, <2>5, <2>6
<1>. QED BY <1>7, <1>8

LEMMA ValueNext == ValueInv /\ [Next]_vars => ValueInv'
<1>. SUFFICES ASSUME ValueInv, [Next]_vars
              PROVE  Current' /\ GridMissing' /\ Values' /\ Complete'
  BY ReportNext, ScriptNext DEF ValueInv
<1>1. ASSUME NEW r \in Runs, BeginObjects(r) \/ BeginGrid(r) \/ BeginNoGrid(r) \/ Execute(r)
      PROVE  Current' /\ GridMissing' /\ Values' /\ Complete'
  BY <1>1, BeginValues, ExecuteValues
<1>2. CASE Take \/ Validate \/ UNCHANGED vars
  <2>. USE DEF ValueInv
  <2>0. /\ tasks \in Seq(JobIds) /\ job \in [JobIds -> JobStates]
        /\ mishaps \in [Runs -> SUBSET Mishaps]
    BY DEF ScriptInv, IdleInv, TypeOK
  <2>1. UNCHANGED <<pc, results, at, holder, current, stored, hasError>>
    BY <1>2 DEF Take, Validate, vars, contexts, packages, python, outcome
  <2>2. \A r \in Runs : /\ mishaps[r] \subseteq mishaps'[r]
                        /\ "nogrid" \in mishaps'[r] => "nogrid" \in mishaps[r]
    BY <1>2 DEF Take, Validate, vars
  <2>3. job' = job \/ (Take /\ job' = [job EXCEPT ![Head(tasks)] = "taken"])
    BY <1>2 DEF Take, Validate, vars, packages
  <2>4. Take => Head(tasks) \in JobIds /\ job[Head(tasks)] = "queued"
    <3>1. SUFFICES ASSUME Take PROVE Head(tasks) \in JobIds /\ job[Head(tasks)] = "queued"
      OBVIOUS
    <3>2. tasks # <<>> /\ Head(tasks) = tasks[1] /\ 1 \in 1..Len(tasks) /\ Head(tasks) \in JobIds
      BY <2>0, <3>1 DEF Take
    <3>. QED BY <3>2 DEF ScriptInv, IdleInv, Queue
  <2>5. \A p \in JobIds :
          job'[p] = job[p] \/ (job[p] \notin {"none", "done"} /\ job'[p] \notin {"none", "done"})
    BY <2>0, <2>3, <2>4
  <2>6. Current' /\ GridMissing'
    BY <2>1, <2>2 DEF Current, GridMissing
  <2>. QED BY <2>1, <2>2, <2>5, <2>6, ValuesStay, CompleteStays
<1>3. ASSUME NEW p \in JobIds, Work(p)
      PROVE  Current' /\ GridMissing' /\ Values' /\ Complete'
  BY <1>3, WorkValues
<1>. QED BY <1>1, <1>2, <1>3 DEF Next

LEMMA ValueInit == Init => ValueInv
<1>. SUFFICES ASSUME Init PROVE ValueInv
  OBVIOUS
<1>1. ScriptInv
  BY IdleInit DEF Init, ScriptInv, Held, Loaded, OwnScript
<1>2. Current /\ GridMissing /\ Complete
  BY DEF Init, Current, GridMissing, Complete
<1>3. Values
  <2>1. ASSUME NEW p \in JobIds PROVE FirstOf(p)..LastOf(p) \subseteq Objects(p[1]) /\ p[1] \in Runs
    <3>1. SizeOf(p[1]) \in Nat
      BY JobIdsFacts, SizeType
    <3>. QED BY <3>1, PackageBounds, JobIdsFacts DEF Objects
  <2>. QED BY <2>1 DEF Init, Values, Through
<1>. QED BY <1>1, <1>2, <1>3, ReportInit DEF ValueInv

\* A stored result has exactly one value for each object, for every number of objects and
\* threads and whichever interpreter state the operators of other executions leave behind,
\* but for executions whose context was shared or that misuse an operator.
THEOREM EachObjectOnceCorrect == Spec => []EachObjectOnce
<1>1. ValueInv => EachObjectOnce
  BY DEF ValueInv, Complete, EachObjectOnce, ReportInv, ContextInv, IdleInv, TypeOK
<1>. QED BY <1>1, ValueInit, ValueNext, PTL DEF Spec

=============================================================================
