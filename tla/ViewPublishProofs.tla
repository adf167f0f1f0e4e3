--------------------------- MODULE ViewPublishProofs ---------------------------
(***************************************************************************)
(* What holds of the layer of a view for every set of series, legends and  *)
(* dates and every number of edits, failed requests and crashes: an        *)
(* execution that ends as DONE has shown what it read, and a removal that  *)
(* went well leaves nothing, but for what an execution has still to make.  *)
(***************************************************************************)
EXTENDS ViewPublish, TLAPS

-----------------------------------------------------------------------------
(* Types *)

Servers ==
  [workspace : BOOLEAN, stores : SUBSET ((Series \cup Kinds) \X Series),
   layer : Layers \cup {None}, style : Legends \cup {None}]

Jobs ==
  [at : Stages \cup {"idle"}, series : Series \cup {None},
   legend : Legends \cup {None}, seen : 0..MaxDates, pale : BOOLEAN]

Runs ==
  [status : {"none", "done", "error"}, series : Series \cup {None},
   legend : Legends \cup {None}, seen : 0..MaxDates, pale : BOOLEAN]

\* Stages of an execution that only a mosaic has.
MosaicStages == {"table", "folder", "rows", "mosaic", "configure"}

\* Where an execution is says which kind of series it is about and what it has read.
Path(j) ==
  /\ j.at \in Stages /\ j.series \in Series
  /\ j.at \in MosaicStages => Kind[j.series] = "mosaic"
  /\ j.at = "delete" => Kind[j.series] # "mosaic"
  /\ j.at \in {"store", "layer"} => Kind[j.series] \in {"table", "vector"}
  /\ j.at = "more" => Kind[j.series] = "vector"
  /\ j.at = "coverage" => Kind[j.series] = "coverage"
  /\ j.at \in {"workspace", "list"} => j.seen = 0

Paths ==
  /\ job.at # "idle" => Path(job) /\ last.status # "done"
  /\ last.status = "done" => last.series \in Series

TypeInv == TypeOK /\ server \in Servers /\ Paths

LEMMA StoreNameType ==
  ASSUME NEW s \in Series
  PROVE  StoreName(s) \in Series \cup Kinds
BY ViewPublishAssumption DEF StoreName

LEMMA GoFields ==
  ASSUME job \in Jobs, NEW x \in Stages, Go(x)
  PROVE  /\ job' \in Jobs /\ job'.at = x
         /\ job'.series = job.series /\ job'.legend = job.legend
         /\ job'.seen = job.seen /\ job'.pale = job.pale
BY DEF Go, Jobs

LEMMA FailsFields ==
  ASSUME Fails
  PROVE  /\ job' \in Jobs /\ job'.at = "idle"
         /\ last' \in Runs /\ last'.status = "error"
<1>1. 0 \in 0..MaxDates
  BY ViewPublishAssumption
<1>2. job' \in Jobs /\ job'.at = "idle"
  BY <1>1 DEF Fails, NoJob, Jobs
<1>3. last' = [status |-> "error", series |-> None, legend |-> None, seen |-> 0, pale |-> FALSE]
  BY DEF Fails, NoRun
<1>4. last' \in Runs /\ last'.status = "error"
  BY <1>1, <1>3 DEF Runs
<1>. QED BY <1>2, <1>4

LEMMA FaultType ==
  ASSUME faults \in 0..MaxFaults
  PROVE  /\ Fault => faults' \in 0..MaxFaults
         /\ NoFault => faults' = faults /\ mishaps' = mishaps
BY ViewPublishAssumption DEF Fault, NoFault

LEMMA StoredType ==
  ASSUME server \in Servers, NEW n \in Series \cup Kinds, NEW s \in Series
  PROVE  Stored(n, s) \in SUBSET ((Series \cup Kinds) \X Series)
BY DEF Stored, Servers

LEMMA LayerType ==
  ASSUME NEW s \in Series, NEW w \in BOOLEAN, NEW t \in BOOLEAN
  PROVE  /\ Layer(s, w, t) \in Layers
         /\ Layer(s, w, t).store = StoreName(s) /\ Layer(s, w, t).of = s
         /\ Layer(s, w, t).whole = w /\ Layer(s, w, t).styled = t
BY StoreNameType DEF Layer, Layers

\* A step of the service that keeps the view.
LEMMA StateType ==
  ASSUME TypeInv, UNCHANGED <<world, main>>, asked' \in BOOLEAN,
         job' \in Jobs, last' \in Runs, Paths',
         faults' \in 0..MaxFaults, mishaps' \subseteq Mishaps,
         server' \in Servers,
         rows' = None \/ rows' \subseteq Series \X (1..MaxDates),
         folders' \subseteq Series
  PROVE  TypeInv'
<1>1. server'.workspace \in BOOLEAN /\ server'.style \in Legends \cup {None}
      /\ server'.stores \subseteq (Series \cup Kinds) \X Series
      /\ (server'.layer = None \/ server'.layer \in Layers)
  BY DEF Servers
<1>. QED BY <1>1 DEF TypeInv, TypeOK, world, Jobs, Runs, Layers

\* A step of an execution that goes on or fails.
LEMMA StepType ==
  ASSUME TypeInv, UNCHANGED <<world, main, asked>>,
         Fails \/ (job' \in Jobs /\ Path(job') /\ last' = last /\ last.status # "done"),
         faults' \in 0..MaxFaults, mishaps' \subseteq Mishaps,
         server' \in Servers,
         rows' = None \/ rows' \subseteq Series \X (1..MaxDates),
         folders' \subseteq Series
  PROVE  TypeInv'
<1>1. job' \in Jobs /\ last' \in Runs /\ Paths'
  <2>1. CASE Fails
    BY <2>1, FailsFields DEF Paths
  <2>2. CASE job' \in Jobs /\ Path(job') /\ last' = last /\ last.status # "done"
    BY <2>2 DEF Paths, TypeInv, TypeOK, Runs
  <2>. QED BY <2>1, <2>2
<1>2. UNCHANGED <<world, main>> /\ asked' \in BOOLEAN
  BY DEF TypeInv, TypeOK
<1>. QED BY <1>1, <1>2, StateType

\* A step at a stage that goes on to stage x or fails, with what it does to GeoServer.
LEMMA GoOrFails ==
  ASSUME TypeInv, NEW stage, At(stage), stage \in Stages,
         NEW x \in Stages,
         (Go(x) /\ last' = last) \/ Fails,
         x \in MosaicStages => Kind[job.series] = "mosaic",
         x = "delete" => Kind[job.series] # "mosaic",
         x \in {"store", "layer"} => Kind[job.series] \in {"table", "vector"},
         x = "more" => Kind[job.series] = "vector",
         x = "coverage" => Kind[job.series] = "coverage",
         x \in {"workspace", "list"} => job.seen = 0,
         NoFault \/ (Fault /\ mishaps' \subseteq Mishaps),
         server' \in Servers,
         rows' = None \/ rows' \subseteq Series \X (1..MaxDates),
         folders' \subseteq Series
  PROVE  TypeInv'
<1>1. /\ job \in Jobs /\ job.at = stage /\ Path(job) /\ last.status # "done"
      /\ faults \in 0..MaxFaults /\ mishaps \subseteq Mishaps /\ UNCHANGED <<world, main, asked>>
      /\ stage # "idle"
  BY DEF TypeInv, TypeOK, At, Paths, Jobs, Stages
<1>2. faults' \in 0..MaxFaults /\ mishaps' \subseteq Mishaps
  BY <1>1, FaultType
<1>3. Fails \/ (job' \in Jobs /\ Path(job') /\ last' = last /\ last.status # "done")
  <2>1. SUFFICES ASSUME Go(x), last' = last PROVE job' \in Jobs /\ Path(job')
    BY <1>1
  <2>. QED BY <1>1, <2>1, GoFields DEF Path
<1>. QED BY <1>1, <1>2, <1>3, StepType

LEMMA BeginType ==
  ASSUME TypeInv, Begin \/ BeginGone
  PROVE  TypeInv'
<1>1. 0 \in 0..MaxDates
  BY ViewPublishAssumption
<1>2. /\ view.series \in Series /\ view.legend \in Legends \cup {None}
      /\ server \in Servers /\ folders \subseteq Series
      /\ rows = None \/ rows \subseteq Series \X (1..MaxDates)
      /\ mishaps \subseteq Mishaps /\ faults \in 0..MaxFaults
  BY DEF TypeInv, TypeOK
<1>3. /\ UNCHANGED <<world, main>> /\ asked' \in BOOLEAN
      /\ UNCHANGED <<server, rows, folders, mishaps, faults>>
  BY DEF Begin, BeginGone, store
<1>4. last' = NoRun \/ last' = [NoRun EXCEPT !.status = "error"]
  BY DEF Begin, BeginGone
<1>5. last' \in Runs /\ last'.status \in {"none", "error"}
  <2>1. CASE last' = NoRun
    BY <1>1, <2>1 DEF NoRun, Runs
  <2>2. CASE last' = [NoRun EXCEPT !.status = "error"]
    <3>1. last' = [status |-> "error", series |-> None, legend |-> None, seen |-> 0, pale |-> FALSE]
      BY <2>2 DEF NoRun
    <3>. QED BY <1>1, <3>1 DEF Runs
  <2>. QED BY <1>4, <2>1, <2>2
<1>6. job' \in Jobs /\ (job'.at # "idle" => Path(job'))
  <2>1. CASE job' = NoJob
    BY <1>1, <2>1 DEF NoJob, Jobs
  <2>2. CASE job' = [NoJob EXCEPT !.at = "workspace", !.series = view.series, !.legend = view.legend]
    <3>1. job' = [at |-> "workspace", series |-> view.series, legend |-> view.legend,
                  seen |-> 0, pale |-> FALSE]
      BY <2>2 DEF NoJob
    <3>. QED BY <1>1, <1>2, <3>1 DEF Jobs, Stages, Path, MosaicStages
  <2>. QED BY <2>1, <2>2 DEF Begin, BeginGone
<1>7. Paths'
  BY <1>5, <1>6 DEF Paths
<1>. QED BY <1>2, <1>3, <1>5, <1>6, <1>7, StateType

\* An execution at a stage, and what it does not change has its type.
LEMMA AtFacts ==
  ASSUME TypeInv, NEW stage \in Stages, At(stage)
  PROVE  /\ job \in Jobs /\ job.at = stage /\ Path(job) /\ last.status # "done"
         /\ job.series \in Series /\ Kind[job.series] \in Kinds
         /\ server \in Servers /\ folders \subseteq Series
         /\ rows = None \/ rows \subseteq Series \X (1..MaxDates)
         /\ mishaps \subseteq Mishaps /\ faults \in 0..MaxFaults
         /\ files \in [Series -> 0..MaxDates]
<1>1. job \in Jobs /\ job.at = stage /\ Path(job) /\ last.status # "done"
  BY DEF At, TypeInv, TypeOK, Paths, Jobs, Stages
<1>. QED BY <1>1, ViewPublishAssumption DEF TypeInv, TypeOK, Path

LEMMA EarlyStepType ==
  ASSUME TypeInv,
         StepFails \/ RegisterWorkspace \/ ListFiles \/ ReadTable \/ ListRasters \/ DeleteLayer
  PROVE  TypeInv'
<1>. USE DEF store
<1>1. CASE StepFails
  <2>1. PICK stage \in Stages : At(stage)
    BY <1>1 DEF StepFails
  <2>2. mishaps' \subseteq Mishaps /\ faults' \in 0..MaxFaults
    BY <1>1, <2>1, AtFacts, FaultType DEF StepFails, Halved, Mishaps
  <2>3. Fails /\ UNCHANGED <<world, main, asked>> /\ server' = server /\ rows' = rows /\ folders' = folders
    BY <1>1, <2>1 DEF StepFails, At
  <2>. QED BY <2>1, <2>2, <2>3, AtFacts, StepType
<1>2. CASE RegisterWorkspace
  <2>1. At("workspace") /\ "workspace" \in Stages /\ "list" \in Stages
    BY <1>2 DEF RegisterWorkspace, Stages
  <2>2. server' \in Servers /\ job.seen = 0
    BY <1>2, <2>1, AtFacts DEF RegisterWorkspace, Servers, Path
  <2>. QED BY <1>2, <2>1, <2>2, AtFacts, GoOrFails DEF RegisterWorkspace, MosaicStages
<1>3. CASE ListFiles \/ ReadTable \/ ListRasters
  <2>1. At("list") /\ "list" \in Stages
    BY <1>3 DEF ListFiles, ReadTable, ListRasters, Stages
  <2>2. files[job.series] \in 0..MaxDates
    BY <2>1, AtFacts
  <2>3. Fails \/ (job' \in Jobs /\ Path(job') /\ last' = last /\ last.status # "done")
    <3>1. CASE Fails
      BY <3>1
    <3>2. CASE Go("finish") /\ last' = last
      BY <2>1, <3>2, AtFacts, GoFields DEF Path, Stages, MosaicStages
    <3>3. CASE /\ last' = last /\ Kind[job.series] # "mosaic"
               /\ job' = [job EXCEPT !.at = "delete", !.seen = files[job.series]]
      <4>1. job' \in Jobs /\ job'.at = "delete" /\ job'.series = job.series
        BY <2>1, <2>2, <3>3, AtFacts DEF Jobs, Stages
      <4>. QED BY <2>1, <3>3, <4>1, AtFacts DEF Path, Stages, MosaicStages
    <3>4. CASE /\ last' = last /\ Kind[job.series] = "mosaic"
               /\ job' = [job EXCEPT !.at = "table", !.seen = files[job.series]]
      <4>1. job' \in Jobs /\ job'.at = "table" /\ job'.series = job.series
        BY <2>1, <2>2, <3>4, AtFacts DEF Jobs, Stages
      <4>. QED BY <2>1, <3>4, <4>1, AtFacts DEF Path, Stages, MosaicStages
    <3>. QED BY <1>3, <3>1, <3>2, <3>3, <3>4 DEF ListFiles, ReadTable, ListRasters, NothingToPublish
  <2>4. NoFault /\ server' = server /\ rows' = rows /\ folders' = folders
    BY <1>3 DEF ListFiles, ReadTable, ListRasters
  <2>5. UNCHANGED <<world, main, asked>>
    BY <2>1 DEF At
  <2>. QED BY <2>1, <2>3, <2>4, <2>5, AtFacts, FaultType, StepType
<1>4. CASE DeleteLayer
  <2>. DEFINE go == IF Kind[job.series] = "coverage" THEN "coverage" ELSE "store"
  <2>1. At("delete") /\ "delete" \in Stages /\ go \in Stages
    BY <1>4 DEF DeleteLayer, Stages
  <2>2. Kind[job.series] \in {"table", "vector", "coverage"}
    BY <2>1, AtFacts DEF Path, Kinds
  <2>3. rows' = rows /\ folders' = folders
    BY <1>4 DEF DeleteLayer
  <2>4. server' \in Servers
    <3>1. server' = server \/ server' = [server EXCEPT !.layer = None]
      BY <1>4 DEF DeleteLayer
    <3>. QED BY <2>1, <3>1, AtFacts DEF Servers
  <2>5. CASE /\ (Go(go) /\ last' = last) \/ Fails
             /\ NoFault \/ (Fault /\ mishaps' = mishaps)
    BY <2>1, <2>2, <2>3, <2>4, <2>5, AtFacts, GoOrFails DEF MosaicStages
  <2>6. CASE /\ Fault /\ mishaps' = mishaps /\ last' = last
             /\ job' = [job EXCEPT !.at = go, !.pale = TRUE]
    <3>1. job' \in Jobs /\ job'.at = go /\ job'.series = job.series
      BY <2>1, <2>6, AtFacts DEF Jobs
    <3>2. Path(job')
      BY <2>1, <2>2, <3>1, AtFacts DEF Path, MosaicStages
    <3>3. UNCHANGED <<world, main, asked>>
      BY <2>1 DEF At
    <3>. QED BY <2>1, <2>3, <2>4, <2>6, <3>1, <3>2, <3>3, AtFacts, FaultType, StepType
  <2>. QED BY <1>4, <2>5, <2>6 DEF DeleteLayer
<1>. QED BY <1>1, <1>2, <1>3, <1>4

LEMMA StallsType ==
  ASSUME TypeInv, Stalls
  PROVE  TypeInv'
<1>1. mishaps' \subseteq Mishaps /\ faults' \in 0..MaxFaults
  BY FaultType DEF Stalls, Halved, Mishaps, TypeInv, TypeOK
<1>2. job' \in Jobs /\ job'.at = "idle"
  BY ViewPublishAssumption DEF Stalls, NoJob, Jobs
<1>3. /\ UNCHANGED <<view, files, up, edits, main, asked, server, rows, folders, last>>
      /\ stuck' \in BOOLEAN
  BY DEF Stalls, store
<1>4. Paths'
  BY <1>2, <1>3 DEF TypeInv, Paths
<1>. QED BY <1>1, <1>2, <1>3, <1>4 DEF TypeInv, TypeOK, Jobs

LEMMA LayerStepType ==
  ASSUME TypeInv, RegisterStore \/ RegisterLayer \/ NextFile \/ PutCoverage
  PROVE  TypeInv'
<1>. DEFINE s == job.series
            new == [server EXCEPT !.stores = Stored(StoreName(s), s)]
<1>1. PICK stage \in {"store", "layer", "more", "coverage"} : At(stage)
  BY DEF RegisterStore, RegisterLayer, NextFile, PutCoverage
<1>2. stage \in Stages /\ "layer" \in Stages /\ "more" \in Stages /\ "style" \in Stages
  BY DEF Stages
<1>3. s \in Series /\ server \in Servers
  BY <1>1, <1>2, AtFacts
<1>4. StoreName(s) \in Series \cup Kinds /\ new \in Servers
  BY <1>3, StoreNameType, StoredType DEF Servers
<1>5. \A x \in BOOLEAN : Layer(s, TRUE, x) \in Layers
  BY <1>3, LayerType
<1>. HIDE DEF new
<1>6. rows' = rows /\ folders' = folders
  BY DEF RegisterStore, RegisterLayer, NextFile, PutCoverage
<1>7. server' \in Servers
  <2>1. CASE RegisterStore
    <3>1. server' = server \/ server' = new
      BY <2>1 DEF RegisterStore, new
    <3>. QED BY <1>3, <1>4, <3>1
  <2>2. CASE RegisterLayer
    <3>1. server' = server \/ server' = [server EXCEPT !.layer = Layer(s, TRUE, FALSE)]
      BY <2>2 DEF RegisterLayer
    <3>. QED BY <1>3, <1>5, <3>1 DEF Servers
  <2>3. CASE PutCoverage
    <3>1. \/ server' \in {server, new}
          \/ server' = [new EXCEPT !.layer =
                          Layer(s, TRUE, server.layer # None /\ server.layer.styled)]
      BY <2>3 DEF PutCoverage, new
    <3>2. (server.layer # None /\ server.layer.styled) \in BOOLEAN
      BY <1>3 DEF Servers, Layers
    <3>. QED BY <1>3, <1>4, <1>5, <3>1, <3>2 DEF Servers
  <2>4. CASE NextFile
    BY <1>3, <2>4 DEF NextFile, Servers
  <2>. QED BY <2>1, <2>2, <2>3, <2>4
<1>8. NoFault \/ (Fault /\ mishaps' = mishaps) \/ (faults' = faults /\ mishaps' = mishaps)
  BY DEF RegisterStore, RegisterLayer, NextFile, PutCoverage, NoFault
<1>9. faults' \in 0..MaxFaults /\ mishaps' \subseteq Mishaps
  BY <1>1, <1>2, <1>8, AtFacts, FaultType
<1>10. Fails \/ (job' \in Jobs /\ Path(job') /\ last' = last /\ last.status # "done")
  <2>1. CASE Fails
    BY <2>1
  <2>2. CASE RegisterStore /\ Go("layer") /\ last' = last
    <3>1. At("store") /\ "store" \in Stages
      BY <2>2 DEF RegisterStore, Stages
    <3>. QED BY <1>2, <2>2, <3>1, AtFacts, GoFields DEF Path, MosaicStages
  <2>3. CASE Go("style") /\ last' = last
    BY <1>1, <1>2, <2>3, AtFacts, GoFields DEF Path, MosaicStages
  <2>4. CASE Kind[s] = "vector" /\ Go("more") /\ last' = last
    <3>1. "more" \in Stages
      BY DEF Stages
    <3>. QED BY <1>1, <1>2, <2>4, <3>1, AtFacts, GoFields DEF Path, MosaicStages
  <2>. QED BY <2>1, <2>2, <2>3, <2>4
           DEF RegisterStore, RegisterLayer, AfterLayer, NextFile, PutCoverage
<1>11. UNCHANGED <<world, main, asked>>
  BY <1>1 DEF At
<1>. QED BY <1>1, <1>2, <1>6, <1>7, <1>9, <1>10, <1>11, AtFacts, StepType

LEMMA MosaicStepType ==
  ASSUME TypeInv, CreateTable \/ RecreateFolder \/ AddRows \/ PutMosaic \/ ConfigureMosaic
  PROVE  TypeInv'
<1>. DEFINE s == job.series
            new == [server EXCEPT !.stores = Stored("mosaic", s)]
<1>1. PICK stage \in MosaicStages : At(stage)
  BY DEF CreateTable, RecreateFolder, AddRows, PutMosaic, ConfigureMosaic, MosaicStages
<1>2. stage \in Stages /\ \A x \in MosaicStages \cup {"style"} : x \in Stages
  BY DEF Stages, MosaicStages
<1>3. /\ s \in Series /\ server \in Servers /\ Kind[s] = "mosaic" /\ folders \subseteq Series
      /\ rows = None \/ rows \subseteq Series \X (1..MaxDates)
      /\ job.seen \in 0..MaxDates
  BY <1>1, <1>2, AtFacts DEF Path, Jobs
<1>4. new \in Servers
  BY <1>3, StoredType DEF Servers, Kinds
<1>5. \A x, y \in BOOLEAN : Layer(s, x, y) \in Layers
  BY <1>3, LayerType
<1>. HIDE DEF new
<1>6. \/ /\ Go("folder") \/ Go("rows") \/ Go("mosaic") \/ Go("configure") \/ Go("style")
         /\ last' = last
      \/ Fails
  BY DEF CreateTable, RecreateFolder, AddRows, PutMosaic, ConfigureMosaic
<1>7. Fails \/ (job' \in Jobs /\ Path(job') /\ last' = last /\ last.status # "done")
  <2>1. SUFFICES ASSUME NEW x \in {"folder", "rows", "mosaic", "configure", "style"},
                        Go(x), last' = last
                 PROVE  job' \in Jobs /\ Path(job') /\ last.status # "done"
    BY <1>6
  <2>2. x \in Stages
    BY <1>2 DEF MosaicStages
  <2>. QED BY <1>1, <1>2, <1>3, <2>1, <2>2, AtFacts, GoFields DEF Path, MosaicStages
<1>8. faults' \in 0..MaxFaults /\ mishaps' \subseteq Mishaps
  <2>1. NoFault \/ (Fault /\ mishaps' \subseteq mishaps \cup {"halved"})
    BY DEF CreateTable, RecreateFolder, AddRows, PutMosaic, ConfigureMosaic
  <2>. QED BY <1>1, <1>2, <2>1, AtFacts, FaultType DEF Mishaps
<1>9. server' \in Servers
  <2>1. CASE PutMosaic
    <3>1. server' \in {server, new} \/ server' = [new EXCEPT !.layer = Layer(s, FALSE, FALSE)]
      BY <2>1 DEF PutMosaic, new
    <3>. QED BY <1>3, <1>4, <1>5, <3>1 DEF Servers
  <2>2. CASE ConfigureMosaic
    <3>1. server' = server \/ (server.layer # None /\ server' = [server EXCEPT !.layer.whole = TRUE])
      BY <2>2 DEF ConfigureMosaic
    <3>2. server.layer # None => [server.layer EXCEPT !.whole = TRUE] \in Layers
      BY <1>3 DEF Servers, Layers
    <3>. QED BY <1>3, <3>1, <3>2 DEF Servers
  <2>3. CASE server' = server
    BY <1>3, <2>3
  <2>. QED BY <2>1, <2>2, <2>3 DEF CreateTable, RecreateFolder, AddRows
<1>10. rows' = None \/ rows' \subseteq Series \X (1..MaxDates)
  <2>1. CASE AddRows
    <3>1. rows' = rows \/ (rows # None /\ rows' \subseteq rows \cup ({s} \X (1..job.seen)))
      BY <2>1 DEF AddRows
    <3>2. {s} \X (1..job.seen) \subseteq Series \X (1..MaxDates)
      BY <1>3, ViewPublishAssumption
    <3>. QED BY <1>3, <3>1, <3>2
  <2>2. CASE rows' \in {rows, {}}
    BY <1>3, <2>2
  <2>. QED BY <2>1, <2>2 DEF CreateTable, RecreateFolder, PutMosaic, ConfigureMosaic
<1>11. folders' \subseteq Series
  BY <1>3 DEF CreateTable, RecreateFolder, AddRows, PutMosaic, ConfigureMosaic
<1>12. UNCHANGED <<world, main, asked>>
  BY <1>1 DEF At
<1>. QED BY <1>7, <1>8, <1>9, <1>10, <1>11, <1>12, StepType

LEMMA LateStepType ==
  ASSUME TypeInv, RegisterStyle \/ SetDefaultStyle \/ Finish
  PROVE  TypeInv'
<1>1. PICK stage \in {"style", "default", "finish"} : At(stage)
  BY DEF RegisterStyle, SetDefaultStyle, Finish
<1>2. stage \in Stages /\ "default" \in Stages /\ "finish" \in Stages
  BY DEF Stages
<1>3. /\ job \in Jobs /\ server \in Servers /\ job.legend \in Legends \cup {None}
      /\ job.series \in Series /\ rows' = rows /\ folders' = folders
  BY <1>1, <1>2, AtFacts DEF Jobs, RegisterStyle, SetDefaultStyle, Finish, store
<1>4. faults' \in 0..MaxFaults /\ mishaps' \subseteq Mishaps
  <2>1. NoFault \/ ((Fault \/ faults' = faults) /\ mishaps' = mishaps)
    BY DEF RegisterStyle, SetDefaultStyle, Finish
  <2>. QED BY <1>1, <1>2, <2>1, AtFacts, FaultType
<1>5. server' \in Servers
  <2>1. CASE RegisterStyle
    <3>1. server' = server \/ server' = [server EXCEPT !.style = job.legend]
      BY <2>1 DEF RegisterStyle
    <3>. QED BY <1>3, <3>1 DEF Servers
  <2>2. CASE SetDefaultStyle
    <3>1. server' = server \/ (server.layer # None /\ server' = [server EXCEPT !.layer.styled = TRUE])
      BY <2>2 DEF SetDefaultStyle
    <3>2. server.layer # None => [server.layer EXCEPT !.styled = TRUE] \in Layers
      BY <1>3 DEF Servers, Layers
    <3>. QED BY <1>3, <3>1, <3>2 DEF Servers
  <2>3. CASE Finish
    BY <1>3, <2>3 DEF Finish, store
  <2>. QED BY <2>1, <2>2, <2>3
<1>6. UNCHANGED <<world, main, asked>>
  BY <1>1 DEF At
<1>7. CASE RegisterStyle \/ SetDefaultStyle
  <2>1. Fails \/ (job' \in Jobs /\ Path(job') /\ last' = last /\ last.status # "done")
    <3>1. CASE Fails
      BY <3>1
    <3>2. CASE (Go("default") \/ Go("finish")) /\ last' = last
      BY <1>1, <1>2, <3>2, AtFacts, GoFields DEF Path, MosaicStages
    <3>3. CASE job' = [job EXCEPT !.at = "finish", !.pale = TRUE] /\ last' = last
      <4>1. job' \in Jobs /\ job'.at = "finish" /\ job'.series = job.series
        BY <1>2, <1>3, <3>3 DEF Jobs
      <4>. QED BY <1>1, <1>2, <3>3, <4>1, AtFacts DEF Path, MosaicStages
    <3>. QED BY <1>7, <3>1, <3>2, <3>3 DEF RegisterStyle, SetDefaultStyle
  <2>. QED BY <1>1, <1>2, <1>3, <1>4, <1>5, <1>6, <2>1, AtFacts, StepType
<1>8. CASE Finish
  <2>1. job' \in Jobs /\ job'.at = "idle"
    BY <1>8, ViewPublishAssumption DEF Finish, NoJob, Jobs
  <2>2. last' \in Runs /\ last'.series = job.series
    BY <1>3, <1>8 DEF Finish, Jobs, Runs
  <2>3. Paths' /\ asked' \in BOOLEAN
    BY <1>3, <1>6, <2>1, <2>2 DEF Paths, TypeInv, TypeOK
  <2>. QED BY <1>1, <1>2, <1>3, <1>4, <1>5, <1>6, <2>1, <2>2, <2>3, AtFacts, StateType
<1>. QED BY <1>7, <1>8

LEMMA OutsideType ==
  ASSUME TypeInv, Trigger \/ Edit \/ Remove \/ Cleanup \/ Crash \/ Restart
                  \/ \E s \in Series : NewFile(s)
  PROVE  TypeInv'
<1>. USE DEF TypeInv
<1>1. CASE Trigger \/ Restart
  <2>1. UNCHANGED <<view, files, stuck, edits, main, job, store, last, mishaps, faults>>
        /\ up' \in BOOLEAN /\ asked' \in BOOLEAN
    BY <1>1 DEF Trigger, Restart, world, TypeOK
  <2>. QED BY <2>1 DEF TypeOK, Paths, Path, store
<1>2. CASE Edit
  <2>1. view' \in [on : BOOLEAN, series : Series, legend : Legends \cup {None}]
    BY <1>2 DEF Edit
  <2>2. mishaps' \subseteq Mishaps /\ edits' \in 0..MaxEdits /\ asked' \in BOOLEAN
    <3>1. edits' \in 0..MaxEdits
      BY <1>2, ViewPublishAssumption DEF Edit, TypeOK
    <3>2. \E m : mishaps' = mishaps \cup (IF m THEN {"moved"} ELSE {})
      BY <1>2 DEF Edit
    <3>3. mishaps' \subseteq Mishaps
      BY <3>2 DEF TypeOK, Mishaps
    <3>4. asked' \in BOOLEAN
      BY <1>2 DEF Edit, TypeOK
    <3>. QED BY <3>1, <3>3, <3>4
  <2>3. UNCHANGED <<files, up, stuck, main, job, store, last, faults>>
    BY <1>2 DEF Edit
  <2>. QED BY <2>1, <2>2, <2>3 DEF TypeOK, Paths, Path, store
<1>3. CASE Remove
  <2>1. view' \in [on : BOOLEAN, series : Series, legend : Legends \cup {None}]
    BY <1>3 DEF Remove, TypeOK
  <2>2. mishaps' \subseteq Mishaps /\ asked' \in BOOLEAN /\ main' \in {"idle", "table", "folder", "workspace"}
    BY <1>3 DEF Remove, TypeOK, Mishaps
  <2>3. UNCHANGED <<files, up, stuck, edits, job, store, last, faults>>
    BY <1>3 DEF Remove
  <2>. QED BY <2>1, <2>2, <2>3 DEF TypeOK, Paths, Path, store
<1>4. CASE Cleanup
  <2>1. mishaps' \subseteq Mishaps /\ faults' \in 0..MaxFaults
    <3>1. faults' = faults \/ Fault
      BY <1>4 DEF Cleanup, DropTable, RemoveFiles, DeleteWorkspace
    <3>2. mishaps' \subseteq mishaps \cup {"lateTable", "lateFolder", "lateWorkspace", "uncleaned"}
      BY <1>4 DEF Cleanup, DropTable, RemoveFiles, DeleteWorkspace, Late
    <3>. QED BY <3>1, <3>2, FaultType DEF TypeOK, Mishaps
  <2>2. /\ UNCHANGED <<world, asked, job, last>>
        /\ main' \in {"idle", "folder", "workspace"}
        /\ rows' \in {rows, None} /\ folders' \subseteq folders
        /\ server' \in {server, Empty}
    BY <1>4 DEF Cleanup, DropTable, RemoveFiles, DeleteWorkspace, Cleans
  <2>3. Empty \in Servers
    BY DEF Empty, Servers
  <2>4. server' \in Servers /\ Paths'
    BY <2>2, <2>3 DEF Paths, Path
  <2>5. server'.workspace \in BOOLEAN /\ server'.style \in Legends \cup {None}
        /\ server'.stores \subseteq (Series \cup Kinds) \X Series
        /\ (server'.layer = None \/ server'.layer \in Layers)
    BY <2>4 DEF Servers
  <2>. QED BY <2>1, <2>2, <2>4, <2>5 DEF TypeOK, world, Layers
<1>5. CASE Crash
  <2>1. mishaps' \subseteq Mishaps /\ faults' \in 0..MaxFaults
    BY <1>5, FaultType DEF Crash, TypeOK, Mishaps
  <2>2. job' \in Jobs /\ job'.at = "idle"
    BY <1>5, ViewPublishAssumption DEF Crash, NoJob, Jobs
  <2>3. last' \in Runs /\ (last'.status = "error" \/ last' = last)
    <3>1. CASE last' = last
      BY <3>1 DEF TypeOK, Runs
    <3>2. CASE last' = [NoRun EXCEPT !.status = "error"]
      <4>1. last' = [status |-> "error", series |-> None, legend |-> None, seen |-> 0, pale |-> FALSE]
        BY <3>2 DEF NoRun
      <4>. QED BY <4>1, ViewPublishAssumption DEF Runs
    <3>. QED BY <1>5, <3>1, <3>2 DEF Crash
  <2>4. Paths'
    BY <2>2, <2>3 DEF Paths
  <2>5. /\ UNCHANGED <<view, files, edits, server, rows, folders>>
        /\ up' \in BOOLEAN /\ stuck' \in BOOLEAN /\ asked' \in BOOLEAN /\ main' = "idle"
    BY <1>5 DEF Crash, store
  <2>. QED BY <2>1, <2>2, <2>3, <2>4, <2>5 DEF TypeOK, Jobs, Runs
<1>6. ASSUME NEW s \in Series, NewFile(s) PROVE TypeInv'
  <2>1. files' \in [Series -> 0..MaxDates]
    <3>1. files' = [files EXCEPT ![s] = files[s] + 1] /\ files[s] < MaxDates
      BY <1>6, ViewPublishAssumption DEF NewFile, TypeOK
    <3>2. files[s] + 1 \in 0..MaxDates
      BY <3>1, ViewPublishAssumption DEF TypeOK
    <3>. QED BY <3>1, <3>2 DEF TypeOK
  <2>2. UNCHANGED <<view, up, stuck, main, asked, job, store, last, mishaps, edits, faults>>
    BY <1>6 DEF NewFile
  <2>. QED BY <2>1, <2>2 DEF TypeOK, Paths, Path, store
<1>. QED BY <1>1, <1>2, <1>3, <1>4, <1>5, <1>6

LEMMA TypeNext == TypeInv /\ [Next]_vars => TypeInv'
<1>. SUFFICES ASSUME TypeInv, [Next]_vars PROVE TypeInv'
  OBVIOUS
<1>1. CASE Execution
  BY <1>1, BeginType, EarlyStepType, StallsType, LayerStepType, MosaicStepType, LateStepType DEF Execution
<1>2. CASE Trigger \/ Edit \/ Remove \/ Cleanup \/ Crash \/ Restart \/ \E s \in Series : NewFile(s)
  BY <1>2, OutsideType
<1>3. CASE UNCHANGED vars
  BY <1>3 DEF vars, world, store, TypeInv, TypeOK, Paths, Path
<1>. QED BY <1>1, <1>2, <1>3 DEF Next

LEMMA TypeInit == Init => TypeInv
<1>. SUFFICES ASSUME Init PROVE TypeInv
  OBVIOUS
<1>1. 0 \in 0..MaxDates /\ 0 \in 0..MaxEdits /\ 0 \in 0..MaxFaults
  BY ViewPublishAssumption
<1>2. (CHOOSE l \in Legends : TRUE) \in Legends
  BY ViewPublishAssumption
<1>3. view \in [on : BOOLEAN, series : Series, legend : Legends \cup {None}]
  BY <1>2 DEF Init
<1>4. /\ job.at = "idle" /\ job \in Jobs
      /\ last.status = "none" /\ last \in Runs
      /\ server \in Servers
  <2>1. job.at = "idle" /\ job \in Jobs
    BY <1>1 DEF Init, NoJob, Jobs
  <2>2. last.status = "none" /\ last \in Runs
    BY <1>1 DEF Init, NoRun, Runs
  <2>3. server \in Servers
    BY DEF Init, Empty, Servers
  <2>. QED BY <2>1, <2>2, <2>3
<1>5. server.workspace = FALSE /\ server.style = None /\ server.stores = {} /\ server.layer = None
  BY DEF Init, Empty
<1>6. Paths
  BY <1>4 DEF Paths, MosaicStages
<1>. QED BY <1>1, <1>3, <1>4, <1>5, <1>6 DEF Init, TypeInv, TypeOK, Jobs, Runs

-----------------------------------------------------------------------------
(* A removal leaves nothing *)

Cleaned == ~view.on /\ "uncleaned" \notin mishaps

\* Past the table, the folder and the workspace a removal has left nothing of them, nor
\* an execution that has still to make them.
TableGone ==
  Cleaned /\ main # "table" =>
    \/ "lateTable" \in mishaps
    \/ rows = None /\ (job.at \in Before("table") => Kind[job.series] # "mosaic")

FolderGone ==
  Cleaned /\ main \in {"workspace", "idle"} =>
    \/ "lateFolder" \in mishaps
    \/ /\ view.series \in folders => view.series \in Masked
       /\ job.at \in Before("folder") => Kind[job.series] # "mosaic"

WorkspaceGone ==
  Cleaned /\ main = "idle" =>
    "lateWorkspace" \in mishaps \/ (server = Empty /\ job.at # "workspace")

GoneInv == TypeInv /\ TableGone /\ FolderGone /\ WorkspaceGone

LEMMA BeforeFacts ==
  /\ Before("workspace") = {"workspace"}
  /\ Before("table") = {"workspace", "list", "table"}
  /\ Before("folder") = {"workspace", "list", "table", "folder"}
<1>. DEFINE path == <<"workspace", "list", "table", "folder">>
            Way(x) == {j \in 1..4 : \A h \in 1..(j - 1) : path[h] # x}
<1>1. path[1] = "workspace" /\ path[2] = "list" /\ path[3] = "table" /\ path[4] = "folder"
  OBVIOUS
<1>2. \A x : Before(x) = {path[i] : i \in Way(x)}
  BY DEF Before
<1>. HIDE DEF path
<1>3. \A j \in 1..4 : j = 1 \/ j = 2 \/ j = 3 \/ j = 4
  OBVIOUS
<1>4. Way("workspace") = {1}
  BY <1>1
<1>5. Way("table") = {1, 2, 3}
  BY <1>1
<1>6. Way("folder") = {1, 2, 3, 4}
  BY <1>1
<1>. HIDE DEF Way
<1>. QED BY <1>1, <1>2, <1>4, <1>5, <1>6

\* What an execution can make when its view is removed.
LEMMA ExecutionMakes ==
  ASSUME TypeInv, Execution, ~view.on
  PROVE  /\ UNCHANGED <<view, main>> /\ mishaps \subseteq mishaps'
         /\ job'.at = "idle" \/ job'.series = job.series
         /\ job'.at # "workspace"
         /\ job'.at = "list" => job.at = "workspace"
         /\ job'.at = "table" => job.at = "list"
         /\ job'.at = "folder" => job.at = "table"
         /\ rows = None => rows' = None \/ job.at = "table"
         /\ folders' = folders \/ (job.at = "folder" /\ folders' = folders \cup {job.series})
         /\ server = Empty /\ job.at # "workspace" => server' = Empty
<1>1. server = Empty => ~server.workspace /\ server.layer = None
  BY DEF Empty
<1>2. Fails => job'.at = "idle"
  BY FailsFields
<1>3. \A x \in Stages : job.at # "idle" /\ Go(x) => job'.at = x /\ job'.series = job.series
  BY GoFields DEF TypeInv, TypeOK, Jobs
<1>4. \A stage \in Stages : At(stage) => UNCHANGED <<view, main>> /\ job.at = stage /\ stage # "idle"
                                        /\ job \in Jobs
  BY AtFacts DEF At, world, Stages
<1>5. CASE BeginGone
  BY <1>5 DEF BeginGone, world, store, NoJob
<1>6. CASE StepFails \/ Stalls
  <2>1. CASE StepFails
    BY <1>2, <1>4, <2>1 DEF StepFails, Halved, store
  <2>2. CASE Stalls
    <3>1. job'.at = "idle"
      BY <2>2 DEF Stalls, NoJob
    <3>. QED BY <2>2, <3>1 DEF Stalls, Halved, store
  <2>. QED BY <1>6, <2>1, <2>2
<1>7. CASE RegisterWorkspace
  <2>1. At("workspace") /\ (Go("list") \/ Fails) /\ mishaps' = mishaps
    BY <1>7 DEF RegisterWorkspace, NoFault
  <2>. QED BY <1>2, <1>3, <1>4, <1>7, <2>1 DEF RegisterWorkspace, Stages
<1>8. CASE ListFiles \/ ReadTable \/ ListRasters
  <2>1. At("list") /\ UNCHANGED <<store, mishaps>>
    BY <1>8 DEF ListFiles, ReadTable, ListRasters, NoFault
  <2>2. \/ Fails \/ Go("finish")
        \/ job' = [job EXCEPT !.at = "delete", !.seen = files[job.series]]
        \/ job' = [job EXCEPT !.at = "table", !.seen = files[job.series]]
    BY <1>8 DEF ListFiles, ReadTable, ListRasters, NothingToPublish
  <2>3. job'.at \in {"idle", "finish", "delete", "table"} /\ (job'.at = "idle" \/ job'.series = job.series)
    BY <1>2, <1>3, <1>4, <2>1, <2>2 DEF Stages, Jobs
  <2>. QED BY <1>4, <2>1, <2>3 DEF store, Stages
<1>9. CASE DeleteLayer
  <2>1. /\ At("delete") /\ UNCHANGED <<rows, folders, mishaps>>
        /\ server.layer # None \/ server' = server
    BY <1>9 DEF DeleteLayer, NoFault
  <2>2. \/ Fails \/ Go("store") \/ Go("coverage")
        \/ job' = [job EXCEPT !.at = "store", !.pale = TRUE]
        \/ job' = [job EXCEPT !.at = "coverage", !.pale = TRUE]
    BY <1>9 DEF DeleteLayer
  <2>3. job'.at \in {"idle", "store", "coverage"} /\ (job'.at = "idle" \/ job'.series = job.series)
    BY <1>2, <1>3, <1>4, <2>1, <2>2 DEF Stages, Jobs
  <2>. QED BY <1>1, <1>4, <2>1, <2>3 DEF Stages
<1>10. CASE RegisterStore
  <2>1. /\ At("store") /\ UNCHANGED <<rows, folders, mishaps>> /\ (Go("layer") \/ Fails)
        /\ server.workspace \/ server' = server
    BY <1>10 DEF RegisterStore, NoFault
  <2>. QED BY <1>1, <1>2, <1>3, <1>4, <2>1 DEF Stages
<1>11. CASE RegisterLayer
  <2>1. /\ At("layer") /\ UNCHANGED <<rows, folders, mishaps>> /\ (Go("style") \/ Go("more") \/ Fails)
        /\ Fits(job.series) \/ server' = server
    BY <1>11 DEF RegisterLayer, AfterLayer, NoFault
  <2>2. server = Empty => ~Fits(job.series)
    BY DEF Empty, Fits
  <2>. QED BY <1>2, <1>3, <1>4, <2>1, <2>2 DEF Stages
<1>12. CASE PutCoverage
  <2>1. /\ At("coverage") /\ UNCHANGED <<rows, folders, mishaps>> /\ (Go("style") \/ Fails)
        /\ server.workspace \/ server' = server
    BY <1>12 DEF PutCoverage, NoFault
  <2>. QED BY <1>1, <1>2, <1>3, <1>4, <2>1 DEF Stages
<1>13. CASE CreateTable
  BY <1>3, <1>4, <1>13 DEF CreateTable, Stages, NoFault
<1>14. CASE RecreateFolder
  BY <1>3, <1>4, <1>14 DEF RecreateFolder, Stages, NoFault
<1>15. CASE AddRows
  <2>1. /\ At("rows") /\ UNCHANGED <<server, folders, mishaps>> /\ (Go("mosaic") \/ Fails)
        /\ rows = None => rows' = rows
    BY <1>15 DEF AddRows, NoFault
  <2>. QED BY <1>2, <1>3, <1>4, <2>1 DEF Stages
<1>16. CASE PutMosaic
  <2>1. /\ At("mosaic") /\ UNCHANGED <<rows, folders>> /\ mishaps \subseteq mishaps'
        /\ Go("style") \/ Go("configure") \/ Fails
        /\ server.workspace \/ server' = server
    BY <1>16 DEF PutMosaic, NoFault
  <2>. QED BY <1>1, <1>2, <1>3, <1>4, <2>1 DEF Stages
<1>17. CASE ConfigureMosaic
  <2>1. /\ At("configure") /\ UNCHANGED <<rows, folders, mishaps>> /\ (Go("style") \/ Fails)
        /\ server.layer # None \/ server' = server
    BY <1>17 DEF ConfigureMosaic, NoFault
  <2>. QED BY <1>1, <1>2, <1>3, <1>4, <2>1 DEF Stages
<1>18. CASE RegisterStyle
  <2>1. /\ At("style") /\ UNCHANGED <<rows, folders, mishaps>>
        /\ Go("finish") \/ Go("default") \/ Fails
        /\ server.workspace \/ server' = server
    BY <1>18 DEF RegisterStyle, NoFault
  <2>. QED BY <1>1, <1>2, <1>3, <1>4, <2>1 DEF Stages
<1>19. CASE SetDefaultStyle
  <2>1. /\ At("default") /\ UNCHANGED <<rows, folders, mishaps>>
        /\ Go("finish") \/ job' = [job EXCEPT !.at = "finish", !.pale = TRUE]
        /\ server.layer # None \/ server' = server
    BY <1>19 DEF SetDefaultStyle, NoFault
  <2>2. job'.at = "finish" /\ job'.series = job.series
    BY <1>3, <1>4, <2>1 DEF Stages, Jobs
  <2>. QED BY <1>1, <1>4, <2>1, <2>2 DEF Stages
<1>20. CASE Finish
  <2>1. At("finish") /\ UNCHANGED <<store, mishaps>> /\ job'.at = "idle"
    BY <1>20 DEF Finish, NoFault, NoJob
  <2>. QED BY <1>4, <2>1 DEF store, Stages
<1>21. CASE NextFile
  <2>1. /\ At("more") /\ UNCHANGED <<rows, folders, mishaps>> /\ Fails
        /\ server' = [server EXCEPT !.layer = None]
    BY <1>21 DEF NextFile, NoFault
  <2>2. ASSUME server = Empty PROVE server' = Empty
    <3>1. server' = [Empty EXCEPT !.layer = None]
      BY <2>1, <2>2
    <3>. QED BY <3>1 DEF Empty
  <2>. QED BY <1>2, <1>4, <2>1, <2>2 DEF Stages
<1>. QED BY <1>5, <1>6, <1>7, <1>8, <1>9, <1>10, <1>11, <1>12, <1>13, <1>14, <1>15, <1>16, <1>17,
            <1>18, <1>19, <1>20, <1>21 DEF Execution, Begin

LEMMA GoneNext == GoneInv /\ [Next]_vars => GoneInv'
<1>. SUFFICES ASSUME GoneInv, [Next]_vars PROVE TableGone' /\ FolderGone' /\ WorkspaceGone'
  BY TypeNext DEF GoneInv
<1>. USE DEF GoneInv
<1>1. SUFFICES ASSUME ~view'.on, "uncleaned" \notin mishaps' PROVE TableGone' /\ FolderGone' /\ WorkspaceGone'
  BY DEF TableGone, FolderGone, WorkspaceGone, Cleaned
<1>2. CASE Execution
  <2>1. ~view.on /\ view' = view /\ main' = main
    BY <1>1, <1>2 DEF Execution, Begin, BeginGone, At, world, StepFails, Stalls, RegisterWorkspace,
       ListFiles, ReadTable, ListRasters, DeleteLayer, RegisterStore, RegisterLayer, NextFile, PutCoverage, CreateTable,
       RecreateFolder, AddRows, PutMosaic, ConfigureMosaic, RegisterStyle, SetDefaultStyle, Finish
  <2>2. /\ mishaps \subseteq mishaps'
        /\ job'.at = "idle" \/ job'.series = job.series
        /\ job'.at # "workspace"
        /\ job'.at = "list" => job.at = "workspace"
        /\ job'.at = "table" => job.at = "list"
        /\ job'.at = "folder" => job.at = "table"
        /\ rows = None => rows' = None \/ job.at = "table"
        /\ folders' = folders \/ (job.at = "folder" /\ folders' = folders \cup {job.series})
        /\ server = Empty /\ job.at # "workspace" => server' = Empty
    BY <1>2, <2>1, ExecutionMakes
  <2>3. job.at \in {"table", "folder"} => Kind[job.series] = "mosaic"
    BY DEF TypeInv, Paths, Path, MosaicStages
  <2>4. TableGone'
    BY <1>1, <2>1, <2>2, <2>3, BeforeFacts DEF TableGone, Cleaned
  <2>5. FolderGone'
    BY <1>1, <2>1, <2>2, <2>3, BeforeFacts DEF FolderGone, Cleaned
  <2>6. WorkspaceGone'
    BY <1>1, <2>1, <2>2 DEF WorkspaceGone, Cleaned
  <2>. QED BY <2>4, <2>5, <2>6
<1>3. CASE Trigger \/ Edit \/ \E s \in Series : NewFile(s)
  <2>1. CASE Edit
    <3>1. PICK s, l : view' = [on |-> TRUE, series |-> s, legend |-> l]
      BY <2>1 DEF Edit
    <3>. QED BY <1>1, <3>1
  <2>2. CASE Trigger \/ \E s \in Series : NewFile(s)
    BY <1>1, <2>2 DEF Trigger, NewFile, world
  <2>. QED BY <1>3, <2>1, <2>2
<1>4. CASE Remove
  <2>1. main' = "table"
    BY <1>1, <1>4 DEF Remove
  <2>. QED BY <2>1 DEF TableGone, FolderGone, WorkspaceGone
<1>5. CASE DropTable
  <2>1. /\ main = "table" /\ main' = "folder" /\ job' = job
        /\ rows' = None /\ mishaps' = mishaps \cup Late("table", "lateTable")
    BY <1>1, <1>5 DEF DropTable, Cleans
  <2>2. TableGone'
    BY <2>1, BeforeFacts DEF TableGone, Late
  <2>. QED BY <2>1, <2>2 DEF FolderGone, WorkspaceGone
<1>6. CASE RemoveFiles
  <2>1. /\ main = "folder" /\ main' = "workspace" /\ job' = job /\ view' = view /\ rows' = rows
        /\ folders' = folders \ ({view.series} \ Masked)
        /\ mishaps' = mishaps \cup Late("folder", "lateFolder")
    BY <1>1, <1>6 DEF RemoveFiles, Cleans, world
  <2>2. FolderGone'
    BY <2>1, BeforeFacts DEF FolderGone, Late
  <2>3. TableGone'
    BY <1>1, <2>1 DEF TableGone, Cleaned
  <2>. QED BY <2>1, <2>2, <2>3 DEF WorkspaceGone
<1>7. CASE DeleteWorkspace
  <2>1. /\ main = "workspace" /\ main' = "idle" /\ job' = job /\ view' = view
        /\ UNCHANGED <<rows, folders>> /\ server' = Empty
        /\ mishaps' = mishaps \cup Late("workspace", "lateWorkspace")
    BY <1>1, <1>7 DEF DeleteWorkspace, Cleans, world
  <2>2. WorkspaceGone'
    BY <2>1, BeforeFacts DEF WorkspaceGone, Late
  <2>3. TableGone' /\ FolderGone'
    BY <1>1, <2>1 DEF TableGone, FolderGone, Cleaned
  <2>. QED BY <2>2, <2>3
<1>8. CASE Crash
  <2>1. /\ main = "idle" /\ main' = "idle" /\ job' = NoJob /\ mishaps \subseteq mishaps'
        /\ UNCHANGED <<view, server, rows, folders>>
    BY <1>1, <1>8 DEF Crash, store
  <2>2. job'.at \notin Before("table") \cup Before("folder") /\ job'.at # "workspace"
    BY <2>1, BeforeFacts DEF NoJob
  <2>. QED BY <1>1, <2>1, <2>2 DEF TableGone, FolderGone, WorkspaceGone, Cleaned
<1>9. CASE Restart \/ UNCHANGED vars
  <2>1. UNCHANGED <<view, main, job, server, rows, folders, mishaps>>
    BY <1>9 DEF Restart, vars, world, store
  <2>. QED BY <1>1, <2>1 DEF TableGone, FolderGone, WorkspaceGone, Cleaned
<1>. QED BY <1>2, <1>3, <1>4, <1>5, <1>6, <1>7, <1>8, <1>9 DEF Next, Cleanup

LEMMA GoneInit == Init => GoneInv
<1>. SUFFICES ASSUME Init PROVE GoneInv
  OBVIOUS
<1>1. view.on
  BY DEF Init
<1>. QED BY <1>1, TypeInit DEF GoneInv, TableGone, FolderGone, WorkspaceGone, Cleaned

\* When a view was removed and the removal went well, GeoServer, the database and the
\* folder have nothing of it, for any number of series, edits, faults and crashes, but for
\* what an execution had still to make when the removal came by.
THEOREM RemovedMeansGoneCorrect == Spec => []RemovedMeansGone
<1>1. GoneInv => RemovedMeansGone
  BY DEF GoneInv, TableGone, FolderGone, WorkspaceGone, Cleaned, RemovedMeansGone
<1>. QED BY <1>1, GoneInit, GoneNext, PTL DEF Spec

-----------------------------------------------------------------------------
(* An execution that ends as DONE has shown what it read *)

Unspoiled == {"moved", "halved"} \cap mishaps = {}

\* While the view has always been of one mosaic, GeoServer has either no store for it or
\* its store and its layer, and its table has the dates of this series only.
OneMosaic ==
  Kind[view.series] = "mosaic" =>
    /\ IF Has("mosaic")
       THEN /\ server.layer # None /\ server.layer.of = view.series
            /\ server.layer.store = "mosaic"
            /\ server.layer.whole \/ job.at = "configure"
       ELSE server.layer = None
    /\ job.at = "configure" => Has("mosaic")
    /\ rows # None => \A r \in rows : r[1] = view.series

OneSeries ==
  view.on /\ Unspoiled =>
    /\ job.at # "idle" => job.series = view.series
    /\ last.status = "done" => last.series = view.series
    /\ OneMosaic

\* What an execution has achieved at each stage.
Halfway ==
  view.on /\ job.at # "idle" /\ (Kind[job.series] = "mosaic" => Unspoiled) =>
    /\ job.at \in {"folder", "rows"} => rows # None
    /\ job.at \in {"mosaic", "configure"} => {job.series} \X (1..job.seen) \subseteq rows
    /\ job.at \in {"style", "default"} => Shown(job.series, job.seen)
    /\ job.at = "coverage" =>
         job.pale \/ server.layer = None \/ server.layer.store # "coverage"
    /\ job.at = "style" => job.pale \/ Kind[job.series] = "mosaic" \/ ~server.layer.styled
    /\ job.at = "default" => job.legend # None /\ server.style = job.legend
    /\ job.at = "finish" /\ job.seen > 0 =>
         Shown(job.series, job.seen) /\ (job.pale \/ InStyle(job.series, job.legend))

\* What the last execution achieved is still there.
Achieved ==
  /\ view.on /\ job.at = "idle" /\ last.status = "done" /\ last.seen > 0
  /\ Kind[last.series] = "mosaic" => Unspoiled
  => Shown(last.series, last.seen) /\ (last.pale \/ InStyle(last.series, last.legend))

\* Only a view that is removed is cleaned up.
Kept == main # "idle" => ~view.on

DoneInv == TypeInv /\ Kept /\ OneSeries /\ Halfway /\ Achieved

\* A step at a stage: the series stays, and mishaps are not taken back.
LEMMA DoneStage ==
  ASSUME DoneInv, view.on, NEW stage \in Stages, At(stage), mishaps \subseteq mishaps'
  PROVE  /\ view' = view /\ main' = main /\ job.at = stage /\ stage # "idle"
         /\ job \in Jobs /\ job.series \in Series /\ server \in Servers
         /\ Path(job) /\ last.status # "done"
         /\ Unspoiled' => Unspoiled
         /\ Unspoiled => job.series = view.series
<1>1. job \in Jobs /\ job.at = stage /\ Path(job) /\ job.series \in Series /\ server \in Servers
      /\ last.status # "done"
  BY AtFacts DEF DoneInv
<1>2. view' = view /\ main' = main /\ stage # "idle"
  BY DEF At, world, Stages
<1>3. Unspoiled' => Unspoiled
  BY DEF Unspoiled
<1>. QED BY <1>1, <1>2, <1>3 DEF DoneInv, OneSeries, OneMosaic

\* An execution fails; the mosaic is as it was.
LEMMA DoneFails ==
  ASSUME DoneInv, view.on, view' = view, main' = main, Fails,
         Unspoiled' => Unspoiled,
         Unspoiled' => /\ rows' = rows /\ job.at # "configure"
                       /\ server'.stores = server.stores /\ server'.layer = server.layer
  PROVE  Kept' /\ OneSeries' /\ Halfway' /\ Achieved'
<1>1. job'.at = "idle" /\ last'.status = "error"
  BY FailsFields
<1>2. Kept'
  BY DEF DoneInv, Kept
<1>3. OneSeries'
  BY <1>1 DEF DoneInv, OneSeries, OneMosaic, Has
<1>4. Halfway' /\ Achieved'
  BY <1>1 DEF Halfway, Achieved
<1>. QED BY <1>2, <1>3, <1>4

\* An execution of a view that is not of one mosaic: what it achieves is all that counts.
LEMMA DoneOther ==
  ASSUME DoneInv, view.on, view' = view, main' = main, job.at # "idle",
         Kind[job.series] # "mosaic", Unspoiled' => Unspoiled,
         Fails \/ (job'.at # "idle" /\ job'.series = job.series /\ last' = last /\ Halfway')
  PROVE  Kept' /\ OneSeries' /\ Halfway' /\ Achieved'
<1>1. Kept'
  BY DEF DoneInv, Kept
<1>2. OneSeries'
  BY FailsFields DEF DoneInv, OneSeries, OneMosaic
<1>3. Halfway' /\ Achieved'
  BY FailsFields DEF Halfway, Achieved
<1>. QED BY <1>1, <1>2, <1>3

LEMMA DoneLayer ==
  ASSUME DoneInv, view.on, DeleteLayer \/ RegisterStore \/ RegisterLayer \/ NextFile \/ PutCoverage
  PROVE  Kept' /\ OneSeries' /\ Halfway' /\ Achieved'
<1>. DEFINE s == job.series
<1>1. PICK stage \in {"delete", "store", "layer", "more", "coverage"} : At(stage)
  BY DEF DeleteLayer, RegisterStore, RegisterLayer, NextFile, PutCoverage
<1>2. /\ stage \in Stages /\ "layer" \in Stages /\ "more" \in Stages /\ "style" \in Stages
      /\ mishaps' = mishaps
  BY DEF Stages, DeleteLayer, RegisterStore, RegisterLayer, NextFile, PutCoverage, NoFault
<1>3. /\ view' = view /\ main' = main /\ job.at = stage /\ job.at # "idle"
      /\ job \in Jobs /\ s \in Series /\ server \in Servers /\ Path(job)
      /\ Unspoiled' => Unspoiled
  BY <1>1, <1>2, DoneStage
<1>4. Kind[s] # "mosaic" /\ Kind[s] \in Kinds
  BY <1>1, <1>3, ViewPublishAssumption DEF Path
<1>5. \A x \in Stages : Go(x) => /\ job'.at = x /\ job'.series = s /\ job'.pale = job.pale
                                 /\ x # "idle"
  BY <1>3, GoFields DEF Stages
<1>6. ASSUME NEW x \in BOOLEAN
      PROVE  /\ Layer(s, TRUE, x) # None /\ Layer(s, TRUE, x).of = s
             /\ Layer(s, TRUE, x).whole /\ Layer(s, TRUE, x).styled = x
  <2>1. Layer(s, TRUE, x) \in Layers
    BY <1>3, LayerType
  <2>2. Layer(s, TRUE, x) # None
    BY <2>1, ViewPublishAssumption
  <2>. QED BY <2>2 DEF Layer
<1>7. Fails \/ (job'.at # "idle" /\ job'.series = s /\ last' = last /\ Halfway')
  <2>1. CASE DeleteLayer
    <3>. DEFINE go == IF Kind[s] = "coverage" THEN "coverage" ELSE "store"
    <3>1. go \in Stages
      BY DEF Stages
    <3>2. SUFFICES ASSUME ~Fails PROVE job'.at # "idle" /\ job'.series = s /\ last' = last /\ Halfway'
      OBVIOUS
    <3>3. \/ /\ Go(go)
             /\ server' = IF server.layer # None /\ server.layer.store = StoreName(s)
                          THEN [server EXCEPT !.layer = None] ELSE server
          \/ Kind[s] = "coverage" /\ job' = [job EXCEPT !.at = go, !.pale = TRUE]
      BY <2>1, <3>2 DEF DeleteLayer
    <3>4. job'.at = go /\ job'.series = s /\ go # "idle" /\ last' = last
      BY <1>3, <1>5, <2>1, <3>1, <3>2, <3>3 DEF Jobs, DeleteLayer
    <3>5. Kind[s] = "coverage" =>
            job'.pale \/ server'.layer = None \/ server'.layer.store # "coverage"
      <4>1. Kind[s] = "coverage" => StoreName(s) = "coverage"
        BY DEF StoreName
      <4>2. CASE /\ Go(go)
                 /\ server' = IF server.layer # None /\ server.layer.store = StoreName(s)
                              THEN [server EXCEPT !.layer = None] ELSE server
        BY <1>3, <4>1, <4>2 DEF Servers
      <4>3. CASE Kind[s] = "coverage" /\ job' = [job EXCEPT !.at = go, !.pale = TRUE]
        BY <1>3, <4>3 DEF Jobs
      <4>. QED BY <3>3, <4>2, <4>3
    <3>6. go = "coverage" => Kind[s] = "coverage"
      OBVIOUS
    <3>7. go \in {"coverage", "store"}
      OBVIOUS
    <3>. HIDE DEF go
    <3>. QED BY <3>4, <3>5, <3>6, <3>7 DEF Halfway
  <2>2. CASE RegisterStore
    BY <1>2, <1>5, <2>2 DEF RegisterStore, Halfway
  <2>3. CASE RegisterLayer
    <3>1. SUFFICES ASSUME ~Fails PROVE job'.at # "idle" /\ job'.series = s /\ last' = last /\ Halfway'
      OBVIOUS
    <3>2. /\ Go("style") \/ Go("more")
          /\ last' = last /\ server' = [server EXCEPT !.layer = Layer(s, TRUE, FALSE)]
      BY <2>3, <3>1 DEF RegisterLayer, AfterLayer
    <3>3. server'.layer = Layer(s, TRUE, FALSE)
      BY <1>3, <3>2 DEF Servers
    <3>4. server'.layer # None /\ server'.layer.of = s /\ server'.layer.whole /\ ~server'.layer.styled
      BY <1>6, <3>3
    <3>. QED BY <1>2, <1>4, <1>5, <3>2, <3>4 DEF Halfway, Shown
  <2>4. CASE PutCoverage
    <3>1. SUFFICES ASSUME ~Fails PROVE job'.at # "idle" /\ job'.series = s /\ last' = last /\ Halfway'
      OBVIOUS
    <3>. DEFINE old == server.layer # None /\ server.layer.styled
                new == [server EXCEPT !.stores = Stored(StoreName(s), s)]
    <3>2. /\ Go("style") /\ last' = last /\ NameIsFree(StoreName(s)) /\ At("coverage")
          /\ server' = [new EXCEPT !.layer = Layer(s, TRUE, old)]
      BY <2>4, <3>1 DEF PutCoverage
    <3>3. old \in BOOLEAN
      BY <1>3 DEF Servers, Layers
    <3>4. server'.layer = Layer(s, TRUE, old)
      BY <1>3, <3>2 DEF Servers
    <3>5. job.at = "coverage" /\ StoreName(s) = "coverage"
      BY <1>3, <3>2 DEF At, Path, StoreName
    <3>6. job.pale \/ ~old
      <4>1. job.pale \/ server.layer = None \/ server.layer.store # "coverage"
        BY <1>4, <3>5 DEF DoneInv, Halfway
      <4>. QED BY <3>2, <3>5, <4>1 DEF NameIsFree
    <3>. HIDE DEF old
    <3>7. server'.layer # None /\ server'.layer.of = s /\ server'.layer.whole
          /\ server'.layer.styled = old
      BY <1>6, <3>3, <3>4
    <3>. QED BY <1>2, <1>4, <1>5, <3>2, <3>6, <3>7 DEF Halfway, Shown
  <2>5. CASE NextFile
    BY <2>5 DEF NextFile
  <2>. QED BY <2>1, <2>2, <2>3, <2>4, <2>5
<1>. QED BY <1>3, <1>4, <1>7, DoneOther

\* A step that goes on and leaves GeoServer and the table as they are.
LEMMA DoneGo ==
  ASSUME DoneInv, view.on, view' = view, main' = main, job.at # "idle",
         job'.at \notin {"idle", "configure"}, job.at # "configure",
         job'.series = job.series, last' = last, Unspoiled' => Unspoiled,
         server'.stores = server.stores, server'.layer = server.layer,
         rows' = rows \/ rows' = {}
  PROVE  Kept' /\ OneSeries' /\ Achieved'
<1>1. Kept' /\ Achieved'
  BY DEF DoneInv, Kept, Achieved
<1>2. OneSeries'
  <2>1. Has("mosaic")' = Has("mosaic")
    BY DEF Has
  <2>. QED BY <2>1 DEF DoneInv, OneSeries, OneMosaic
<1>. QED BY <1>1, <1>2

LEMMA DoneEarly ==
  ASSUME DoneInv, view.on,
         Begin \/ StepFails \/ RegisterWorkspace \/ ListFiles \/ ReadTable \/ ListRasters
  PROVE  Kept' /\ OneSeries' /\ Halfway' /\ Achieved'
<1>1. CASE Begin
  <2>1. /\ UNCHANGED <<view, main, server, rows, mishaps>> /\ job.at = "idle"
        /\ job' = [NoJob EXCEPT !.at = "workspace", !.series = view.series, !.legend = view.legend]
        /\ last' = NoRun
    BY <1>1 DEF Begin, world, store, NoJob
  <2>2. job'.at = "workspace" /\ job'.series = view.series /\ last'.status = "none"
    BY <2>1 DEF NoJob, NoRun
  <2>3. OneSeries'
    BY <2>1, <2>2 DEF DoneInv, OneSeries, OneMosaic, Unspoiled, Has
  <2>. QED BY <2>1, <2>2, <2>3 DEF DoneInv, Kept, Halfway, Achieved
<1>2. CASE StepFails
  <2>1. PICK stage \in Stages : At(stage)
    BY <1>2 DEF StepFails
  <2>2. /\ Fails /\ mishaps \subseteq mishaps' /\ UNCHANGED <<server, rows>>
        /\ job.at = "configure" => "halved" \in mishaps'
    BY <1>2 DEF StepFails, Halved, store
  <2>. QED BY <2>1, <2>2, DoneStage, DoneFails DEF Unspoiled
<1>3. CASE RegisterWorkspace
  <2>1. At("workspace") /\ "workspace" \in Stages /\ "list" \in Stages /\ mishaps' = mishaps
    BY <1>3 DEF RegisterWorkspace, Stages, NoFault
  <2>2. /\ view' = view /\ main' = main /\ job.at = "workspace" /\ job \in Jobs
        /\ server \in Servers /\ (Unspoiled' => Unspoiled)
    BY <2>1, DoneStage
  <2>3. server'.stores = server.stores /\ server'.layer = server.layer /\ rows' = rows
    BY <1>3, <2>2 DEF RegisterWorkspace, Servers
  <2>4. CASE Fails
    <3>1. Kept' /\ Halfway' /\ Achieved'
      BY <2>2, <2>4, FailsFields DEF DoneInv, Kept, Halfway, Achieved
    <3>2. OneSeries'
      BY <2>2, <2>3, <2>4, FailsFields DEF DoneInv, OneSeries, OneMosaic, Has
    <3>. QED BY <3>1, <3>2
  <2>5. CASE Go("list") /\ last' = last
    <3>1. job'.at = "list" /\ job'.series = job.series
      BY <2>1, <2>2, <2>5, GoFields
    <3>. QED BY <2>2, <2>3, <2>5, <3>1, DoneGo DEF Halfway
  <2>. QED BY <1>3, <2>4, <2>5 DEF RegisterWorkspace
<1>4. CASE ListFiles \/ ReadTable \/ ListRasters
  <2>1. At("list") /\ "list" \in Stages /\ "finish" \in Stages /\ UNCHANGED <<store, mishaps>>
    BY <1>4 DEF ListFiles, ReadTable, ListRasters, Stages, NoFault
  <2>2. /\ view' = view /\ main' = main /\ job.at = "list" /\ job \in Jobs /\ job.seen = 0
        /\ (Unspoiled' => Unspoiled)
    BY <2>1, DoneStage DEF Path
  <2>3. UNCHANGED <<server, rows>>
    BY <2>1 DEF store
  <2>4. \/ Fails
        \/ /\ last' = last /\ \/ Go("finish")
                              \/ job' = [job EXCEPT !.at = "delete", !.seen = files[job.series]]
                              \/ job' = [job EXCEPT !.at = "table", !.seen = files[job.series]]
    BY <1>4 DEF ListFiles, ReadTable, ListRasters, NothingToPublish
  <2>5. CASE Fails
    BY <2>2, <2>3, <2>5, DoneFails DEF DoneInv
  <2>6. CASE last' = last /\ ~Fails
    <3>1. /\ job'.series = job.series
          /\ job'.at \in {"delete", "table"} \/ (job'.at = "finish" /\ job'.seen = 0)
      BY <2>1, <2>2, <2>4, <2>6, GoFields DEF Jobs
    <3>2. Halfway'
      BY <3>1 DEF Halfway
    <3>. QED BY <2>2, <2>3, <2>6, <3>1, <3>2, DoneGo
  <2>. QED BY <2>4, <2>5, <2>6
<1>. QED BY <1>1, <1>2, <1>3, <1>4

LEMMA DoneStalls ==
  ASSUME DoneInv, view.on, Stalls
  PROVE  Kept' /\ OneSeries' /\ Halfway' /\ Achieved'
<1>1. /\ UNCHANGED <<view, main, server, rows, last>> /\ job'.at = "idle"
      /\ mishaps \subseteq mishaps' /\ (job.at = "configure" => "halved" \in mishaps')
  BY DEF Stalls, Halved, store, NoJob
<1>2. job.at # "idle" /\ last.status # "done"
  BY DEF Stalls, Stages, DoneInv, TypeInv, Paths
<1>3. Unspoiled' => Unspoiled /\ job.at # "configure"
  BY <1>1 DEF Unspoiled
<1>4. Has("mosaic")' = Has("mosaic")
  BY <1>1 DEF Has
<1>5. OneSeries'
  BY <1>1, <1>2, <1>3, <1>4 DEF DoneInv, OneSeries, OneMosaic
<1>6. Kept' /\ Halfway' /\ Achieved'
  BY <1>1, <1>2 DEF DoneInv, Kept, Halfway, Achieved
<1>. QED BY <1>5, <1>6

LEMMA DoneTable ==
  ASSUME DoneInv, view.on, CreateTable \/ RecreateFolder \/ AddRows
  PROVE  Kept' /\ OneSeries' /\ Halfway' /\ Achieved'
<1>. DEFINE s == job.series
<1>1. PICK stage \in {"table", "folder", "rows"} : At(stage)
  BY DEF CreateTable, RecreateFolder, AddRows
<1>2. /\ stage \in Stages /\ "folder" \in Stages /\ "rows" \in Stages /\ "mosaic" \in Stages
      /\ mishaps' = mishaps
  BY DEF Stages, CreateTable, RecreateFolder, AddRows, NoFault
<1>3. /\ view' = view /\ main' = main /\ job.at = stage /\ job \in Jobs /\ s \in Series
      /\ Kind[s] = "mosaic" /\ (Unspoiled' => Unspoiled) /\ server' = server
      /\ Unspoiled => s = view.series
  BY <1>1, <1>2, DoneStage DEF Path, MosaicStages, CreateTable, RecreateFolder, AddRows
<1>4. \A x \in Stages : Go(x) => job'.at = x /\ job'.series = s /\ job'.seen = job.seen
  BY <1>3, GoFields
<1>5. CASE CreateTable \/ RecreateFolder
  <2>1. (Go("folder") \/ Go("rows")) /\ last' = last /\ (rows' = rows \/ rows' = {})
    BY <1>5 DEF CreateTable, RecreateFolder
  <2>2. job'.at \in {"folder", "rows"} /\ job'.series = s
    BY <1>2, <1>4, <2>1
  <2>3. Unspoiled' => rows' # None
    <3>1. CASE CreateTable
      <4>1. {} # None
        BY ViewPublishAssumption
      <4>. QED BY <3>1, <4>1 DEF CreateTable
    <3>2. CASE RecreateFolder
      <4>1. Unspoiled => rows # None
        BY <1>3, <3>2 DEF RecreateFolder, At, DoneInv, Halfway
      <4>. QED BY <1>3, <3>2, <4>1 DEF RecreateFolder
    <3>. QED BY <1>5, <3>1, <3>2
  <2>4. Halfway'
    BY <1>3, <2>2, <2>3 DEF Halfway
  <2>. QED BY <1>1, <1>3, <2>1, <2>2, <2>4, DoneGo
<1>6. CASE AddRows /\ rows = None
  <2>1. rows' = rows /\ (Fails \/ (Go("mosaic") /\ last' = last))
    BY <1>6 DEF AddRows
  <2>2. CASE Fails
    BY <1>1, <1>3, <2>1, <2>2, DoneFails
  <2>3. CASE Go("mosaic") /\ last' = last
    <3>1. job'.at = "mosaic" /\ job'.series = s
      BY <1>2, <1>4, <2>3
    <3>2. ~Unspoiled
      BY <1>3, <1>6 DEF AddRows, At, DoneInv, Halfway
    <3>3. Halfway'
      BY <1>3, <3>1, <3>2 DEF Halfway
    <3>. QED BY <1>1, <1>3, <2>1, <2>3, <3>1, <3>3, DoneGo
  <2>. QED BY <2>1, <2>2, <2>3
<1>7. CASE AddRows /\ rows # None
  <2>1. /\ rows' = rows \cup {r \in {s} \X (1..job.seen) : \A t \in Series : <<t, r[2]>> \notin rows}
        /\ Go("mosaic") /\ last' = last
    BY <1>7 DEF AddRows
  <2>2. job'.at = "mosaic" /\ job'.series = s /\ job'.seen = job.seen
    BY <1>2, <1>4, <2>1
  <2>3. Unspoiled /\ Kind[view.series] = "mosaic" => \A r \in rows : r[1] = s
    BY <1>3, <1>7 DEF DoneInv, OneSeries, OneMosaic
  <2>4. rows \subseteq Series \X (1..MaxDates)
    BY <1>7 DEF DoneInv, TypeInv, TypeOK
  <2>5. \A r \in rows' : r \in rows \/ r[1] = s
    BY <2>1
  <2>6. OneSeries'
    <3>1. server' = server /\ Has("mosaic")' = Has("mosaic")
      BY <1>3 DEF Has
    <3>. QED BY <1>1, <1>3, <2>1, <2>2, <2>3, <2>5, <3>1 DEF DoneInv, OneSeries, OneMosaic
  <2>7. Unspoiled /\ Kind[view.series] = "mosaic" => {s} \X (1..job.seen) \subseteq rows'
    <3>1. SUFFICES ASSUME \A r \in rows : r[1] = s, NEW d \in 1..job.seen
                   PROVE  <<s, d>> \in rows'
      BY <2>3
    <3>2. CASE \E t \in Series : <<t, d>> \in rows
      <4>1. PICK t \in Series : <<t, d>> \in rows
        BY <3>2
      <4>2. t = s
        BY <3>1, <4>1
      <4>. QED BY <2>1, <4>1, <4>2
    <3>3. CASE \A t \in Series : <<t, d>> \notin rows
      BY <2>1, <3>3
    <3>. QED BY <3>2, <3>3
  <2>8. Halfway'
    <3>1. ASSUME Unspoiled PROVE {s} \X (1..job.seen) \subseteq rows'
      BY <1>3, <2>7, <3>1
    <3>. QED BY <1>3, <2>2, <3>1 DEF Halfway
  <2>. QED BY <1>1, <1>3, <2>1, <2>2, <2>6, <2>8 DEF DoneInv, Kept, Achieved
<1>. QED BY <1>5, <1>6, <1>7

LEMMA DoneMosaic ==
  ASSUME DoneInv, view.on, PutMosaic
  PROVE  Kept' /\ OneSeries' /\ Halfway' /\ Achieved'
<1>. DEFINE s == job.series
            new == [server EXCEPT !.stores = Stored("mosaic", s)]
<1>1. At("mosaic") /\ "mosaic" \in Stages /\ "style" \in Stages /\ "configure" \in Stages
  BY DEF PutMosaic, Stages
<1>2. mishaps \subseteq mishaps' /\ rows' = rows
  BY DEF PutMosaic, NoFault
<1>3. /\ view' = view /\ main' = main /\ job.at = "mosaic" /\ job \in Jobs /\ s \in Series
      /\ server \in Servers /\ Kind[s] = "mosaic" /\ (Unspoiled' => Unspoiled)
      /\ Unspoiled => s = view.series
  BY <1>1, <1>2, DoneStage DEF Path, MosaicStages
<1>4. \A x \in Stages : Go(x) => job'.at = x /\ job'.series = s /\ job'.seen = job.seen
  BY <1>3, GoFields
<1>5. Kept'
  BY <1>3 DEF DoneInv, Kept
<1>6. Unspoiled => {s} \X (1..job.seen) \subseteq rows
  BY <1>3 DEF DoneInv, Halfway
<1>7. Unspoiled => OneMosaic
  BY DEF DoneInv, OneSeries
<1>8. CASE Has("mosaic")
  <2>1. Go("style") /\ last' = last /\ server' = server
    BY <1>8 DEF PutMosaic
  <2>2. job'.at = "style" /\ job'.series = s /\ job'.seen = job.seen
    BY <1>1, <1>4, <2>1
  <2>3. OneSeries'
    <3>1. Has("mosaic")' = Has("mosaic")
      BY <2>1 DEF Has
    <3>. QED BY <1>2, <1>3, <1>7, <1>8, <2>1, <2>2, <3>1 DEF DoneInv, OneSeries, OneMosaic
  <2>4. Halfway'
    <3>1. Unspoiled => server.layer # None /\ server.layer.of = s /\ server.layer.whole
      BY <1>3, <1>7, <1>8 DEF OneMosaic
    <3>. QED BY <1>2, <1>3, <1>6, <2>1, <2>2, <3>1 DEF Halfway, Shown
  <2>. QED BY <1>5, <2>2, <2>3, <2>4 DEF Achieved
<1>9. CASE ~Has("mosaic") /\ server.workspace /\ NameIsFree("mosaic")
  <2>1. /\ server' = [new EXCEPT !.layer = Layer(s, FALSE, FALSE)]
        /\ \/ Go("configure") /\ last' = last
           \/ Fails /\ mishaps' = mishaps \cup {"halved"}
    BY <1>9 DEF PutMosaic
  <2>2. CASE Fails /\ mishaps' = mishaps \cup {"halved"}
    <3>1. ~Unspoiled'
      BY <2>2 DEF Unspoiled
    <3>. QED BY <1>3, <2>2, <3>1, DoneFails
  <2>3. CASE Go("configure") /\ last' = last
    <3>1. job'.at = "configure" /\ job'.series = s /\ job'.seen = job.seen
      BY <1>1, <1>4, <2>3
    <3>2. server'.stores = Stored("mosaic", s) /\ server'.layer = Layer(s, FALSE, FALSE)
      BY <1>3, <2>1 DEF Servers
    <3>3. Has("mosaic")'
      BY <1>3, <3>2 DEF Has, Stored
    <3>4. Layer(s, FALSE, FALSE) # None
      BY <1>3, LayerType, ViewPublishAssumption
    <3>5. /\ server'.layer # None /\ server'.layer.of = s
          /\ server'.layer.store = "mosaic"
      BY <1>3, <3>2, <3>4 DEF Layer, StoreName
    <3>6. OneSeries'
      BY <1>2, <1>3, <1>7, <2>3, <3>1, <3>3, <3>5 DEF DoneInv, OneSeries, OneMosaic
    <3>7. Halfway'
      BY <1>2, <1>3, <1>6, <3>1 DEF Halfway
    <3>. QED BY <1>5, <3>1, <3>6, <3>7 DEF Achieved
  <2>. QED BY <2>1, <2>2, <2>3
<1>10. CASE ~Has("mosaic") /\ ~(server.workspace /\ NameIsFree("mosaic"))
  <2>1. Fails /\ (server' = server \/ server.workspace)
    BY <1>10 DEF PutMosaic
  <2>2. Unspoiled => NameIsFree("mosaic")
    BY <1>3, <1>7, <1>10 DEF OneMosaic, NameIsFree
  <2>. QED BY <1>2, <1>3, <1>10, <2>1, <2>2, DoneFails
<1>. QED BY <1>8, <1>9, <1>10

LEMMA DoneConfigure ==
  ASSUME DoneInv, view.on, ConfigureMosaic
  PROVE  Kept' /\ OneSeries' /\ Halfway' /\ Achieved'
<1>. DEFINE s == job.series
<1>1. At("configure") /\ "configure" \in Stages /\ "style" \in Stages
  BY DEF ConfigureMosaic, Stages
<1>2. mishaps' = mishaps /\ rows' = rows
  BY DEF ConfigureMosaic, NoFault
<1>3. /\ view' = view /\ main' = main /\ job.at = "configure" /\ job \in Jobs /\ s \in Series
      /\ server \in Servers /\ Kind[s] = "mosaic" /\ (Unspoiled' => Unspoiled)
      /\ Unspoiled => s = view.series
  BY <1>1, <1>2, DoneStage DEF Path, MosaicStages
<1>4. Unspoiled => {s} \X (1..job.seen) \subseteq rows
  BY <1>3 DEF DoneInv, Halfway
<1>5. Unspoiled => OneMosaic /\ server.layer # None /\ server.layer.of = s
  BY <1>3 DEF DoneInv, OneSeries, OneMosaic
<1>6. CASE server.layer = None
  BY <1>3, <1>5, <1>6, DoneFails DEF ConfigureMosaic
<1>7. CASE server.layer # None
  <2>1. /\ server' = [server EXCEPT !.layer.whole = TRUE]
        /\ (Go("style") /\ last' = last) \/ Fails
    BY <1>7 DEF ConfigureMosaic
  <2>2. server.layer \in Layers
    BY <1>3, <1>7 DEF Servers
  <2>3. /\ server'.stores = server.stores
        /\ server'.layer = [server.layer EXCEPT !.whole = TRUE]
    BY <1>3, <2>1 DEF Servers
  <2>4. [server.layer EXCEPT !.whole = TRUE] \in Layers
    BY <2>2 DEF Layers
  <2>5. /\ server'.layer # None /\ server'.layer.of = server.layer.of
        /\ server'.layer.store = server.layer.store /\ server'.layer.whole
    BY <2>2, <2>3, <2>4, ViewPublishAssumption DEF Layers
  <2>6. /\ \/ job'.at = "style" /\ job'.series = s /\ job'.seen = job.seen /\ last' = last
           \/ job'.at = "idle" /\ last'.status = "error"
    BY <1>1, <1>3, <2>1, GoFields, FailsFields
  <2>7. OneSeries'
    <3>1. Has("mosaic")' = Has("mosaic")
      BY <2>3 DEF Has
    <3>. QED BY <1>2, <1>3, <1>5, <2>5, <2>6, <3>1 DEF DoneInv, OneSeries, OneMosaic
  <2>8. Halfway'
    BY <1>2, <1>3, <1>4, <1>5, <2>5, <2>6 DEF Halfway, Shown
  <2>9. Kept' /\ Achieved'
    BY <1>3, <2>6 DEF DoneInv, Kept, Achieved
  <2>. QED BY <2>7, <2>8, <2>9
<1>. QED BY <1>6, <1>7

LEMMA DoneStyle ==
  ASSUME DoneInv, view.on, RegisterStyle
  PROVE  Kept' /\ OneSeries' /\ Halfway' /\ Achieved'
<1>. DEFINE s == job.series
<1>1. At("style") /\ "style" \in Stages /\ "default" \in Stages /\ "finish" \in Stages
  BY DEF RegisterStyle, Stages
<1>2. mishaps' = mishaps /\ rows' = rows
  BY DEF RegisterStyle, NoFault
<1>3. /\ view' = view /\ main' = main /\ job.at = "style" /\ job \in Jobs /\ s \in Series
      /\ server \in Servers /\ (Unspoiled' => Unspoiled) /\ (Unspoiled => Unspoiled')
  BY <1>1, <1>2, DoneStage DEF Unspoiled
<1>4. (Kind[s] = "mosaic" => Unspoiled) =>
        Shown(s, job.seen) /\ (job.pale \/ Kind[s] = "mosaic" \/ ~server.layer.styled)
  BY <1>3 DEF DoneInv, Halfway
<1>5. server'.stores = server.stores /\ server'.layer = server.layer
  BY <1>3 DEF RegisterStyle, Servers
<1>6. \A t, n : Shown(t, n)' = Shown(t, n)
  BY <1>2, <1>5 DEF Shown
<1>7. CASE Fails
  BY <1>2, <1>3, <1>5, <1>7, DoneFails
<1>8. CASE ~Fails
  <2>1. /\ last' = last
        /\ \/ job.legend = None /\ Go("finish")
           \/ job.legend # None /\ Go("default") /\ server' = [server EXCEPT !.style = job.legend]
    BY <1>8 DEF RegisterStyle
  <2>2. /\ job'.series = s /\ job'.seen = job.seen /\ job'.pale = job.pale /\ job'.legend = job.legend
        /\ \/ job.legend = None /\ job'.at = "finish"
           \/ job.legend # None /\ job'.at = "default" /\ server'.style = job.legend
    BY <1>1, <1>3, <2>1, GoFields DEF Servers
  <2>3. Halfway'
    BY <1>2, <1>3, <1>4, <1>5, <1>6, <2>2 DEF Halfway, InStyle
  <2>. QED BY <1>2, <1>3, <1>5, <2>1, <2>2, <2>3, DoneGo
<1>. QED BY <1>7, <1>8

LEMMA DoneDefault ==
  ASSUME DoneInv, view.on, SetDefaultStyle
  PROVE  Kept' /\ OneSeries' /\ Halfway' /\ Achieved'
<1>. DEFINE s == job.series
<1>1. At("default") /\ "default" \in Stages /\ "finish" \in Stages
  BY DEF SetDefaultStyle, Stages
<1>2. mishaps' = mishaps /\ rows' = rows /\ last' = last
  BY DEF SetDefaultStyle, NoFault
<1>3. /\ view' = view /\ main' = main /\ job.at = "default" /\ job \in Jobs /\ s \in Series
      /\ server \in Servers /\ (Unspoiled' => Unspoiled)
  BY <1>1, <1>2, DoneStage
<1>4. (Kind[s] = "mosaic" => Unspoiled) =>
        Shown(s, job.seen) /\ job.legend # None /\ server.style = job.legend
  BY <1>3 DEF DoneInv, Halfway
<1>5. CASE server.layer # None /\ server' = [server EXCEPT !.layer.styled = TRUE] /\ Go("finish")
  <2>1. server.layer \in Layers
    BY <1>3, <1>5 DEF Servers
  <2>2. /\ server'.stores = server.stores /\ server'.style = server.style
        /\ server'.layer = [server.layer EXCEPT !.styled = TRUE]
    BY <1>3, <1>5 DEF Servers
  <2>3. [server.layer EXCEPT !.styled = TRUE] \in Layers
    BY <2>1 DEF Layers
  <2>4. /\ server'.layer # None /\ server'.layer.of = server.layer.of
        /\ server'.layer.store = server.layer.store /\ server'.layer.whole = server.layer.whole
        /\ server'.layer.styled
    BY <2>1, <2>2, <2>3, ViewPublishAssumption DEF Layers
  <2>5. job'.at = "finish" /\ job'.series = s /\ job'.seen = job.seen /\ job'.legend = job.legend
    BY <1>1, <1>3, <1>5, GoFields
  <2>6. OneSeries'
    <3>1. Has("mosaic")' = Has("mosaic")
      BY <2>2 DEF Has
    <3>. QED BY <1>2, <1>3, <1>5, <2>4, <2>5, <3>1 DEF DoneInv, OneSeries, OneMosaic
  <2>7. Halfway'
    BY <1>2, <1>3, <1>4, <2>2, <2>4, <2>5 DEF Halfway, Shown, InStyle
  <2>8. Kept' /\ Achieved'
    BY <1>3, <2>5 DEF DoneInv, Kept, Achieved
  <2>. QED BY <2>6, <2>7, <2>8
<1>6. CASE job' = [job EXCEPT !.at = "finish", !.pale = TRUE] /\ server' = server
  <2>1. job'.at = "finish" /\ job'.series = s /\ job'.seen = job.seen /\ job'.pale
    BY <1>3, <1>6 DEF Jobs
  <2>2. Halfway'
    BY <1>2, <1>3, <1>4, <1>6, <2>1 DEF Halfway, Shown
  <2>. QED BY <1>2, <1>3, <1>6, <2>1, <2>2, DoneGo
<1>. QED BY <1>5, <1>6 DEF SetDefaultStyle

LEMMA DoneFinish ==
  ASSUME DoneInv, view.on, Finish
  PROVE  Kept' /\ OneSeries' /\ Halfway' /\ Achieved'
<1>1. At("finish") /\ "finish" \in Stages /\ UNCHANGED <<server, rows, mishaps>>
  BY DEF Finish, store, NoFault, Stages
<1>2. view' = view /\ main' = main /\ job.at = "finish" /\ (Unspoiled => job.series = view.series)
  BY <1>1, DoneStage
<1>3. /\ job'.at = "idle"
      /\ last'.status = "done" /\ last'.series = job.series /\ last'.legend = job.legend
      /\ last'.seen = job.seen /\ last'.pale = job.pale
  BY DEF Finish, NoJob
<1>4. Unspoiled' = Unspoiled /\ Has("mosaic")' = Has("mosaic")
  BY <1>1 DEF Unspoiled, Has
<1>5. Kept' /\ OneSeries' /\ Halfway'
  BY <1>1, <1>2, <1>3, <1>4 DEF DoneInv, Kept, OneSeries, OneMosaic, Halfway
<1>6. Achieved'
  BY <1>1, <1>2, <1>3, <1>4 DEF DoneInv, Halfway, Achieved, Shown, InStyle
<1>. QED BY <1>5, <1>6

LEMMA DoneOutside ==
  ASSUME DoneInv, view.on, view'.on,
         Trigger \/ Edit \/ Crash \/ Restart \/ (\E s \in Series : NewFile(s)) \/ UNCHANGED vars
  PROVE  Kept' /\ OneSeries' /\ Halfway' /\ Achieved'
<1>1. main = "idle" /\ main' = "idle" /\ UNCHANGED <<server, rows>>
  BY DEF Trigger, Edit, Crash, Restart, NewFile, vars, world, store, DoneInv, Kept
<1>2. Has("mosaic")' = Has("mosaic")
  BY <1>1 DEF Has
<1>3. CASE Trigger \/ Restart \/ (\E s \in Series : NewFile(s)) \/ UNCHANGED vars
  <2>1. UNCHANGED <<view, job, last, mishaps>>
    BY <1>3 DEF Trigger, Restart, NewFile, vars, world
  <2>2. Unspoiled' = Unspoiled /\ (\A s, n : Shown(s, n)' = Shown(s, n))
        /\ (\A s, l : InStyle(s, l)' = InStyle(s, l))
    BY <1>1, <2>1 DEF Unspoiled, Shown, InStyle
  <2>. QED BY <1>1, <1>2, <2>1, <2>2 DEF DoneInv, Kept, OneSeries, OneMosaic, Halfway, Achieved
<1>4. CASE Edit
  <2>1. PICK s \in Series, l \in Legends \cup {None} :
          /\ view' = [on |-> TRUE, series |-> s, legend |-> l]
          /\ mishaps' = mishaps \cup (IF s # view.series THEN {"moved"} ELSE {})
    BY <1>4 DEF Edit
  <2>2. job' = job /\ last' = last
    BY <1>4 DEF Edit
  <2>3. Unspoiled' => Unspoiled /\ view'.series = view.series
    BY <2>1 DEF Unspoiled
  <2>4. (\A t, n : Shown(t, n)' = Shown(t, n)) /\ (\A t, k : InStyle(t, k)' = InStyle(t, k))
    BY <1>1 DEF Shown, InStyle
  <2>. QED BY <1>1, <1>2, <2>2, <2>3, <2>4 DEF DoneInv, Kept, OneSeries, OneMosaic, Halfway, Achieved
<1>5. CASE Crash
  <2>1. /\ view' = view /\ job'.at = "idle"
        /\ IF job.at = "idle" THEN last' = last ELSE last'.status = "error"
        /\ mishaps \subseteq mishaps' /\ (job.at = "configure" => "halved" \in mishaps')
    BY <1>5 DEF Crash, NoJob, NoRun
  <2>2. Unspoiled' => Unspoiled /\ job.at # "configure"
    BY <2>1 DEF Unspoiled
  <2>3. (\A t, n : Shown(t, n)' = Shown(t, n)) /\ (\A t, k : InStyle(t, k)' = InStyle(t, k))
    BY <1>1 DEF Shown, InStyle
  <2>4. Kept' /\ Halfway'
    BY <1>1, <2>1 DEF Kept, Halfway
  <2>5. OneSeries'
    BY <1>1, <1>2, <2>1, <2>2 DEF DoneInv, OneSeries, OneMosaic
  <2>6. Achieved'
    BY <2>1, <2>2, <2>3 DEF DoneInv, Achieved
  <2>. QED BY <2>4, <2>5, <2>6
<1>. QED BY <1>3, <1>4, <1>5

LEMMA DoneNext == DoneInv /\ [Next]_vars => DoneInv'
<1>. SUFFICES ASSUME DoneInv, [Next]_vars PROVE Kept' /\ OneSeries' /\ Halfway' /\ Achieved'
  BY TypeNext DEF DoneInv
<1>1. CASE ~view'.on
  BY <1>1 DEF Kept, OneSeries, Halfway, Achieved
<1>2. CASE view'.on
  <2>1. ~Remove
    BY <1>2 DEF Remove, DoneInv, TypeInv, TypeOK
  <2>2. view.on
    <3>1. view' = view \/ Edit \/ Remove
      BY DEF Next, Execution, Begin, BeginGone, At, world, StepFails, Stalls, RegisterWorkspace, ListFiles,
         ReadTable, ListRasters, DeleteLayer, RegisterStore, RegisterLayer, NextFile, PutCoverage, CreateTable,
         RecreateFolder, AddRows, PutMosaic, ConfigureMosaic, RegisterStyle, SetDefaultStyle, Finish,
         Trigger, Cleanup, DropTable, RemoveFiles, DeleteWorkspace, Cleans, NewFile, Crash, Restart, vars
    <3>. QED BY <1>2, <2>1, <3>1 DEF Edit
  <2>3. ~Cleanup
    BY <2>2 DEF Cleanup, DropTable, RemoveFiles, DeleteWorkspace, Cleans, DoneInv, Kept
  <2>4. CASE Execution
    BY <2>2, <2>4, DoneEarly, DoneStalls, DoneLayer, DoneTable, DoneMosaic, DoneConfigure, DoneStyle, DoneDefault,
       DoneFinish DEF Execution, BeginGone
  <2>5. CASE Trigger \/ Edit \/ Crash \/ Restart \/ (\E s \in Series : NewFile(s)) \/ UNCHANGED vars
    BY <1>2, <2>2, <2>5, DoneOutside
  <2>. QED BY <2>1, <2>3, <2>4, <2>5 DEF Next
<1>. QED BY <1>1, <1>2

LEMMA DoneInit == Init => DoneInv
<1>. SUFFICES ASSUME Init PROVE DoneInv
  OBVIOUS
<1>1. job.at = "idle" /\ last.status = "none" /\ main = "idle" /\ rows = None
  BY DEF Init, NoJob, NoRun
<1>2. server.stores = {} /\ server.layer = None
  BY DEF Init, Empty
<1>3. ~Has("mosaic")
  BY <1>2 DEF Has
<1>. QED BY <1>1, <1>2, <1>3, TypeInit DEF DoneInv, Kept, OneSeries, OneMosaic, Halfway, Achieved

\* Every variable keeps its type, and after an execution that ended as DONE GeoServer has
\* the layer of its series, whole, with all dates it has read, in the style of its legend,
\* for any number of series, legends, edits, failed requests and crashes.
THEOREM DoneMeansShownCorrect == Spec => []DoneMeansShown
<1>1. DoneInv => DoneMeansShown
  <2>. SUFFICES ASSUME DoneInv PROVE DoneMeansShown
    OBVIOUS
  <2>1. TypeOK
    BY DEF DoneInv, TypeInv
  <2>2. job = NoJob => job.at = "idle"
    BY DEF NoJob
  <2>. QED BY <2>1, <2>2 DEF DoneInv, Achieved, Unspoiled, DoneMeansShown
<1>. QED BY <1>1, DoneInit, DoneNext, PTL DEF Spec

=============================================================================
