------------------------------ MODULE ViewPublish ------------------------------
(***************************************************************************)
(* The layer of one view in GeoServer: the executions of the view, which   *)
(* register it with a series of HTTP requests (and, for dynamic rasters, a *)
(* table and a folder), and the removal of the view on the main thread.    *)
(* Nothing is a transaction; the next execution starts from what the last  *)
(* one has left.                                                           *)
(*                                                                         *)
(* Executions follow each other as in ServiceQueue.  A data series has one *)
(* data set; its dates, or its files in the order in which they are        *)
(* listed, are the numbers 1 to files[s].                                  *)
(***************************************************************************)
EXTENDS Naturals

CONSTANTS
  Series,    \* data series that the view may show
  Kind,      \* how each is registered: see Kinds
  Masked,    \* the series for which the folder of an execution is not the one that a
             \* removal looks in: one has the folder mask and the name in small letters
  Legends,   \* the legends that the view may have
  None,      \* no legend, no style, no layer, no table
  MaxDates,  \* bound: dates of a dynamic series
  MaxEdits,  \* bound: edits of the view
  MaxFaults  \* bound: failed requests and crashes

\* POSTGIS; FILE and OGR; FILE and GDAL; FILE and GDAL, dynamic
Kinds == {"table", "vector", "coverage", "mosaic"}

\* The layers that GeoServer may have of the view.
Layers == [store : Series \cup Kinds, of : Series, whole : BOOLEAN, styled : BOOLEAN]

ASSUME ViewPublishAssumption ==
  /\ Kind \in [Series -> Kinds] /\ Masked \subseteq Series
  /\ Series \cap Kinds = {} /\ Legends # {} /\ None \notin Series \cup Legends \cup Layers
  /\ \A dates \in SUBSET (Series \X (1..MaxDates)) : dates # None
  /\ MaxDates \in Nat \ {0} /\ MaxEdits \in Nat /\ MaxFaults \in Nat

VARIABLES
  view,     \* the registration of the view: [on, series, legend]
  files,    \* external: what each series has (0: nothing that can be published)
  up,       \* the service runs
  stuck,    \* an execution ended without notifyWaitQueue: none begins after it
  main,     \* where the main thread is in removeCompleteView
  asked,    \* a package of the view waits to be executed
  job,      \* the execution: where it is, and what it has read
  server,   \* GeoServer: the workspace of the view and what is in it
  rows,     \* the table of the view: pairs <<series, date>>, or None
  folders,  \* series in whose folder there are properties files of the view
  last,     \* the last execution that ended
  mishaps,  \* history: see Mishaps
  edits, faults

world == <<view, files, up, stuck, edits>>
store == <<server, rows, folders>>
vars == <<world, main, asked, job, store, last, mishaps, faults>>

\* "moved": the series of the view was changed
\* "halved": a mosaic was created whose coverage was not configured
\* "late...": an execution had not yet made what the removal removes
\* "uncleaned": a removal failed, was cut by a crash, or met no service
Mishaps == {"moved", "halved", "lateTable", "lateFolder", "lateWorkspace", "uncleaned"}

Stages == {"workspace", "list", "delete", "store", "layer", "more", "coverage", "table",
           "folder", "rows", "mosaic", "configure", "style", "default", "finish"}

\* The datastore or coverage store: its name has the series only for tables.
StoreName(s) == IF Kind[s] = "table" THEN s ELSE Kind[s]

NoJob == [at |-> "idle", series |-> None, legend |-> None, seen |-> 0, pale |-> FALSE]
NoRun == [status |-> "none", series |-> None, legend |-> None, seen |-> 0, pale |-> FALSE]
Empty == [workspace |-> FALSE, stores |-> {}, layer |-> None, style |-> None]

TypeOK ==
  /\ view \in [on : BOOLEAN, series : Series, legend : Legends \cup {None}]
  /\ files \in [Series -> 0..MaxDates]
  /\ up \in BOOLEAN /\ stuck \in BOOLEAN /\ asked \in BOOLEAN
  /\ main \in {"idle", "table", "folder", "workspace"}
  /\ job \in [at : Stages \cup {"idle"}, series : Series \cup {None},
              legend : Legends \cup {None}, seen : 0..MaxDates, pale : BOOLEAN]
  /\ last \in [status : {"none", "done", "error"}, series : Series \cup {None},
               legend : Legends \cup {None}, seen : 0..MaxDates, pale : BOOLEAN]
  /\ server.workspace \in BOOLEAN /\ server.style \in Legends \cup {None}
  /\ server.stores \subseteq (Series \cup Kinds) \X Series
  /\ server.layer = None \/ server.layer \in Layers
  /\ rows = None \/ rows \subseteq Series \X (1..MaxDates)
  /\ folders \subseteq Series
  /\ mishaps \subseteq Mishaps
  /\ edits \in 0..MaxEdits /\ faults \in 0..MaxFaults

-----------------------------------------------------------------------------
(* GeoServer *)

Has(name) == \E s \in Series : <<name, s>> \in server.stores

\* A store with this name for series s, in place of one that had the name.
Stored(name, s) == {p \in server.stores : p[1] # name} \cup {<<name, s>>}

Layer(s, whole, styled) ==
  [store |-> StoreName(s), of |-> s, whole |-> whole, styled |-> styled]

\* Names of layers are unique in a workspace.
NameIsFree(name) == server.layer = None \/ server.layer.store = name

-----------------------------------------------------------------------------
(* Executions *)

Go(stage) == job' = [job EXCEPT !.at = stage]

\* An exception: the register of the run is ERROR.
Fails == job' = NoJob /\ last' = [NoRun EXCEPT !.status = "error"]

Fault == faults < MaxFaults /\ faults' = faults + 1
NoFault == UNCHANGED <<faults, mishaps>>

At(stage) == up /\ job.at = stage /\ UNCHANGED <<world, main, asked>>

\* The view is read under the lock of the data manager, which a removal holds.
Begin ==
  /\ up /\ main = "idle" /\ asked /\ job = NoJob /\ ~stuck
  /\ view.on
  /\ asked' = FALSE /\ last' = NoRun
  /\ job' = [NoJob EXCEPT !.at = "workspace", !.series = view.series, !.legend = view.legend]
  /\ UNCHANGED <<world, main, store, mishaps, faults>>

\* A package that was taken from processQueue before its view was removed.
BeginGone ==
  /\ up /\ main = "idle" /\ asked /\ job = NoJob /\ ~stuck /\ ~view.on
  /\ asked' = FALSE
  /\ last' = [NoRun EXCEPT !.status = "error"]
  /\ UNCHANGED <<world, main, job, store, mishaps, faults>>

\* What an end at this stage leaves half done.
Halved == mishaps' = mishaps \cup (IF job.at = "configure" THEN {"halved"} ELSE {})

\* The rasters are read under the lock of the data manager, too.
Unlocked == job.at # "list" \/ Kind[job.series] # "mosaic" \/ main = "idle"

\* A request or a statement fails: the execution ends.
StepFails ==
  /\ \E stage \in Stages : At(stage)
  /\ Unlocked /\ Fault /\ Fails /\ Halved
  /\ UNCHANGED store

\* The log fails, too: what its handler throws leaves viewJob, the register stays
\* in START and the process among those that are processed.
Stalls ==
  /\ up /\ job.at \in Stages
  /\ Unlocked /\ Fault /\ Halved
  /\ stuck' = TRUE /\ job' = NoJob
  /\ UNCHANGED <<view, files, up, edits, main, asked, store, last>>

RegisterWorkspace ==
  /\ At("workspace")
  /\ server' = [server EXCEPT !.workspace = TRUE]
  /\ \/ Go("list") /\ NoFault /\ UNCHANGED last
     \/ Fault /\ Fails /\ UNCHANGED mishaps \* done, but the answer is lost
  /\ UNCHANGED <<rows, folders>>

\* Without anything to publish: a legend cannot be made into a style without a
\* layer to see what it is for; without legend the execution is done.
NothingToPublish ==
  /\ files[job.series] = 0
  /\ IF job.legend # None THEN Fails ELSE Go("finish") /\ UNCHANGED last

\* The files of a static series, or of a dynamic one of vectors.
ListFiles ==
  /\ At("list") /\ Kind[job.series] \in {"vector", "coverage"} /\ NoFault
  /\ \/ /\ files[job.series] > 0
        /\ job' = [job EXCEPT !.at = "delete", !.seen = files[job.series]]
        /\ UNCHANGED last
     \/ NothingToPublish
  /\ UNCHANGED store

\* A table, which may have to be joined with that of the monitored objects;
\* without it or its key the data set is left out.
ReadTable ==
  /\ At("list") /\ Kind[job.series] = "table" /\ NoFault
  /\ \/ /\ files[job.series] > 0
        /\ job' = [job EXCEPT !.at = "delete", !.seen = files[job.series]]
        /\ UNCHANGED last
     \/ NothingToPublish
  /\ UNCHANGED store

\* The rasters of a mosaic, read through the data manager with its lock.
ListRasters ==
  /\ At("list") /\ Kind[job.series] = "mosaic" /\ main = "idle" /\ NoFault
  /\ IF files[job.series] = 0 THEN Fails
     ELSE /\ job' = [job EXCEPT !.at = "table", !.seen = files[job.series]]
          /\ UNCHANGED last
  /\ UNCHANGED store

\* Mutant: that there is no layer to delete is an error.
DeleteExistingLayer ==
  /\ At("delete") /\ NoFault
  /\ IF server.layer # None
     THEN /\ server' = [server EXCEPT !.layer = None] /\ UNCHANGED last
          /\ Go(IF Kind[job.series] = "coverage" THEN "coverage" ELSE "store")
     ELSE Fails /\ UNCHANGED server
  /\ UNCHANGED <<rows, folders>>

\* The layer of the last execution is deleted from the store of this series.
\* That there is none, and for a coverage any error of GeoServer, is ignored.
DeleteLayer ==
  /\ At("delete")
  /\ LET own == server.layer # None /\ server.layer.store = StoreName(job.series)
         go == IF Kind[job.series] = "coverage" THEN "coverage" ELSE "store" IN
     \/ /\ server' = IF own THEN [server EXCEPT !.layer = None] ELSE server
        /\ \/ Go(go) /\ NoFault /\ UNCHANGED last
           \/ Fault /\ Fails /\ UNCHANGED mishaps
     \/ /\ Kind[job.series] = "coverage" /\ Fault
        /\ job' = [job EXCEPT !.at = go, !.pale = TRUE]
        /\ UNCHANGED <<server, last, mishaps>>
  /\ UNCHANGED <<rows, folders>>

\* An existing store is taken as it is.  Nobody looks at the answer for a table.
RegisterStore ==
  /\ At("store")
  /\ LET name == StoreName(job.series)
         unchecked == Kind[job.series] = "table"
         new == [server EXCEPT !.stores = Stored(name, job.series)] IN
     \/ /\ Has(name) /\ Go("layer") /\ NoFault /\ UNCHANGED <<server, last>>
     \/ /\ ~Has(name) /\ server.workspace /\ server' = new
        /\ \/ Go("layer") /\ NoFault /\ UNCHANGED last
           \/ Fault /\ ~unchecked /\ Fails /\ UNCHANGED mishaps
     \/ /\ ~Has(name) /\ (server.workspace => Fault) /\ UNCHANGED <<server, mishaps>>
        /\ ~server.workspace => UNCHANGED faults
        /\ IF unchecked THEN Go("layer") /\ UNCHANGED last ELSE Fails
  /\ UNCHANGED <<rows, folders>>

\* A feature type is accepted if its store has it and its name is free.
Fits(s) == <<StoreName(s), s>> \in server.stores /\ server.layer = None

\* Mutant: nobody looks at the answer.
RegisterLayerUnchecked ==
  /\ At("layer") /\ Go("style")
  /\ \/ /\ NoFault
        /\ server' = IF Fits(job.series)
                     THEN [server EXCEPT !.layer = Layer(job.series, TRUE, FALSE)]
                     ELSE server
     \/ Fault /\ UNCHANGED <<server, mishaps>>
  /\ UNCHANGED <<rows, folders, last>>

\* Several files of vectors are registered one after the other.
AfterLayer == IF Kind[job.series] = "vector" /\ job.seen > 1 THEN "more" ELSE "style"

\* The feature type, of a table with its time and its query, or of the first file.
RegisterLayer ==
  /\ At("layer")
  /\ IF Fits(job.series)
     THEN /\ server' = [server EXCEPT !.layer = Layer(job.series, TRUE, FALSE)]
          /\ \/ Go(AfterLayer) /\ NoFault /\ UNCHANGED last
             \/ Fault /\ Fails /\ UNCHANGED mishaps
     ELSE Fails /\ NoFault /\ UNCHANGED server
  /\ UNCHANGED <<rows, folders>>

\* The second file has the layer and the store of the first: the layer is deleted,
\* the store is taken as it is and does not have the file.
NextFile ==
  /\ At("more") /\ Fails /\ NoFault
  /\ server' = [server EXCEPT !.layer = None]
  /\ UNCHANGED <<rows, folders>>

\* The store takes the file and its coverage.  A name that another store has is
\* refused, after the store was made or before.
PutCoverage ==
  /\ At("coverage")
  /\ LET s == job.series
         new == [server EXCEPT !.stores = Stored(StoreName(s), s)]
         styled == server.layer # None /\ server.layer.styled IN
     IF server.workspace /\ NameIsFree(StoreName(s))
     THEN /\ server' = [new EXCEPT !.layer = Layer(s, TRUE, styled)]
          /\ \/ Go("style") /\ NoFault /\ UNCHANGED last
             \/ Fault /\ Fails /\ UNCHANGED mishaps
     ELSE /\ Fails /\ NoFault
          /\ server' \in {server} \cup (IF server.workspace THEN {new} ELSE {})
  /\ UNCHANGED <<rows, folders>>

-----------------------------------------------------------------------------
(* Mosaics *)

CreateTable ==
  /\ At("table") /\ Go("folder") /\ NoFault
  /\ rows' = IF rows = None THEN {} ELSE rows
  /\ UNCHANGED <<server, folders, last>>

RecreateFolder ==
  /\ At("folder") /\ Go("rows") /\ NoFault
  /\ folders' = folders \cup {job.series}
  /\ UNCHANGED <<server, rows, last>>

\* The dates that the table has already are left out, whichever series they are
\* of.  The table may have been dropped since, which is an error if there was a
\* date to add.
AddRows ==
  /\ At("rows") /\ NoFault
  /\ IF rows = None
     THEN /\ UNCHANGED rows
          /\ Fails \/ (Go("mosaic") /\ UNCHANGED last)
     ELSE /\ rows' = rows \cup {r \in {job.series} \X (1..job.seen) :
                                  \A t \in Series : <<t, r[2]>> \notin rows}
          /\ Go("mosaic") /\ UNCHANGED last
  /\ UNCHANGED <<server, folders>>

\* registerMosaicCoverage: a mosaic that has its store is left as it is.
PutMosaic ==
  /\ At("mosaic")
  /\ LET new == [server EXCEPT !.stores = Stored("mosaic", job.series)]
         made == [new EXCEPT !.layer = Layer(job.series, FALSE, FALSE)] IN
     IF Has("mosaic") THEN Go("style") /\ NoFault /\ UNCHANGED <<server, last>>
     ELSE IF server.workspace /\ NameIsFree("mosaic")
     THEN /\ server' = made
          /\ \/ Go("configure") /\ NoFault /\ UNCHANGED last
             \/ Fault /\ Fails /\ mishaps' = mishaps \cup {"halved"}
     ELSE /\ Fails /\ NoFault
          /\ server' \in {server} \cup (IF server.workspace THEN {new} ELSE {})
  /\ UNCHANGED <<rows, folders>>

\* Its title, extent and time dimension, in a second request.
ConfigureMosaic ==
  /\ At("configure")
  /\ IF server.layer = None THEN Fails /\ NoFault /\ UNCHANGED server
     ELSE /\ server' = [server EXCEPT !.layer.whole = TRUE]
          /\ \/ Go("style") /\ NoFault /\ UNCHANGED last
             \/ Fault /\ Fails /\ UNCHANGED mishaps
  /\ UNCHANGED <<rows, folders>>

-----------------------------------------------------------------------------
(* Style and end *)

\* The legend as the style of the view; a raster has a second style for the
\* picture of its legend, registered in the same way.
RegisterStyle ==
  /\ At("style")
  /\ IF job.legend = None THEN Go("finish") /\ NoFault /\ UNCHANGED <<server, last>>
     ELSE IF ~server.workspace THEN Fails /\ NoFault /\ UNCHANGED server
     ELSE /\ server' = [server EXCEPT !.style = job.legend]
          /\ \/ Go("default") /\ NoFault /\ UNCHANGED last
             \/ Fault /\ Fails /\ UNCHANGED mishaps
  /\ UNCHANGED <<rows, folders>>

\* Nobody looks at the answer.
SetDefaultStyle ==
  /\ At("default")
  /\ \/ /\ server.layer # None /\ NoFault
        /\ server' = [server EXCEPT !.layer.styled = TRUE]
        /\ Go("finish")
     \/ /\ IF server.layer = None THEN UNCHANGED faults ELSE Fault
        /\ job' = [job EXCEPT !.at = "finish", !.pale = TRUE]
        /\ UNCHANGED <<server, mishaps>>
  /\ UNCHANGED <<rows, folders, last>>

Finish ==
  /\ At("finish") /\ job' = NoJob /\ NoFault
  /\ last' = [status |-> "done", series |-> job.series, legend |-> job.legend,
              seen |-> job.seen, pale |-> job.pale]
  /\ UNCHANGED store

Execution ==
  \/ Begin \/ BeginGone \/ StepFails \/ Stalls \/ RegisterWorkspace \/ ListFiles
  \/ ReadTable \/ ListRasters \/ DeleteLayer \/ RegisterStore \/ RegisterLayer \/ NextFile
  \/ PutCoverage \/ CreateTable \/ RecreateFolder \/ AddRows \/ PutMosaic
  \/ ConfigureMosaic \/ RegisterStyle \/ SetDefaultStyle \/ Finish

-----------------------------------------------------------------------------
(* The main thread *)

\* A timer, or the user, or data that arrived.
Trigger ==
  /\ up /\ main = "idle" /\ view.on /\ ~asked
  /\ asked' = TRUE
  /\ UNCHANGED <<world, main, job, store, last, mishaps, faults>>

\* updateView: the queues are purged, except of what a worker will take; nothing
\* is removed from GeoServer.  Without a service the edit waits in the database.
Edit ==
  /\ main = "idle" /\ view.on /\ edits < MaxEdits
  /\ \E s \in Series, l \in Legends \cup {None} :
       /\ <<s, l>> # <<view.series, view.legend>>
       /\ view' = [on |-> TRUE, series |-> s, legend |-> l]
       /\ mishaps' = mishaps \cup (IF s # view.series THEN {"moved"} ELSE {})
  /\ edits' = edits + 1
  /\ asked' \in {asked, FALSE}
  /\ UNCHANGED <<files, up, stuck, main, job, store, last, faults>>

\* The web application sends a removal once, to the service if there is one.
Remove ==
  /\ main = "idle" /\ view.on
  /\ view' = [view EXCEPT !.on = FALSE]
  /\ asked' \in {asked, FALSE}
  /\ IF up THEN main' = "table" /\ UNCHANGED mishaps
     ELSE mishaps' = mishaps \cup {"uncleaned"} /\ UNCHANGED main
  /\ UNCHANGED <<files, up, stuck, edits, job, store, last, faults>>

\* Stages in which an execution has not yet come to stage x of a mosaic.
Before(x) ==
  LET path == <<"workspace", "list", "table", "folder">> IN
  {path[i] : i \in {j \in 1..4 : \A h \in 1..(j - 1) : path[h] # x}}

Late(x, mishap) ==
  IF job.at \in Before(x) /\ (x = "workspace" \/ Kind[job.series] = "mosaic")
  THEN {mishap} ELSE {}

Cleans(stage) == up /\ main = stage /\ UNCHANGED <<world, asked, job, last>>

\* Mutant: only the view of a dynamic raster is known to have a table.
DropTableOfMosaic ==
  /\ Cleans("table") /\ main' = "folder"
  /\ rows' = IF Kind[view.series] = "mosaic" THEN None ELSE rows
  /\ mishaps' = mishaps \cup Late("table", "lateTable")
  /\ UNCHANGED <<server, folders, faults>>

\* Whatever is thrown while the table is dropped is swallowed.
DropTable ==
  /\ Cleans("table") /\ main' = "folder"
  /\ \/ /\ rows' = None /\ UNCHANGED faults
        /\ mishaps' = mishaps \cup Late("table", "lateTable")
     \/ Fault /\ mishaps' = mishaps \cup {"uncleaned"} /\ UNCHANGED rows
  /\ UNCHANGED <<server, folders>>

\* Of the folder with the name of the view in that of the provider; an exception
\* ends the removal.
RemoveFiles ==
  /\ Cleans("folder")
  /\ \/ /\ main' = "workspace" /\ UNCHANGED faults
        /\ folders' = folders \ ({view.series} \ Masked)
        /\ mishaps' = mishaps \cup Late("folder", "lateFolder")
     \/ /\ Fault /\ main' = "idle" /\ UNCHANGED folders
        /\ mishaps' = mishaps \cup {"uncleaned"}
  /\ UNCHANGED <<server, rows>>

\* With all that is in it; that there is none is no error.
DeleteWorkspace ==
  /\ Cleans("workspace") /\ main' = "idle"
  /\ \/ /\ server' = Empty /\ UNCHANGED faults
        /\ mishaps' = mishaps \cup Late("workspace", "lateWorkspace")
     \/ /\ Fault /\ server' \in {server, Empty}
        /\ mishaps' = mishaps \cup {"uncleaned"}
  /\ UNCHANGED <<rows, folders>>

Cleanup == DropTable \/ RemoveFiles \/ DeleteWorkspace

-----------------------------------------------------------------------------
(* Around the service *)

\* Files of the series that the view or its execution is about; a table is there
\* or not, and so is the file of a static raster.
NewFile(s) ==
  /\ s \in {view.series, job.series} /\ view.on
  /\ files[s] < (IF Kind[s] \in {"vector", "mosaic"} THEN MaxDates ELSE 1)
  /\ files' = [files EXCEPT ![s] = @ + 1]
  /\ UNCHANGED <<view, up, stuck, main, asked, job, store, last, mishaps, edits, faults>>

Crash ==
  /\ up /\ Fault /\ up' = FALSE
  /\ asked' = FALSE /\ job' = NoJob /\ stuck' = FALSE /\ main' = "idle"
  /\ last' = IF job.at = "idle" THEN last ELSE [NoRun EXCEPT !.status = "error"]
  /\ mishaps' = mishaps \cup (IF job.at = "configure" THEN {"halved"} ELSE {})
                        \cup (IF main # "idle" THEN {"uncleaned"} ELSE {})
  /\ UNCHANGED <<view, files, edits, store>>

Restart ==
  /\ ~up /\ up' = TRUE
  /\ UNCHANGED <<view, files, stuck, edits, main, asked, job, store, last, mishaps, faults>>

\* Which of the legends is the first makes no difference.
Init ==
  /\ view \in [on : {TRUE}, series : Series, legend : {None, CHOOSE l \in Legends : TRUE}]
  /\ files = [s \in Series |-> 0]
  /\ up = TRUE /\ stuck = FALSE /\ main = "idle" /\ asked = FALSE
  /\ job = NoJob /\ server = Empty /\ rows = None /\ folders = {}
  /\ last = NoRun /\ mishaps = {} /\ edits = 0 /\ faults = 0

Next ==
  \/ Execution \/ Trigger \/ Edit \/ Remove \/ Cleanup
  \/ \E s \in Series : NewFile(s)
  \/ Crash \/ Restart

\* The schedule goes on, executions and removals go on, and a service that died
\* is started again.  Users, data and crashes are not fair.
Fairness == WF_vars(Trigger) /\ WF_vars(Execution) /\ WF_vars(Cleanup) /\ WF_vars(Restart)

Spec == Init /\ [][Next]_vars /\ Fairness

-----------------------------------------------------------------------------
(* Properties *)

\* The layer is of series s, with n dates and legend l.
Shown(s, n) ==
  /\ server.layer # None /\ server.layer.of = s /\ server.layer.whole
  /\ Kind[s] = "mosaic" => {s} \X (1..n) \subseteq rows

InStyle(s, l) ==
  IF l # None THEN server.layer.styled /\ server.style = l
  ELSE Kind[s] = "mosaic" \/ ~server.layer.styled

\* After an execution that ended as DONE, until the next one or the removal,
\* GeoServer has the layer of the series that it published, whole, with all
\* dates it has read, in the style of its legend, whatever failed, crashed or
\* was edited before.  Not claimed: of a mosaic that was created by an
\* execution that failed before it was configured, or of a view whose series
\* was another; a style whose assignment was refused; an execution without
\* anything to publish (viewJob, 284-300).
DoneMeansShown ==
  TypeOK /\
  (/\ last.status = "done" /\ last.seen > 0 /\ job = NoJob
   /\ view.on
   /\ Kind[last.series] = "mosaic" => {"moved", "halved"} \cap mishaps = {}
   => /\ Shown(last.series, last.seen)
      /\ last.pale \/ InStyle(last.series, last.legend))

\* When a view was removed and nothing of it is going on, GeoServer, the
\* database and the folder of its series have nothing of it, even if an
\* execution was going on meanwhile, as long as it was past the point where it
\* makes the workspace, the table or the folder; unless the removal failed or
\* was not heard (cleanup, 1592-1693).
RemovedMeansGone ==
  (~view.on /\ up /\ main = "idle" /\ job = NoJob /\ "uncleaned" \notin mishaps) =>
    /\ server = Empty \/ "lateWorkspace" \in mishaps
    /\ rows = None \/ "lateTable" \in mishaps
    /\ view.series \in folders => view.series \in Masked \/ "lateFolder" \in mishaps

\* A view that stays registered and whose series stays the same is shown with
\* all there is of the series, in its style, in the end and again and again,
\* unless a mosaic was left unconfigured, the log failed in an execution that
\* failed, or the series has several files of vectors, which are never shown:
\* their second file makes every execution fail (generateLayersInternal, 217-246).
ShownInTheEnd ==
  []<>(\/ ~view.on \/ files[view.series] = 0 \/ "moved" \in mishaps \/ stuck
       \/ Kind[view.series] = "vector" /\ files[view.series] > 1
       \/ "halved" \in mishaps /\ Kind[view.series] = "mosaic"
       \/ Shown(view.series, files[view.series]) /\ InStyle(view.series, view.legend))

=============================================================================
