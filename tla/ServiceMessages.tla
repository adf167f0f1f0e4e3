---------------------------- MODULE ServiceMessages ----------------------------
(***************************************************************************)
(* The connection of the web application with one collector service: the   *)
(* messages it sends, how TcpManager cuts them out of the bytes of the     *)
(* socket, and what they do to the registries of the DataManager and to    *)
(* the timers of the service.                                              *)
(*                                                                         *)
(* A message is its size, its signal and a JSON text; it travels in units  *)
(* that arrive in any portions.  blockSize_ belongs to the TcpManager, not *)
(* to a socket: it outlives a connection that is cut.  Whatever is in the  *)
(* buffer behind a complete message is thrown away.                        *)
(*                                                                         *)
(* The web application asks for the status when it has connected, answers  *)
(* "not loaded" with the settings of the service and, a second later, with *)
(* all its data; each edit of the user is sent on its own.  A collector    *)
(* stands for itself and for its input series.                             *)
(***************************************************************************)
EXTENDS Naturals, Sequences

CONSTANTS
  Providers,   \* data providers
  Collectors,  \* collectors, each with its input series
  None,        \* no provider: the series does not exist
  Requests,    \* what else the user asks for: "start", "status", "stop"
  Faults,      \* what may fail: see FaultKinds
  MaxMessages  \* bound: no connection, edit or request once a process was sent so many

\* "log": the log database is down; "crash": the service dies
\* "cut": the connection breaks
FaultKinds == {"log", "crash", "cut"}

ASSUME ServiceMessagesAssumption ==
  /\ None \notin Providers
  /\ Requests \subseteq {"start", "status", "stop"}
  /\ Faults \subseteq FaultKinds
  /\ MaxMessages \in Nat

VARIABLES
  dbProviders, \* providers in the database of the web application
  dbSeries,    \* provider of the series of each collector there
  dbActive,    \* collectors that are active there
  phase,       \* where the client of the web application is
  snapshot,    \* what it has read for the first ADD_DATA
  sent,        \* number of messages sent to this process of the service
  wire,        \* units on their way to the service
  buffer,      \* units in the buffer of the socket
  ready,       \* readyRead was emitted, readReadySlot not called yet
  answers,     \* answers to STATUS on their way back
  service,     \* "down", "up" (not loaded) or "loaded"
  valid,       \* ProcessLogger::isValid_
  blockSize,   \* blockSize_
  stopping,    \* is TERMINATE being handled?
  work,        \* what is left of the ADD or REMOVE being handled
  last,        \* history: number of the last message that was recognized
  providers,   \* providers_
  series,      \* dataseries_: the provider of the series of each collector
  collectors,  \* collectors_: "none", "on" (active) or "off"
  timers,      \* collectors with a timer
  blocked,     \* signalsBlocked()
  trouble      \* history: what has gone wrong with this process, see Troubles

database == <<dbProviders, dbSeries, dbActive>>
client == <<phase, snapshot, sent>>
socket == <<wire, buffer, ready, answers>>
reader == <<blockSize, last>>
state == <<service, valid, stopping>>
schedule == <<collectors, timers, blocked>>
registry == <<providers, series, schedule>>
vars == <<database, client, socket, reader, state, work, registry, trouble>>

Phases == {"closed", "open", "updated", "series", "collectors", "told"}
Kinds == {"STATUS", "UPDATE", "ADD", "REMOVE", "START", "LOG", "TERMINATE"}

\* "burst": a message was sent before the service had read the one before it
\* "cut": a connection ended in the middle of a message
\* "raced": the user edited what was being read for the first ADD_DATA
\* "unsent": an edit or the first ADD_DATA found no connection with the loaded service
\* "log": the log database was down; "missing": something referred to was missing
\* "halfway": an update threw when it had removed what it was to replace
Troubles == {"burst", "cut", "raced", "unsent", "log", "missing", "halfway"}

-----------------------------------------------------------------------------
(* Messages *)

\* JSON texts of different lengths.
JsonUnits(kind) == IF kind = "ADD" THEN 2 ELSE 1

\* Unit 0 is the size, unit 1 the signal, the others the JSON text.
Units(n, kind, content) ==
  [k \in 1..(2 + JsonUnits(kind)) |->
     [n |-> n, kind |-> kind, content |-> content, part |-> k - 1]]

Huge == 100

\* What a unit says when it is read as a size.  A signal is a number below any
\* length, 0 for TERMINATE; four characters of a JSON text are a huge number.
AsSize(u) ==
  CASE u.part = 0 -> 1 + JsonUnits(u.kind)
    [] u.part = 1 -> IF u.kind = "TERMINATE" THEN 0 ELSE 1
    [] OTHER -> Huge

\* A message is on its way or was not read to its end.
Outstanding == wire # <<>> \/ buffer # <<>> \/ blockSize # 0

Burst == IF Outstanding THEN {"burst"} ELSE {}

\* The client writes a message.
Send(kind, content) ==
  /\ sent' = sent + 1
  /\ wire' = wire \o Units(sent + 1, kind, content)
  /\ trouble' = trouble \cup Burst

\* It writes two in a row.
SendBoth(kind1, content, kind2) ==
  /\ sent' = sent + 2
  /\ wire' = wire \o Units(sent + 1, kind1, content) \o Units(sent + 2, kind2, {})
  /\ trouble' = trouble \cup {"burst"}

ProviderItem(p) == [op |-> "provider", id |-> p]
SeriesItem(c, p) == [op |-> "series", id |-> c, of |-> p]
CollectorItem(c, on) == [op |-> "collector", id |-> c, active |-> on]
Drop(c) == {[op |-> "dropCollector", id |-> c], [op |-> "dropSeries", id |-> c]}

\* The service was told everything and has read it.
Told == phase = "told" /\ ~Outstanding /\ trouble \subseteq {"missing", "halfway", "log"}

\* History: was the service told everything when it was asked to start the process?
StartItem(c) == [op |-> "start", id |-> c, told |-> Told]

-----------------------------------------------------------------------------
(* The user *)

\* Bounds: MaxMessages, and the user asks for nothing more once a message may be lost.
Asks == sent < MaxMessages /\ {"burst", "cut"} \cap trouble = {}

\* An edit is sent if there is a connection.
Edit(kind, content) ==
  /\ Asks
  /\ \/ /\ phase # "closed"
        /\ sent' = sent + 1
        /\ wire' = wire \o Units(sent + 1, kind, content)
        /\ trouble' = trouble \cup Burst \cup
             IF phase \in {"series", "collectors"} THEN {"raced"} ELSE {}
     \/ /\ phase = "closed"
        /\ trouble' = trouble \cup IF service = "loaded" THEN {"unsent"} ELSE {}
        /\ UNCHANGED <<sent, wire>>
  /\ UNCHANGED <<phase, snapshot, buffer, ready, answers, reader, state, work, registry>>

AddProvider(p) ==
  /\ p \notin dbProviders
  /\ dbProviders' = dbProviders \cup {p}
  /\ Edit("ADD", {ProviderItem(p)})
  /\ UNCHANGED <<dbSeries, dbActive>>

\* A collector is made, moved to another provider, or made active or inactive.
SaveCollector(c, p, on) ==
  /\ p \in dbProviders
  /\ dbSeries[c] # p \/ (c \in dbActive) # on
  /\ dbSeries' = [dbSeries EXCEPT ![c] = p]
  /\ dbActive' = IF on THEN dbActive \cup {c} ELSE dbActive \ {c}
  /\ Edit("ADD", {SeriesItem(c, p), CollectorItem(c, on)})
  /\ UNCHANGED dbProviders

RemoveCollector(c) ==
  /\ dbSeries[c] # None
  /\ dbSeries' = [dbSeries EXCEPT ![c] = None]
  /\ dbActive' = dbActive \ {c}
  /\ Edit("REMOVE", Drop(c))
  /\ UNCHANGED dbProviders

\* The message has the key "DataProvider", the services look for "DataProviders".
RemoveProvider(p) ==
  /\ p \in dbProviders /\ \A c \in Collectors : dbSeries[c] # p
  /\ dbProviders' = dbProviders \ {p}
  /\ Edit("REMOVE", {})
  /\ UNCHANGED <<dbSeries, dbActive>>

\* A process is started and its log asked for, the status is asked for (bound: once
\* the data was sent), the service is stopped and its status asked for.
Request(what) ==
  /\ what \in Requests
  /\ phase # "closed"
  /\ Asks
  /\ \/ what = "start" /\ \E c \in Collectors : dbSeries[c] # None /\ SendBoth("START", {StartItem(c)}, "LOG")
     \/ what = "status" /\ phase = "told" /\ Send("STATUS", {})
     \/ what = "stop" /\ SendBoth("TERMINATE", {}, "STATUS")
  /\ UNCHANGED <<dbProviders, dbSeries, dbActive, phase, snapshot, buffer, ready,
                 answers, reader, state, work, registry>>

-----------------------------------------------------------------------------
(* The client of the web application *)

\* A connection is made and the status asked for.
Connect ==
  /\ phase = "closed" /\ service # "down" /\ ~stopping
  /\ sent < MaxMessages
  /\ phase' = "open"
  /\ Send("STATUS", {})
  /\ UNCHANGED <<database, snapshot, buffer, ready, answers, reader, state, work, registry>>

\* "not loaded" is answered with UPDATE_SERVICE.
OnStatus ==
  /\ answers # <<>>
  /\ answers' = Tail(answers)
  /\ \/ /\ Head(answers) = "unloaded"
        /\ Send("UPDATE", {})
        /\ phase' = "updated"
     \/ /\ Head(answers) = "loaded"
        /\ phase' = IF phase = "open" THEN "told" ELSE phase
        /\ UNCHANGED <<sent, wire, trouble>>
  /\ UNCHANGED <<database, snapshot, buffer, ready, reader, state, work, registry>>

\* A second later everything is read, collectors after series.
ReadSeries ==
  /\ phase = "updated"
  /\ phase' = "series"
  /\ snapshot' = {ProviderItem(p) : p \in dbProviders} \cup
                 {SeriesItem(c, dbSeries[c]) : c \in {d \in Collectors : dbSeries[d] # None}}
  /\ UNCHANGED <<database, sent, socket, reader, state, work, registry, trouble>>

\* Mutant: only the active collectors are read.
ReadActive ==
  /\ phase = "series"
  /\ phase' = "collectors"
  /\ snapshot' = snapshot \cup {CollectorItem(c, TRUE) : c \in {d \in dbActive : dbSeries[d] # None}}
  /\ UNCHANGED <<database, sent, socket, reader, state, work, registry, trouble>>

ReadCollectors ==
  /\ phase = "series"
  /\ phase' = "collectors"
  /\ snapshot' = snapshot \cup
       {CollectorItem(c, c \in dbActive) : c \in {d \in Collectors : dbSeries[d] # None}}
  /\ UNCHANGED <<database, sent, socket, reader, state, work, registry, trouble>>

SendSnapshot ==
  /\ phase = "collectors"
  /\ phase' = "told"
  /\ Send("ADD", snapshot)
  /\ snapshot' = {}
  /\ UNCHANGED <<database, buffer, ready, answers, reader, state, work, registry>>

-----------------------------------------------------------------------------
(* The socket *)

\* What a new process has, and a client that is told that its socket was closed.
Fresh ==
  /\ service' = "down" /\ valid' = FALSE /\ stopping' = FALSE /\ blockSize' = 0
  /\ providers' = {} /\ series' = [c \in Collectors |-> None]
  /\ collectors' = [c \in Collectors |-> "none"] /\ timers' = {} /\ blocked' = FALSE
  /\ work' = {}
  /\ phase' = "closed" /\ snapshot' = {}
  /\ wire' = <<>> /\ buffer' = <<>> /\ ready' = FALSE /\ answers' = <<>>
  /\ sent' = 0 /\ last' = 0 /\ trouble' = {}
  /\ UNCHANGED database

\* A unit arrives; readReadySlot is queued, and more may arrive before it runs.
Arrive ==
  /\ service # "down"
  /\ wire # <<>>
  /\ buffer' = Append(buffer, Head(wire))
  /\ wire' = Tail(wire)
  /\ ready' = TRUE
  /\ UNCHANGED <<database, client, answers, reader, state, work, registry, trouble>>

\* The size that the slot goes by, and what is in the buffer behind it.
Size == IF blockSize = 0 THEN AsSize(Head(buffer)) ELSE blockSize
Behind == IF blockSize = 0 THEN Tail(buffer) ELSE buffer

\* The bytes that are read as JSON: fewer than a signal wrap around and read it all.
Text == IF Size <= 1 THEN Tail(Behind) ELSE SubSeq(Behind, 2, Size)

\* The signal of a message followed by its own text and nothing else.
Recognized ==
  /\ Behind # <<>>
  /\ Head(Behind).part = 1
  /\ Len(Text) = JsonUnits(Head(Behind).kind)
  /\ \A k \in DOMAIN Text : Text[k].n = Head(Behind).n /\ Text[k].part = k + 1

\* readReadySlot runs in the main thread, inside a handler only while that stops
\* the service.
CanRead == ready /\ service # "down" /\ work = {}

\* The slot finds a message complete, or what seems to be one.
AtHand == CanRead /\ (buffer # <<>> \/ blockSize # 0) /\ Len(Behind) >= Size

\* Mutant: blockSize_ is a local variable, the size is forgotten.
ReadPartForgets ==
  /\ CanRead
  /\ ready' = FALSE
  /\ \/ buffer = <<>> /\ blockSize = 0 /\ UNCHANGED <<blockSize, buffer>>
     \/ /\ buffer # <<>> \/ blockSize # 0
        /\ Len(Behind) < Size
        /\ UNCHANGED blockSize
        /\ buffer' = Behind
  /\ UNCHANGED <<database, client, wire, answers, last, state, work, registry, trouble>>

\* The rest is yet to come: blockSize_ stays.
ReadPart ==
  /\ CanRead
  /\ ready' = FALSE
  /\ \/ buffer = <<>> /\ blockSize = 0 /\ UNCHANGED <<blockSize, buffer>>
     \/ /\ buffer # <<>> \/ blockSize # 0
        /\ Len(Behind) < Size
        /\ blockSize' = Size
        /\ buffer' = Behind
  /\ UNCHANGED <<database, client, wire, answers, last, state, work, registry, trouble>>

\* A message is complete, or seems to be: the slot reads it, empties the buffer and
\* sets blockSize_ back, whatever comes of it.
Complete ==
  /\ AtHand
  /\ ready' = FALSE
  /\ buffer' = <<>>
  /\ blockSize' = 0

\* No message, or one that has to wait until the service is loaded and is dropped.
ReadDropped ==
  /\ Complete
  /\ \/ ~Recognized /\ UNCHANGED last
     \/ /\ Recognized
        /\ Head(Behind).kind \notin {"UPDATE", "STATUS"}
        /\ service # "loaded"
        /\ last' = Head(Behind).n
  /\ UNCHANGED <<database, client, wire, answers, state, work, registry, trouble>>

\* A message that is handled.
Reads(kind) ==
  /\ Recognized
  /\ Head(Behind).kind = kind
  /\ kind \in {"UPDATE", "STATUS"} \/ service = "loaded"
  /\ last' = Head(Behind).n

\* Mutant: the service calls itself loaded from the start.
ReadStatusLoaded ==
  /\ Complete /\ Reads("STATUS")
  /\ answers' = Append(answers, "loaded")
  /\ UNCHANGED <<database, client, wire, state, work, registry, trouble>>

ReadStatus ==
  /\ Complete /\ Reads("STATUS")
  /\ answers' = Append(answers, IF service = "loaded" THEN "loaded" ELSE "unloaded")
  /\ UNCHANGED <<database, client, wire, state, work, registry, trouble>>

\* updateService: the service counts as loaded before it is known whether there is
\* a log.
ReadUpdate ==
  /\ Complete /\ Reads("UPDATE")
  /\ service' = "loaded"
  /\ \/ valid' = TRUE /\ UNCHANGED trouble
     \/ "log" \in Faults /\ valid' = FALSE /\ trouble' = trouble \cup {"log"}
  /\ UNCHANGED <<database, client, wire, answers, stopping, work, registry>>

ReadData ==
  /\ Complete /\ (Reads("ADD") \/ Reads("REMOVE"))
  /\ work' = Head(Behind).content
  /\ UNCHANGED <<database, client, wire, answers, state, registry, trouble>>

Asked == CHOOSE w \in Head(Behind).content : TRUE

\* The execution of processes is not the matter here.
ReadRequest ==
  /\ Complete
  /\ \/ Reads("LOG")
     \/ Reads("START") /\ collectors[Asked.id] # "none"
  /\ UNCHANGED <<database, client, wire, answers, state, work, registry, trouble>>

\* The handler of TERMINATE waits for the threads of the service and handles events
\* meanwhile; until it returns, blockSize_ is the length of its text and what was in
\* the buffer stays there.
ReadTerminate ==
  /\ AtHand /\ ~stopping
  /\ Reads("TERMINATE")
  /\ stopping' = TRUE
  /\ blockSize' = Size - 1
  /\ buffer' = SubSeq(Behind, Size + 1, Len(Behind))
  /\ ready' = FALSE
  /\ UNCHANGED <<database, client, wire, answers, service, valid, work, registry, trouble>>

\* startProcess is noexcept and throws on a process that is not registered: the service
\* dies.
ReadUnknown ==
  /\ AtHand /\ Recognized /\ Head(Behind).kind = "START" /\ service = "loaded"
  /\ collectors[Asked.id] = "none"
  /\ Fresh

ReadMessage ==
  \/ ReadPart \/ ReadDropped \/ ReadStatus \/ ReadUpdate \/ ReadData \/ ReadRequest
  \/ ReadTerminate \/ ReadUnknown

-----------------------------------------------------------------------------
(* addJSon and removeJSon: providers, then series, then collectors; collectors are
   removed before series.  The first exception ends the message. *)

Order(op) ==
  CASE op \in {"provider", "dropCollector"} -> 1
    [] op \in {"series", "dropSeries"} -> 2
    [] op = "collector" -> 3

\* w is the next item of the message.
Takes(w, op) ==
  /\ w \in work /\ w.op = op
  /\ \A v \in work : Order(w.op) <= Order(v.op)

Done(w) == work' = work \ {w} /\ UNCHANGED trouble
Throws == work' = {} /\ trouble' = trouble \cup {"missing"}

\* An update removes and adds with the signals blocked and unblocks them if nothing
\* was thrown.
DoProvider(w) ==
  /\ Takes(w, "provider")
  /\ providers' = providers \cup {w.id}
  /\ blocked' = (blocked /\ w.id \notin providers)
  /\ Done(w)
  /\ UNCHANGED <<database, client, socket, reader, state, series, collectors, timers>>

DoSeries(w) ==
  /\ Takes(w, "series")
  /\ \/ /\ w.of \in providers
        /\ series' = [series EXCEPT ![w.id] = w.of]
        /\ blocked' = (blocked /\ series[w.id] = None)
        /\ Done(w)
     \/ /\ w.of \notin providers
        /\ series' = [series EXCEPT ![w.id] = None]
        /\ blocked' = (blocked \/ series[w.id] # None)
        /\ work' = {}
        /\ trouble' = trouble \cup {"missing"} \cup
             IF series[w.id] # None THEN {"halfway"} ELSE {}
  /\ UNCHANGED <<database, client, socket, reader, state, providers, collectors, timers>>

\* addProcessToSchedule: the timer needs the log to know the last execution.
Schedules(c, on, others) ==
  \/ timers' = (IF on THEN others \cup {c} ELSE others) /\ UNCHANGED trouble
  \/ on /\ "log" \in Faults /\ timers' = others /\ trouble' = trouble \cup {"log"}

\* Mutant: an update leaves the signals blocked.
DoCollectorBlocked(w) ==
  /\ Takes(w, "collector")
  /\ work' = work \ {w}
  /\ collectors' = [collectors EXCEPT ![w.id] = IF w.active THEN "on" ELSE "off"]
  /\ blocked' = (blocked \/ collectors[w.id] # "none")
  /\ IF blocked' THEN UNCHANGED <<timers, trouble>> ELSE Schedules(w.id, w.active, timers)
  /\ UNCHANGED <<database, client, socket, reader, state, providers, series>>

\* Mutant: the map keeps the collector that it has.
DoCollectorOnce(w) ==
  /\ Takes(w, "collector")
  /\ work' = work \ {w}
  /\ collectors' = [collectors EXCEPT ![w.id] = IF @ # "none" THEN @ ELSE IF w.active THEN "on" ELSE "off"]
  /\ \/ /\ collectors[w.id] # "none"
        /\ blocked' = FALSE
        /\ Schedules(w.id, collectors[w.id] = "on", timers \ {w.id})
     \/ /\ collectors[w.id] = "none" /\ ~blocked
        /\ Schedules(w.id, w.active, timers)
        /\ UNCHANGED blocked
     \/ /\ collectors[w.id] = "none" /\ blocked
        /\ UNCHANGED <<timers, trouble, blocked>>
  /\ UNCHANGED <<database, client, socket, reader, state, providers, series>>

DoCollector(w) ==
  /\ Takes(w, "collector")
  /\ work' = work \ {w}
  /\ collectors' = [collectors EXCEPT ![w.id] = IF w.active THEN "on" ELSE "off"]
  /\ \/ /\ collectors[w.id] # "none"
        /\ blocked' = FALSE
        /\ Schedules(w.id, w.active, timers \ {w.id})
     \/ /\ collectors[w.id] = "none" /\ ~blocked
        /\ Schedules(w.id, w.active, timers)
        /\ UNCHANGED blocked
     \/ /\ collectors[w.id] = "none" /\ blocked
        /\ UNCHANGED <<timers, trouble, blocked>>
  /\ UNCHANGED <<database, client, socket, reader, state, providers, series>>

DropCollector(w) ==
  /\ Takes(w, "dropCollector")
  /\ \/ /\ collectors[w.id] # "none"
        /\ collectors' = [collectors EXCEPT ![w.id] = "none"]
        /\ timers' = IF blocked THEN timers ELSE timers \ {w.id}
        /\ Done(w)
     \/ collectors[w.id] = "none" /\ Throws /\ UNCHANGED <<collectors, timers>>
  /\ UNCHANGED <<database, client, socket, reader, state, providers, series, blocked>>

DropSeries(w) ==
  /\ Takes(w, "dropSeries")
  /\ \/ series[w.id] # None /\ series' = [series EXCEPT ![w.id] = None] /\ Done(w)
     \/ series[w.id] = None /\ Throws /\ UNCHANGED series
  /\ UNCHANGED <<database, client, socket, reader, state, providers, schedule>>

Handle ==
  \E w \in work : DoProvider(w) \/ DoSeries(w) \/ DoCollector(w) \/ DropCollector(w) \/ DropSeries(w)

-----------------------------------------------------------------------------
(* The process of the service *)

Start ==
  /\ service = "down"
  /\ service' = "up"
  /\ UNCHANGED <<database, client, socket, reader, valid, stopping, work, registry, trouble>>

Crash ==
  /\ "crash" \in Faults /\ service # "down"
  /\ Fresh

\* The threads have ended, TERMINATE is answered and the process ends.
StopReturns ==
  /\ stopping /\ work = {}
  /\ Fresh

\* The connection breaks; what has arrived is read before.
Cut ==
  /\ "cut" \in Faults /\ phase # "closed" /\ ~ready
  /\ phase' = "closed" /\ snapshot' = {}
  /\ wire' = <<>> /\ buffer' = <<>> /\ answers' = <<>>
  /\ trouble' = trouble \cup (IF Outstanding THEN {"cut"} ELSE {})
                        \cup (IF phase \in {"open", "told"} THEN {} ELSE {"unsent"})
  /\ UNCHANGED <<database, sent, ready, reader, state, work, registry>>

-----------------------------------------------------------------------------

Init ==
  /\ dbProviders = {} /\ dbSeries = [c \in Collectors |-> None] /\ dbActive = {}
  /\ phase = "closed" /\ snapshot = {} /\ sent = 0
  /\ wire = <<>> /\ buffer = <<>> /\ ready = FALSE /\ answers = <<>>
  /\ service = "down" /\ valid = FALSE /\ stopping = FALSE
  /\ blockSize = 0 /\ last = 0 /\ work = {}
  /\ providers = {} /\ series = [c \in Collectors |-> None]
  /\ collectors = [c \in Collectors |-> "none"] /\ timers = {} /\ blocked = FALSE
  /\ trouble = {}

Client == OnStatus \/ ReadSeries \/ ReadCollectors \/ SendSnapshot

User ==
  \/ \E p \in Providers : AddProvider(p) \/ RemoveProvider(p)
  \/ \E c \in Collectors : RemoveCollector(c) \/ \E p \in Providers, on \in BOOLEAN : SaveCollector(c, p, on)
  \/ \E what \in Requests : Request(what)

Next ==
  \/ User \/ Connect \/ Client
  \/ Arrive \/ ReadMessage \/ Handle
  \/ Start \/ Crash \/ StopReturns \/ Cut

Spec == Init /\ [][Next]_vars

\* The network delivers, the event loop of the service and the client go on.
Fairness == WF_vars(Arrive) /\ WF_vars(ReadMessage) /\ WF_vars(Handle) /\ WF_vars(Client)

FairSpec == Spec /\ Fairness

-----------------------------------------------------------------------------
(* Properties *)

\* Every variable has its type.
TypeOK ==
  /\ dbProviders \subseteq Providers /\ dbActive \subseteq Collectors
  /\ dbSeries \in [Collectors -> Providers \cup {None}]
  /\ phase \in Phases
  /\ sent \in Nat /\ last \in 0..sent
  /\ \A u \in {wire[k] : k \in DOMAIN wire} \cup {buffer[k] : k \in DOMAIN buffer} :
       u.kind \in Kinds /\ u.n \in 1..sent /\ u.part \in 0..3
  /\ ready \in BOOLEAN
  /\ \A k \in DOMAIN answers : answers[k] \in {"unloaded", "loaded"}
  /\ service \in {"down", "up", "loaded"}
  /\ valid \in BOOLEAN /\ stopping \in BOOLEAN /\ blocked \in BOOLEAN
  /\ blockSize \in 0..Huge
  /\ providers \subseteq Providers /\ timers \subseteq Collectors
  /\ series \in [Collectors -> Providers \cup {None}]
  /\ collectors \in [Collectors -> {"none", "on", "off"}]
  /\ trouble \subseteq Troubles

\* A message was sent only after the one before was read, and none was cut off.
Orderly == {"burst", "cut"} \cap trouble = {}

\* Every variable has its type; the service waits for the rest of the message
\* whose size it has read, and not for bytes that never come; and a client that
\* sends a message when the one before was read loses none (readReadySlot).
EachIsRead ==
  /\ TypeOK
  /\ Orderly /\ blockSize # 0 =>
    /\ buffer \o wire # <<>>
    /\ Head(buffer \o wire).part = 1
    /\ blockSize = Len(buffer \o wire)
  /\ Orderly /\ ~Outstanding => last = sent

\* The registries hold what the database holds, a timer runs for each active
\* collector, and the service has a log.  (No message removes a provider.)
InStep ==
  /\ service = "loaded" /\ valid
  /\ dbProviders \subseteq providers
  /\ series = dbSeries
  /\ \A c \in Collectors :
       collectors[c] = IF dbSeries[c] = None THEN "none" ELSE IF c \in dbActive THEN "on" ELSE "off"
  /\ timers = dbActive

Untroubled == trouble \subseteq {"missing"}

\* A collector has a timer exactly while it is registered as active: no update has
\* left the signals of the DataManager blocked.
TimersFollow ==
  Untroubled /\ work = {} => timers = {c \in Collectors : collectors[c] = "on"} /\ ~blocked

\* When the web application has told a service everything and all is read they agree,
\* also about edits made while the service was started, except those made while the
\* first ADD_DATA is being read from the database (raced).
Synchronised ==
  Untroubled /\ phase = "told" /\ ~Outstanding /\ work = {} => InStep

\* A service that was told everything and has read it does not die of the start of a
\* process, whatever was edited before: the process is registered, active or not.
NoDeadlyStart ==
  (AtHand /\ Recognized /\ Head(Behind).kind = "START") =>
    (Asked.told => service # "loaded" \/ collectors[Asked.id] # "none")

\* A connected service comes to agree with the database, unless the connection ends
\* or something goes wrong.
ComesInStep == phase = "open" ~> InStep \/ phase = "closed" \/ ~Untroubled
=============================================================================
