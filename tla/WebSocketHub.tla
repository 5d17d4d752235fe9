---------------------------- MODULE WebSocketHub -----------------------------
(***************************************************************************)
(* The WebSocket hub of a host application: clients ask for a type of      *)
(* message, the hub puts them on the type's list and starts its sender     *)
(* when it is the first.  Metrics come at intervals, PM2's events after a  *)
(* look-up of their process, and a process's log through streams of its    *)
(* file: one from the beginning for each request, and one from the end of  *)
(* that for each change that the file's watcher sees.                      *)
(*                                                                         *)
(* The log is the file that the agent copies into the graph: LogMirror.    *)
(* Modelled is one log that only grows; a line is the number of the change *)
(* that wrote it.  A stream reads at once what there is.  Metrics that are *)
(* collected and those that come after them are not told apart.            *)
(***************************************************************************)
EXTENDS LogMirror

CONSTANTS
  Clients,      \* the sockets that ever connect
  Uses,         \* bound: the types asked for in one behaviour, with "mirror"
                \* when the agent runs beside the host application
  MaxEvents,    \* bound: PM2's events
  Streams       \* bound: requests for the log

Metrics == {"systemMetrics", "pm2Metrics"}
Types   == Metrics \cup {"event", "log", "zabbixPush"}

ASSUME HubAssumption == Uses \subseteq SUBSET (Types \cup {"mirror"}) /\ MaxEvents \in Nat

VARIABLES
  uses,         \* what is used in this behaviour
  alive,        \* the host application has not died of an exception
  gone,         \* the clients that have disconnected
  subscribed,   \* clientsClassifiedByType
  started,      \* the senders that have been started: _isPm2EventsStarted ...
  got,          \* <<t, c>>: c has got metrics of type t
  launching,    \* connections to PM2's bus under way
  listeners,    \* handlers of process:event on the bus
  told,         \* the events PM2 has told
  looking,      \* looking[e]: handlers of e that look its process up
  due,          \* due[e]: the clients subscribed when the bus told e
  delivered,    \* delivered[e][c]: how often c has got e
  asked,        \* <<s, c>>: request s of c looks its process up
  stream,       \* stream[s]: what became of request s
  pos,          \* pos[s]: logStream.bytesRead, in lines
  tails,        \* tails[s]: where the streams opened for changes are
  stat,         \* the content that the file's watcher knows, {} for none yet
  lines         \* lines[c]: the lines that c has got

clients == <<uses, gone, subscribed, started>>
events  == <<launching, listeners, told, looking, due, delivered>>
logs    == <<asked, stream, pos, tails, stat, lines>>
hubVars == <<vars, alive, clients, got, events, logs>>

HubInit ==
  /\ Init
  /\ uses \in Uses
  /\ alive = TRUE
  /\ gone = {}
  /\ subscribed = [t \in Types |-> {}]
  /\ started = {}
  /\ got = {}
  /\ launching = 0 /\ listeners = 0
  /\ told = 0
  /\ looking = [e \in 1..MaxEvents |-> 0]
  /\ due = [e \in 1..MaxEvents |-> {}]
  /\ delivered = [e \in 1..MaxEvents |-> [c \in Clients |-> 0]]
  /\ asked = {}
  /\ stream = [s \in Streams |-> "free"]
  /\ pos = [s \in Streams |-> 0]
  /\ tails = [s \in Streams |-> {}]
  /\ stat = {}
  /\ lines = [c \in Clients |-> {}]

(* Whom _sendDataToAllClients reaches.                                     *)
Served(t) == subscribed[t] \ gone

(* _addClientToType: a client is on a list once.                           *)
Subscribe(c, t) == subscribed' = [subscribed EXCEPT ![t] = @ \cup {c}]

(* What ends the host application: nobody handles it.                      *)
Dies == alive' = FALSE /\ UNCHANGED <<vars, clients, got, events, logs>>

-----------------------------------------------------------------------------
(* A client's message (treatClientMessage).                                *)
Asks(c, t) == alive /\ c \notin gone /\ t \in uses

AskMetrics(c, t) ==
  /\ Asks(c, t) /\ t \in Metrics
  /\ Subscribe(c, t)
  /\ started' = started \cup {t}
  /\ UNCHANGED <<vars, alive, uses, gone, got, events, logs>>

(* Bug: the flag is set when the bus is there, after the await.            *)
AskEventsLateFlag(c) ==
  /\ Asks(c, "event")
  /\ Subscribe(c, "event")
  /\ started' = IF listeners > 0 THEN started \cup {"event"} ELSE started
  /\ launching' = IF "event" \in started' THEN launching ELSE launching + 1
  /\ UNCHANGED <<vars, alive, uses, gone, got, listeners, told, looking, due, delivered, logs>>

(* The flag is set before anything is awaited.                             *)
AskEvents(c) ==
  /\ Asks(c, "event")
  /\ Subscribe(c, "event")
  /\ started' = started \cup {"event"}
  /\ launching' = IF "event" \in started THEN launching ELSE launching + 1
  /\ UNCHANGED <<vars, alive, uses, gone, got, listeners, told, looking, due, delivered, logs>>

(* sendZabbixPushEvent has no caller: nothing is ever sent.                *)
AskPushes(c) ==
  /\ Asks(c, "zabbixPush")
  /\ Subscribe(c, "zabbixPush")
  /\ UNCHANGED <<vars, alive, uses, gone, started, got, events, logs>>

Free == {s \in Streams : stream[s] = "free"}

AskLog(c) ==
  /\ Asks(c, "log") /\ Free # {}
  /\ LET s == CHOOSE s \in Free : TRUE
     IN /\ asked' = asked \cup {<<s, c>>}
        /\ stream' = [stream EXCEPT ![s] = "looking"]
  /\ UNCHANGED <<vars, alive, clients, got, events, pos, tails, stat, lines>>

(* A client that has asked for something leaves, and stays on its lists.   *)
Leave(c) ==
  /\ alive /\ c \notin gone
  /\ \/ \E t \in Types : c \in subscribed[t]
     \/ \E s \in Streams : <<s, c>> \in asked
  /\ gone' = gone \cup {c}
  /\ UNCHANGED <<vars, alive, uses, subscribed, started, got, events, logs>>

-----------------------------------------------------------------------------
(* An interval's metrics are sent.                                         *)
Tick(t) ==
  /\ alive /\ t \in started \cap Metrics
  /\ got' = got \cup ({t} \X Served(t))
  /\ UNCHANGED <<vars, alive, clients, events, logs>>

(* getSystemMetrics throws; the collection of PM2's metrics cannot.        *)
TickFails == alive /\ "systemMetrics" \in started /\ Dies

(* subscribeToPm2EventStream                                               *)
Launch ==
  /\ alive /\ launching > 0
  /\ launching' = launching - 1
  /\ listeners' = listeners + 1
  /\ UNCHANGED <<vars, alive, clients, got, told, looking, due, delivered, logs>>

LaunchFails == alive /\ launching > 0 /\ Dies

(* PM2 tells an event: each handler begins a look-up.                      *)
Event ==
  /\ "event" \in uses /\ alive /\ told < MaxEvents
  /\ told' = told + 1
  /\ looking' = [looking EXCEPT ![told'] = listeners]
  /\ due' = [due EXCEPT ![told'] = IF listeners > 0 THEN Served("event") ELSE {}]
  /\ UNCHANGED <<vars, alive, clients, got, launching, listeners, delivered, logs>>

(* Bug: of the events of a while only the last is sent, as a debounced     *)
(* callback does.                                                          *)
HandledDebounced(e) ==
  /\ alive /\ looking[e] > 0
  /\ looking' = [looking EXCEPT ![e] = @ - 1]
  /\ delivered' = [delivered EXCEPT ![e] =
       [c \in Clients |-> @[c] + IF e = told /\ c \in Served("event") THEN 1 ELSE 0]]
  /\ UNCHANGED <<vars, alive, clients, got, launching, listeners, told, due, logs>>

(* A look-up finds the process and the event is sent to who is there now.  *)
Handled(e) ==
  /\ alive /\ looking[e] > 0
  /\ looking' = [looking EXCEPT ![e] = @ - 1]
  /\ delivered' = [delivered EXCEPT ![e] =
       [c \in Clients |-> @[c] + IF c \in Served("event") THEN 1 ELSE 0]]
  /\ UNCHANGED <<vars, alive, clients, got, launching, listeners, told, due, logs>>

(* The process is not on PM2's list any more, or the list does not come:   *)
(* formatProcess(null) throws.                                             *)
NotFound(e) == alive /\ looking[e] > 0 /\ Dies

-----------------------------------------------------------------------------
(* What is in the file behind a position is sent.                          *)
SendsFrom(p) ==
  lines' = [c \in Clients |->
              IF c \in Served("log") THEN lines[c] \cup (p + 1)..file ELSE lines[c]]

(* The process has a log: it is streamed and watched.                      *)
Found(s) ==
  /\ alive
  /\ \E c \in Clients : /\ <<s, c>> \in asked
                        /\ asked' = asked \ {<<s, c>>}
                        /\ Subscribe(c, "log")
  /\ stream' = [stream EXCEPT ![s] = "reading"]
  /\ UNCHANGED <<vars, alive, uses, gone, started, got, events, pos, tails, stat, lines>>

(* No process, no path or no file: the client gets an error.               *)
Refused(s) ==
  /\ alive
  /\ \E c \in Clients : <<s, c>> \in asked /\ asked' = asked \ {<<s, c>>}
  /\ stream' = [stream EXCEPT ![s] = "refused"]
  /\ UNCHANGED <<vars, alive, clients, got, events, pos, tails, stat, lines>>

(* The stream has read what there is.                                      *)
ReadsOn(s) ==
  /\ alive /\ stream[s] = "reading"
  /\ pos[s] < file
  /\ SendsFrom(pos[s])
  /\ pos' = [pos EXCEPT ![s] = file]
  /\ UNCHANGED <<vars, alive, clients, got, events, asked, stream, tails, stat>>

(* It is at the end of the file; the watcher's first look at the file,     *)
(* which was asked for before the first chunk, has come.                   *)
ReadsAll(s) ==
  /\ alive /\ stream[s] = "reading"
  /\ pos[s] = file /\ stat # {}
  /\ stream' = [stream EXCEPT ![s] = "watching"]
  /\ UNCHANGED <<vars, alive, clients, got, events, asked, pos, tails, stat, lines>>

Watched == {s \in Streams : stream[s] \in {"reading", "watching"}}

(* Bug: a change is read from where the file ended when it was seen last.  *)
PollFromStat ==
  /\ alive /\ Watched # {} /\ stat # {file}
  /\ stat' = {file}
  /\ tails' = [s \in Streams |-> IF s \in Watched THEN tails[s] \cup {file} ELSE tails[s]]
  /\ UNCHANGED <<vars, alive, clients, got, events, asked, stream, pos, lines>>

(* fs.watchFile looks at the file: after its first look, each difference   *)
(* opens a stream for every request, from the end of the request's own.    *)
Poll ==
  /\ alive /\ Watched # {} /\ stat # {file}
  /\ stat' = {file}
  /\ tails' = [s \in Streams |->
       IF stat # {} /\ s \in Watched THEN tails[s] \cup {pos[s]} ELSE tails[s]]
  /\ UNCHANGED <<vars, alive, clients, got, events, asked, stream, pos, lines>>

(* Such a stream reads and ends.                                           *)
ReadsTail(s) ==
  /\ alive
  /\ \E p \in tails[s] : SendsFrom(p) /\ tails' = [tails EXCEPT ![s] = @ \ {p}]
  /\ UNCHANGED <<vars, alive, clients, got, events, asked, stream, pos, stat>>

-----------------------------------------------------------------------------
(* The process writes its log; the mirror, in the agent, goes on by itself,*)
(* and may meet a request of the agent's API, a failure or its own death.  *)
Write == /\ uses \cap {"log", "mirror"} # {}
         /\ Writes
         /\ UNCHANGED <<alive, clients, got, events, logs>>

Mirrors == /\ "mirror" \in uses
           /\ Goes
           /\ UNCHANGED <<alive, clients, got, events, logs>>

MirrorMeets == /\ "mirror" \in uses
               /\ Meets
               /\ UNCHANGED <<alive, clients, got, events, logs>>

Client(c) == \/ \E t \in Metrics : AskMetrics(c, t)
             \/ AskEvents(c) \/ AskPushes(c) \/ AskLog(c) \/ Leave(c)

Sender == \/ \E t \in Metrics : Tick(t)
          \/ Launch
          \/ \E e \in 1..MaxEvents : Handled(e)
          \/ Poll
          \/ \E s \in Streams : Found(s) \/ ReadsOn(s) \/ ReadsAll(s) \/ ReadsTail(s)

Failure == \/ TickFails \/ LaunchFails
           \/ \E e \in 1..MaxEvents : NotFound(e)
           \/ \E s \in Streams : Refused(s)

HubNext == Write \/ Mirrors \/ MirrorMeets \/ Event \/ Sender \/ Failure \/ \E c \in Clients : Client(c)

HubSpec == HubInit /\ [][HubNext]_hubVars

(* What the hub has begun goes on: PM2 answers, intervals and polls fire,  *)
(* streams read.  A sender that changes nothing any more may stop.  And in *)
(* the agent a sync comes to the log, watchers are made, changes told, and *)
(* reads and uploads end.                                                  *)
FairHubSpec == HubSpec /\ WF_hubVars(Sender) /\ WF_hubVars(Mirrors)

-----------------------------------------------------------------------------
(* However many clients ask, and while the connection to PM2 is awaited,   *)
(* the hub listens to the bus once: no client gets an event twice          *)
(* (_isPm2EventsStarted, startSendingPm2Events).                           *)
EventOnce == \A e \in 1..MaxEvents, c \in Clients : delivered[e][c] <= 1

(* Whoever asks for metrics gets some, also when the sender was started    *)
(* for somebody else, and who is subscribed when the bus tells an event    *)
(* gets it, whatever other events are told and looked up meanwhile; unless *)
(* the host dies (treatClientMessage, subscribeToPm2EventStream).  There   *)
(* is always a time when nothing is owed.                                  *)
MessagesArrive ==
  []<>(alive => /\ \A t \in Metrics : {t} \X Served(t) \subseteq got
                /\ \A e \in 1..MaxEvents : \A c \in due[e] \ gone : delivered[e][c] > 0)

(* A client that follows a log gets all its lines: those of before its     *)
(* request, those written while its stream is read and those after, with   *)
(* other clients' streams going on (sendStreamLogsToAllClients).           *)
LogReachesSubscriber ==
  []<>(alive => \A c \in Served("log") : 1..file \subseteq lines[c])

(* The agent's mirror of the log keeps its promises: the last content gets *)
(* to the graph, and without overlaps it stays there.                      *)
LogIsMirrored == "mirror" \in uses => LastContentIsSent /\ LastContentStays
=============================================================================
