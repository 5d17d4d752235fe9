---------------------------- MODULE ProcessGraph ----------------------------
(***************************************************************************)
(* The nodes of PM2's processes in the graph: registerVirtualMachine makes *)
(* them follow PM2's list when the agent starts; after that the events of  *)
(* the PM2 bus do, through a handler that is debounced for each process.   *)
(*                                                                         *)
(* The debounce keeps a second between two handlers of a process; nothing  *)
(* makes the second one wait if the first takes longer, which happens to   *)
(* the processes in Slow.  PM2 gives every process a pm_id, and no process *)
(* has another's pm_id for a name.  What a handler does to a node's other  *)
(* data, its endpoints and its logs is left out.                           *)
(***************************************************************************)
EXTENDS Naturals, SequencesExt

CONSTANTS
  Ids,          \* pm_ids
  Names,        \* names of processes
  Nodes,        \* bound: process nodes in the graph at a time
  Asks,         \* bound: PROCESS_EVENTs waiting for getPm2ProcessByKey
  Handlers,     \* bound: handlers at work at a time
  None,
  MaxBus,       \* bound: events on their way on the bus
  Reordered,    \* PM2's answers and its events come over different sockets
  Failures,     \* pm2.list may fail
  Crashes,      \* the agent may die
  Slow          \* pm_ids whose handlers may take longer than the debounce

Types == {"process", "config", "delete"}
Described == [type : Types, id : Ids, name : Names]

ASSUME GraphAssumption == /\ None \notin Ids \cup Names \cup Nodes
                          /\ None \notin Described
                          /\ MaxBus \in Nat
                          /\ {Reordered, Failures, Crashes} \subseteq BOOLEAN
                          /\ Slow \subseteq Ids

VARIABLES
  pm2,          \* pm2[i]: the name of process i, None when PM2 has none
  bus,          \* the events on their way, oldest first
  agent,        \* "down", "registering", "pruning" or "listening"
  list,         \* the list the registration works on
  prune,        \* the nodes the registration has still to remove
  asks,         \* asks[a]: the process event a waits to describe
  pending,      \* pending[i]: the event debouncedPm2Handlers will handle
  handler,      \* handler[h]: what a handlePm2Event is doing
  node          \* node[n]: the process a node of the graph stands for

listeners == <<asks, pending>>
vars == <<pm2, bus, agent, list, prune, listeners, handler, node>>

Event(type, i, name) == [type |-> type, id |-> i, name |-> name]
Events == [type : {"process"}, id : Ids, name : {None}]
            \cup [type : {"config", "delete"}, id : Ids, name : Names]

NoAsk == [id |-> None, name |-> None, phase |-> "idle"]
NoHandler == [id |-> None, phase |-> "idle", type |-> "process", name |-> None, node |-> None]
NoNode == [id |-> None, name |-> None]
AskStates == {NoAsk} \cup [id : Ids, name : Names \cup {None}, phase : {"asked", "answered"}]
HandlerStates ==
  {NoHandler}
    \cup [id : Ids, phase : {"looking", "adding", "updating"}, type : Types,
         name : Names, node : {None}]
    \cup [id : Ids, phase : {"removing"}, type : Types, name : Names, node : Nodes]
NoList == [i \in Ids |-> None]

(* The nodes of a process; more than one only when its handlers overlap.   *)
NodesOf(i) == {n \in Nodes : node[n].id = i}

(* A node for which a process is listed, with the name it is listed by.    *)
Listed(n) == node[n].id # None /\ list[node[n].id] = node[n].name

Idle(h) == handler[h].phase = "idle"

Init == /\ pm2 \in [Ids -> Names \cup {None}]
        /\ bus = <<>>
        /\ agent = "down"
        /\ list = NoList
        /\ prune = {}
        /\ asks = [a \in Asks |-> NoAsk]
        /\ pending = NoList
        /\ handler = [h \in Handlers |-> NoHandler]
        /\ node = [n \in Nodes |-> NoNode]

-----------------------------------------------------------------------------
(* PM2: those who listen are told, in order, of a deletion by              *)
(* "process:delete".                                                       *)
Publish(e) == /\ Len(bus) < MaxBus
              /\ bus' = IF agent = "listening" THEN Append(bus, e) ELSE bus
              /\ UNCHANGED <<agent, list, prune, listeners, handler, node>>

Create(i, name) ==
  /\ pm2[i] = None
  /\ pm2' = [pm2 EXCEPT ![i] = name]
  /\ Publish(Event("process", i, None))

ProcessEvent(i) ==
  /\ pm2[i] # None
  /\ Publish(Event("process", i, None))
  /\ UNCHANGED pm2

ConfigChange(i) ==
  /\ pm2[i] # None
  /\ Publish(Event("config", i, pm2[i]))
  /\ UNCHANGED pm2

Delete(i) ==
  /\ pm2[i] # None
  /\ pm2' = [pm2 EXCEPT ![i] = None]
  /\ Publish(Event("delete", i, pm2[i]))

-----------------------------------------------------------------------------
(* initializeGraphContext: getAllPm2Processes answers, with nothing if PM2 *)
(* fails.  Nobody listens yet.                                             *)
Starts ==
  /\ agent = "down"
  /\ agent' = "registering"
  /\ list' \in {pm2} \cup (IF Failures THEN {NoList} ELSE {})
  /\ UNCHANGED <<pm2, bus, prune, listeners, handler, node>>

(* _syncPm2Processes goes through the list, a process at a time, the way   *)
(* it does for an event; a process whose node is right needs nothing.      *)
RegisterNext(h, i) ==
  /\ agent = "registering"
  /\ \A g \in Handlers : Idle(g)
  /\ list[i] # None
  /\ \A n \in NodesOf(i) : ~Listed(n)
  /\ handler' = [handler EXCEPT ![h] =
       [id |-> i, phase |-> "looking", type |-> "process", name |-> list[i], node |-> None]]
  /\ UNCHANGED <<pm2, bus, agent, list, prune, listeners, node>>

(* Bug: the snapshot is not reconciled.                                    *)
RegisteredOnly ==
  /\ agent = "registering"
  /\ \A h \in Handlers : Idle(h)
  /\ \A i \in Ids : list[i] # None => \E n \in NodesOf(i) : Listed(n)
  /\ agent' = "pruning"
  /\ UNCHANGED <<pm2, bus, list, prune, listeners, handler, node>>

(* Its reconcileSnapshot: the nodes of unlisted processes are to be        *)
(* removed.  Of nodes with one pm_id and one name it sees at least one     *)
(* (getPm2ProcessesNodesAsObj).                                            *)
Registered ==
  /\ agent = "registering"
  /\ \A h \in Handlers : Idle(h)
  /\ \A i \in Ids : list[i] # None => \E n \in NodesOf(i) : Listed(n)
  /\ agent' = "pruning"
  /\ LET unlisted == {n \in Nodes : node[n] # NoNode /\ ~Listed(n)}
     IN  \E seen \in SUBSET unlisted :
           /\ \A n \in unlisted : \E m \in seen : node[m] = node[n]
           /\ prune' = seen
  /\ UNCHANGED <<pm2, bus, list, listeners, handler, node>>

Prunes ==
  /\ \E n \in prune :
       /\ node' = [node EXCEPT ![n] = NoNode]
       /\ prune' = prune \ {n}
  /\ UNCHANGED <<pm2, bus, agent, list, listeners, handler>>

(* Bug: the removals of the registration are not awaited.                  *)
ListensAtOnce ==
  /\ agent = "pruning"
  /\ agent' = "listening"
  /\ list' = NoList
  /\ UNCHANGED <<pm2, bus, prune, listeners, handler, node>>

(* startPm2Listeners.                                                      *)
Listens ==
  /\ agent = "pruning"
  /\ prune = {}
  /\ agent' = "listening"
  /\ list' = NoList
  /\ UNCHANGED <<pm2, bus, prune, listeners, handler, node>>

(* Everything but PM2 and the graph is gone.                               *)
Dies ==
  /\ agent' = "down"
  /\ bus' = <<>>
  /\ list' = NoList
  /\ prune' = {}
  /\ asks' = [a \in Asks |-> NoAsk]
  /\ pending' = NoList
  /\ handler' = [h \in Handlers |-> NoHandler]
  /\ UNCHANGED <<pm2, node>>

Crash == Crashes /\ agent # "down" /\ Dies

-----------------------------------------------------------------------------
(* Bug: the debounce keeps the first of the events.                        *)
Earliest(old, new) == IF old = None THEN new ELSE old

(* lodash.debounce calls with the arguments of the last call.              *)
Latest(old, new) == new

(* subscribeToPm2EventStream: a PROCESS_EVENT is described by PM2 first;   *)
(* the other events go to the debounced handler of their process.          *)
Deliver ==
  /\ bus # <<>>
  /\ Reordered \/ \A a \in Asks : asks[a].phase # "answered"
  /\ bus' = Tail(bus)
  /\ LET e == Head(bus)
     IN  IF e.type = "process"
           THEN /\ \E a \in Asks :
                     /\ asks[a].phase = "idle"
                     /\ asks' = [asks EXCEPT ![a] =
                                  [id |-> e.id, name |-> None, phase |-> "asked"]]
                /\ UNCHANGED pending
           ELSE /\ pending' = [pending EXCEPT ![e.id] = Latest(@, e)]
                /\ UNCHANGED asks
  /\ UNCHANGED <<pm2, agent, list, prune, handler, node>>

(* PM2's answer to getPm2ProcessByKey sets out; null if PM2 fails.         *)
Answers(a) ==
  /\ asks[a].phase = "asked"
  /\ Reordered \/ \A b \in Asks : asks[b].phase # "answered"
  /\ \E name \in {pm2[asks[a].id]} \cup (IF Failures THEN {None} ELSE {}) :
       asks' = [asks EXCEPT ![a] =
                 [id |-> asks[a].id, name |-> name, phase |-> "answered"]]
  /\ UNCHANGED <<pm2, bus, agent, list, prune, pending, handler, node>>

(* It arrives.  Without a process, handlePm2Event has nothing to do.       *)
Arrives(a) ==
  /\ asks[a].phase = "answered"
  /\ asks' = [asks EXCEPT ![a] = NoAsk]
  /\ pending' = IF asks[a].name = None THEN pending
                ELSE [pending EXCEPT ![asks[a].id] =
                       Latest(@, Event("process", asks[a].id, asks[a].name))]
  /\ UNCHANGED <<pm2, bus, agent, list, prune, handler, node>>

(* A second without events: handlePm2Event is called.                      *)
Fires(h, i) ==
  /\ pending[i] # None
  /\ Idle(h)
  /\ i \in Slow \/ \A g \in Handlers : handler[g].id # i
  /\ handler' = [handler EXCEPT ![h] =
       [id |-> i, phase |-> "looking", type |-> pending[i].type,
        name |-> pending[i].name, node |-> None]]
  /\ pending' = [pending EXCEPT ![i] = None]
  /\ UNCHANGED <<pm2, bus, agent, list, prune, asks, node>>

(* Nobody knows the nodes: the process gets one, unless it is deleted.     *)
FindsNone(h) ==
  /\ NodesOf(handler[h].id) = {}
  /\ handler' = [handler EXCEPT ![h] =
       IF handler[h].type = "delete" THEN NoHandler
       ELSE [handler[h] EXCEPT !.phase = "adding"]]

(* Bug: a process that has changed its name gets a node beside the old one. *)
FindsOneAdding(h) ==
  \E n \in NodesOf(handler[h].id) :
    handler' = [handler EXCEPT ![h] =
      IF handler[h].type = "delete"
        THEN [handler[h] EXCEPT !.phase = "removing", !.node = n]
      ELSE [handler[h] EXCEPT
              !.phase = IF node[n].name # handler[h].name THEN "adding" ELSE "updating"]]

(* Bug: the name of the node is not looked at.                             *)
FindsOneBlind(h) ==
  \E n \in NodesOf(handler[h].id) :
    handler' = [handler EXCEPT ![h] =
      IF handler[h].type = "delete"
        THEN [handler[h] EXCEPT !.phase = "removing", !.node = n]
        ELSE [handler[h] EXCEPT !.phase = "updating"]]

(* A deleted process's node, or one with another name, is to be removed.   *)
FindsOne(h) ==
  \E n \in NodesOf(handler[h].id) :
    handler' = [handler EXCEPT ![h] =
      IF handler[h].type = "delete" \/ node[n].name # handler[h].name
        THEN [handler[h] EXCEPT !.phase = "removing", !.node = n]
        ELSE [handler[h] EXCEPT !.phase = "updating"]]

(* handlePm2Event and _syncPm2Processes have the nodes.                    *)
Looks(h) ==
  /\ handler[h].phase = "looking"
  /\ FindsNone(h) \/ FindsOne(h)
  /\ UNCHANGED <<pm2, bus, agent, list, prune, listeners, node>>

(* removePm2ProcessFromGraph.                                              *)
Removes(h) ==
  /\ handler[h].phase = "removing"
  /\ node[handler[h].node] # NoNode
  /\ node' = [node EXCEPT ![handler[h].node] = NoNode]
  /\ handler' = [handler EXCEPT ![h] =
       IF handler[h].type = "delete" THEN NoHandler
       ELSE [handler[h] EXCEPT !.phase = "adding", !.node = None]]
  /\ UNCHANGED <<pm2, bus, agent, list, prune, listeners>>

(* "Process is not in this vm": nothing catches it, and Node.js ends.      *)
Throws(h) ==
  /\ handler[h].phase = "removing"
  /\ node[handler[h].node] = NoNode
  /\ Dies

(* _addPm2ProcessToGraph.  A node no handler holds stands for a new one.   *)
Adds(h) ==
  /\ handler[h].phase = "adding"
  /\ \E n \in Nodes :
       /\ node[n] = NoNode
       /\ \A g \in Handlers : handler[g].node # n
       /\ node' = [node EXCEPT ![n] = [id |-> handler[h].id, name |-> handler[h].name]]
  /\ handler' = [handler EXCEPT ![h].phase = "updating"]
  /\ UNCHANGED <<pm2, bus, agent, list, prune, listeners>>

(* The node's data and endpoints are brought up to date, and with a config *)
(* event also its configuration (_updateOrganConfigData).                  *)
Updates(h) ==
  /\ handler[h].phase = "updating"
  /\ handler' = [handler EXCEPT ![h] = NoHandler]
  /\ UNCHANGED <<pm2, bus, agent, list, prune, listeners, node>>

PM2 == \E i \in Ids : \/ \E name \in Names : Create(i, name)
                      \/ ProcessEvent(i) \/ ConfigChange(i) \/ Delete(i)

Register == \/ \E h \in Handlers, i \in Ids : RegisterNext(h, i)
            \/ Registered \/ Prunes \/ Listens

Handle(h) == Looks(h) \/ Removes(h) \/ Throws(h) \/ Adds(h) \/ Updates(h)

Next == \/ PM2
        \/ Starts \/ Register \/ Crash
        \/ Deliver
        \/ \E a \in Asks : Answers(a) \/ Arrives(a)
        \/ \E h \in Handlers, i \in Ids : Fires(h, i)
        \/ \E h \in Handlers : Handle(h)

Spec == Init /\ [][Next]_vars

(* The agent is started again, events and answers arrive, each process has *)
(* a second without events now and then, the hub answers.                  *)
Fairness == /\ WF_vars(Starts) /\ WF_vars(Register)
            /\ WF_vars(Deliver)
            /\ \A a \in Asks : WF_vars(Answers(a) \/ Arrives(a))
            /\ \A i \in Ids : WF_vars(\E h \in Handlers : Fires(h, i))
            /\ \A h \in Handlers : WF_vars(Handle(h))

FairSpec == Spec /\ Fairness

-----------------------------------------------------------------------------
(* The variables keep their types; there is nothing to handle in an agent  *)
(* that is down, and no event in one that does not listen yet.             *)
TypeOK ==
  /\ pm2 \in [Ids -> Names \cup {None}]
  /\ bus \in Seq(Events)
  /\ agent \in {"down", "registering", "pruning", "listening"}
  /\ list \in [Ids -> Names \cup {None}]
  /\ prune \in SUBSET Nodes
  /\ asks \in [Asks -> AskStates]
  /\ pending \in [Ids -> Described \cup {None}]
  /\ \A i \in Ids : pending[i] # None => pending[i].id = i
  /\ handler \in [Handlers -> HandlerStates]
  /\ node \in [Nodes -> [id : Ids, name : Names] \cup {NoNode}]
  /\ agent # "listening" => /\ bus = <<>> /\ pending = NoList
                            /\ \A a \in Asks : asks[a] = NoAsk
  /\ agent \in {"down", "pruning"} => \A h \in Handlers : Idle(h)

(* A process whose handlers do not overlap has one node at most, across    *)
(* its events, its renaming, crashes of the agent and restarts, whatever   *)
(* the handlers of other processes do (_syncPm2Processes).                 *)
OneNodePerProcess ==
  \A i \in Ids \ Slow : \A m, n \in NodesOf(i) : m = n

(* When the handlers of a process do not overlap, a node that is to be     *)
(* removed is still there, and still its process's, so that                *)
(* removePm2ProcessFromGraph does not throw "Process is not in this vm".   *)
RemovalFindsNode ==
  \A h \in Handlers :
    handler[h].phase = "removing" /\ handler[h].id \notin Slow
      => handler[h].node \in NodesOf(handler[h].id)

Told(type, i) == \E k \in DOMAIN bus : bus[k].type = type /\ bus[k].id = i

(* While the agent listens, and PM2 answers in order and without failure,  *)
(* a process that has had an event and lives on gets a node of its name,   *)
(* for good (handlePm2Event, _syncPm2Processes).                           *)
LivingHasNode ==
  \A i \in Ids, name \in Names :
    [](Told("process", i) /\ [](pm2[i] = name /\ agent = "listening")
         => <>[](\E n \in NodesOf(i) : node[n].name = name))

(* index.ts: "Listen to PM2 actions and handle them with debounced         *)
(* handlers".  A process that is deleted for good leaves the graph for     *)
(* good (handlePm2Event).                                                  *)
DeletedLeavesGraph ==
  \A i \in Ids :
    [](Told("delete", i) /\ [](pm2[i] = None /\ agent = "listening")
         => <>[](NodesOf(i) = {}))

(* Whatever the events did, an agent that starts again and gets to listen  *)
(* has taken the nodes of processes that are gone out of the graph, for    *)
(* good (registerVirtualMachine).                                          *)
RestartForgets ==
  \A i \in Ids :
    [](agent = "down" /\ [](pm2[i] = None) /\ <>(agent = "listening")
         => <>[](NodesOf(i) = {}))
=============================================================================
