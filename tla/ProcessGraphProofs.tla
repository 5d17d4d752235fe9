------------------------- MODULE ProcessGraphProofs -------------------------
(***************************************************************************)
(* Proofs about ProcessGraph for every set of processes, names, nodes and  *)
(* handlers.                                                               *)
(***************************************************************************)
EXTENDS ProcessGraph, SequenceTheorems, TLAPS

LEMMA TypeInit == Init => TypeOK
<1> SUFFICES ASSUME Init PROVE TypeOK
  OBVIOUS
<1> USE GraphAssumption DEF Init, NoList, AskStates, HandlerStates, NoHandler, NoNode, Idle
<1>1. bus \in Seq(Events)
  OBVIOUS
<1> QED BY <1>1 DEF TypeOK

(* Putting an event on the bus keeps its type (Publish).                   *)
LEMMA PublishType ==
  ASSUME TypeOK, NEW e \in Events, Publish(e)
  PROVE  bus' \in Seq(Events) /\ (agent # "listening" => bus' = <<>>)
BY AppendProperties DEF TypeOK, Publish

LEMMA PM2Type == TypeOK /\ PM2 => TypeOK'
<1> SUFFICES ASSUME TypeOK, PM2 PROVE TypeOK'
  OBVIOUS
<1> USE GraphAssumption
<1>1. PICK i \in Ids : \/ \E name \in Names : Create(i, name)
                       \/ ProcessEvent(i) \/ ConfigChange(i) \/ Delete(i)
  BY DEF PM2
<1>2. /\ Event("process", i, None) \in Events
      /\ pm2[i] # None => \A t \in {"config", "delete"} : Event(t, i, pm2[i]) \in Events
  BY DEF TypeOK, Event, Events, Types
<1>3. PICK e \in Events : Publish(e)
  BY <1>1, <1>2 DEF Create, ProcessEvent, ConfigChange, Delete, Types
<1>4. bus' \in Seq(Events) /\ (agent # "listening" => bus' = <<>>)
  BY <1>3, PublishType
<1>5. pm2' \in [Ids -> Names \cup {None}]
  BY <1>1 DEF TypeOK, Create, ProcessEvent, ConfigChange, Delete
<1>6. UNCHANGED <<agent, list, prune, listeners, handler, node>>
  BY <1>3 DEF Publish
<1> QED BY <1>4, <1>5, <1>6 DEF TypeOK, listeners, Idle

LEMMA RegisterType ==
  TypeOK /\ (Starts \/ Register \/ Crash \/ Dies) => TypeOK'
<1> SUFFICES ASSUME TypeOK, Starts \/ Register \/ Crash \/ Dies PROVE TypeOK'
  OBVIOUS
<1> USE GraphAssumption
<1>1. CASE Starts
  BY <1>1 DEF TypeOK, Starts, listeners, NoList, Idle
<1>2. CASE \E h \in Handlers, i \in Ids : RegisterNext(h, i)
  BY <1>2 DEF TypeOK, RegisterNext, listeners, Idle, HandlerStates, Types
<1>3. CASE Registered
  BY <1>3 DEF TypeOK, Registered, listeners, Idle
<1>4. CASE Prunes
  BY <1>4 DEF TypeOK, Prunes, listeners, Idle, NoNode
<1>5. CASE Listens
  BY <1>5 DEF TypeOK, Listens, listeners, NoList, Idle
<1>6. CASE Dies
  <2>1. bus' \in Seq(Events)
    BY <1>6 DEF Dies
  <2> QED BY <1>6, <2>1 DEF TypeOK, Dies, NoList, AskStates, HandlerStates, NoHandler, Idle
<1> QED BY <1>1, <1>2, <1>3, <1>4, <1>5, <1>6 DEF Register, Crash

LEMMA DeliverType == TypeOK /\ Deliver => TypeOK'
<1> SUFFICES ASSUME TypeOK, Deliver PROVE TypeOK'
  OBVIOUS
<1> USE GraphAssumption
<1>1. Head(bus) \in Events /\ bus' \in Seq(Events)
  BY HeadTailProperties DEF TypeOK, Deliver
<1>2. agent = "listening"
  BY DEF TypeOK, Deliver
<1>3. Head(bus).id \in Ids
  BY <1>1 DEF Events
<1>4. CASE Head(bus).type = "process"
  <2>1. PICK a \in Asks :
          /\ asks[a].phase = "idle"
          /\ asks' = [asks EXCEPT ![a] =
                       [id |-> Head(bus).id, name |-> None, phase |-> "asked"]]
    BY <1>4 DEF Deliver
  <2>2. asks' \in [Asks -> AskStates]
    BY <2>1, <1>3 DEF TypeOK, AskStates
  <2>3. UNCHANGED <<pm2, agent, list, prune, pending, handler, node>>
    BY <1>4 DEF Deliver
  <2> QED BY <1>1, <1>2, <2>2, <2>3 DEF TypeOK, Idle
<1>5. CASE Head(bus).type # "process"
  <2>1. pending' = [pending EXCEPT ![Head(bus).id] = Head(bus)]
    BY <1>5 DEF Deliver, Latest
  <2>2. Head(bus) \in Described
    BY <1>1, <1>5 DEF Events, Described, Types
  <2>3. UNCHANGED <<pm2, agent, list, prune, asks, handler, node>>
    BY <1>5 DEF Deliver
  <2> QED BY <1>1, <1>2, <1>3, <2>1, <2>2, <2>3 DEF TypeOK, Idle
<1> QED BY <1>4, <1>5

LEMMA AskType ==
  ASSUME TypeOK, NEW a \in Asks, Answers(a) \/ Arrives(a)
  PROVE  TypeOK'
<1> USE GraphAssumption
<1>0. asks[a].id \in Ids /\ agent = "listening"
  BY DEF TypeOK, Answers, Arrives, AskStates, NoAsk
<1>1. CASE Answers(a)
  <2>1. PICK name \in {pm2[asks[a].id]} \cup (IF Failures THEN {None} ELSE {}) :
          asks' = [asks EXCEPT ![a] =
                    [id |-> asks[a].id, name |-> name, phase |-> "answered"]]
    BY <1>1 DEF Answers
  <2>2. name \in Names \cup {None}
    BY <1>0 DEF TypeOK
  <2>3. [id |-> asks[a].id, name |-> name, phase |-> "answered"] \in AskStates
    BY <2>2, <1>0 DEF AskStates
  <2>4. asks' \in [Asks -> AskStates]
    BY <2>1, <2>3 DEF TypeOK
  <2> QED BY <2>4, <1>0, <1>1 DEF TypeOK, Answers, Idle
<1>2. CASE Arrives(a)
  <2>1. asks[a].name # None => Event("process", asks[a].id, asks[a].name) \in Described
    BY <1>0 DEF TypeOK, Event, Described, Types, AskStates, NoAsk
  <2>2. asks' \in [Asks -> AskStates]
    BY <1>2 DEF TypeOK, Arrives, AskStates
  <2> QED BY <2>1, <2>2, <1>0, <1>2 DEF TypeOK, Arrives, Latest, Event, Idle
<1> QED BY <1>1, <1>2

(* A handler's step leaves the rest of the state well typed: what it does  *)
(* to its own entry and to the nodes decides.                              *)
LEMMA HandlerFrame ==
  ASSUME TypeOK, NEW h \in Handlers, agent \notin {"down", "pruning"},
         NEW r \in HandlerStates, handler' = [handler EXCEPT ![h] = r],
         node' \in [Nodes -> [id : Ids, name : Names] \cup {NoNode}],
         UNCHANGED <<pm2, bus, agent, list, prune, listeners>>
  PROVE  TypeOK'
BY DEF TypeOK, listeners, Idle

LEMMA HandlerType ==
  ASSUME TypeOK, NEW h \in Handlers, Handle(h)
  PROVE  TypeOK'
<1> USE GraphAssumption
<1>0. CASE ~Throws(h)
  <2>1. /\ handler[h] \in HandlerStates \ {NoHandler}
        /\ agent \notin {"down", "pruning"}
    BY <1>0 DEF TypeOK, Handle, Looks, Removes, Adds, Updates, NoHandler, Idle
  <2>2. /\ handler[h].id \in Ids /\ handler[h].name \in Names
        /\ handler[h].phase = "removing" => handler[h].node \in Nodes
        /\ handler[h].phase # "removing" => handler[h].node = None
    BY <2>1 DEF HandlerStates
  <2>3. /\ UNCHANGED <<pm2, bus, agent, list, prune, listeners>>
        /\ node' \in [Nodes -> [id : Ids, name : Names] \cup {NoNode}]
    BY <1>0, <2>2 DEF TypeOK, Handle, Looks, Removes, Adds, Updates
  <2>4. \E r \in HandlerStates : handler' = [handler EXCEPT ![h] = r]
    <3>1. CASE Looks(h) /\ FindsNone(h)
      <4>1. [handler[h] EXCEPT !.phase = "adding"] \in HandlerStates
        BY <2>1, <3>1 DEF HandlerStates, Looks
      <4> QED BY <3>1, <4>1 DEF FindsNone, HandlerStates
    <3>2. CASE Looks(h) /\ FindsOne(h)
      <4>1. [handler[h] EXCEPT !.phase = "updating"] \in HandlerStates
        BY <2>1, <3>2 DEF HandlerStates, Looks
      <4>2. \A n \in Nodes :
              [handler[h] EXCEPT !.phase = "removing", !.node = n] \in HandlerStates
        BY <2>1, <3>2 DEF HandlerStates, Looks
      <4> QED BY <3>2, <4>1, <4>2 DEF FindsOne, NodesOf
    <3>3. CASE Removes(h)
      <4>1. [handler[h] EXCEPT !.phase = "adding", !.node = None] \in HandlerStates
        BY <2>1, <3>3 DEF HandlerStates, Removes
      <4> QED BY <3>3, <4>1 DEF Removes, HandlerStates
    <3>4. CASE Adds(h)
      <4>1. [handler[h] EXCEPT !.phase = "updating"] \in HandlerStates
        BY <2>1, <3>4 DEF HandlerStates, Adds
      <4> QED BY <3>4, <4>1 DEF Adds, TypeOK
    <3>5. CASE Updates(h)
      BY <3>5 DEF Updates, HandlerStates
    <3> QED BY <1>0, <3>1, <3>2, <3>3, <3>4, <3>5 DEF Handle, Looks
  <2> QED BY <2>1, <2>3, <2>4, HandlerFrame
<1>1. CASE Throws(h)
  BY <1>1, RegisterType DEF Throws
<1> QED BY <1>0, <1>1

LEMMA FiresType ==
  ASSUME TypeOK, NEW h \in Handlers, NEW i \in Ids, Fires(h, i)
  PROVE  TypeOK'
<1> USE GraphAssumption
<1>1. pending[i] \in Described /\ agent = "listening"
  BY DEF TypeOK, Fires, NoList
<1>2. [id |-> i, phase |-> "looking", type |-> pending[i].type,
       name |-> pending[i].name, node |-> None] \in HandlerStates
  BY <1>1 DEF Described, HandlerStates
<1> QED BY <1>1, <1>2 DEF TypeOK, Fires, Idle

LEMMA TypeStep == TypeOK /\ [Next]_vars => TypeOK'
<1> SUFFICES ASSUME TypeOK, [Next]_vars PROVE TypeOK'
  OBVIOUS
<1>1. CASE UNCHANGED vars
  BY <1>1 DEF TypeOK, vars, listeners, Idle
<1>2. CASE \E a \in Asks : Answers(a) \/ Arrives(a)
  BY <1>2, AskType
<1>3. CASE \E h \in Handlers : Handle(h)
  BY <1>3, HandlerType
<1>4. CASE \E h \in Handlers, i \in Ids : Fires(h, i)
  BY <1>4, FiresType
<1> QED BY <1>1, <1>2, <1>3, <1>4, PM2Type, RegisterType, DeliverType DEF Next

(* The variables keep their types.                                         *)
THEOREM TypeCorrect == Spec => []TypeOK
BY TypeInit, TypeStep, PTL DEF Spec

-----------------------------------------------------------------------------
(* The handlers of processes that are not slow stand for one process each, *)
(* such a process has no node when one is to be added, and nobody removes  *)
(* a node behind its handler's back: a handler, slow or not, only holds    *)
(* nodes of its own process, and the registration removes nodes alone.     *)
OneHandlerEach ==
  \A g, h \in Handlers :
    ~Idle(g) /\ handler[g].id \notin Slow /\ handler[g].id = handler[h].id => g = h

AddingHasNone ==
  \A h \in Handlers :
    handler[h].phase = "adding" /\ handler[h].id \notin Slow
      => NodesOf(handler[h].id) = {}

HoldsOwn ==
  \A h \in Handlers :
    handler[h].phase = "removing"
      => node[handler[h].node] \in {NoNode} \cup [id : {handler[h].id}, name : Names]

PrunesAlone == prune # {} => agent = "pruning"

IInv == /\ TypeOK
        /\ PrunesAlone
        /\ OneHandlerEach
        /\ AddingHasNone
        /\ HoldsOwn
        /\ OneNodePerProcess
        /\ RemovalFindsNode

LEMMA IInvInit == Init => IInv
<1> SUFFICES ASSUME Init PROVE IInv
  OBVIOUS
<1>1. TypeOK
  BY TypeInit
<1>2. \A h \in Handlers : Idle(h) /\ handler[h].phase = "idle"
  BY DEF Init, NoHandler, Idle
<1>3. \A i \in Ids : NodesOf(i) = {}
  BY GraphAssumption DEF Init, NodesOf, NoNode
<1> QED BY <1>1, <1>2, <1>3 DEF Init, IInv, PrunesAlone, OneHandlerEach, AddingHasNone,
           HoldsOwn, OneNodePerProcess, RemovalFindsNode, Idle

(* The steps that leave nodes and handlers alone.                          *)
LEMMA QuietStep ==
  ASSUME IInv, TypeOK', UNCHANGED <<handler, node>>, PrunesAlone'
  PROVE  IInv'
BY DEF IInv, OneHandlerEach, AddingHasNone, HoldsOwn, OneNodePerProcess, RemovalFindsNode,
       NodesOf, Idle

LEMMA PrunesStep ==
  ASSUME IInv, TypeOK', Prunes
  PROVE  IInv'
<1>1. \A h \in Handlers : Idle(h)
  BY DEF IInv, TypeOK, PrunesAlone, Prunes
<1>2. \A i \in Ids : NodesOf(i)' \subseteq NodesOf(i)
  BY GraphAssumption DEF IInv, TypeOK, Prunes, NodesOf, NoNode
<1>3. UNCHANGED <<agent, handler>> /\ prune' \subseteq prune
  BY DEF Prunes
<1> QED BY <1>1, <1>2, <1>3 DEF IInv, PrunesAlone, OneHandlerEach, AddingHasNone,
           HoldsOwn, OneNodePerProcess, RemovalFindsNode, Idle

LEMMA DiesStep ==
  ASSUME IInv, TypeOK', Dies
  PROVE  IInv'
<1>1. \A h \in Handlers : Idle(h)'
  BY DEF Dies, NoHandler, Idle
<1> QED BY <1>1 DEF IInv, Dies, PrunesAlone, OneHandlerEach, AddingHasNone,
           HoldsOwn, OneNodePerProcess, RemovalFindsNode, NodesOf, Idle

(* A handler that begins is the only one of its process, if that is not    *)
(* slow.                                                                   *)
LEMMA BeginStep ==
  ASSUME IInv, TypeOK', NEW h \in Handlers, NEW i \in Ids, NEW r,
         i \in Slow \/ \A g \in Handlers : handler[g].id # i,
         handler' = [handler EXCEPT ![h] = r], r.id = i, r.phase = "looking",
         UNCHANGED node, PrunesAlone'
  PROVE  IInv'
BY DEF IInv, TypeOK, OneHandlerEach, AddingHasNone, HoldsOwn, OneNodePerProcess, RemovalFindsNode,
       NodesOf, Idle

(* A handler's step touches its own process's nodes only.                  *)
LEMMA OwnStep ==
  ASSUME IInv, TypeOK', PrunesAlone', NEW h \in Handlers, ~Idle(h),
         NEW p \in Ids, p = handler[h].id,
         \A g \in Handlers : g # h => handler'[g] = handler[g],
         Idle(h)' \/ handler'[h].id = p,
         \A q \in Ids : q # p => NodesOf(q)' = NodesOf(q),
         p \in Slow \/
           /\ \A m, n \in NodesOf(p)' : m = n
           /\ handler'[h].phase = "adding" => NodesOf(p)' = {}
           /\ handler'[h].phase = "removing" => handler'[h].node \in NodesOf(p)',
         HoldsOwn'
  PROVE  IInv'
<1>1. \A g \in Handlers :
        ~Idle(g) /\ g # h /\ handler[g].id \notin Slow => handler[g].id \in Ids \ {p}
  BY DEF IInv, OneHandlerEach, TypeOK, HandlerStates, NoHandler, Idle
<1>2. \A g \in Handlers : Idle(g)' => handler'[g].id \notin Ids
  BY GraphAssumption DEF TypeOK, HandlerStates, NoHandler, Idle
<1>3. OneHandlerEach'
  <2> SUFFICES ASSUME NEW f \in Handlers, NEW g \in Handlers, ~Idle(f)',
                      handler'[f].id \notin Slow, handler'[f].id = handler'[g].id
               PROVE  f = g
    BY DEF OneHandlerEach
  <2>1. handler'[f].id \in Ids
    BY <1>1 DEF Idle
  <2>2. ~Idle(g)'
    BY <1>2, <2>1
  <2> QED BY <1>1, <2>1, <2>2 DEF IInv, OneHandlerEach, Idle
<1>4. ASSUME NEW g \in Handlers, g # h, ~Idle(g), handler[g].id \notin Slow
      PROVE  /\ handler'[g] = handler[g]
             /\ {n \in Nodes : node'[n].id = handler[g].id} = NodesOf(handler[g].id)
  BY <1>1, <1>4 DEF NodesOf
<1>5. AddingHasNone'
  BY <1>4 DEF IInv, AddingHasNone, NodesOf, Idle
<1>6. RemovalFindsNode'
  BY <1>4 DEF IInv, RemovalFindsNode, NodesOf, Idle
<1>7. OneNodePerProcess'
  <2> SUFFICES ASSUME NEW q \in Ids \ Slow, NEW m \in NodesOf(q)', NEW n \in NodesOf(q)'
               PROVE  m = n
    BY DEF OneNodePerProcess
  <2> QED BY DEF IInv, OneNodePerProcess
<1> QED BY <1>3, <1>5, <1>6, <1>7 DEF IInv

(* What a handler removes is its own, whatever the others add or remove.   *)
LEMMA HoldsStep ==
  ASSUME IInv, TypeOK', NEW h \in Handlers, Handle(h), ~Throws(h)
  PROVE  HoldsOwn'
<1> USE GraphAssumption
<1> SUFFICES ASSUME NEW g \in Handlers, handler'[g].phase = "removing"
             PROVE  node'[handler'[g].node]
                      \in {NoNode} \cup [id : {handler'[g].id}, name : Names]
  BY DEF HoldsOwn
<1>1. handler[h] \in HandlerStates \ {NoHandler}
  BY DEF IInv, TypeOK, Handle, Looks, Removes, Adds, Updates, NoHandler
<1>2. CASE g = h
  <2>0. \A x : handler' = [handler EXCEPT ![h] = x] => x.phase = "removing"
    BY <1>2 DEF IInv, TypeOK
  <2>1. Looks(h) /\ FindsOne(h)
    <3>1. CASE Looks(h) /\ FindsNone(h)
      <4>1. handler'[h].phase \in {"adding", "idle"}
        BY <1>1, <3>1 DEF IInv, TypeOK, FindsNone, HandlerStates, NoHandler
      <4> QED BY <1>2, <4>1
    <3>2. CASE Removes(h)
      <4>1. handler'[h].phase \in {"adding", "idle"}
        BY <1>1, <3>2 DEF IInv, TypeOK, Removes, HandlerStates, NoHandler
      <4> QED BY <1>2, <4>1
    <3>3. CASE Adds(h) \/ Updates(h)
      <4>1. handler'[h].phase \in {"updating", "idle"}
        BY <1>1, <3>3 DEF IInv, TypeOK, Adds, Updates, HandlerStates, NoHandler
      <4> QED BY <1>2, <4>1
    <3> QED BY <3>1, <3>2, <3>3 DEF Handle, Looks
  <2>2. PICK n \in NodesOf(handler[h].id) : handler'[h] = [handler[h] EXCEPT
                                               !.phase = "removing", !.node = n]
    <3>1. PICK n \in NodesOf(handler[h].id) :
            handler' = [handler EXCEPT ![h] =
              IF handler[h].type = "delete" \/ node[n].name # handler[h].name
                THEN [handler[h] EXCEPT !.phase = "removing", !.node = n]
                ELSE [handler[h] EXCEPT !.phase = "updating"]]
      BY <2>1 DEF FindsOne
    <3>2. [handler[h] EXCEPT !.phase = "updating"].phase = "updating"
      BY <1>1 DEF HandlerStates
    <3>3. handler' = [handler EXCEPT ![h] =
                       [handler[h] EXCEPT !.phase = "removing", !.node = n]]
      BY <2>0, <3>1, <3>2
    <3> QED BY <3>3 DEF IInv, TypeOK
  <2>3. handler'[h].node = n /\ handler'[h].id = handler[h].id /\ node' = node
    BY <1>1, <2>1, <2>2 DEF Looks, HandlerStates
  <2>4. node[n] \in [id : Ids, name : Names] /\ node[n].id = handler[h].id
    BY <1>1, <2>2 DEF IInv, TypeOK, NodesOf, NoNode, HandlerStates
  <2> QED BY <1>2, <2>3, <2>4
<1>3. CASE g # h
  <2>1. handler'[g] = handler[g]
    BY <1>3 DEF IInv, TypeOK, Handle, Looks, FindsNone, FindsOne, Removes, Adds, Updates
  <2>2. handler[g].node \in Nodes
    <3>1. handler[g] \in HandlerStates /\ handler[g].phase = "removing"
      BY <2>1 DEF IInv, TypeOK
    <3> QED BY <3>1 DEF HandlerStates, NoHandler
  <2>3. node'[handler[g].node] \in {NoNode, node[handler[g].node]}
    BY <2>2 DEF IInv, TypeOK, Handle, Looks, Removes, Adds, Updates
  <2> QED BY <2>1, <2>3 DEF IInv, HoldsOwn
<1> QED BY <1>2, <1>3

LEMMA HandleStep ==
  ASSUME IInv, TypeOK', NEW h \in Handlers, Handle(h)
  PROVE  IInv'
<1> USE GraphAssumption
<1>1. CASE Throws(h)
  BY <1>1, DiesStep DEF Throws
<1>2. CASE ~Throws(h)
  <2>1. handler[h] \in HandlerStates \ {NoHandler} /\ ~Idle(h)
    BY <1>2 DEF IInv, TypeOK, Handle, Looks, Removes, Adds, Updates, NoHandler, Idle
  <2>2. PICK p \in Ids : p = handler[h].id
    BY <2>1 DEF HandlerStates
  <2>3. PrunesAlone' /\ \A g \in Handlers : g # h => handler'[g] = handler[g]
    <3>1. UNCHANGED <<agent, prune>>
      BY <1>2 DEF Handle, Looks, Removes, Adds, Updates
    <3>2. \E r : handler' = [handler EXCEPT ![h] = r]
      BY <1>2 DEF Handle, Looks, FindsNone, FindsOne, Removes, Adds, Updates
    <3> QED BY <3>1, <3>2 DEF IInv, TypeOK, PrunesAlone
  <2>4. p \in Slow \/ \A m, n \in NodesOf(p) : m = n
    BY <2>2 DEF IInv, OneNodePerProcess
  <2>5. HoldsOwn'
    BY <1>2, HoldsStep
  <2>6. CASE Looks(h)
    <3>1. \A q \in Ids : NodesOf(q)' = NodesOf(q)
      BY <2>6 DEF Looks, NodesOf
    <3>2. CASE FindsNone(h)
      <4>1. Idle(h)' \/ (handler'[h].id = p /\ handler'[h].phase = "adding")
        BY <2>1, <2>2, <3>2 DEF IInv, TypeOK, FindsNone, NoHandler, HandlerStates, Idle
      <4>2. NodesOf(p) = {} /\ (Idle(h)' => handler'[h].phase = "idle")
        BY <2>2, <3>2 DEF FindsNone, Idle
      <4> QED BY <2>1, <2>2, <2>3, <2>4, <2>5, <3>1, <4>1, <4>2, OwnStep
    <3>3. CASE FindsOne(h)
      <4>1. /\ handler'[h].id = p
            /\ \/ handler'[h].phase = "updating"
               \/ handler'[h].phase = "removing" /\ handler'[h].node \in NodesOf(p)
        BY <2>1, <2>2, <3>3 DEF IInv, TypeOK, FindsOne, HandlerStates
      <4> QED BY <2>1, <2>2, <2>3, <2>4, <2>5, <3>1, <4>1, OwnStep
    <3> QED BY <2>6, <3>2, <3>3 DEF Looks
  <2>7. CASE Removes(h)
    <3>1. handler[h].node \in NodesOf(p)
      <4>1. handler[h].node \in Nodes
        BY <2>1, <2>7 DEF Removes, HandlerStates
      <4> QED BY <2>2, <2>7, <4>1 DEF IInv, HoldsOwn, Removes, NodesOf
    <3>2. \A n \in Nodes : node'[n] = IF n = handler[h].node THEN NoNode ELSE node[n]
      BY <2>7 DEF IInv, TypeOK, Removes
    <3>3. p \in Slow \/ NodesOf(p)' = {}
      BY <3>1, <3>2, <2>4 DEF NodesOf, NoNode
    <3>4. \A q \in Ids : q # p => NodesOf(q)' = NodesOf(q)
      BY <3>1, <3>2 DEF NodesOf, NoNode
    <3>5. Idle(h)' \/ (handler'[h].id = p /\ handler'[h].phase = "adding")
      BY <2>1, <2>2, <2>7 DEF IInv, TypeOK, Removes, NoHandler, HandlerStates, Idle
    <3> QED BY <2>1, <2>2, <2>3, <2>5, <3>3, <3>4, <3>5, OwnStep DEF Idle
  <2>8. CASE Adds(h)
    <3>1. p \in Slow \/ NodesOf(p) = {}
      BY <2>2, <2>8 DEF IInv, AddingHasNone, Adds
    <3>2. PICK n \in Nodes : /\ node[n] = NoNode
                            /\ node' = [node EXCEPT ![n] = [id |-> p, name |-> handler[h].name]]
      BY <2>2, <2>8 DEF Adds
    <3>3. p \in Slow \/ NodesOf(p)' = {n}
      BY <3>1, <3>2 DEF NodesOf, IInv, TypeOK
    <3>4. \A q \in Ids : q # p => NodesOf(q)' = NodesOf(q)
      BY <3>2 DEF NodesOf, NoNode, IInv, TypeOK
    <3>5. handler'[h].id = p /\ handler'[h].phase = "updating"
      BY <2>1, <2>2, <2>8 DEF IInv, TypeOK, Adds, HandlerStates
    <3> QED BY <2>1, <2>2, <2>3, <2>5, <3>3, <3>4, <3>5, OwnStep
  <2>9. CASE Updates(h)
    <3>1. \A q \in Ids : NodesOf(q)' = NodesOf(q)
      BY <2>9 DEF Updates, NodesOf
    <3>2. Idle(h)' /\ handler'[h].phase = "idle"
      BY <2>9 DEF IInv, TypeOK, Updates, NoHandler, Idle
    <3> QED BY <2>1, <2>2, <2>3, <2>4, <2>5, <3>1, <3>2, OwnStep
  <2> QED BY <1>2, <2>6, <2>7, <2>8, <2>9 DEF Handle
<1> QED BY <1>1, <1>2

LEMMA IInvStep ==
  IInv /\ [Next]_vars => IInv'
<1> SUFFICES ASSUME IInv, [Next]_vars PROVE IInv'
  OBVIOUS
<1> USE GraphAssumption
<1>0. TypeOK'
  BY TypeStep DEF IInv
<1>1. CASE UNCHANGED vars
  BY <1>0, <1>1, QuietStep DEF vars, IInv, PrunesAlone
<1>2. CASE PM2
  BY <1>0, <1>2, QuietStep DEF PM2, Create, ProcessEvent, ConfigChange, Delete, Publish,
     IInv, PrunesAlone
<1>3. CASE Starts \/ Registered \/ Listens
  BY <1>0, <1>3, QuietStep DEF Starts, Registered, Listens, IInv, PrunesAlone
<1>4. CASE Prunes
  BY <1>0, <1>4, PrunesStep
<1>5. CASE Crash
  BY <1>0, <1>5, DiesStep DEF Crash
<1>6. CASE \E h \in Handlers, i \in Ids : RegisterNext(h, i)
  <2>1. PICK h \in Handlers, i \in Ids : RegisterNext(h, i)
    BY <1>6
  <2>2. \A g \in Handlers : handler[g].id # i
    BY <2>1 DEF RegisterNext, IInv, TypeOK, HandlerStates, NoHandler, Idle
  <2>3. UNCHANGED node /\ PrunesAlone'
    BY <2>1 DEF RegisterNext, IInv, PrunesAlone
  <2> DEFINE r == [id |-> i, phase |-> "looking", type |-> "process",
                   name |-> list[i], node |-> None]
  <2>4. handler' = [handler EXCEPT ![h] = r] /\ r.id = i /\ r.phase = "looking"
    BY <2>1 DEF RegisterNext
  <2> HIDE DEF r
  <2> QED BY <1>0, <2>2, <2>3, <2>4, BeginStep
<1>7. CASE Deliver \/ \E a \in Asks : Answers(a) \/ Arrives(a)
  BY <1>0, <1>7, QuietStep DEF Deliver, Answers, Arrives, IInv, PrunesAlone
<1>8. CASE \E h \in Handlers, i \in Ids : Fires(h, i)
  <2>1. PICK h \in Handlers, i \in Ids : Fires(h, i)
    BY <1>8
  <2>2. /\ UNCHANGED node
        /\ PrunesAlone'
        /\ i \in Slow \/ \A g \in Handlers : handler[g].id # i
    BY <2>1 DEF Fires, IInv, PrunesAlone
  <2> DEFINE r == [id |-> i, phase |-> "looking", type |-> pending[i].type,
                   name |-> pending[i].name, node |-> None]
  <2>3. handler' = [handler EXCEPT ![h] = r] /\ r.id = i /\ r.phase = "looking"
    BY <2>1 DEF Fires
  <2> HIDE DEF r
  <2> QED BY <1>0, <2>2, <2>3, BeginStep
<1>9. CASE \E h \in Handlers : Handle(h)
  BY <1>0, <1>9, HandleStep
<1> QED BY <1>1, <1>2, <1>3, <1>4, <1>5, <1>6, <1>7, <1>8, <1>9 DEF Next, Register

LEMMA Invariance == Spec => []IInv
<1>1. Init => IInv
  BY IInvInit
<1>2. IInv /\ [Next]_vars => IInv'
  BY IInvStep
<1> QED BY <1>1, <1>2, PTL DEF Spec

(* A process whose handlers do not overlap never has two nodes in the      *)
(* graph, whatever events come, in whatever order PM2 answers, wherever    *)
(* the agent crashes, and however the handlers of other processes overlap  *)
(* (_syncPm2Processes).                                                    *)
THEOREM AlwaysOneNode == Spec => []OneNodePerProcess
<1>1. Spec => []IInv
  BY Invariance
<1>2. IInv => OneNodePerProcess
  BY DEF IInv
<1> QED BY <1>1, <1>2, PTL

(* For a process whose handlers do not overlap, removePm2ProcessFromGraph  *)
(* always finds the node it is given.                                      *)
THEOREM RemovalNeverThrows == Spec => []RemovalFindsNode
<1>1. Spec => []IInv
  BY Invariance
<1>2. IInv => RemovalFindsNode
  BY DEF IInv
<1> QED BY <1>1, <1>2, PTL

-----------------------------------------------------------------------------
(* While the agent removes what its list does not know, the nodes it keeps *)
(* are those of the list, and none of these is to be removed.              *)
Pruning ==
  agent = "pruning" =>
    \A i \in Ids \ Slow :
      /\ \A n \in NodesOf(i) : Listed(n) <=> n \notin prune
      /\ list[i] # None => \E n \in NodesOf(i) : Listed(n)

LEMMA PruningStep == ASSUME IInv, Pruning, [Next]_vars PROVE Pruning'
<1> USE GraphAssumption
<1>1. ASSUME UNCHANGED <<node, list, prune, agent>> PROVE Pruning'
  BY <1>1 DEF Pruning, NodesOf, Listed
<1>2. ASSUME agent' # "pruning" PROVE Pruning'
  BY <1>2 DEF Pruning
<1>3. CASE Registered
  <2>1. /\ agent' = "pruning" /\ UNCHANGED <<list, node>>
        /\ \A i \in Ids : list[i] # None => \E n \in NodesOf(i) : Listed(n)
    BY <1>3 DEF Registered
  <2> DEFINE unlisted == {n \in Nodes : node[n] # NoNode /\ ~Listed(n)}
  <2>2. PICK seen \in SUBSET unlisted :
          /\ \A n \in unlisted : \E m \in seen : node[m] = node[n]
          /\ prune' = seen
    BY <1>3 DEF Registered
  <2>3. ASSUME NEW i \in Ids \ Slow, NEW n \in NodesOf(i)
        PROVE  Listed(n) <=> n \notin prune'
    <3>1. n \in Nodes /\ node[n].id = i /\ node[n] # NoNode
      BY DEF NodesOf, NoNode
    <3>2. ASSUME ~Listed(n) PROVE n \in seen
      <4>1. PICK m \in seen : node[m] = node[n]
        BY <2>2, <3>1, <3>2
      <4>2. m \in NodesOf(i)
        BY <3>1, <4>1 DEF NodesOf
      <4>3. m = n
        BY <4>2 DEF IInv, OneNodePerProcess
      <4> QED BY <4>1, <4>3
    <3> QED BY <2>2, <3>2
  <2> QED BY <2>1, <2>3 DEF Pruning, NodesOf, Listed
<1>4. CASE Prunes
  <2>1. PICK p \in prune : node' = [node EXCEPT ![p] = NoNode] /\ prune' = prune \ {p}
    BY <1>4 DEF Prunes
  <2>2. agent = "pruning" /\ UNCHANGED <<list, agent>>
    BY <1>4 DEF IInv, PrunesAlone, Prunes
  <2>3. \A n \in Nodes : node'[n] = IF n = p THEN NoNode ELSE node[n]
    BY <2>1 DEF IInv, TypeOK
  <2>4. ASSUME NEW i \in Ids
        PROVE  NodesOf(i)' = NodesOf(i) \ {p}
    BY <2>3 DEF NodesOf, NoNode
  <2>5. \A n \in Nodes : n # p => Listed(n)' = Listed(n)
    BY <2>2, <2>3 DEF Listed
  <2>6. ASSUME NEW i \in Ids \ Slow, NEW n \in NodesOf(i)'
        PROVE  Listed(n)' <=> n \notin prune'
    <3>1. n \in NodesOf(i) /\ n # p /\ n \in Nodes
      BY <2>4 DEF NodesOf
    <3> QED BY <2>1, <2>2, <2>5, <3>1 DEF Pruning
  <2>7. ASSUME NEW i \in Ids \ Slow, list[i] # None
        PROVE  \E n \in NodesOf(i)' : Listed(n)'
    <3>1. PICK n \in NodesOf(i) : Listed(n)
      BY <2>2, <2>7 DEF Pruning
    <3>2. n # p /\ n \in Nodes
      BY <2>2, <3>1 DEF Pruning, NodesOf
    <3> QED BY <2>4, <2>5, <3>1, <3>2
  <2> QED BY <2>2, <2>6, <2>7 DEF Pruning
<1>5. CASE PM2
  BY <1>1, <1>5 DEF PM2, Create, ProcessEvent, ConfigChange, Delete, Publish
<1>6. CASE Starts \/ Listens
  BY <1>2, <1>6 DEF Starts, Listens
<1>7. CASE Crash
  BY <1>2, <1>7 DEF Crash, Dies
<1>8. CASE \E h \in Handlers, i \in Ids : RegisterNext(h, i)
  BY <1>2, <1>8 DEF RegisterNext
<1>9. CASE \/ Deliver \/ \E a \in Asks : Answers(a) \/ Arrives(a)
           \/ \E h \in Handlers, i \in Ids : Fires(h, i)
           \/ UNCHANGED vars
  BY <1>1, <1>9 DEF Deliver, Answers, Arrives, Fires, vars
<1>10. CASE \E h \in Handlers : Handle(h)
  <2>1. PICK h \in Handlers : Handle(h)
    BY <1>10
  <2>2. ~Idle(h)
    BY <2>1 DEF Handle, Looks, Removes, Throws, Adds, Updates, Idle
  <2>3. agent # "pruning"
    BY <2>2 DEF IInv, TypeOK
  <2>4. agent' # "pruning"
    BY <2>1, <2>3 DEF Handle, Looks, Removes, Throws, Dies, Adds, Updates
  <2> QED BY <1>2, <2>4
<1> QED BY <1>3, <1>4, <1>5, <1>6, <1>7, <1>8, <1>9, <1>10 DEF Next, Register

LEMMA OnlyListens ==
  ASSUME [Next]_vars, agent' = "listening", agent # "listening" PROVE Listens
BY DEF Next, PM2, Create, ProcessEvent, ConfigChange, Delete, Publish, Starts,
   Register, RegisterNext, Registered, Prunes, Crash, Dies, Deliver, Answers, Arrives,
   Fires, Handle, Looks, Removes, Throws, Adds, Updates, vars

LEMMA ListensExactly ==
  ASSUME IInv, Pruning, Listens, NEW i \in Ids \ Slow
  PROVE  IF list[i] = None THEN NodesOf(i)' = {}
         ELSE \E n \in Nodes : NodesOf(i)' = {n} /\ node'[n].name = list[i]
<1>1. agent = "pruning" /\ prune = {} /\ node' = node
  BY DEF Listens
<1>2. NodesOf(i)' = NodesOf(i)
  BY <1>1 DEF NodesOf
<1>3. \A n \in NodesOf(i) : n \in Nodes /\ list[i] # None /\ node[n].name = list[i]
  BY <1>1, GraphAssumption DEF Pruning, Listed, NodesOf, IInv, TypeOK, NoNode
<1>4. \A m, n \in NodesOf(i) : m = n
  BY DEF IInv, OneNodePerProcess
<1>5. list[i] # None => NodesOf(i) # {}
  BY <1>1 DEF Pruning
<1> QED BY <1>1, <1>2, <1>3, <1>4, <1>5

(* When an agent begins to listen its graph is PM2's list: each process of *)
(* the list has exactly one node, of its name, and no other process has    *)
(* any, whatever earlier lives of the agent left behind.  It is so for the *)
(* processes whose handlers do not overlap (registerVirtualMachine,        *)
(* reconcileSnapshot).                                                     *)
ListensToItsGraph ==
  [][agent' = "listening" /\ agent # "listening" =>
       \A i \in Ids \ Slow :
         IF list[i] = None THEN NodesOf(i)' = {}
         ELSE \E n \in Nodes : NodesOf(i)' = {n} /\ node'[n].name = list[i]]_vars

THEOREM RegistrationIsExact == Spec => ListensToItsGraph
<1> DEFINE A == agent' = "listening" /\ agent # "listening" =>
                  \A i \in Ids \ Slow :
                    IF list[i] = None THEN NodesOf(i)' = {}
                    ELSE \E n \in Nodes : NodesOf(i)' = {n} /\ node'[n].name = list[i]
           J == IInv /\ Pruning
<1>1. Init => J
  BY IInvInit DEF Init, Pruning
<1>2. J /\ [Next]_vars => J' /\ [A]_vars
  <2> SUFFICES ASSUME J, [Next]_vars PROVE J' /\ A
    OBVIOUS
  <2>1. J'
    BY IInvStep, PruningStep
  <2>2. ASSUME agent' = "listening", agent # "listening", NEW i \in Ids \ Slow
        PROVE  IF list[i] = None THEN NodesOf(i)' = {}
               ELSE \E n \in Nodes : NodesOf(i)' = {n} /\ node'[n].name = list[i]
    <3>1. Listens
      BY <2>2, OnlyListens
    <3> QED BY <3>1, ListensExactly
  <2> QED BY <2>1, <2>2
<1> HIDE DEF J, A
<1>3. Spec => [][A]_vars
  BY <1>1, <1>2, PTL DEF Spec
<1> QED BY <1>3 DEF A, ListensToItsGraph
-----------------------------------------------------------------------------
(***************************************************************************)
(* How what PM2 tells reaches the graph, when it answers in order and      *)
(* without failure: of all that is on its way, the latest is right.        *)
(***************************************************************************)
Agrees(i) == IF pm2[i] = None THEN NodesOf(i) = {}
             ELSE \E n \in NodesOf(i) : node[n].name = pm2[i]

(* What is handled, or on the bus, is what PM2 would say now.              *)
Says(e, i) == IF pm2[i] = None THEN e.type = "delete"
              ELSE e.type # "delete" /\ e.name = pm2[i]
Announces(e, i) == IF pm2[i] = None THEN e.type = "delete"
                   ELSE e.type = "process" \/ (e.type = "config" /\ e.name = pm2[i])

BusTells(i) ==
  \E k \in DOMAIN bus : /\ bus[k].id = i /\ Announces(bus[k], i)
                        /\ \A m \in DOMAIN bus : m > k => bus[m].id # i

(* Nothing of i is on the bus, and no answer about it is out of date.      *)
Heard(i) ==
  /\ \A k \in DOMAIN bus : bus[k].id # i
  /\ \A a \in Asks : asks[a].phase = "answered" /\ asks[a].id = i => asks[a].name = pm2[i]

(* PM2 is being asked, or the right event waits for its second, or it is   *)
(* being handled, or the graph has what it says.                           *)
Handled(i) ==
  \/ pending[i] # None /\ Says(pending[i], i)
  \/ /\ pending[i] = None
     /\ \E h \in Handlers : /\ handler[h].id = i /\ Says(handler[h], i)
                            /\ handler[h].phase = "updating" => Agrees(i)
  \/ /\ pending[i] = None /\ \A h \in Handlers : handler[h].id # i
     /\ Agrees(i)

Asking(i) == pm2[i] # None /\ \E a \in Asks : asks[a].id = i

Tracking(i) == BusTells(i) \/ (Heard(i) /\ (Asking(i) \/ Handled(i)))

(* PM2 tells something of i, or an agent begins to listen whose list has i *)
(* as it is.                                                               *)
Tells(i) == \/ \E name \in Names : Create(i, name)
            \/ ProcessEvent(i) \/ ConfigChange(i) \/ Delete(i)
ListensWith(i) == agent # "listening" /\ agent' = "listening" /\ list[i] = pm2[i]

Quiet(i) == /\ \A k \in DOMAIN bus : bus[k].id # i
            /\ \A a \in Asks : asks[a].id # i
            /\ pending[i] = None /\ \A h \in Handlers : handler[h].id # i

(* What is handled stays, when it is somebody else's turn.                 *)
LEMMA HandledStays ==
  ASSUME NEW i \in Ids, Handled(i), pm2'[i] = pm2[i], pending'[i] = pending[i],
         UNCHANGED <<handler, node>>
  PROVE  Handled(i)'
<1>1. Agrees(i)' = Agrees(i) /\ \A e : Says(e, i)' = Says(e, i)
  BY DEF Agrees, NodesOf, Says
<1>2. QED
  BY <1>1 DEF Handled

LEMMA BusStays ==
  ASSUME NEW i \in Ids, BusTells(i), bus' = bus, pm2'[i] = pm2[i]
  PROVE  BusTells(i)'
BY DEF BusTells, Announces

LEMMA TellsTracks ==
  ASSUME IInv, agent = "listening", NEW j \in Ids, Tells(j),
         NEW i \in Ids, Tracking(i) \/ i = j
  PROVE  Tracking(i)'
<1> USE GraphAssumption
<1>1. PICK e \in Events : Publish(e) /\ e.id = j /\ (i = j => Announces(e, i)')
  <2>1. \A t \in Types, name \in Names \cup {None} :
          LET e == Event(t, j, name) IN e.type = t /\ e.id = j /\ e.name = name
    BY DEF Event
  <2>2. CASE (\E name \in Names : Create(j, name)) \/ ProcessEvent(j)
    <3>1. Event("process", j, None) \in Events /\ pm2'[j] # None
      BY <2>2 DEF Event, Events, Create, ProcessEvent, IInv, TypeOK
    <3>2. QED
      BY <2>1, <2>2, <3>1 DEF Create, ProcessEvent, Announces, Types
  <2>3. CASE ConfigChange(j) \/ Delete(j)
    <3>1. \A t \in {"config", "delete"} : Event(t, j, pm2[j]) \in Events
      BY <2>3 DEF Event, Events, ConfigChange, Delete, IInv, TypeOK
    <3>2. (ConfigChange(j) => pm2'[j] = pm2[j] /\ pm2[j] # None) /\ (Delete(j) => pm2'[j] = None)
      BY DEF ConfigChange, Delete, IInv, TypeOK
    <3>3. QED
      BY <2>1, <2>3, <3>1, <3>2 DEF ConfigChange, Delete, Announces, Types, IInv, TypeOK
  <2>4. QED
    BY <2>2, <2>3 DEF Tells
<1>2. /\ bus \in Seq(Events) /\ bus' = Append(bus, e) /\ Len(bus) \in Nat
      /\ UNCHANGED <<asks, pending, handler, node>>
  BY <1>1 DEF Publish, IInv, TypeOK, listeners
<1>3. /\ DOMAIN bus = 1..Len(bus) /\ DOMAIN bus' = 1..(Len(bus) + 1)
      /\ bus'[Len(bus) + 1] = e /\ \A k \in 1..Len(bus) : bus'[k] = bus[k]
  BY <1>2, AppendProperties
<1>4. CASE i = j
  BY <1>1, <1>2, <1>3, <1>4 DEF Tracking, BusTells
<1>5. CASE i # j
  <2>1. pm2'[i] = pm2[i] /\ Tracking(i)
    BY <1>5 DEF Tells, Create, ProcessEvent, ConfigChange, Delete, IInv, TypeOK
  <2>2. CASE BusTells(i)
    <3>1. PICK k \in DOMAIN bus : /\ bus[k].id = i /\ Announces(bus[k], i)
                                 /\ \A m \in DOMAIN bus : m > k => bus[m].id # i
      BY <2>2 DEF BusTells
    <3>2. /\ k \in DOMAIN bus' /\ bus'[k].id = i /\ Announces(bus[k], i)' /\ bus'[k] = bus[k]
      BY <1>2, <1>3, <2>1, <3>1 DEF Announces
    <3>3. \A m \in DOMAIN bus' : m > k => bus'[m].id # i
      BY <1>1, <1>2, <1>3, <1>5, <3>1
    <3>4. QED
      BY <3>2, <3>3 DEF Tracking, BusTells, Announces
  <2>3. CASE Heard(i) /\ (Asking(i) \/ Handled(i))
    <3>1. Heard(i)'
      BY <1>1, <1>2, <1>3, <1>5, <2>1, <2>3 DEF Heard
    <3>2. Asking(i) => Asking(i)'
      BY <1>2, <2>1 DEF Asking
    <3>3. QED
      BY <1>2, <2>1, <2>3, <3>1, <3>2, HandledStays DEF Tracking
  <2>4. QED
    BY <2>1, <2>2, <2>3 DEF Tracking
<1>6. QED
  BY <1>4, <1>5

(* The latest event leaves the bus as nothing older is being answered.     *)
LEMMA DeliverTracks ==
  ASSUME IInv, ~Reordered, Deliver, NEW i \in Ids \ Slow, Tracking(i)
  PROVE  Tracking(i)'
<1> USE GraphAssumption
<1> DEFINE e == Head(bus)
<1>1. /\ bus \in Seq(Events) /\ Len(bus) \in Nat \ {0} /\ e = bus[1] /\ e \in Events
      /\ bus' = Tail(bus) /\ DOMAIN bus = 1..Len(bus)
  <2>1. bus \in Seq(Events) /\ bus # <<>> /\ bus' = Tail(bus)
    BY DEF Deliver, IInv, TypeOK
  <2>2. QED
    BY <2>1, HeadTailProperties
<1>2. DOMAIN bus' = 1..(Len(bus) - 1) /\ \A k \in 1..(Len(bus) - 1) : bus'[k] = bus[k + 1]
  BY <1>1, HeadTailProperties
<1>3. UNCHANGED <<pm2, handler, node>> /\ \A a \in Asks : asks[a].phase # "answered"
  BY DEF Deliver
<1>4. /\ e.id \in Ids /\ (e.type # "process" => e # None)
      /\ pending \in [Ids -> Described \cup {None}] /\ asks \in [Asks -> AskStates]
  <2>1. e.type # "process" => e \in Described
    BY <1>1 DEF Events, Described, Types
  <2>2. QED
    BY <1>1, <2>1 DEF Events, IInv, TypeOK
<1>5. \/ /\ e.type = "process" /\ pending' = pending
         /\ \E a \in Asks : /\ asks[a].phase = "idle"
                            /\ asks' = [asks EXCEPT ![a] =
                                         [id |-> e.id, name |-> None, phase |-> "asked"]]
      \/ e.type # "process" /\ asks' = asks /\ pending' = [pending EXCEPT ![e.id] = e]
  BY DEF Deliver, Latest
<1>6. \A a \in Asks : asks'[a].phase # "answered"
  BY <1>3, <1>4, <1>5
<1>7. \A a \in Asks : asks[a].id = i => asks'[a].id = i
  <2>1. \A a \in Asks : asks[a].phase = "idle" => asks[a].id # i
    BY <1>4 DEF AskStates, NoAsk
  <2>2. QED
    BY <1>4, <1>5, <2>1
<1> HIDE DEF e
<1>8. ASSUME NEW k \in DOMAIN bus, k # 1, bus[k].id = i, Announces(bus[k], i),
             \A m \in DOMAIN bus : m > k => bus[m].id # i
      PROVE  Tracking(i)'
  <2>1. k - 1 \in DOMAIN bus' /\ bus'[k - 1] = bus[k]
    BY <1>1, <1>2, <1>8
  <2>2. \A m \in DOMAIN bus' : m > k - 1 => bus'[m].id # i
    BY <1>1, <1>2, <1>8
  <2>3. bus'[k - 1].id = i /\ Announces(bus[k - 1], i)'
    BY <1>3, <1>8, <2>1 DEF Announces
  <2>4. QED
    BY <2>1, <2>2, <2>3 DEF Tracking, BusTells
<1>9. ASSUME e.id = i, Announces(e, i), \A m \in DOMAIN bus : m > 1 => bus[m].id # i
      PROVE  Tracking(i)'
  <2>1. Heard(i)'
    BY <1>1, <1>2, <1>6, <1>9 DEF Heard
  <2>2. CASE e.type = "process"
    <3>1. pm2'[i] # None
      BY <1>3, <1>9, <2>2 DEF Announces
    <3>2. \E a \in Asks : asks'[a].id = i
      BY <1>4, <1>5, <1>9, <2>2
    <3>3. QED
      BY <2>1, <3>1, <3>2 DEF Tracking, Asking
  <2>3. CASE e.type # "process"
    <3>1. pending'[i] = e
      BY <1>4, <1>5, <1>9, <2>3
    <3>2. Says(pending[i], i)'
      BY <1>3, <1>9, <2>3, <3>1 DEF Announces, Says
    <3>3. QED
      BY <1>4, <2>1, <2>3, <3>1, <3>2 DEF Tracking, Handled
  <2>4. QED
    BY <2>2, <2>3
<1>10. CASE BusTells(i)
  <2>1. PICK k \in DOMAIN bus : /\ bus[k].id = i /\ Announces(bus[k], i)
                               /\ \A m \in DOMAIN bus : m > k => bus[m].id # i
    BY <1>10 DEF BusTells
  <2>2. QED
    BY <1>1, <1>8, <1>9, <2>1
<1>11. CASE Heard(i) /\ (Asking(i) \/ Handled(i))
  <2>1. e.id # i
    BY <1>1, <1>11 DEF Heard
  <2>2. Heard(i)'
    BY <1>1, <1>2, <1>6, <1>11 DEF Heard
  <2>3. Asking(i) => Asking(i)'
    BY <1>3, <1>7 DEF Asking
  <2>4. pending'[i] = pending[i]
    BY <1>4, <1>5, <2>1
  <2>5. QED
    BY <1>3, <1>11, <2>2, <2>3, <2>4, HandledStays DEF Tracking
<1>12. QED
  BY <1>10, <1>11 DEF Tracking

(* PM2's answer is what it is when it sets out; if that changes before it  *)
(* arrives, the change is on the bus.                                      *)
LEMMA AnswersTracks ==
  ASSUME IInv, ~Failures, NEW a \in Asks, Answers(a), NEW i \in Ids, Tracking(i)
  PROVE  Tracking(i)'
<1> USE GraphAssumption
<1>1. /\ UNCHANGED <<pm2, bus, pending, handler, node>>
      /\ asks' = [asks EXCEPT ![a] =
                   [id |-> asks[a].id, name |-> pm2[asks[a].id], phase |-> "answered"]]
  BY DEF Answers
<1>2. \A b \in Asks : /\ asks'[b].id = asks[b].id
                      /\ b # a => asks'[b] = asks[b]
                      /\ b = a => asks'[b].name = pm2[asks[a].id]
  BY <1>1 DEF IInv, TypeOK
<1>3. BusTells(i) => BusTells(i)'
  BY <1>1, BusStays
<1>4. Heard(i) => Heard(i)'
  BY <1>1, <1>2 DEF Heard
<1>5. Asking(i) => Asking(i)'
  BY <1>1, <1>2 DEF Asking
<1>6. Handled(i) => Handled(i)'
  BY <1>1, HandledStays
<1>7. QED
  BY <1>3, <1>4, <1>5, <1>6 DEF Tracking

LEMMA ArrivesTracks ==
  ASSUME IInv, NEW a \in Asks, Arrives(a), NEW i \in Ids, Tracking(i)
  PROVE  Tracking(i)'
<1> USE GraphAssumption
<1>1. /\ UNCHANGED <<pm2, bus, handler, node>> /\ asks[a].phase = "answered"
      /\ asks' = [asks EXCEPT ![a] = NoAsk]
      /\ asks \in [Asks -> AskStates] /\ pending \in [Ids -> Described \cup {None}]
  BY DEF Arrives, IInv, TypeOK
<1>2. \A b \in Asks : b # a => asks'[b] = asks[b]
  BY <1>1
<1>3. asks'[a].phase = "idle"
  BY <1>1 DEF NoAsk
<1>4. BusTells(i) => BusTells(i)'
  BY <1>1, BusStays
<1>5. CASE Heard(i) /\ (Asking(i) \/ Handled(i))
  <2>1. Heard(i)'
    BY <1>1, <1>2, <1>3, <1>5 DEF Heard
  <2>2. CASE asks[a].id = i /\ pm2[i] # None
    <3>1. asks[a].name = pm2[i]
      BY <1>1, <1>5, <2>2 DEF Heard
    <3>2. pending'[i] = Event("process", i, pm2[i])
      BY <1>1, <2>2, <3>1 DEF Arrives, Latest
    <3>3. pm2[i] \in Names
      BY <2>2 DEF IInv, TypeOK
    <3>4. Event("process", i, pm2[i]) \in Described /\ Says(pending[i], i)'
      BY <1>1, <2>2, <3>2, <3>3 DEF Event, Described, Types, Says
    <3>5. QED
      BY <2>1, <3>2, <3>4 DEF Tracking, Handled
  <2>3. CASE ~(asks[a].id = i /\ pm2[i] # None)
    <3>1. pending'[i] = pending[i]
      <4>1. CASE asks[a].id # i
        BY <1>1, <4>1 DEF Arrives, Latest
      <4>2. CASE asks[a].id = i
        <5>1. asks[a].name = None
          BY <1>1, <1>5, <2>3, <4>2 DEF Heard
        <5>2. QED
          BY <5>1 DEF Arrives
      <4>3. QED
        BY <4>1, <4>2
    <3>2. Asking(i) => Asking(i)'
      BY <1>1, <1>2, <2>3 DEF Asking
    <3>3. QED
      BY <1>1, <1>5, <2>1, <3>1, <3>2, HandledStays DEF Tracking
  <2>4. QED
    BY <2>2, <2>3
<1>6. QED
  BY <1>4, <1>5 DEF Tracking

LEMMA FiresTracks ==
  ASSUME IInv, NEW h \in Handlers, NEW j \in Ids, Fires(h, j), NEW i \in Ids, Tracking(i)
  PROVE  Tracking(i)'
<1> USE GraphAssumption
<1> DEFINE r == [id |-> j, phase |-> "looking", type |-> pending[j].type,
                 name |-> pending[j].name, node |-> None]
<1>1. /\ UNCHANGED <<pm2, bus, asks, node>> /\ pending[j] # None /\ handler[h] = NoHandler
      /\ handler' = [handler EXCEPT ![h] = r] /\ pending' = [pending EXCEPT ![j] = None]
      /\ pending \in [Ids -> Described \cup {None}]
  BY DEF Fires, IInv, TypeOK, HandlerStates, Idle
<1>2. /\ handler'[h].id = j /\ handler'[h].phase = "looking"
      /\ handler'[h].type = pending[j].type /\ handler'[h].name = pending[j].name
      /\ \A g \in Handlers : g # h => handler'[g] = handler[g]
  BY <1>1 DEF IInv, TypeOK
<1> HIDE DEF r
<1>3. BusTells(i) => BusTells(i)'
  BY <1>1, BusStays
<1>4. Heard(i) => Heard(i)'
  BY <1>1 DEF Heard
<1>5. Asking(i) => Asking(i)'
  BY <1>1 DEF Asking
<1>6. Handled(i) => Handled(i)'
  <2> SUFFICES ASSUME Handled(i) PROVE Handled(i)'
    OBVIOUS
  <2>1. CASE i = j
    <3>1. Says(pending[i], i) /\ pending'[i] = None
      BY <1>1, <2>1 DEF Handled
    <3>2. Says(handler[h], i)'
      BY <1>1, <1>2, <2>1, <3>1 DEF Says
    <3>3. QED
      BY <1>2, <2>1, <3>1, <3>2 DEF Handled
  <2>2. CASE i # j
    <3>1. pending'[i] = pending[i] /\ handler[h].id # i /\ handler'[h].id # i
      BY <1>1, <1>2, <2>2 DEF NoHandler
    <3>2. Agrees(i)' = Agrees(i) /\ \A e : Says(e, i)' = Says(e, i)
      BY <1>1 DEF Agrees, NodesOf, Says
    <3>3. QED
      BY <1>2, <3>1, <3>2 DEF Handled
  <2>3. QED
    BY <2>1, <2>2
<1>7. QED
  BY <1>3, <1>4, <1>5, <1>6 DEF Tracking

(* A handler's step is of its own process and event, until it is done.     *)
LEMMA HandlerGoesOn ==
  ASSUME IInv, NEW h \in Handlers, Handle(h), ~Throws(h)
  PROVE  /\ UNCHANGED <<pm2, bus, agent, asks, pending>> /\ handler[h] \in HandlerStates \ {NoHandler}
         /\ \A g \in Handlers : g # h => handler'[g] = handler[g]
         /\ \/ handler'[h] = NoHandler
            \/ /\ handler'[h].id = handler[h].id /\ handler'[h].type = handler[h].type
               /\ handler'[h].name = handler[h].name
               /\ handler'[h].phase = "adding" => handler[h].type # "delete"
<1> USE GraphAssumption
<1>1. UNCHANGED <<pm2, bus, agent, asks, pending>> /\ handler[h] \in HandlerStates \ {NoHandler}
  BY DEF Handle, Looks, Removes, Adds, Updates, listeners, IInv, TypeOK, NoHandler
<1>2. PICK r : /\ handler' = [handler EXCEPT ![h] = r]
               /\ \/ r = NoHandler
                  \/ /\ r.id = handler[h].id /\ r.type = handler[h].type
                     /\ r.name = handler[h].name
                     /\ r.phase = "adding" => handler[h].type # "delete"
  <2>1. CASE Looks(h) /\ FindsNone(h)
    <3>1. CASE handler[h].type = "delete"
      BY <2>1, <3>1 DEF FindsNone
    <3>2. CASE handler[h].type # "delete"
      <4> DEFINE r == [handler[h] EXCEPT !.phase = "adding"]
      <4>1. handler' = [handler EXCEPT ![h] = r]
        BY <2>1, <3>2 DEF FindsNone
      <4>2. r.id = handler[h].id /\ r.type = handler[h].type /\ r.name = handler[h].name
        BY <1>1 DEF HandlerStates
      <4> HIDE DEF r
      <4>3. QED
        BY <3>2, <4>1, <4>2
    <3>3. QED
      BY <3>1, <3>2
  <2>2. CASE Looks(h) /\ FindsOne(h)
    <3> DEFINE removing(n) == [handler[h] EXCEPT !.phase = "removing", !.node = n]
               updating == [handler[h] EXCEPT !.phase = "updating"]
    <3>1. \/ handler' = [handler EXCEPT ![h] = updating]
          \/ \E n \in Nodes : handler' = [handler EXCEPT ![h] = removing(n)]
      <4>1. PICK n \in Nodes :
              handler' = [handler EXCEPT ![h] =
                IF handler[h].type = "delete" \/ node[n].name # handler[h].name
                  THEN removing(n) ELSE updating]
        BY <2>2 DEF FindsOne, NodesOf
      <4>2. QED
        BY <4>1
    <3>2. /\ updating.id = handler[h].id /\ updating.type = handler[h].type
          /\ updating.name = handler[h].name /\ updating.phase # "adding"
      BY <1>1 DEF HandlerStates
    <3>3. ASSUME NEW n \in Nodes
          PROVE  /\ removing(n).id = handler[h].id /\ removing(n).type = handler[h].type
                 /\ removing(n).name = handler[h].name /\ removing(n).phase # "adding"
      BY <1>1 DEF HandlerStates
    <3> HIDE DEF removing, updating
    <3>4. QED
      BY <3>1, <3>2, <3>3
  <2>3. CASE Removes(h)
    <3>1. CASE handler[h].type = "delete"
      BY <2>3, <3>1 DEF Removes
    <3>2. CASE handler[h].type # "delete"
      <4> DEFINE r == [handler[h] EXCEPT !.phase = "adding", !.node = None]
      <4>1. handler' = [handler EXCEPT ![h] = r]
        BY <2>3, <3>2 DEF Removes
      <4>2. r.id = handler[h].id /\ r.type = handler[h].type /\ r.name = handler[h].name
        BY <1>1 DEF HandlerStates
      <4> HIDE DEF r
      <4>3. QED
        BY <3>2, <4>1, <4>2
    <3>3. QED
      BY <3>1, <3>2
  <2>4. CASE Adds(h)
    <3> DEFINE r == [handler[h] EXCEPT !.phase = "updating"]
    <3>1. handler' = [handler EXCEPT ![h] = r]
      BY <2>4 DEF Adds
    <3>2. /\ r.id = handler[h].id /\ r.type = handler[h].type /\ r.name = handler[h].name
          /\ r.phase # "adding"
      BY <1>1 DEF HandlerStates
    <3> HIDE DEF r
    <3>3. QED
      BY <3>1, <3>2
  <2>5. CASE Updates(h)
    BY <2>5 DEF Updates
  <2>6. QED
    BY <2>1, <2>2, <2>3, <2>4, <2>5 DEF Handle, Looks
<1>3. handler'[h] = r /\ \A g \in Handlers : g # h => handler'[g] = handler[g]
  BY <1>2 DEF IInv, TypeOK
<1>4. QED
  BY <1>1, <1>2, <1>3

(* What is added is not deleted.                                           *)
AddsLiving == \A h \in Handlers : handler[h].phase = "adding" => handler[h].type # "delete"

LEMMA AddsLivingStep == ASSUME IInv, AddsLiving, [Next]_vars PROVE AddsLiving'
<1> USE GraphAssumption
<1>1. ASSUME UNCHANGED handler PROVE AddsLiving'
  BY <1>1 DEF AddsLiving
<1>2. CASE Crash \/ \E h \in Handlers : Throws(h)
  BY <1>2 DEF Crash, Throws, Dies, AddsLiving, NoHandler
<1>3. ASSUME NEW h \in Handlers, Handle(h), ~Throws(h) PROVE AddsLiving'
  <2>1. NoHandler.phase # "adding"
    BY DEF NoHandler
  <2>2. QED
    BY <1>3, <2>1, HandlerGoesOn DEF AddsLiving
<1>4. CASE \E h \in Handlers, i \in Ids : RegisterNext(h, i) \/ Fires(h, i)
  BY <1>4 DEF RegisterNext, Fires, AddsLiving, IInv, TypeOK
<1>5. CASE \/ PM2 \/ Starts \/ Registered \/ Prunes \/ Listens \/ Deliver
           \/ (\E a \in Asks : Answers(a) \/ Arrives(a)) \/ UNCHANGED vars
  BY <1>1, <1>5 DEF PM2, Create, ProcessEvent, ConfigChange, Delete, Publish, Starts,
     Registered, Prunes, Listens, Deliver, Answers, Arrives, vars
<1>6. QED
  BY <1>2, <1>3, <1>4, <1>5 DEF Next, Register

(* A handler with the right event leaves the right nodes.                  *)
LEMMA HandleTracks ==
  ASSUME IInv, AddsLiving, NEW h \in Handlers, Handle(h), ~Throws(h),
         NEW i \in Ids \ Slow, Tracking(i)
  PROVE  Tracking(i)'
<1> USE GraphAssumption
<1>1. /\ UNCHANGED <<pm2, bus, asks, pending>> /\ ~Idle(h)
      /\ \A g \in Handlers : g # h => handler'[g] = handler[g]
  BY HandlerGoesOn DEF Handle, Looks, Removes, Adds, Updates, Idle
<1>2. /\ handler[h] \in HandlerStates \ {NoHandler} /\ handler[h].id \in Ids
      /\ handler[h].name \in Names /\ handler[h].phase = "removing" => handler[h].node \in Nodes
  <2>1. handler[h] \in HandlerStates \ {NoHandler}
    BY <1>1 DEF IInv, TypeOK, NoHandler, Idle
  <2>2. QED
    BY <2>1 DEF HandlerStates
<1>3. BusTells(i) => BusTells(i)'
  BY <1>1, BusStays
<1>4. Heard(i) => Heard(i)'
  BY <1>1 DEF Heard
<1>5. Asking(i) => Asking(i)'
  BY <1>1 DEF Asking
<1>6. Handled(i) => Handled(i)'
  <2> SUFFICES ASSUME Handled(i) PROVE Handled(i)'
    OBVIOUS
  <2>1. CASE pending[i] # None
    <3>1. Says(pending[i], i)
      BY <2>1 DEF Handled
    <3>2. QED
      BY <1>1, <2>1, <3>1 DEF Handled, Says
  <2>2. CASE pending[i] = None /\ handler[h].id # i
    <3>1. handler'[h].id # i
      BY <2>2, HandlerGoesOn DEF NoHandler
    <3>2. \A n \in Nodes : /\ node'[n].id = i <=> node[n].id = i
                           /\ node[n].id = i => node'[n] = node[n]
      <4>1. CASE Removes(h)
        <5>1. node[handler[h].node].id # i
          BY <1>2, <2>2, <4>1 DEF IInv, HoldsOwn, Removes, NoNode
        <5>2. QED
          BY <4>1, <5>1 DEF Removes, NoNode, IInv, TypeOK
      <4>2. CASE Adds(h)
        BY <1>2, <2>2, <4>2 DEF Adds, NoNode, IInv, TypeOK
      <4>3. CASE Looks(h) \/ Updates(h)
        BY <4>3 DEF Looks, Updates
      <4>4. QED
        BY <4>1, <4>2, <4>3 DEF Handle
    <3>3. Agrees(i)' = Agrees(i)
      BY <1>1, <3>2 DEF Agrees, NodesOf
    <3>4. \A g \in Handlers : /\ (handler'[g].id = i) = (handler[g].id = i)
                              /\ handler[g].id = i => handler'[g] = handler[g]
      BY <1>1, <2>2, <3>1
    <3>5. \A g \in Handlers : handler[g].id = i => Says(handler[g], i)' = Says(handler[g], i)
      BY <1>1, <3>4 DEF Says
    <3>6. QED
      BY <1>1, <2>2, <3>3, <3>4, <3>5 DEF Handled
  <2>3. CASE pending[i] = None /\ handler[h].id = i
    <3>1. \A g \in Handlers : handler[g].id = i => g = h
      BY <1>1, <2>3 DEF IInv, OneHandlerEach
    <3>2. Says(handler[h], i) /\ (handler[h].phase = "updating" => Agrees(i))
      BY <2>3, <3>1 DEF Handled
    <3>3. \A g \in Handlers : g # h => handler'[g].id # i
      BY <1>1, <3>1
    <3>4. \A m, n \in NodesOf(i) : m = n
      BY DEF IInv, OneNodePerProcess
    <3>5. ASSUME handler'[h] = NoHandler, Agrees(i)' PROVE Handled(i)'
      BY <1>1, <2>3, <3>3, <3>5 DEF Handled, NoHandler
    <3>6. ASSUME handler'[h].id = i, handler'[h].type = handler[h].type,
                 handler'[h].name = handler[h].name,
                 handler'[h].phase = "updating" => Agrees(i)'
          PROVE  Handled(i)'
      BY <1>1, <2>3, <3>2, <3>6 DEF Handled, Says
    <3>7. CASE Looks(h) /\ FindsNone(h)
      <4>1. NodesOf(i) = {} /\ NodesOf(i)' = {}
        BY <2>3, <3>7 DEF FindsNone, Looks, NodesOf
      <4>2. CASE handler[h].type = "delete"
        <5>1. handler'[h] = NoHandler
          BY <3>7, <4>2 DEF FindsNone, IInv, TypeOK
        <5>2. Agrees(i)'
          BY <1>1, <3>2, <4>1, <4>2 DEF Agrees, Says
        <5>3. QED
          BY <3>5, <5>1, <5>2
      <4>3. CASE handler[h].type # "delete"
        <5>1. handler'[h] = [handler[h] EXCEPT !.phase = "adding"]
          BY <3>7, <4>3 DEF FindsNone, IInv, TypeOK
        <5>2. QED
          BY <1>2, <2>3, <3>6, <5>1 DEF HandlerStates
      <4>4. QED
        BY <4>2, <4>3
    <3>8. CASE Looks(h) /\ FindsOne(h)
      <4>1. PICK n \in NodesOf(i) :
              handler'[h] = IF handler[h].type = "delete" \/ node[n].name # handler[h].name
                            THEN [handler[h] EXCEPT !.phase = "removing", !.node = n]
                            ELSE [handler[h] EXCEPT !.phase = "updating"]
        BY <2>3, <3>8 DEF FindsOne, IInv, TypeOK
      <4>2. CASE handler[h].type = "delete" \/ node[n].name # handler[h].name
        BY <1>2, <2>3, <3>6, <4>1, <4>2 DEF HandlerStates
      <4>3. CASE ~(handler[h].type = "delete" \/ node[n].name # handler[h].name)
        <5>1. Agrees(i)'
          BY <1>1, <3>2, <3>8, <4>1, <4>3 DEF Agrees, Says, NodesOf, Looks
        <5>2. QED
          BY <1>2, <2>3, <3>6, <4>1, <4>3, <5>1 DEF HandlerStates
      <4>4. QED
        BY <4>2, <4>3
    <3>9. CASE Removes(h)
      <4>1. handler[h].node \in NodesOf(i)
        BY <1>2, <2>3, <3>9 DEF IInv, RemovalFindsNode, Removes
      <4>2. NodesOf(i)' = {}
        BY <3>4, <3>9, <4>1 DEF NodesOf, Removes, NoNode, IInv, TypeOK
      <4>3. CASE handler[h].type = "delete"
        <5>1. handler'[h] = NoHandler
          BY <3>9, <4>3 DEF Removes, IInv, TypeOK
        <5>2. Agrees(i)'
          BY <1>1, <3>2, <4>2, <4>3 DEF Agrees, Says
        <5>3. QED
          BY <3>5, <5>1, <5>2
      <4>4. CASE handler[h].type # "delete"
        <5>1. handler'[h] = [handler[h] EXCEPT !.phase = "adding", !.node = None]
          BY <3>9, <4>4 DEF Removes, IInv, TypeOK
        <5>2. QED
          BY <1>2, <2>3, <3>6, <5>1 DEF HandlerStates
      <4>5. QED
        BY <4>3, <4>4
    <3>10. CASE Adds(h)
      <4>1. PICK n \in Nodes : node' = [node EXCEPT ![n] = [id |-> i, name |-> handler[h].name]]
        BY <2>3, <3>10 DEF Adds
      <4>2. n \in NodesOf(i)' /\ node'[n].name = handler[h].name
        BY <4>1 DEF NodesOf, IInv, TypeOK
      <4>3. handler[h].type # "delete"
        BY <3>10 DEF AddsLiving, Adds
      <4>4. Agrees(i)'
        BY <1>1, <3>2, <4>2, <4>3 DEF Agrees, Says
      <4>5. QED
        BY <1>2, <2>3, <3>6, <3>10, <4>4 DEF Adds, HandlerStates, IInv, TypeOK
    <3>11. CASE Updates(h)
      <4>1. handler'[h] = NoHandler /\ node' = node /\ handler[h].phase = "updating"
        BY <3>11 DEF Updates, IInv, TypeOK
      <4>2. Agrees(i)'
        BY <1>1, <3>2, <4>1 DEF Agrees, NodesOf
      <4>3. QED
        BY <3>5, <4>1, <4>2
    <3>12. QED
      BY <3>7, <3>8, <3>9, <3>10, <3>11 DEF Handle, Looks
  <2>4. QED
    BY <2>1, <2>2, <2>3
<1>7. QED
  BY <1>3, <1>4, <1>5, <1>6 DEF Tracking

LEMMA TrackingStep ==
  ASSUME IInv, Pruning, AddsLiving, [Next]_vars, ~Reordered, ~Failures, NEW i \in Ids \ Slow,
         \/ ListensWith(i)
         \/ agent = "listening" /\ agent' = "listening" /\ (Tracking(i) \/ Tells(i))
  PROVE  Tracking(i)'
<1> USE GraphAssumption
<1>1. CASE ListensWith(i)
  <2>1. Listens
    BY <1>1, OnlyListens DEF ListensWith
  <2>2. agent = "pruning" /\ UNCHANGED <<pm2, bus, listeners, handler>> /\ list[i] = pm2[i]
    BY <1>1, <2>1 DEF Listens, ListensWith
  <2>3. Agrees(i)'
    <3>1. IF list[i] = None THEN NodesOf(i)' = {}
          ELSE \E n \in Nodes : NodesOf(i)' = {n} /\ node'[n].name = list[i]
      BY <2>1, ListensExactly
    <3>2. QED
      BY <2>2, <3>1 DEF Agrees
  <2>4. /\ bus' = <<>> /\ pending'[i] = None /\ \A a \in Asks : asks'[a].phase = "idle"
        /\ \A h \in Handlers : handler'[h].id # i
    BY <2>2 DEF IInv, TypeOK, NoList, NoAsk, listeners, Idle, HandlerStates, NoHandler
  <2>5. Heard(i)'
    BY <2>4 DEF Heard
  <2>6. QED
    BY <2>3, <2>4, <2>5 DEF Tracking, Handled
<1>2. CASE agent = "listening" /\ agent' = "listening" /\ (Tracking(i) \/ Tells(i))
  <2>1. ASSUME NEW j \in Ids, Tells(j) PROVE Tracking(i)'
    <3>1. CASE Tracking(i) \/ i = j
      BY <1>2, <2>1, <3>1, TellsTracks
    <3>2. CASE Tells(i)
      BY <1>2, <3>2, TellsTracks
    <3>3. QED
      BY <1>2, <3>1, <3>2
  <2>2. ASSUME ~Tells(i) PROVE Tracking(i)'
    <3>1. Tracking(i) /\ prune = {}
      BY <1>2, <2>2 DEF IInv, PrunesAlone
    <3>2. ~Starts /\ ~Register /\ ~Crash /\ \A h \in Handlers : ~Throws(h)
      BY <1>2, <3>1 DEF Starts, Register, RegisterNext, Registered, Prunes, Listens, Crash,
         Throws, Dies
    <3>3. CASE PM2
      BY <2>1, <3>3 DEF PM2, Tells
    <3>4. CASE UNCHANGED vars
      <4>1. /\ UNCHANGED <<pm2, bus, asks, handler, node, pending>>
        BY <3>4 DEF vars, listeners
      <4>2. (BusTells(i) => BusTells(i)') /\ (Handled(i) => Handled(i)')
        BY <4>1, BusStays, HandledStays
      <4>3. (Heard(i) => Heard(i)') /\ (Asking(i) => Asking(i)')
        BY <4>1 DEF Heard, Asking
      <4>4. QED
        BY <3>1, <4>2, <4>3 DEF Tracking
    <3>5. QED
      BY <3>1, <3>2, <3>3, <3>4, DeliverTracks, AnswersTracks, ArrivesTracks, FiresTracks,
         HandleTracks DEF Next
  <2>3. QED
    BY <2>1, <2>2
<1>3. QED
  BY <1>1, <1>2

(***************************************************************************)
(* The graph follows PM2's events.  From an event of a process on, or from *)
(* a registration that had it as it is, an agent that goes on listening    *)
(* has the latest that PM2 told of it on the bus, in an answer, in the     *)
(* debounce or in a handler, whatever else is on its way; so when nothing  *)
(* of it is on its way its node has its name, and there is none if it is   *)
(* gone.  It is so for processes whose handlers do not overlap, as long as *)
(* PM2 answers in order and without failure (subscribeToPm2EventStream,    *)
(* handlePm2Event).                                                        *)
(***************************************************************************)
GraphFollowsEvents ==
  [][\A i \in Ids \ Slow :
       /\ ~Reordered /\ ~Failures
       /\ \/ ListensWith(i)
          \/ agent = "listening" /\ agent' = "listening" /\ (Tracking(i) \/ Tells(i))
       => Tracking(i)' /\ (Quiet(i) => Agrees(i))']_vars

THEOREM EventsReachGraph == Spec => GraphFollowsEvents
<1> DEFINE A == \A i \in Ids \ Slow :
                  /\ ~Reordered /\ ~Failures
                  /\ \/ ListensWith(i)
                     \/ agent = "listening" /\ agent' = "listening" /\ (Tracking(i) \/ Tells(i))
                  => Tracking(i)' /\ (Quiet(i) => Agrees(i))'
           J == IInv /\ Pruning /\ AddsLiving
<1>1. Init => J
  BY IInvInit DEF Init, Pruning, AddsLiving, NoHandler
<1>2. J /\ [Next]_vars => J' /\ [A]_vars
  <2> SUFFICES ASSUME J, [Next]_vars PROVE J' /\ A
    OBVIOUS
  <2>1. J'
    BY IInvStep, PruningStep, AddsLivingStep
  <2>2. QED
    <3> SUFFICES ASSUME NEW i \in Ids \ Slow, ~Reordered, ~Failures,
                        \/ ListensWith(i)
                        \/ agent = "listening" /\ agent' = "listening"
                             /\ (Tracking(i) \/ Tells(i))
                 PROVE  Tracking(i)' /\ (Quiet(i) => Agrees(i))'
      BY <2>1
    <3>1. Tracking(i)'
      BY TrackingStep
    <3>2. (Quiet(i) => Agrees(i))'
      BY <3>1 DEF Tracking, BusTells, Asking, Handled, Quiet
    <3>3. QED
      BY <3>1, <3>2
<1> HIDE DEF J, A
<1>3. Spec => [][A]_vars
  BY <1>1, <1>2, PTL DEF Spec
<1> QED BY <1>3 DEF A, GraphFollowsEvents
=============================================================================
