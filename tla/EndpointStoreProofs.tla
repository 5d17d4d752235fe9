------------------------ MODULE EndpointStoreProofs -------------------------
(***************************************************************************)
(* The safety properties of EndpointStore for any figures, processes,      *)
(* values and number of handlers, and wherever the agent dies.             *)
(***************************************************************************)
EXTENDS EndpointStore, TLAPS

(* Nodes are made only for processes PM2 has run, and it lists no others.  *)
KnownRun == known \cup listed \cup hub.known \subseteq running

(* What a round is about to hand on is known: the figures of the list, and *)
(* the status in the info of every node that the rounds go through.        *)
Informing ==
  /\ phase = "machine" => seen \in [FiguresOf(Processes) -> Values]
  /\ ~starting \/ phase = "processes" =>
       \A f \in FromStatus : Parent[f] \in known => info[f] \in Values

TypeInv == TypeOK /\ KnownRun /\ Informing

LEMMA BeginTypes ==
  ASSUME TypeOK, NEW w \in Writers, NEW figures \in SUBSET Figures, NEW values,
         \A f \in figures : values[f] \in Values, Begin(w, figures, values)
  PROVE  /\ pass' \in [Writers -> [Figures -> Passes]]
         /\ \A u \in Writers : u # w => pass'[u] = pass[u]
<1>1. \A f \in figures : At("reading", values[f]) \in Passes
  BY DEF At, Passes
<1> QED BY <1>1 DEF Begin, TypeOK

(***************************************************************************)
(* The variables keep their types: no endpoint is ever given a value that  *)
(* nobody knows, and no handler works before the registration has ended.   *)
(***************************************************************************)
LEMMA TypeInitially == Init => TypeInv
<1> SUFFICES ASSUME Init PROVE TypeInv
  OBVIOUS
<1>1. Nothing(Figures) \in [Figures -> {None}] /\ Nothing(FromStatus) \in [FromStatus -> {None}]
      /\ Nothing(FiguresOf(Processes)) \in [FiguresOf(Processes) -> {None}]
  BY DEF Nothing
<1>2. NoPasses \in [Writers -> [Figures -> {Idle}]]
  BY DEF NoPasses
<1>3. \A h \in Handlers : Done(h)
  BY <1>2 DEF Init, Done, NoPasses, Writers
<1>4. TypeOK
  BY <1>1, <1>2, <1>3, EndpointAssumption DEF Init, TypeOK, Passes, Limits
<1> QED BY <1>4 DEF Init, TypeInv, KnownRun, Informing

LEMMA GoesTypes ==
  ASSUME TypeOK, NEW w \in Writers, NEW f \in Figures, pass[w][f] # Idle,
         pass' = [pass EXCEPT ![w][f] = Idle] \/ Goes(w, f)
  PROVE  /\ pass' \in [Writers -> [Figures -> Passes]]
         /\ starting => \A h \in Handlers : w # h
         /\ \A u \in Writers : u # w => pass'[u] = pass[u]
<1>1. pass[w][f] \in Passes /\ pass[w][f].value \in Values
  BY DEF TypeOK, Passes, Idle
<1>2. Idle \in Passes /\ At("limiting", pass[w][f].value) \in Passes
  BY <1>1 DEF Passes, At
<1>3. pass' \in [Writers -> [Figures -> Passes]]
  <2>1. PICK next \in Passes : pass' = [pass EXCEPT ![w][f] = next]
    BY <1>2 DEF Goes, Afterwards
  <2> QED BY <2>1 DEF TypeOK
<1>4. starting => \A h \in Handlers : w # h
  BY DEF TypeOK, Done
<1> QED BY <1>3, <1>4 DEF Goes, TypeOK

LEMMA TypeStep == TypeInv /\ [Next]_vars => TypeInv'
<1> SUFFICES ASSUME TypeInv, [Next]_vars PROVE TypeInv'
  OBVIOUS
<1> USE DEF TypeInv
<1>1. ASSUME NEW f \in Figures, NEW v \in Values, Changes(f, v) PROVE TypeInv'
  BY <1>1 DEF Changes, TypeOK, KnownRun, Informing, Done, round, graph
<1>2. ASSUME NEW p \in Processes, Runs(p) PROVE TypeInv'
  BY <1>2 DEF Runs, TypeOK, KnownRun, Informing, Done, round, graph
<1>3. CASE Calms \/ UNCHANGED vars
  <2>1. /\ UNCHANGED <<figure, running, round, known, info, graph, pass, hub>>
        /\ failing' \in BOOLEAN
    BY <1>3 DEF Calms, TypeOK, vars, world
  <2> QED BY <2>1 DEF TypeOK, KnownRun, Informing, Done, round, graph
<1>4. CASE Lists
  <2>1. FiguresOf({Machine}) \in SUBSET Figures /\ Main \in Writers
    BY DEF FiguresOf, Writers
  <2>2. \A f \in FiguresOf({Machine}) : figure[f] \in Values
    BY DEF FiguresOf, TypeOK
  <2>3. /\ pass' \in [Writers -> [Figures -> Passes]]
        /\ \A u \in Writers : u # Main => pass'[u] = pass[u]
    BY <1>4, <2>1, <2>2, BeginTypes DEF Lists
  <2>4. \A h \in Handlers : pass'[h] = pass[h]
    BY <2>3, EndpointAssumption DEF Writers
  <2>5. seen' \in [FiguresOf(Processes) -> Values]
    BY <1>4 DEF Lists, FiguresOf, TypeOK
  <2>6. listed' \in SUBSET Processes /\ listed' \subseteq running
    BY <1>4 DEF Lists, TypeOK
  <2>7. TypeOK'
    BY <1>4, <2>3, <2>4, <2>5, <2>6 DEF Lists, TypeOK, Done, world, graph
  <2> QED BY <1>4, <2>5, <2>6, <2>7 DEF Lists, KnownRun, Informing, world, graph
<1>5. CASE MachineDone
  <2>1. /\ phase = "machine" /\ phase' = "processes" /\ starting' = starting
        /\ known' = IF starting THEN listed ELSE known
        /\ seen' = Nothing(FiguresOf(Processes))
        /\ UNCHANGED <<world, listed, registered, hub>>
    BY <1>5 DEF MachineDone
  <2>2. known' \subseteq Processes /\ (starting => known' = listed)
    BY <2>1 DEF TypeOK, Informing
  <2>3. \A f \in FromStatus : f \in Figures /\ Parent[f] \in Processes
    BY EndpointAssumption
  <2>4. \A f \in FromStatus : Parent[f] \in known' => info'[f] \in Values
    <3>1. CASE starting
      <4> SUFFICES ASSUME NEW f \in FromStatus, Parent[f] \in known'
                   PROVE  info'[f] \in Values
        OBVIOUS
      <4>1. info'[f] = seen[f]
        BY <1>5, <2>2, <3>1 DEF MachineDone, Informed
      <4> QED BY <2>1, <2>3, <4>1 DEF Informing, FiguresOf
    <3>2. CASE ~starting
      BY <1>5, <2>1, <3>2 DEF MachineDone, Informed, Informing
    <3> QED BY <3>1, <3>2
  <2>5. info' \in [FromStatus -> Values \cup {None}]
    BY <1>5, <2>1, <2>3 DEF MachineDone, Informed, TypeOK, FiguresOf
  <2>6. \A f \in FiguresOf(listed \cap known') : Shown(seen, info')[f] \in Values
    BY <2>1, <2>2, <2>4 DEF FiguresOf, Shown, Informing, TypeOK
  <2>7. FiguresOf(listed \cap known') \in SUBSET Figures /\ Main \in Writers
    BY DEF FiguresOf, Writers
  <2>8. /\ pass' \in [Writers -> [Figures -> Passes]]
        /\ \A u \in Writers : u # Main => pass'[u] = pass[u]
    BY <1>5, <2>6, <2>7, BeginTypes DEF MachineDone
  <2>9. \A h \in Handlers : pass'[h] = pass[h]
    BY <2>8, EndpointAssumption DEF Writers
  <2>10. /\ endpoints' \in [Figures -> Nat] /\ value' \in [Figures -> Values \cup {None}]
         /\ limit' \in [Figures -> Limits]
    BY <1>5 DEF MachineDone, Removed, TypeOK, Limits
  <2>11. TypeOK'
    BY <2>1, <2>2, <2>5, <2>8, <2>9, <2>10 DEF TypeOK, Done, Nothing, world
  <2> QED BY <2>1, <2>2, <2>4, <2>11 DEF KnownRun, Informing, world
<1>6. CASE RoundDone
  BY <1>6 DEF RoundDone, TypeOK, KnownRun, Informing, Done, world, graph
<1>7. ASSUME NEW p \in Processes, NEW h \in Handlers, Handles(h, p) PROVE TypeInv'
  <2>1. /\ ~starting /\ known' = known \cup {p} /\ p \in running
        /\ UNCHANGED <<world, round, graph, hub>>
    BY <1>7 DEF Handles
  <2>2. \A f \in FromStatus : f \in Figures /\ Parent[f] \in Processes
    BY EndpointAssumption
  <2>3. \A f \in FromStatus : info'[f] = IF Parent[f] = p THEN figure[f] ELSE info[f]
    BY <1>7 DEF Handles, Informed
  <2>4. info' \in [FromStatus -> Values \cup {None}]
    BY <1>7, <2>2 DEF Handles, Informed, TypeOK
  <2>5. \A f \in FiguresOf({p}) : Shown(figure, info')[f] \in Values
    BY <2>2, <2>3 DEF FiguresOf, Shown, TypeOK
  <2>6. FiguresOf({p}) \in SUBSET Figures /\ h \in Writers
    BY DEF FiguresOf, Writers
  <2>7. pass' \in [Writers -> [Figures -> Passes]]
    BY <1>7, <2>5, <2>6, BeginTypes DEF Handles
  <2>8. TypeOK'
    BY <2>1, <2>4, <2>7 DEF TypeOK, world, round, graph
  <2>9. Informing'
    BY <2>1, <2>2, <2>3 DEF Informing, TypeOK, round
  <2> QED BY <2>1, <2>8, <2>9 DEF KnownRun, world, round, graph
<1>8. ASSUME NEW w \in Writers, NEW q, Finds(w, q) PROVE TypeInv'
  <2>1. \A f \in Figures : pass[w][f].step = "reading" => pass[w][f].value \in Values
    BY DEF TypeOK, Passes, Idle
  <2>2. \A f \in Figures : pass[w][f].step = "reading" =>
          /\ At("updating", pass[w][f].value) \in Passes
          /\ At("adding", pass[w][f].value) \in Passes
    BY <2>1 DEF At, Passes
  <2>3. pass' \in [Writers -> [Figures -> Passes]]
    BY <1>8, <2>2 DEF Finds, TypeOK
  <2>4. \A u \in Writers : u # w => pass'[u] = pass[u]
    BY <1>8 DEF Finds, TypeOK
  <2>5. starting => \A h \in Handlers : w # h
    BY <1>8 DEF Finds, FiguresOf, TypeOK, Done, Idle
  <2>6. starting => \A h \in Handlers : Done(h)'
    BY <2>4, <2>5 DEF TypeOK, Done, Writers
  <2>7. UNCHANGED <<world, round, known, info, graph, hub>>
    BY <1>8 DEF Finds
  <2> QED BY <2>3, <2>6, <2>7 DEF TypeOK, KnownRun, Informing, world, round, graph
<1>9. ASSUME NEW w \in Writers, NEW f \in Figures, Adds(w, f) \/ Updates(w, f) \/ LimitsIt(w, f)
      PROVE  TypeInv'
  <2>1. pass[w][f] # Idle
    BY <1>9 DEF Adds, Updates, LimitsIt, Idle
  <2>2. pass[w][f].value \in Values
    BY <2>1 DEF TypeOK, Passes, Idle
  <2>3. /\ pass' \in [Writers -> [Figures -> Passes]]
        /\ starting => \A h \in Handlers : w # h
        /\ \A u \in Writers : u # w => pass'[u] = pass[u]
    BY <1>9, <2>1, GoesTypes DEF Adds, Updates, LimitsIt
  <2>4. starting => \A h \in Handlers : Done(h)'
    BY <2>3 DEF TypeOK, Done, Writers
  <2>5. /\ UNCHANGED <<world, round, known, info, hub>>
        /\ endpoints' \in [Figures -> Nat]
        /\ value' \in [Figures -> Values \cup {None}]
        /\ limit' \in [Figures -> Limits]
    BY <1>9, <2>2 DEF Adds, Updates, LimitsIt, TypeOK, Limits
  <2> QED BY <2>3, <2>4, <2>5 DEF TypeOK, KnownRun, Informing, world, round
<1>10. ASSUME NEW f \in Figures, UpdateMaxDay(f) PROVE TypeInv'
  BY <1>10 DEF UpdateMaxDay, TypeOK, Limits, KnownRun, Informing, Done, world, round
<1>11. CASE Fails
  <2>1. PICK f \in Figures : pass' = [pass EXCEPT ![Main][f] = Idle]
    BY <1>11 DEF Fails
  <2>2. pass' \in [Writers -> [Figures -> Passes]]
    BY <2>1 DEF TypeOK, Passes
  <2>3. \A h \in Handlers : pass'[h] = pass[h]
    BY <2>1, EndpointAssumption DEF TypeOK, Writers
  <2> QED BY <1>11, <2>2, <2>3 DEF Fails, TypeOK, KnownRun, Informing, Done, world, graph
<1>12. CASE Dies
  <2>1. Nothing(Figures) \in [Figures -> {None}] /\ Nothing(FromStatus) \in [FromStatus -> {None}]
        /\ Nothing(FiguresOf(Processes)) \in [FiguresOf(Processes) -> {None}]
    BY DEF Nothing
  <2>2. NoPasses \in [Writers -> [Figures -> Passes]]
    BY DEF NoPasses, Passes
  <2>3. \A h \in Handlers : Done(h)'
    BY <1>12 DEF Dies, Done, NoPasses, Writers
  <2> QED BY <1>12, <2>1, <2>2, <2>3 DEF Dies, TypeOK, Limits, KnownRun, Informing, world
<1>13. CASE Sync
  BY <1>13 DEF Sync, TypeOK, KnownRun, Informing, Done, world, round, graph
<1> QED BY <1>1, <1>2, <1>3, <1>4, <1>5, <1>6, <1>7, <1>8, <1>9, <1>10, <1>11, <1>12, <1>13
       DEF Next

THEOREM TypeCorrect == Spec => []TypeOK
<1>1. TypeInv => TypeOK
  BY DEF TypeInv
<1> QED BY <1>1, TypeInitially, TypeStep, PTL DEF Spec

(* The machine's endpoints are the main flow's alone, which adds one only  *)
(* where there is none.                                                    *)
MachineAlone ==
  \A f \in FiguresOf({Machine}) :
    /\ \A h \in Handlers : pass[h][f] = Idle
    /\ pass[Main][f].step = "adding" => endpoints[f] = 0
    /\ endpoints[f] <= 1 /\ hub.endpoints[f] <= 1

(* An endpoint that is to get a value or a limit is there, and only the    *)
(* registration sets limits.                                               *)
FoundExist ==
  \A w \in Writers, f \in Figures :
    /\ pass[w][f].step \in {"updating", "limiting"} => Exists(f)
    /\ pass[w][f].step = "limiting" => starting

(* The parents whose endpoints the registration has begun and, unless it   *)
(* fails, awaits before it goes on; later those it has gone through.       *)
Covered ==
  IF ~starting THEN registered
  ELSE IF phase = "machine" THEN {Machine}
  ELSE IF phase = "processes" THEN listed \cup {Machine}
  ELSE {}

(* Where the registration has ended its work, there is an endpoint with a  *)
(* limit; afterwards nobody is adding one.                                 *)
CoveredLast ==
  /\ starting => registered = {}
  /\ phase \in {"down", "failed"} => starting
  /\ phase = "resting" => ~starting
  /\ \A f \in FiguresOf(Covered) :
       (starting /\ pass[Main][f] # Idle) \/ (Exists(f) /\ limit[f] # None)
  /\ ~starting => \A w \in Writers : \A f \in FiguresOf(registered) : pass[w][f].step # "adding"

IInv == TypeInv /\ MachineAlone /\ FoundExist /\ CoveredLast

LEMMA IInvInitially == Init => IInv
<1> SUFFICES ASSUME Init PROVE IInv
  OBVIOUS
<1>1. \A w \in Writers, f \in Figures : pass[w][f] = Idle
  BY DEF Init, NoPasses
<1>2. \A f \in Figures : endpoints[f] = 0 /\ hub.endpoints[f] = 0
  BY DEF Init
<1>3. MachineAlone
  <2>1. Main \in Writers /\ Handlers \subseteq Writers /\ FiguresOf({Machine}) \subseteq Figures
    BY DEF Writers, FiguresOf
  <2> SUFFICES ASSUME NEW f \in FiguresOf({Machine})
               PROVE  /\ \A h \in Handlers : pass[h][f] = Idle
                      /\ pass[Main][f].step = "adding" => endpoints[f] = 0
                      /\ endpoints[f] <= 1 /\ hub.endpoints[f] <= 1
    BY DEF MachineAlone
  <2>2. f \in Figures /\ \A h \in Handlers : pass[h][f] = Idle
    BY <1>1, <2>1
  <2>3. endpoints[f] = 0 /\ hub.endpoints[f] = 0
    BY <1>2, <2>2
  <2> QED BY <2>2, <2>3
<1>4. FoundExist
  BY <1>1 DEF FoundExist, Idle
<1>5. CoveredLast
  BY DEF Init, CoveredLast, Covered, FiguresOf
<1> QED BY <1>3, <1>4, <1>5, TypeInitially DEF IInv

(***************************************************************************)
(* Where passes change of one writer only, the others' facts remain; what  *)
(* remains to be shown of the writer is listed here.                       *)
(***************************************************************************)
LEMMA PassesBegin ==
  ASSUME IInv, NEW w \in Writers, NEW figures, NEW values, Begin(w, figures, values)
  PROVE  /\ \A f \in Figures : pass'[w][f] = IF f \in figures THEN At("reading", values[f])
                                                            ELSE pass[w][f]
         /\ \A u \in Writers : u # w => pass'[u] = pass[u]
         /\ \A u \in Writers, f \in Figures :
              \/ pass'[u][f] = pass[u][f]
              \/ pass'[u][f].step = "reading" /\ f \in figures /\ u = w /\ pass'[u][f] # Idle
BY DEF IInv, TypeInv, TypeOK, Begin, At, Idle

(***************************************************************************)
(* The machine's endpoints stay when the nodes of processes are removed,   *)
(* and rounds remove none.                                                 *)
(***************************************************************************)
LEMMA MachineStays ==
  ASSUME IInv, MachineDone
  PROVE  /\ \A f \in FiguresOf({Machine}) : endpoints'[f] = endpoints[f] /\ limit'[f] = limit[f]
         /\ ~starting => UNCHANGED <<endpoints, limit>>
<1>1. known \subseteq Processes /\ Machine \notin known \ known'
  BY EndpointAssumption DEF IInv, TypeInv, TypeOK
<1>2. ~starting => known \ known' = {}
  BY DEF MachineDone
<1> QED BY <1>1, <1>2 DEF MachineDone, Removed, FiguresOf, IInv, TypeInv, TypeOK

LEMMA MachineStep == IInv /\ [Next]_vars => MachineAlone'
<1> SUFFICES ASSUME IInv, [Next]_vars PROVE MachineAlone'
  OBVIOUS
<1> USE DEF MachineAlone
<1>0. /\ MachineAlone /\ Main \in Writers /\ Handlers \subseteq Writers
      /\ FiguresOf({Machine}) \subseteq Figures
      /\ \A h \in Handlers : h # Main
  BY EndpointAssumption DEF IInv, Writers, FiguresOf
<1>1. CASE UNCHANGED <<pass, endpoints, hub>>
  BY <1>0, <1>1
<1>2. CASE Lists \/ MachineDone
  <2>1. PICK figures, values : Begin(Main, figures, values)
    BY <1>2 DEF Lists, MachineDone
  <2>2. hub' = hub /\ \A f \in FiguresOf({Machine}) : endpoints'[f] = endpoints[f]
    BY <1>2, MachineStays DEF Lists, MachineDone, graph
  <2>3. \A u \in Writers, f \in Figures :
          pass'[u][f] = pass[u][f] \/ (u = Main /\ pass'[u][f].step = "reading")
    <3> HIDE DEF MachineAlone
    <3> QED BY <1>0, <2>1, PassesBegin
  <2> QED BY <1>0, <2>2, <2>3
<1>3. ASSUME NEW p \in Processes, NEW h \in Handlers, Handles(h, p) PROVE MachineAlone'
  <2>1. PICK values : Begin(h, FiguresOf({p}), values)
    BY <1>3 DEF Handles
  <2>2. UNCHANGED <<endpoints, hub>>
    BY <1>3 DEF Handles, graph
  <2>3. \A f \in FiguresOf({Machine}) : f \notin FiguresOf({p})
    BY EndpointAssumption DEF FiguresOf
  <2>4. \A u \in Writers, f \in Figures :
          pass'[u][f] = pass[u][f] \/ f \in FiguresOf({p})
    BY <1>0, <2>1, PassesBegin
  <2> QED BY <1>0, <2>2, <2>3, <2>4
<1>4. ASSUME NEW w \in Writers, NEW q, Finds(w, q) PROVE MachineAlone'
  <2>1. UNCHANGED <<endpoints, hub>>
    BY <1>4 DEF Finds, graph
  <2>2. \A u \in Writers, f \in Figures :
          \/ pass'[u][f] = pass[u][f]
          \/ u = w /\ pass[u][f].step = "reading" /\ pass'[u][f].step = "updating"
          \/ u = w /\ pass[u][f].step = "reading" /\ ~Exists(f)
    BY <1>4 DEF Finds, IInv, TypeInv, TypeOK, At
  <2>3. \A f \in Figures : ~Exists(f) => endpoints[f] = 0
    BY DEF Exists, IInv, TypeInv, TypeOK
  <2>4. Idle.step = "idle"
    BY DEF Idle
  <2> QED BY <1>0, <2>1, <2>2, <2>3, <2>4
<1>5. ASSUME NEW w \in Writers, NEW f \in Figures, Adds(w, f) PROVE MachineAlone'
  <2>1. /\ pass[w][f].step = "adding" /\ hub' = hub
        /\ endpoints' = [endpoints EXCEPT ![f] = @ + 1]
        /\ pass' = [pass EXCEPT ![w][f] = Afterwards(w, f, @)]
    BY <1>5 DEF Adds, Goes
  <2>2. Afterwards(w, f, pass[w][f]).step # "adding"
    BY DEF Afterwards, At, Idle
  <2>3. CASE f \in FiguresOf({Machine})
    <3>1. w = Main /\ endpoints[f] = 0
      BY <1>0, <2>1, <2>3 DEF Writers, Idle
    <3> QED BY <1>0, <2>1, <2>2, <3>1 DEF IInv, TypeInv, TypeOK
  <2>4. CASE f \notin FiguresOf({Machine})
    BY <1>0, <2>1, <2>4 DEF IInv, TypeInv, TypeOK
  <2> QED BY <2>3, <2>4
<1>6. ASSUME NEW w \in Writers, NEW f \in Figures, Updates(w, f) \/ LimitsIt(w, f)
      PROVE  MachineAlone'
  <2>1. PICK next : pass' = [pass EXCEPT ![w][f] = next] /\ next.step # "adding"
    BY <1>6 DEF Updates, LimitsIt, Goes, Afterwards, At, Idle
  <2>2. pass[w][f] # Idle /\ UNCHANGED <<endpoints, hub>>
    BY <1>6 DEF Updates, LimitsIt, Idle
  <2>3. f \in FiguresOf({Machine}) => w = Main
    BY <1>0, <2>2 DEF Writers
  <2> QED BY <1>0, <2>1, <2>2, <2>3 DEF IInv, TypeInv, TypeOK
<1>7. CASE Fails
  <2>1. PICK f \in Figures : pass' = [pass EXCEPT ![Main][f] = Idle]
    BY <1>7 DEF Fails
  <2>2. UNCHANGED <<endpoints, hub>>
    BY <1>7 DEF Fails, graph
  <2> QED BY <1>0, <2>1, <2>2 DEF IInv, TypeInv, TypeOK, Idle
<1>8. CASE Dies
  <2>1. \A w \in Writers, f \in Figures : pass'[w][f] = Idle
    BY <1>8 DEF Dies, NoPasses
  <2>2. Idle.step # "adding" /\ endpoints' = hub.endpoints /\ hub' = hub
    BY <1>8 DEF Dies, Idle
  <2> QED BY <1>0, <2>1, <2>2
<1>9. CASE Sync
  BY <1>0, <1>9 DEF Sync, graph
<1>10. CASE \/ Calms \/ RoundDone \/ UNCHANGED vars \/ \E f \in Figures : UpdateMaxDay(f)
           \/ (\E f \in Figures, v \in Values : Changes(f, v)) \/ (\E p \in Processes : Runs(p))
  BY <1>1, <1>10 DEF Calms, RoundDone, UpdateMaxDay, Changes, Runs, vars, graph
<1> QED BY <1>2, <1>3, <1>4, <1>5, <1>6, <1>7, <1>8, <1>9, <1>10 DEF Next

(***************************************************************************)
(* Endpoints are not lost but with the agent or the node of their process, *)
(* and passes change step by step: what a step of Next can do to a pass    *)
(* and to its endpoint.                                                    *)
(***************************************************************************)
LEMMA PassStep ==
  ASSUME IInv, [Next]_vars, ~Dies, ~MachineDone, NEW w \in Writers, NEW f \in Figures
  PROVE  /\ Exists(f) => Exists(f)'
         /\ \/ pass'[w][f] = pass[w][f]
            \/ pass'[w][f].step = "reading"
            \/ Exists(f) /\ pass'[w][f].step = "updating"
            \/ ~Exists(f) /\ pass'[w][f].step = "adding"
            \/ Exists(f)' /\ pass'[w][f] = At("limiting", pass[w][f].value) /\ starting
            \/ /\ pass'[w][f] = Idle
               /\ w = Main /\ starting => (Exists(f)' /\ limit'[f] # None) \/ Fails
<1> USE DEF IInv, TypeInv
<1>1. CASE UNCHANGED <<pass, endpoints>>
  BY <1>1 DEF Exists
<1>2. CASE Lists
  <2>1. PICK figures, values : Begin(Main, figures, values)
    BY <1>2 DEF Lists
  <2>2. endpoints' = endpoints /\ Main \in Writers
    BY <1>2 DEF Lists, graph, Writers
  <2>3. pass'[w][f] = pass[w][f] \/ pass'[w][f].step = "reading"
    BY <2>1, <2>2, PassesBegin
  <2> QED BY <2>2, <2>3 DEF Exists
<1>3. ASSUME NEW p \in Processes, NEW h \in Handlers, Handles(h, p)
      PROVE  endpoints' = endpoints /\ (pass'[w][f] = pass[w][f] \/ pass'[w][f].step = "reading")
  <2>1. PICK values : Begin(h, FiguresOf({p}), values)
    BY <1>3 DEF Handles
  <2>2. endpoints' = endpoints /\ h \in Writers
    BY <1>3 DEF Handles, graph, Writers
  <2> QED BY <2>1, <2>2, PassesBegin
<1>4. ASSUME NEW u \in Writers, NEW q, Finds(u, q)
      PROVE  /\ endpoints' = endpoints
             /\ \/ pass'[w][f] = pass[w][f]
                \/ Exists(f) /\ pass'[w][f].step = "updating"
                \/ ~Exists(f) /\ pass'[w][f].step = "adding"
  BY <1>4 DEF Finds, TypeOK, At, graph
<1>5. ASSUME NEW u \in Writers, NEW g \in Figures, Adds(u, g) \/ Updates(u, g)
      PROVE  /\ Exists(f) => Exists(f)'
             /\ \/ pass'[w][f] = pass[w][f]
                \/ Exists(f)' /\ pass'[w][f] = At("limiting", pass[w][f].value) /\ starting
                \/ pass'[w][f] = Idle /\ ~(w = Main /\ starting)
  <2>1. pass' = [pass EXCEPT ![u][g] = Afterwards(u, g, pass[u][g])]
    BY <1>5 DEF Adds, Updates, Goes
  <2>2. Exists(f) => Exists(f)'
    BY <1>5 DEF Adds, Updates, Exists, TypeOK
  <2>3. Exists(g)'
    BY <1>5 DEF Adds, Updates, Exists, TypeOK, FoundExist
  <2>4. u # w \/ f # g => pass'[w][f] = pass[w][f]
    BY <2>1 DEF TypeOK
  <2>5. u = w /\ f = g => pass'[w][f] = Afterwards(w, f, pass[w][f])
    BY <2>1 DEF TypeOK
  <2> QED BY <2>2, <2>3, <2>4, <2>5 DEF Afterwards
<1>6. ASSUME NEW u \in Writers, NEW g \in Figures, LimitsIt(u, g)
      PROVE  /\ endpoints' = endpoints
             /\ \/ pass'[w][f] = pass[w][f]
                \/ pass'[w][f] = Idle /\ Exists(f) /\ limit'[f] # None
  <2>1. /\ pass' = [pass EXCEPT ![u][g] = Idle] /\ endpoints' = endpoints
        /\ limit'[g] # None /\ Exists(g)
    BY <1>6, EndpointAssumption DEF LimitsIt, TypeOK, FoundExist
  <2> QED BY <2>1 DEF TypeOK
<1>7. CASE Fails
  <2>1. PICK g \in Figures : pass' = [pass EXCEPT ![Main][g] = Idle]
    BY <1>7 DEF Fails
  <2>2. endpoints' = endpoints
    BY <1>7 DEF Fails, graph
  <2>3. pass'[w][f] = pass[w][f] \/ pass'[w][f] = Idle
    BY <2>1 DEF TypeOK
  <2> QED BY <1>7, <2>2, <2>3 DEF Exists
<1>8. CASE \/ Calms \/ RoundDone \/ Sync \/ UNCHANGED vars \/ \E g \in Figures : UpdateMaxDay(g)
           \/ (\E g \in Figures, v \in Values : Changes(g, v)) \/ (\E p \in Processes : Runs(p))
  BY <1>1, <1>8 DEF Calms, RoundDone, Sync, UpdateMaxDay, Changes, Runs, vars, graph
<1>9. endpoints' = endpoints => (Exists(f) <=> Exists(f)')
  BY DEF Exists
<1> QED BY <1>2, <1>3, <1>4, <1>5, <1>6, <1>7, <1>8, <1>9 DEF Next

LEMMA StepOf == Idle.step = "idle" /\ \A step, v : At(step, v).step = step
BY DEF Idle, At

LEMMA FoundStep == IInv /\ [Next]_vars => FoundExist'
<1> SUFFICES ASSUME IInv, [Next]_vars, NEW w \in Writers, NEW f \in Figures
             PROVE  /\ pass'[w][f].step \in {"updating", "limiting"} => Exists(f)'
                    /\ pass'[w][f].step = "limiting" => starting'
  BY DEF FoundExist
<1>1. CASE Dies
  BY <1>1 DEF Dies, NoPasses, Idle
<1>2. CASE MachineDone
  <2>1. /\ Begin(Main, FiguresOf(listed \cap known'), Shown(seen, info'))
        /\ Done(Main) /\ starting' = starting
    BY <1>2 DEF MachineDone
  <2>2. Main \in Writers /\ (pass'[w][f] = pass[w][f] \/ pass'[w][f].step = "reading")
    BY <2>1, PassesBegin DEF Writers
  <2>3. CASE starting
    <3>1. pass[w][f] = Idle
      BY <2>1, <2>3 DEF IInv, TypeInv, TypeOK, Done, Writers
    <3> QED BY <2>2, <3>1, StepOf
  <2>4. CASE ~starting
    BY <1>2, <2>1, <2>2, <2>4, MachineStays DEF IInv, FoundExist, Exists
  <2> QED BY <2>3, <2>4
<1>3. CASE ~Dies /\ ~MachineDone
  <2>1. /\ pass'[w][f].step \in {"updating", "limiting"} => Exists(f)'
        /\ pass'[w][f].step = "limiting" => starting
    <3>1. CASE pass'[w][f] = pass[w][f]
      BY <1>3, <3>1, PassStep DEF IInv, FoundExist
    <3>2. CASE pass'[w][f] # pass[w][f]
      BY <1>3, <3>2, PassStep, StepOf
    <3> QED BY <3>1, <3>2
  <2>2. CASE RoundDone
    <3>1. starting => pass[w][f] = Idle
      BY <2>2 DEF RoundDone, Done, Writers, IInv, TypeInv, TypeOK
    <3>2. pass' = pass
      BY <2>2 DEF RoundDone
    <3> QED BY <2>1, <3>1, <3>2, StepOf
  <2>3. CASE starting' = starting
    BY <2>1, <2>3
  <2>4. RoundDone \/ starting' = starting
    BY <1>3 DEF Next, Changes, Runs, Calms, Lists, Handles, Finds, Adds, Updates,
       LimitsIt, UpdateMaxDay, Fails, Sync, vars, round
  <2> QED BY <2>2, <2>3, <2>4
<1> QED BY <1>1, <1>2, <1>3

LEMMA LimitStays ==
  ASSUME IInv, [Next]_vars, ~Dies, ~MachineDone, NEW f \in Figures, limit[f] # None
  PROVE  limit'[f] # None
<1> USE DEF IInv, TypeInv, TypeOK
<1>1. CASE limit' = limit
  BY <1>1
<1>2. ASSUME NEW w \in Writers, NEW g \in Figures, LimitsIt(w, g) PROVE limit'[f] # None
  BY <1>2, EndpointAssumption DEF LimitsIt
<1>3. ASSUME NEW g \in Figures, UpdateMaxDay(g) PROVE limit'[f] # None
  BY <1>3, EndpointAssumption DEF UpdateMaxDay
<1>4. CASE \/ Calms \/ Lists \/ RoundDone \/ Fails \/ Sync \/ UNCHANGED vars
           \/ (\E g \in Figures, v \in Values : Changes(g, v))
           \/ (\E p \in Processes : Runs(p) \/ \E h \in Handlers : Handles(h, p))
           \/ (\E w \in Writers, q \in Processes \cup {Machine} : Finds(w, q))
           \/ (\E w \in Writers, g \in Figures : Adds(w, g) \/ Updates(w, g))
  BY <1>1, <1>4 DEF Calms, Lists, RoundDone, Fails, Sync, Changes, Runs,
     Handles, Finds, Adds, Updates, graph, vars
<1> QED BY <1>2, <1>3, <1>4 DEF Next

LEMMA CoveredStep == IInv /\ [Next]_vars => CoveredLast'
<1> SUFFICES ASSUME IInv, [Next]_vars PROVE CoveredLast'
  OBVIOUS
<1>0. /\ CoveredLast /\ TypeOK /\ Main \in Writers /\ FiguresOf({Machine}) \subseteq Figures
      /\ FiguresOf(registered) \subseteq Figures /\ FiguresOf(Covered) \subseteq Figures
  BY DEF IInv, TypeInv, Writers, FiguresOf
<1>1. ASSUME UNCHANGED <<phase, starting, listed, registered>>, ~Dies, ~Fails, ~MachineDone
      PROVE  CoveredLast'
  <2>1. Covered' = Covered
    BY <1>1 DEF Covered
  <2>2. ASSUME NEW f \in FiguresOf(Covered)
        PROVE  (starting /\ pass'[Main][f] # Idle) \/ (Exists(f)' /\ limit'[f] # None)
    <3>1. CASE Exists(f) /\ limit[f] # None
      BY <1>0, <1>1, <3>1, PassStep, LimitStays
    <3>2. CASE starting /\ pass[Main][f] # Idle
      BY <1>0, <1>1, <3>2, PassStep, StepOf
    <3> QED BY <1>0, <3>1, <3>2 DEF CoveredLast
  <2>3. ASSUME ~starting, NEW w \in Writers, NEW f \in FiguresOf(registered)
        PROVE  pass'[w][f].step # "adding"
    <3>1. Exists(f) /\ pass[w][f].step # "adding"
      BY <1>0, <2>3 DEF CoveredLast, Covered
    <3> QED BY <1>0, <1>1, <2>3, <3>1, PassStep DEF Idle
  <2> QED BY <1>0, <1>1, <2>1, <2>2, <2>3 DEF CoveredLast, FiguresOf
<1>2. CASE Lists
  <2>1. /\ phase' = "machine" /\ Begin(Main, FiguresOf({Machine}), figure)
        /\ phase \in {"down", "resting"} /\ UNCHANGED <<starting, registered, endpoints, limit>>
    BY <1>2 DEF Lists, graph
  <2>2. \A f \in FiguresOf({Machine}) : pass'[Main][f] # Idle
    BY <1>0, <2>1, PassesBegin, StepOf DEF FiguresOf
  <2>3. \A w \in Writers, f \in Figures :
          pass'[w][f] = pass[w][f] \/ pass'[w][f].step = "reading"
    BY <1>0, <2>1, PassesBegin
  <2> QED BY <1>0, <2>1, <2>2, <2>3 DEF CoveredLast, Covered, Exists, FiguresOf
<1>3. CASE MachineDone
  <2>1. /\ phase = "machine" /\ phase' = "processes" /\ Done(Main)
        /\ Begin(Main, FiguresOf(listed \cap known'), Shown(seen, info'))
        /\ UNCHANGED <<starting, listed, registered>>
        /\ starting => listed \cap known' = listed
    BY <1>3 DEF MachineDone
  <2>2. \A f \in FiguresOf(listed \cap known') : pass'[Main][f] # Idle
    BY <1>0, <2>1, PassesBegin, StepOf DEF FiguresOf
  <2>3. \A w \in Writers, f \in Figures :
          pass'[w][f] = pass[w][f] \/ pass'[w][f].step = "reading"
    BY <1>0, <2>1, PassesBegin
  <2>4. starting => \A f \in FiguresOf({Machine}) : Exists(f) /\ limit[f] # None
    BY <1>0, <2>1 DEF CoveredLast, Covered, Done, FiguresOf
  <2>5. starting => Covered' = listed \cup {Machine}
    BY <2>1 DEF Covered
  <2>6. ~starting => Covered' = registered /\ Covered = registered
    BY <2>1 DEF Covered
  <2>7. ~starting => UNCHANGED <<endpoints, limit>>
    BY <1>3, MachineStays
  <2>8. \A f \in FiguresOf({Machine}) : Exists(f)' = Exists(f) /\ limit'[f] = limit[f]
    BY <1>3, MachineStays DEF Exists
  <2>9. ASSUME NEW f \in FiguresOf(Covered)'
        PROVE  (starting /\ pass'[Main][f] # Idle) \/ (Exists(f)' /\ limit'[f] # None)
    <3>1. CASE starting
      BY <2>1, <2>2, <2>4, <2>5, <2>8, <2>9, <3>1 DEF FiguresOf
    <3>2. CASE ~starting
      BY <1>0, <2>6, <2>7, <2>9, <3>2 DEF CoveredLast, Exists, FiguresOf
    <3> QED BY <3>1, <3>2
  <2> QED BY <1>0, <2>1, <2>3, <2>9 DEF CoveredLast, FiguresOf
<1>4. CASE RoundDone
  <2>1. /\ phase = "processes" /\ phase' = "resting" /\ ~starting' /\ Done(Main)
        /\ registered' = IF starting THEN listed \cup {Machine} ELSE registered
        /\ UNCHANGED <<pass, endpoints, limit>>
    BY <1>4 DEF RoundDone, graph
  <2>2. registered' = Covered /\ Covered' = registered'
    BY <2>1 DEF Covered
  <2>3. \A f \in FiguresOf(Covered) : Exists(f) /\ limit[f] # None
    BY <1>0, <2>1 DEF CoveredLast, Done, FiguresOf
  <2>4. \A w \in Writers : \A f \in FiguresOf(Covered) : pass[w][f].step # "adding"
    <3>1. CASE starting
      BY <1>0, <2>1, <3>1 DEF TypeOK, Done, Writers, Idle
    <3>2. CASE ~starting
      BY <1>0, <3>2 DEF CoveredLast, Covered
    <3> QED BY <3>1, <3>2
  <2> QED BY <2>1, <2>2, <2>3, <2>4 DEF CoveredLast, Exists, FiguresOf
<1>5. CASE Fails
  BY <1>0, <1>5 DEF Fails, CoveredLast, Covered, FiguresOf
<1>6. CASE Dies
  BY <1>6 DEF Dies, CoveredLast, Covered, FiguresOf
<1>7. UNCHANGED round => UNCHANGED <<phase, starting, listed, registered>> /\ ~MachineDone
  BY DEF round, MachineDone
<1>8. \/ UNCHANGED round \/ Lists \/ MachineDone \/ RoundDone \/ Fails \/ Dies
  BY DEF Next, Changes, Runs, Calms, Handles, Finds, Adds, Updates, LimitsIt, UpdateMaxDay,
     Sync, vars
<1> QED BY <1>1, <1>2, <1>3, <1>4, <1>5, <1>6, <1>7, <1>8

LEMMA IInvStep == IInv /\ [Next]_vars => IInv'
BY TypeStep, MachineStep, FoundStep, CoveredStep DEF IInv

LEMMA Invariance == Spec => []IInv
BY IInvInitially, IInvStep, PTL DEF Spec

(***************************************************************************)
(* A figure of the machine never has two endpoints: the registration and   *)
(* the rounds look for it one after the other, and nobody else does.       *)
(***************************************************************************)
THEOREM AlwaysOneMachineEndpoint == Spec => []OneMachineEndpoint
<1>1. IInv => OneMachineEndpoint
  BY DEF IInv, MachineAlone, OneMachineEndpoint
<1> QED BY <1>1, Invariance, PTL

(***************************************************************************)
(* When the registration has ended, the endpoints of the parents it has    *)
(* gone through have a limit or were refused one, and keep it.             *)
(***************************************************************************)
THEOREM AlwaysLimited == Spec => []RegisteredLimited
<1>1. IInv => RegisteredLimited
  BY DEF IInv, CoveredLast, Covered, RegisteredLimited
<1> QED BY <1>1, Invariance, PTL

(***************************************************************************)
(* The endpoints of those parents are never doubled, however the rounds    *)
(* and any number of handlers meet.                                        *)
(***************************************************************************)
THEOREM NeverDoubled == Spec => RegisteredNotDoubled
<1> DEFINE Undoubled ==
      \A f \in FiguresOf(registered) : registered' # {} => endpoints'[f] = endpoints[f]
<1>1. IInv /\ [Next]_vars => [Undoubled]_vars
  <2> SUFFICES ASSUME IInv, [Next]_vars, NEW f \in FiguresOf(registered), registered' # {}
               PROVE  endpoints'[f] = endpoints[f]
    OBVIOUS
  <2>1. f \in Figures /\ ~starting /\ \A w \in Writers : pass[w][f].step # "adding"
    BY DEF IInv, CoveredLast, FiguresOf
  <2>2. ASSUME NEW w \in Writers, NEW g \in Figures, Adds(w, g)
        PROVE  endpoints'[f] = endpoints[f]
    BY <2>1, <2>2 DEF Adds, IInv, TypeInv, TypeOK
  <2>3. CASE Dies
    BY <2>3 DEF Dies
  <2>4. CASE MachineDone
    BY <2>1, <2>4, MachineStays
  <2>5. ~Dies /\ ~MachineDone /\ (\A w \in Writers, g \in Figures : ~Adds(w, g))
          => endpoints' = endpoints
    BY DEF Next, Changes, Runs, Calms, Lists, RoundDone, Handles, Finds, Updates,
       LimitsIt, UpdateMaxDay, Fails, Sync, vars, graph
  <2> QED BY <2>2, <2>3, <2>4, <2>5
<1> QED BY <1>1, Invariance, PTL DEF Spec, RegisteredNotDoubled

(***************************************************************************)
(* A limit that a client has chosen is kept while the agent lives: only    *)
(* the registration writes the default.                                    *)
(***************************************************************************)
THEOREM ChosenStays == Spec => ChosenIsKept
<1> DEFINE Kept ==
      \A f \in Figures : ~starting /\ limit[f] = "chosen" /\ ~starting' => limit'[f] = "chosen"
<1>1. IInv /\ [Next]_vars => [Kept]_vars
  <2> SUFFICES ASSUME IInv, [Next]_vars, NEW f \in Figures,
                      ~starting, limit[f] = "chosen", ~starting'
               PROVE  limit'[f] = "chosen"
    OBVIOUS
  <2>1. \A w \in Writers, g \in Figures : ~LimitsIt(w, g)
    BY DEF LimitsIt, IInv, FoundExist
  <2>2. ASSUME NEW g \in Figures, UpdateMaxDay(g) PROVE limit'[f] = "chosen"
    BY <2>2 DEF UpdateMaxDay, IInv, TypeInv, TypeOK
  <2>3. ~Dies
    BY DEF Dies
  <2>4. CASE MachineDone
    BY <2>4, MachineStays
  <2>5. ~MachineDone /\ (\A g \in Figures : ~UpdateMaxDay(g)) => limit' = limit
    BY <2>1, <2>3 DEF Next, Changes, Runs, Calms, Lists, RoundDone, Handles,
       Finds, Adds, Updates, Fails, Sync, vars, graph
  <2> QED BY <2>2, <2>4, <2>5
<1> QED BY <1>1, Invariance, PTL DEF Spec, ChosenIsKept
-----------------------------------------------------------------------------
(***************************************************************************)
(* How a figure reaches its endpoint.                                      *)
(***************************************************************************)

(* Nobody works for f with an older value than the one it should show.     *)
Current(f) ==
  /\ \A w \in Writers : pass[w][f] # Idle => pass[w][f].value = Shows(f)
  /\ phase = "machine" /\ Parent[f] # Machine /\ f \notin FromStatus => seen[f] = Shows(f)

UpToDate(f) == Exists(f) /\ value[f] = Shows(f)

(* Who is adding an endpoint beside one that another has added gives it    *)
(* its value, and not the first.                                           *)
Writes(w, f) == \/ pass[w][f].step \in {"reading", "updating"}
                \/ pass[w][f].step = "adding" /\ ~Exists(f)

(* The endpoint has the figure, or somebody who has it is on his way.      *)
Reached(f) == \/ UpToDate(f)
              \/ \E w \in Writers : Writes(w, f)
              \/ phase = "machine" /\ Parent[f] \in listed

Settling(f) == Current(f) /\ Reached(f)

(* The figure stays as it is, the agent lives, and the node of the process *)
(* is there or is being made by the registration.                          *)
HasNode(f) ==
  Parent[f] \in known \cup {Machine} \cup (IF starting /\ phase = "machine" THEN listed ELSE {})
Undisturbed(f) == Shows(f)' = Shows(f) /\ phase' \notin {"down", "failed"} /\ HasNode(f)'

(* A round, or the registration, begins that has f's process in its list,  *)
(* while no handler still has an older value.                              *)
RoundBegins(f) ==
  /\ Lists
  /\ Parent[f] \in listed' \cup {Machine}
  /\ \A w \in Writers : pass[w][f] # Idle => pass[w][f].value = Shows(f)

LEMMA PassFields == \A step, v : At(step, v).step = step /\ At(step, v).value = v /\ At(step, v) # Idle
BY DEF At, Idle

LEMMA ShownOf ==
  ASSUME NEW f \in FiguresOf(Processes), NEW said, NEW statuses
  PROVE  Shown(said, statuses)[f] = IF f \in FromStatus THEN statuses[f] ELSE said[f]
BY DEF Shown

(* Where the passes and the endpoint of f stay, f settles on.              *)
LEMMA SettlesOn ==
  ASSUME NEW f \in Figures, Settling(f), Shows(f)' = Shows(f),
         \A w \in Writers : pass'[w][f] = pass[w][f],
         endpoints'[f] = endpoints[f], value'[f] = value[f],
         phase' = "machine" => phase = "machine" /\ seen' = seen,
         phase = "machine" => phase' = phase /\ listed' = listed
  PROVE  Settling(f)'
<1>1. Current(f)'
  BY DEF Settling, Current
<1>2. Exists(f)' = Exists(f)
  BY DEF Exists
<1>3. Reached(f)'
  BY <1>2 DEF Settling, Reached, UpToDate, Writes
<1>4. QED
  BY <1>1, <1>3 DEF Settling

LEMMA ListsSettles ==
  ASSUME IInv, NEW f \in Figures, Lists, RoundBegins(f) \/ Settling(f)
  PROVE  Settling(f)'
<1>1. /\ phase \in {"down", "resting"} /\ phase' = "machine"
      /\ endpoints' = endpoints /\ value' = value /\ info' = info /\ figure' = figure
      /\ \A g \in FiguresOf(Processes) : seen'[g] = figure[g]
      /\ Begin(Main, FiguresOf({Machine}), figure)
  BY DEF Lists, graph, world
<1>2. Shows(f)' = Shows(f)
  BY <1>1 DEF Shows
<1>3. /\ Main \in Writers
      /\ \A w \in Writers : pass'[w][f] = IF w = Main /\ f \in FiguresOf({Machine})
                                          THEN At("reading", figure[f]) ELSE pass[w][f]
  BY <1>1, PassesBegin DEF Writers
<1>4. \A w \in Writers : pass[w][f] # Idle => pass[w][f].value = Shows(f)
  BY DEF RoundBegins, Settling, Current
<1>5. f \notin FromStatus => Shows(f) = figure[f]
  BY DEF Shows
<1>6. Parent[f] = Machine => f \notin FromStatus
  BY EndpointAssumption
<1>7. Parent[f] = Machine <=> f \in FiguresOf({Machine})
  BY DEF FiguresOf
<1>8. Current(f)'
  <2>1. Parent[f] # Machine => f \in FiguresOf(Processes)
    BY EndpointAssumption DEF FiguresOf
  <2>2. \A w \in Writers : pass'[w][f] # Idle => pass'[w][f].value = Shows(f)
    BY <1>3, <1>4, <1>5, <1>6, <1>7, PassFields
  <2>3. Parent[f] # Machine /\ f \notin FromStatus => seen'[f] = Shows(f)
    BY <1>1, <1>5, <2>1
  <2>4. QED
    BY <1>2, <2>2, <2>3 DEF Current
<1>9. Reached(f)'
  <2>1. CASE Parent[f] = Machine
    <3>1. pass'[Main][f].step = "reading"
      BY <1>3, <1>7, <2>1, PassFields
    <3>2. QED
      BY <1>3, <3>1 DEF Reached, Writes
  <2>2. CASE Parent[f] # Machine /\ RoundBegins(f)
    BY <1>1, <2>2 DEF Reached, RoundBegins
  <2>3. CASE Parent[f] # Machine /\ Settling(f)
    <3>1. \A w \in Writers : pass'[w][f] = pass[w][f]
      BY <1>3, <1>7, <2>3
    <3>2. Exists(f)' = Exists(f)
      BY <1>1 DEF Exists
    <3>3. QED
      BY <1>1, <1>2, <2>3, <3>1, <3>2 DEF Settling, Reached, UpToDate, Writes
  <2>4. QED
    BY <2>1, <2>2, <2>3
<1>10. QED
  BY <1>8, <1>9 DEF Settling

LEMMA MachineSettles ==
  ASSUME IInv, NEW f \in Figures, MachineDone, Settling(f), Undisturbed(f)
  PROVE  Settling(f)'
<1> DEFINE begun == FiguresOf(listed \cap known')
<1>1. /\ phase = "machine" /\ phase' = "processes" /\ Done(Main)
      /\ Removed(known \ known') /\ Begin(Main, begun, Shown(seen, info'))
      /\ Shows(f)' = Shows(f) /\ Parent[f] \in known' \cup {Machine}
  BY DEF MachineDone, Undisturbed, HasNode
<1>2. Main \in Writers /\ pass[Main][f] = Idle
  BY <1>1 DEF Done, Writers
<1>3. /\ \A w \in Writers : w # Main => pass'[w][f] = pass[w][f]
      /\ pass'[Main][f] = IF f \in begun THEN At("reading", Shown(seen, info')[f]) ELSE Idle
  BY <1>1, <1>2, PassesBegin DEF Writers
<1>4. listed \subseteq Processes /\ known \subseteq Processes /\ Machine \notin Processes
  BY EndpointAssumption DEF IInv, TypeInv, TypeOK
<1>5. endpoints'[f] = endpoints[f] /\ value'[f] = value[f]
  <2>1. Parent[f] \notin known \ known'
    BY <1>1, <1>4
  <2>2. QED
    BY <1>1, <2>1 DEF Removed
<1>6. f \in begun => Shown(seen, info')[f] = Shows(f)
  <2> SUFFICES ASSUME f \in begun PROVE Shown(seen, info')[f] = Shows(f)
    OBVIOUS
  <2>1. f \in FiguresOf(Processes) /\ Parent[f] # Machine
    BY <1>4 DEF FiguresOf
  <2>2. CASE f \in FromStatus
    <3>1. Shown(seen, info')[f] = info'[f]
      BY <2>1, <2>2, ShownOf
    <3>2. QED
      BY <1>1, <2>2, <3>1 DEF Shows
  <2>3. CASE f \notin FromStatus
    <3>1. Shown(seen, info')[f] = seen[f]
      BY <2>1, <2>3, ShownOf
    <3>2. QED
      BY <1>1, <2>1, <2>3, <3>1 DEF Settling, Current
  <2>4. QED
    BY <2>2, <2>3
<1>7. Current(f)'
  <2>1. \A w \in Writers : pass'[w][f] # Idle => pass'[w][f].value = Shows(f)
    BY <1>3, <1>6, PassFields DEF Settling, Current
  <2>2. QED
    BY <1>1, <2>1 DEF Current
<1>8. Reached(f)'
  <2>1. Exists(f)' = Exists(f)
    BY <1>5 DEF Exists
  <2>2. CASE UpToDate(f)
    BY <1>1, <1>5, <2>1, <2>2 DEF Reached, UpToDate
  <2>3. ASSUME NEW w \in Writers, Writes(w, f) PROVE Reached(f)'
    <3>1. w # Main
      BY <1>2, <2>3, StepOf DEF Writes
    <3>2. QED
      BY <1>3, <2>1, <2>3, <3>1 DEF Reached, Writes
  <2>4. CASE Parent[f] \in listed
    <3>1. f \in begun
      BY <1>1, <1>4, <2>4 DEF FiguresOf
    <3>2. pass'[Main][f].step = "reading"
      BY <1>3, <3>1, PassFields
    <3>3. QED
      BY <1>2, <3>2 DEF Reached, Writes
  <2>5. QED
    BY <2>2, <2>3, <2>4 DEF Settling, Reached
<1>9. QED
  BY <1>7, <1>8 DEF Settling

LEMMA HandlerSettles ==
  ASSUME IInv, NEW f \in Figures, NEW h \in Handlers, NEW p \in Processes, Handles(h, p),
         Settling(f), Undisturbed(f)
  PROVE  Settling(f)'
<1>1. /\ Begin(h, FiguresOf({p}), Shown(figure, info'))
      /\ UNCHANGED <<endpoints, value, figure, phase, listed, seen>>
      /\ Shows(f)' = Shows(f)
  BY DEF Handles, graph, world, round, Undisturbed
<1>2. /\ h \in Writers
      /\ \A w \in Writers : pass'[w][f] = IF w = h /\ f \in FiguresOf({p})
                                          THEN At("reading", Shown(figure, info')[f])
                                          ELSE pass[w][f]
  BY <1>1, PassesBegin DEF Writers
<1>3. CASE f \notin FiguresOf({p})
  BY <1>1, <1>2, <1>3, SettlesOn
<1>4. CASE f \in FiguresOf({p})
  <2>1. f \in FiguresOf(Processes)
    BY <1>4 DEF FiguresOf
  <2>2. Shown(figure, info')[f] = Shows(f)
    BY <1>1, <2>1, ShownOf DEF Shows
  <2>3. Current(f)'
    BY <1>1, <1>2, <2>2, PassFields DEF Settling, Current
  <2>4. pass'[h][f].step = "reading"
    BY <1>2, <1>4, PassFields
  <2>5. QED
    BY <1>2, <2>3, <2>4 DEF Settling, Reached, Writes
<1>5. QED
  BY <1>3, <1>4

(* Somebody finds, adds, updates or limits the endpoint of a figure.       *)
LEMMA FindsSettles ==
  ASSUME IInv, NEW f \in Figures, NEW u \in Writers, NEW q, Finds(u, q),
         Settling(f), Shows(f)' = Shows(f)
  PROVE  Settling(f)'
<1>1. UNCHANGED <<endpoints, value, phase, listed, seen>>
  BY DEF Finds, graph, round
<1>2. \A w \in Writers :
        pass'[w][f] = IF w = u /\ Parent[f] = q /\ pass[w][f].step = "reading"
                      THEN At(IF Exists(f) THEN "updating" ELSE "adding", pass[w][f].value)
                      ELSE pass[w][f]
  BY DEF Finds, IInv, TypeInv, TypeOK
<1>3. CASE \A w \in Writers : pass'[w][f] = pass[w][f]
  BY <1>1, <1>3, SettlesOn
<1>4. CASE Parent[f] = q /\ pass[u][f].step = "reading"
  <2>1. pass[u][f] # Idle
    BY <1>4, StepOf
  <2>2. Current(f)'
    BY <1>1, <1>2, <2>1, PassFields DEF Settling, Current
  <2>3. pass'[u][f].step = IF Exists(f) THEN "updating" ELSE "adding"
    BY <1>2, <1>4, PassFields
  <2>4. Exists(f)' = Exists(f)
    BY <1>1 DEF Exists
  <2>5. QED
    BY <2>2, <2>3, <2>4 DEF Settling, Reached, Writes
<1>5. QED
  BY <1>2, <1>3, <1>4

LEMMA WritesSettles ==
  ASSUME IInv, NEW f \in Figures, NEW u \in Writers, NEW g \in Figures,
         Adds(u, g) \/ Updates(u, g) \/ LimitsIt(u, g),
         Settling(f), Shows(f)' = Shows(f)
  PROVE  Settling(f)'
<1>1. UNCHANGED <<phase, listed, seen>>
  BY DEF Adds, Updates, LimitsIt, round
<1>2. \A w \in Writers : w # u \/ f # g => pass'[w][f] = pass[w][f]
  BY DEF Adds, Updates, LimitsIt, Goes, IInv, TypeInv, TypeOK
<1>3. CASE f # g
  <2>1. endpoints'[f] = endpoints[f] /\ value'[f] = value[f]
    BY <1>3 DEF Adds, Updates, LimitsIt, IInv, TypeInv, TypeOK
  <2>2. QED
    BY <1>1, <1>2, <1>3, <2>1, SettlesOn
<1>4. CASE f = g
  <2>1. /\ pass[u][f].step \in {"adding", "updating", "limiting"}
        /\ pass[u][f] # Idle /\ pass[u][f].value = Shows(f)
    <3>1. pass[u][f].step \in {"adding", "updating", "limiting"}
      BY <1>4 DEF Adds, Updates, LimitsIt
    <3>2. pass[u][f] # Idle
      BY <3>1, StepOf
    <3>3. QED
      BY <3>1, <3>2 DEF Settling, Current
  <2>2. pass'[u][f] = Idle \/ pass'[u][f] = At("limiting", pass[u][f].value)
    BY <1>4 DEF Adds, Updates, LimitsIt, Goes, Afterwards, IInv, TypeInv, TypeOK
  <2>3. Current(f)'
    <3>1. \A w \in Writers : pass'[w][f] # Idle => pass'[w][f].value = Shows(f)
      BY <1>2, <2>1, <2>2, PassFields DEF Settling, Current
    <3>2. QED
      BY <1>1, <3>1 DEF Settling, Current
  <2>4. CASE Adds(u, g)
    <3>1. pass[u][f].step = "adding" /\ Exists(f)'
      BY <1>4, <2>4 DEF Adds, Exists, IInv, TypeInv, TypeOK
    <3>2. CASE ~Exists(f)
      <4>1. value'[f] = Shows(f)
        BY <1>4, <2>1, <2>4, <3>2 DEF Adds, IInv, TypeInv, TypeOK
      <4>2. QED
        BY <2>3, <3>1, <4>1 DEF Settling, Reached, UpToDate
    <3>3. CASE Exists(f)
      <4>1. value'[f] = value[f]
        BY <1>4, <2>4, <3>3 DEF Adds
      <4>2. \A w \in Writers : Writes(w, f) => Writes(w, f)'
        BY <1>2, <3>1, <3>3 DEF Writes
      <4>3. QED
        BY <1>1, <2>3, <3>1, <4>1, <4>2 DEF Settling, Reached, UpToDate
    <3>4. QED
      BY <3>2, <3>3
  <2>5. CASE Updates(u, g)
    <3>1. Exists(f) /\ endpoints' = endpoints
      BY <1>4, <2>5 DEF Updates, IInv, FoundExist
    <3>2. value'[f] = Shows(f)
      BY <1>4, <2>1, <2>5 DEF Updates, IInv, TypeInv, TypeOK
    <3>3. QED
      BY <2>3, <3>1, <3>2 DEF Settling, Reached, UpToDate, Exists
  <2>6. CASE LimitsIt(u, g)
    <3>1. UNCHANGED <<endpoints, value>> /\ pass[u][f].step = "limiting"
      BY <1>4, <2>6 DEF LimitsIt
    <3>2. \A w \in Writers : Writes(w, f) => Writes(w, f)'
      BY <1>2, <3>1 DEF Writes, Exists
    <3>3. QED
      BY <1>1, <2>3, <3>1, <3>2 DEF Settling, Reached, UpToDate, Exists
  <2>7. QED
    BY <2>4, <2>5, <2>6
<1>5. QED
  BY <1>3, <1>4

LEMMA SettlingStep ==
  ASSUME IInv, [Next]_vars, NEW f \in Figures,
         RoundBegins(f) \/ (Settling(f) /\ Undisturbed(f))
  PROVE  Settling(f)'
<1>1. CASE Lists
  BY <1>1, ListsSettles
<1>2. CASE ~Lists
  <2>1. Settling(f) /\ Undisturbed(f) /\ Shows(f)' = Shows(f) /\ ~Fails /\ ~Dies
    BY <1>2 DEF RoundBegins, Undisturbed, Fails, Dies
  <2>2. CASE MachineDone
    BY <2>1, <2>2, MachineSettles
  <2>3. ASSUME NEW h \in Handlers, NEW p \in Processes, Handles(h, p) PROVE Settling(f)'
    BY <2>1, <2>3, HandlerSettles
  <2>4. ASSUME NEW u \in Writers, NEW q, Finds(u, q) PROVE Settling(f)'
    BY <2>1, <2>4, FindsSettles
  <2>5. ASSUME NEW u \in Writers, NEW g \in Figures,
               Adds(u, g) \/ Updates(u, g) \/ LimitsIt(u, g)
        PROVE  Settling(f)'
    BY <2>1, <2>5, WritesSettles
  <2>6. CASE RoundDone
    <3>1. phase = "processes" /\ phase' = "resting" /\ UNCHANGED <<pass, endpoints, value>>
      BY <2>6 DEF RoundDone, graph
    <3>2. QED
      BY <2>1, <3>1, SettlesOn
  <2>7. CASE UNCHANGED <<phase, listed, seen, pass, endpoints, value>>
    BY <2>1, <2>7, SettlesOn
  <2>8. CASE \/ Calms \/ Sync \/ UNCHANGED vars \/ \E g \in Figures : UpdateMaxDay(g)
             \/ (\E g \in Figures, v \in Values : Changes(g, v)) \/ \E p \in Processes : Runs(p)
    BY <2>7, <2>8 DEF Calms, Sync, UpdateMaxDay, Changes, Runs, vars, round, graph
  <2>9. QED
    BY <1>2, <2>1, <2>2, <2>3, <2>4, <2>5, <2>6, <2>8 DEF Next
<1>3. QED
  BY <1>1, <1>2

(***************************************************************************)
(* A round that begins when no handler still holds an older value brings   *)
(* every figure of its list to its endpoint: as long as the figure stays   *)
(* and the agent lives, either the endpoint shows it or somebody is about  *)
(* to write it, whatever handlers and rounds follow, and when they are at  *)
(* rest the endpoint shows it (startPeriodicMetricsUpdate,                 *)
(* updateOrCreateEndpoint).                                                *)
(***************************************************************************)
RoundsSettle ==
  [][\A f \in Figures : RoundBegins(f) \/ (Settling(f) /\ Undisturbed(f)) =>
       /\ Settling(f)'
       /\ phase' = "resting" /\ (\A w \in Writers : pass'[w][f] = Idle) => UpToDate(f)']_vars

THEOREM FiguresArrive == Spec => RoundsSettle
<1> DEFINE A == \A f \in Figures : RoundBegins(f) \/ (Settling(f) /\ Undisturbed(f)) =>
                 /\ Settling(f)'
                 /\ phase' = "resting" /\ (\A w \in Writers : pass'[w][f] = Idle)
                      => UpToDate(f)'
<1>1. IInv /\ [Next]_vars => [A]_vars
  <2> SUFFICES ASSUME IInv, [Next]_vars, NEW f \in Figures,
                      RoundBegins(f) \/ (Settling(f) /\ Undisturbed(f))
               PROVE  /\ Settling(f)'
                      /\ phase' = "resting" /\ (\A w \in Writers : pass'[w][f] = Idle)
                           => UpToDate(f)'
    OBVIOUS
  <2>1. Settling(f)'
    BY SettlingStep
  <2>2. phase' = "resting" /\ (\A w \in Writers : pass'[w][f] = Idle) => UpToDate(f)'
    BY <2>1, StepOf DEF Settling, Reached, Writes
  <2>3. QED
    BY <2>1, <2>2
<1>2. QED
  BY <1>1, Invariance, PTL DEF Spec, RoundsSettle
=============================================================================
