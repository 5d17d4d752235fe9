--------------------------- MODULE EndpointStore ----------------------------
(***************************************************************************)
(* The endpoints below the machine and below the nodes of its processes,   *)
(* each with the time series of one figure.  The registration makes or     *)
(* updates them when the agent starts, then startPeriodicMetricsUpdate     *)
(* does in rounds, and so do the handlers of PM2's events meanwhile.       *)
(*                                                                         *)
(* A writer is the main flow (registration, then rounds) or a handler.     *)
(* Only the first endpoint of a figure is ever found again, so value and   *)
(* limit are those of the first, and endpoints[f] counts how many there    *)
(* are.  PM2 gives the figures of a process under its pm_id; no process is *)
(* renamed or deleted, as in ProcessGraph, which is about their nodes.     *)
(***************************************************************************)
EXTENDS Naturals

CONSTANTS
  Figures,      \* what endpoints show: a figure of the machine or of a process
  Machine,
  Processes,
  Parent,       \* Parent[f]: the machine or the process whose figure f is
  FromStatus,   \* the figures taken from a node's status (REBOOT, ERRORED)
  Values,       \* bound: the values of figures
  Main,         \* the registration and the loop of rounds
  Handlers,     \* bound: handlers of PM2 events at work at a time
  None,         \* no limit or value, or one this agent has not set
  CanFail       \* calls may fail and the agent may die

ASSUME EndpointAssumption == /\ Machine \notin Processes
                             /\ Parent \in [Figures -> Processes \cup {Machine}]
                             /\ FromStatus \subseteq {f \in Figures : Parent[f] # Machine}
                             /\ Main \notin Handlers
                             /\ None \notin {"refused", "default", "chosen"} /\ None \notin Values
                             /\ CanFail \in BOOLEAN

VARIABLES
  figure,       \* figure[f]: what the system or PM2 says
  running,      \* the processes PM2 runs
  phase,        \* where the main flow is
  starting,     \* the registration has not ended (isInit)
  listed,       \* the processes of the list the round works with
  seen,         \* seen[f]: the figures of the list, until they are used
  known,        \* the processes that have a node
  info,         \* info[f]: the status in the info of a process's node
  endpoints,    \* endpoints[f]: how many endpoints there are for f
  value,        \* value[f]: currentValue of the first, as far as this agent set it
  limit,        \* limit[f]: "timeSeries maxDay" of the first, likewise
  pass,         \* pass[w][f]: what writer w is doing for f
  hub,          \* the nodes and the endpoints the hub has
  registered,   \* the parents the registration has gone through
  failing       \* calls still fail and the agent still dies now and then

world == <<figure, running, failing>>
round == <<phase, starting, listed, seen, registered>>
graph == <<endpoints, value, limit>>
vars == <<world, round, known, info, graph, pass, hub>>

Writers == Handlers \cup {Main}
Limits == {None, "refused", "default", "chosen"}
Idle == [step |-> "idle"]
At(step, v) == [step |-> step, value |-> v]
Passes == {Idle} \cup [step : {"reading", "adding", "updating", "limiting"}, value : Values]

FiguresOf(parents) == {f \in Figures : Parent[f] \in parents}

Done(w) == \A f \in Figures : pass[w][f] = Idle

Nothing(figures) == [f \in figures |-> None]

NoPasses == [w \in Writers |-> [f \in Figures |-> Idle]]

Init == /\ figure \in [Figures -> Values]
        /\ running \in SUBSET Processes
        /\ phase = "down"
        /\ starting = TRUE
        /\ listed = {}
        /\ seen = Nothing(FiguresOf(Processes))
        /\ known = {}
        /\ info = Nothing(FromStatus)
        /\ endpoints = [f \in Figures |-> 0]
        /\ value = Nothing(Figures)
        /\ limit = Nothing(Figures)
        /\ pass = NoPasses
        /\ hub = [known |-> {}, endpoints |-> endpoints]
        /\ registered = {}
        /\ failing = CanFail

-----------------------------------------------------------------------------
(* The machine and PM2.                                                    *)
Changes(f, v) ==
  /\ figure' = [figure EXCEPT ![f] = v]
  /\ UNCHANGED <<running, failing, round, known, info, graph, pass, hub>>

Runs(p) ==
  /\ p \notin running
  /\ running' = running \cup {p}
  /\ UNCHANGED <<figure, failing, round, known, info, graph, pass, hub>>

Calms ==
  /\ failing
  /\ failing' = FALSE
  /\ UNCHANGED <<figure, running, round, known, info, graph, pass, hub>>

-----------------------------------------------------------------------------
(* The passes of writer w for some figures begin: getChildren is awaited.  *)
Begin(w, figures, values) ==
  pass' = [pass EXCEPT ![w] = [f \in Figures |-> IF f \in figures
                                                 THEN At("reading", values[f])
                                                 ELSE @[f]]]

(* A round has read the system's figures and PM2 has answered with its     *)
(* list; the machine's endpoints begin.  The registration does the same.   *)
(* An error of PM2 counts as an empty list.                                *)
Lists ==
  /\ phase \in {"down", "resting"}
  /\ phase' = "machine"
  /\ listed' \in {running} \cup (IF failing THEN {{}} ELSE {})
  /\ seen' = [f \in FiguresOf(Processes) |-> figure[f]]
  /\ Begin(Main, FiguresOf({Machine}), figure)
  /\ UNCHANGED <<world, starting, registered, known, info, graph, hub>>

(* The status in the info of the nodes of some processes becomes what PM2  *)
(* has said of them.                                                       *)
Informed(processes, said) ==
  info' = [f \in FromStatus |-> IF Parent[f] \in processes THEN said[f] ELSE info[f]]

(* What goes to the endpoints of processes whose figures PM2 has given:    *)
(* these, but the status that their nodes have.                            *)
Shown(said, statuses) ==
  [f \in FiguresOf(Processes) |-> IF f \in FromStatus THEN statuses[f] ELSE said[f]]

(* The endpoints go with the nodes of some processes.                      *)
Removed(processes) ==
  /\ endpoints' = [f \in Figures |-> IF Parent[f] \in processes THEN 0 ELSE endpoints[f]]
  /\ value' = [f \in Figures |-> IF Parent[f] \in processes THEN None ELSE value[f]]
  /\ limit' = [f \in Figures |-> IF Parent[f] \in processes THEN None ELSE limit[f]]

(* The machine's endpoints are done, and those of the listed processes     *)
(* that have a node begin.  The registration first makes the nodes the     *)
(* list asks for, takes over the status and removes the other nodes; a     *)
(* round does not (_updateInfo).                                           *)
MachineDone ==
  /\ phase = "machine"
  /\ Done(Main)
  /\ phase' = "processes"
  /\ known' = IF starting THEN listed ELSE known
  /\ Removed(known \ known')
  /\ Informed(IF starting THEN listed ELSE {}, seen)
  /\ Begin(Main, FiguresOf(listed \cap known'), Shown(seen, info'))
  /\ seen' = Nothing(FiguresOf(Processes))
  /\ UNCHANGED <<world, starting, listed, registered, hub>>

(* Bug: the endpoints of the processes are not awaited.                    *)
RoundDoneEarly ==
  /\ phase = "processes"
  /\ phase' = "resting"
  /\ starting' = FALSE
  /\ listed' = {}
  /\ registered' = IF starting THEN listed \cup {Machine} ELSE registered
  /\ UNCHANGED <<world, seen, known, info, graph, pass, hub>>

(* Bug: the rounds end, as a for loop over a number of them.               *)
RoundIsLast ==
  /\ phase = "processes"
  /\ Done(Main)
  /\ phase' = IF starting THEN "resting" ELSE "over"
  /\ starting' = FALSE
  /\ listed' = {}
  /\ registered' = IF starting THEN listed \cup {Machine} ELSE registered
  /\ UNCHANGED <<world, seen, known, info, graph, pass, hub>>

RoundDone ==
  /\ phase = "processes"
  /\ Done(Main)
  /\ phase' = "resting"
  /\ starting' = FALSE
  /\ listed' = {}
  /\ registered' = IF starting THEN listed \cup {Machine} ELSE registered
  /\ UNCHANGED <<world, seen, known, info, graph, pass, hub>>

(* handlePm2Event: what PM2 says of p goes into the info of p's node,      *)
(* which is made if there is none, and from there to the endpoints.        *)
Handles(h, p) ==
  /\ ~starting
  /\ Done(h)
  /\ p \in running
  /\ known' = known \cup {p}
  /\ Informed({p}, figure)
  /\ Begin(h, FiguresOf({p}), Shown(figure, info'))
  /\ UNCHANGED <<world, round, graph, hub>>

-----------------------------------------------------------------------------
(* Bug: the first endpoint is not found, as with an index that begins at 1.*)
ExistsAfterFirst(f) == endpoints[f] > 1

Exists(f) == endpoints[f] > 0

(* The endpoints of parent q are read; for each figure its endpoint is     *)
(* looked for and updated or made, which takes another await.              *)
Finds(w, q) ==
  /\ \E f \in FiguresOf({q}) : pass[w][f].step = "reading"
  /\ pass' = [pass EXCEPT ![w] =
       [f \in Figures |->
          IF Parent[f] = q /\ @[f].step = "reading"
          THEN At(IF Exists(f) THEN "updating" ELSE "adding", @[f].value)
          ELSE @[f]]]
  /\ UNCHANGED <<world, round, known, info, graph, hub>>

(* Bug: the limit is set for new endpoints only.                           *)
AfterwardsIfNew(w, f, was) ==
  IF w = Main /\ starting /\ was.step = "adding" THEN At("limiting", was.value) ELSE Idle

(* The registration goes on to set the limit (_updateMaxDayIfInit).        *)
Afterwards(w, f, was) ==
  IF w = Main /\ starting THEN At("limiting", was.value) ELSE Idle

Goes(w, f) == pass' = [pass EXCEPT ![w][f] = Afterwards(w, f, @)]

(* createNewBmsEndpoint has added its node to the list of children.        *)
Adds(w, f) ==
  /\ pass[w][f].step = "adding"
  /\ endpoints' = [endpoints EXCEPT ![f] = @ + 1]
  /\ value' = IF Exists(f) THEN value ELSE [value EXCEPT ![f] = pass[w][f].value]
  /\ Goes(w, f)
  /\ UNCHANGED <<world, round, known, info, limit, hub>>

(* updateEndpoint has the first endpoint's model.                          *)
Updates(w, f) ==
  /\ pass[w][f].step = "updating"
  /\ value' = [value EXCEPT ![f] = pass[w][f].value]
  /\ Goes(w, f)
  /\ UNCHANGED <<world, round, known, info, endpoints, limit, hub>>

(* updateEndpointMaxDay swallows its errors; "refused" is a limit that is  *)
(* missing because of one.                                                 *)
LimitsIt(w, f) ==
  /\ pass[w][f].step = "limiting"
  /\ \/ limit' = [limit EXCEPT ![f] = "default"]
     \/ /\ failing
        /\ limit' = [limit EXCEPT ![f] = IF @ = None THEN "refused" ELSE @]
  /\ pass' = [pass EXCEPT ![w][f] = Idle]
  /\ UNCHANGED <<world, round, known, info, endpoints, value, hub>>

(* A client of the API chooses a limit.                                    *)
UpdateMaxDay(f) ==
  /\ ~starting
  /\ Exists(f)
  /\ limit' = [limit EXCEPT ![f] = "chosen"]
  /\ UNCHANGED <<world, round, known, info, endpoints, value, pass, hub>>

-----------------------------------------------------------------------------
(* A call of the registration fails; main catches the error, and what was  *)
(* begun beside that call goes on.                                         *)
Fails ==
  /\ failing
  /\ starting /\ phase \notin {"down", "failed"}
  /\ phase' = "failed"
  /\ pass' \in {[pass EXCEPT ![Main][f] = Idle] : f \in Figures}
  /\ UNCHANGED <<world, starting, listed, seen, registered, known, info, graph, hub>>

(* The agent dies, also of a call that fails after the registration: no    *)
(* one handles the rejection of a round or of a handler.  A failed agent   *)
(* is restarted by the operator.  The hub's copy is what remains.          *)
Dies ==
  /\ failing \/ phase = "failed"
  /\ phase' = "down"
  /\ starting' = TRUE
  /\ registered' = {}
  /\ pass' = NoPasses
  /\ known' = hub.known
  /\ endpoints' = hub.endpoints
  /\ value' = Nothing(Figures)
  /\ limit' = Nothing(Figures)
  /\ info' = Nothing(FromStatus)
  /\ listed' = {}
  /\ seen' = Nothing(FiguresOf(Processes))
  /\ UNCHANGED <<world, hub>>

Sync ==
  /\ hub' = [known |-> known, endpoints |-> endpoints]
  /\ UNCHANGED <<world, round, known, info, graph, pass>>

Next == \/ \E f \in Figures, v \in Values : Changes(f, v)
        \/ \E p \in Processes : Runs(p) \/ \E h \in Handlers : Handles(h, p)
        \/ Calms \/ Lists \/ MachineDone \/ RoundDone
        \/ \E w \in Writers : \/ \E q \in Processes \cup {Machine} : Finds(w, q)
                              \/ \E f \in Figures : \/ Adds(w, f) \/ Updates(w, f)
                                                    \/ LimitsIt(w, f)
        \/ \E f \in Figures : UpdateMaxDay(f)
        \/ Fails \/ Dies \/ Sync

Spec == Init /\ [][Next]_vars

(* Node.js runs what is ready; the system, PM2 and the hub answer, and the *)
(* pause between two rounds ends.                                          *)
Fairness ==
  /\ WF_vars(Lists) /\ WF_vars(MachineDone) /\ WF_vars(RoundDone)
  /\ \A w \in Writers :
       /\ \A q \in Processes \cup {Machine} : WF_vars(Finds(w, q))
       /\ \A f \in Figures : WF_vars(Adds(w, f) \/ Updates(w, f) \/ LimitsIt(w, f))

FairSpec == Spec /\ Fairness

-----------------------------------------------------------------------------
(* The variables keep their types, and no handler is at work before the    *)
(* registration has ended.                                                 *)
TypeOK ==
  /\ figure \in [Figures -> Values] /\ running \in SUBSET Processes
  /\ phase \in {"down", "machine", "processes", "resting", "failed"}
  /\ starting \in BOOLEAN /\ failing \in BOOLEAN
  /\ listed \in SUBSET Processes /\ seen \in [FiguresOf(Processes) -> Values \cup {None}]
  /\ known \in SUBSET Processes /\ info \in [FromStatus -> Values \cup {None}]
  /\ endpoints \in [Figures -> Nat] /\ value \in [Figures -> Values \cup {None}]
  /\ limit \in [Figures -> Limits]
  /\ pass \in [Writers -> [Figures -> Passes]]
  /\ hub \in [known : SUBSET Processes, endpoints : [Figures -> Nat]]
  /\ registered \in SUBSET (Processes \cup {Machine})
  /\ starting => \A h \in Handlers : Done(h)

(* The loop awaits each update ("use while to not have overlapping         *)
(* updates", index.ts), and the registration comes before it: a figure of  *)
(* the machine never has two endpoints, wherever the agent dies.           *)
OneMachineEndpoint == \A f \in FiguresOf({Machine}) : endpoints[f] <= 1

(* Handlers and rounds may meet and give a new process's figure two        *)
(* endpoints (updateOrCreateEndpoint looks, then adds); those of processes *)
(* the registration has gone through are never doubled.                    *)
RegisteredNotDoubled ==
  [][\A f \in FiguresOf(registered) : registered' # {} => endpoints'[f] = endpoints[f]]_vars

(* Whatever earlier lives of the agent have left, after the registration   *)
(* its endpoints have a limit, so that their series do not grow for ever,  *)
(* unless it could not be written (_updateMaxDayIfInit).                   *)
RegisteredLimited ==
  ~starting => \A f \in FiguresOf(registered) : limit[f] # None

(* The limit a client has chosen is kept by the rounds and the handlers,   *)
(* until the agent starts again.                                           *)
ChosenIsKept ==
  [][\A f \in Figures : ~starting /\ limit[f] = "chosen" /\ ~starting' => limit'[f] = "chosen"]_vars

(* When nothing fails any more, what an endpoint shows settles on its      *)
(* figure, however late the writers with older figures are.  For a status  *)
(* this is what the node's info says: rounds do not ask PM2 for it.        *)
Shows(f) == IF f \in FromStatus THEN info[f] ELSE figure[f]

ValuesSettle ==
  \A f \in Figures :
    /\ <>[](~failing /\ phase # "failed" /\ Parent[f] \in known \cup {Machine})
    /\ <>[][Shows(f)' = Shows(f)]_vars
    => <>[](value[f] = Shows(f))
=============================================================================
