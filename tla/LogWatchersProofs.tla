------------------------- MODULE LogWatchersProofs --------------------------
(***************************************************************************)
(* Proofs about LogWatchers for any logs, overlapping syncs and watchers.  *)
(***************************************************************************)
EXTENDS LogWatchers, TLAPS

(***************************************************************************)
(* The inductive invariant of overlapping syncs.                           *)
(***************************************************************************)
IInv == TypeOK /\ MapIsAlive

MapOK(map, living) ==
  /\ map \in [Keys -> Watchers \cup {None}]
  /\ living \in [Watchers -> Keys \cup {None}]
  /\ \A k \in Keys : map[k] # None => living[map[k]] = k

(***************************************************************************)
(* Closing what is not wanted keeps the map and the live watchers in step. *)
(***************************************************************************)
LEMMA PruneKeeps ==
  ASSUME NEW wanted \in SUBSET Keys, NEW map, NEW living, MapOK(map, living),
         Prune(wanted, map, living)
  PROVE  MapOK(logsWatcher', alive')
<1> DEFINE closed == {map[k] : k \in Keys \ wanted}
<1>1. /\ alive' = [w \in Watchers |-> IF w \in closed THEN None ELSE living[w]]
      /\ logsWatcher' = [k \in Keys |-> IF k \in wanted THEN map[k] ELSE None]
  BY DEF Prune
<1>2. ASSUME NEW k \in Keys, logsWatcher'[k] # None
      PROVE  alive'[logsWatcher'[k]] = k
  <2>1. k \in wanted /\ logsWatcher'[k] = map[k] /\ map[k] \in Watchers /\ living[map[k]] = k
    BY <1>1, <1>2 DEF MapOK
  <2>2. map[k] \notin closed
    <3> SUFFICES ASSUME NEW j \in Keys \ wanted, map[k] = map[j] PROVE FALSE
      OBVIOUS
    <3>1. living[map[j]] = j
      BY <2>1, WatchersAssumption DEF MapOK
    <3> QED BY <2>1, <3>1
  <2> QED BY <1>1, <2>1, <2>2
<1>3. /\ logsWatcher' \in [Keys -> Watchers \cup {None}]
      /\ alive' \in [Watchers -> Keys \cup {None}]
  BY <1>1 DEF MapOK
<1> QED BY <1>2, <1>3 DEF MapOK

(***************************************************************************)
(* The loop of a sync, entered with a map and watchers in step.            *)
(***************************************************************************)
LEMMA ProceedKeeps ==
  ASSUME IInv, NEW s \in Syncs, NEW map, NEW living, MapOK(map, living),
         phase[s] \in {"listed", "creating"},
         Proceed(s, todo[s], map, living)
  PROVE  /\ MapOK(logsWatcher', alive')
         /\ phase' \in [Syncs -> Phases]
         /\ listed' \in [Syncs -> SUBSET Keys]
         /\ todo' \in [Syncs -> SUBSET Keys]
         /\ creating' \in [Syncs -> Keys \cup {None}]
         /\ \A t \in Syncs : /\ todo'[t] \subseteq listed'[t]
                             /\ creating'[t] # None <=> phase'[t] = "creating"
                             /\ creating'[t] \in listed'[t] \cup {None}
                             /\ creating'[t] \notin todo'[t]
<1> USE DEF IInv, TypeOK, Phases
<1>1. CASE \E k \in Missing(todo[s], map) :
             /\ phase' = [phase EXCEPT ![s] = "creating"]
             /\ creating' = [creating EXCEPT ![s] = k]
             /\ \E passed \in SUBSET (todo[s] \ Missing(todo[s], map)) :
                  todo' = [todo EXCEPT ![s] = Rest(todo[s], k) \ passed]
             /\ alive' = living
             /\ logsWatcher' = map
             /\ UNCHANGED listed
  <2>1. PICK k \in Missing(todo[s], map) :
             /\ phase' = [phase EXCEPT ![s] = "creating"]
             /\ creating' = [creating EXCEPT ![s] = k]
             /\ \E passed \in SUBSET (todo[s] \ Missing(todo[s], map)) :
                  todo' = [todo EXCEPT ![s] = Rest(todo[s], k) \ passed]
             /\ alive' = living
             /\ logsWatcher' = map
             /\ UNCHANGED listed
    BY <1>1
  <2>2. PICK rest \in SUBSET todo[s] : /\ todo' = [todo EXCEPT ![s] = rest]
                                       /\ k \notin rest
    BY <2>1 DEF Rest
  <2>3. k \in todo[s] /\ k \in Keys /\ k # None
    BY WatchersAssumption DEF Missing
  <2> QED BY <2>1, <2>2, <2>3
<1>2. CASE /\ phase' = [phase EXCEPT ![s] = "idle"]
           /\ creating' = [creating EXCEPT ![s] = None]
           /\ todo' = [todo EXCEPT ![s] = {}]
           /\ listed' = [listed EXCEPT ![s] = {}]
           /\ Prune(listed[s], map, living)
  <2>1. MapOK(logsWatcher', alive')
    BY <1>2, PruneKeeps
  <2> QED BY <1>2, <2>1
<1> QED BY <1>1, <1>2 DEF Proceed

LEMMA IInvInit == Init => IInv
<1> SUFFICES ASSUME Init PROVE IInv
  OBVIOUS
<1>1. /\ event \in BOOLEAN /\ watching \in BOOLEAN /\ timer \in BOOLEAN
      /\ overlapped \in BOOLEAN /\ failing \in BOOLEAN
  BY WatchersAssumption, Zenon DEF Init
<1> QED BY <1>1, WatchersAssumption DEF Init, IInv, TypeOK, MapIsAlive, Phases

LEMMA IInvStep == IInv /\ [Next]_vars => IInv'
<1> SUFFICES ASSUME IInv, [Next]_vars PROVE IInv'
  OBVIOUS
<1>0. MapOK(logsWatcher, alive)
  BY DEF IInv, TypeOK, MapIsAlive, MapOK
<1>a. ASSUME BeginSync, UNCHANGED <<logsWatcher, alive>>
      PROVE  /\ phase' \in [Syncs -> Phases] /\ UNCHANGED <<listed, todo, creating>>
             /\ overlapped' \in BOOLEAN
             /\ \A t \in Syncs : phase'[t] = "creating" <=> phase[t] = "creating"
  BY <1>a DEF BeginSync, IInv, TypeOK, Phases
<1>1. ASSUME NEW k \in Keys, ProcessChanges(k) PROVE IInv'
  BY <1>1 DEF ProcessChanges, syncVars, IInv, TypeOK, MapIsAlive
<1>2. CASE Calms \/ OtherEvent \/ BusOpens \/ BusFails \/ BusEvent
  BY <1>2 DEF Calms, OtherEvent, BusOpens, BusFails, BusEvent, syncVars, IInv, TypeOK, MapIsAlive
<1>3. CASE TimerFires
  BY <1>3, <1>a DEF TimerFires, IInv, TypeOK, MapIsAlive
<1>4. CASE WatchPm2Logs
  BY <1>4, <1>a DEF WatchPm2Logs, IInv, TypeOK, MapIsAlive
<1>5. CASE StopWatchingPm2Logs
  BY <1>5 DEF StopWatchingPm2Logs, syncVars, IInv, TypeOK, MapIsAlive
<1>6. ASSUME NEW s \in Syncs, Answers(s) PROVE IInv'
  <2>1. PICK answer \in SUBSET Keys : /\ listed' = [listed EXCEPT ![s] = answer]
                                      /\ todo' = [todo EXCEPT ![s] = answer]
    BY <1>6 DEF Answers, IInv, TypeOK
  <2>2. creating[s] = None /\ None \notin Keys
    BY <1>6, WatchersAssumption DEF Answers, IInv, TypeOK
  <2> QED BY <1>6, <2>1, <2>2 DEF Answers, IInv, TypeOK, MapIsAlive, Phases
<1>7. ASSUME NEW s \in Syncs, Starts(s) PROVE IInv'
  BY <1>0, <1>7, ProceedKeeps DEF Starts, IInv, TypeOK, MapIsAlive, MapOK
<1>8. ASSUME NEW s \in Syncs, Creates(s) PROVE IInv'
  <2>1. PICK w \in Watchers :
          /\ alive[w] = None
          /\ Proceed(s, todo[s], [logsWatcher EXCEPT ![creating[s]] = w],
                     [alive EXCEPT ![w] = creating[s]])
    BY <1>8 DEF Creates
  <2>2. creating[s] \in Keys /\ phase[s] = "creating"
    BY <1>8 DEF Creates, IInv, TypeOK
  <2>3. MapOK([logsWatcher EXCEPT ![creating[s]] = w], [alive EXCEPT ![w] = creating[s]])
    <3>1. \A k \in Keys : logsWatcher[k] # w
      BY <1>0, <2>1, WatchersAssumption DEF MapOK
    <3> QED BY <1>0, <2>1, <2>2, <3>1 DEF MapOK
  <2> DEFINE map == [logsWatcher EXCEPT ![creating[s]] = w]
             living == [alive EXCEPT ![w] = creating[s]]
  <2>4. MapOK(map, living) /\ Proceed(s, todo[s], map, living)
    BY <2>1, <2>3
  <2> HIDE DEF map, living
  <2>5. UNCHANGED <<failing, overlapped, up, bus, event, watching, timer>>
    BY <1>8 DEF Creates
  <2> QED BY <2>2, <2>4, <2>5, ProceedKeeps DEF IInv, TypeOK, MapIsAlive, MapOK
<1>9. ASSUME NEW s \in Syncs, WatchThrows(s) PROVE IInv'
  BY <1>9 DEF WatchThrows, IInv, TypeOK, MapIsAlive, Phases
<1>10. CASE UNCHANGED vars
  BY <1>10 DEF vars, syncVars, IInv, TypeOK, MapIsAlive
<1> QED BY <1>1, <1>2, <1>3, <1>4, <1>5, <1>6, <1>7, <1>8, <1>9, <1>10 DEF Next

LEMMA Invariance == Spec => []IInv
BY IInvInit, IInvStep, PTL DEF Spec

(***************************************************************************)
(* The variables of the log watchers keep their types, and a sync never    *)
(* has to do again what it is doing.                                       *)
(***************************************************************************)
THEOREM TypeCorrect == Spec => []TypeOK
<1>1. IInv => TypeOK
  BY DEF IInv
<1> QED BY Invariance, <1>1, PTL

(***************************************************************************)
(* However many syncs overlap, logsWatcher holds live watchers only, each  *)
(* of the log it is kept for.                                              *)
(***************************************************************************)
THEOREM MapStaysAlive == Spec => []MapIsAlive
<1>1. IInv => MapIsAlive
  BY DEF IInv
<1> QED BY Invariance, <1>1, PTL

-----------------------------------------------------------------------------
(***************************************************************************)
(* What one sync at a time adds: no other is in progress, and it makes     *)
(* only watchers that are still missing when they are made.                *)
(***************************************************************************)
OneSync == \A s, t \in Syncs : phase[s] # "idle" /\ phase[t] # "idle" => s = t

CreatesMissing == \A s \in Syncs : creating[s] # None => logsWatcher[creating[s]] = None

InMap == \A w \in Watchers : alive[w] # None => logsWatcher[alive[w]] = w

Found(map, living) == \A w \in Watchers : living[w] # None => map[living[w]] = w

LEMMA ProceedFinds ==
  ASSUME OneSync, IInv, NEW s \in Syncs, phase[s] # "idle", NEW map, NEW living,
         MapOK(map, living), Found(map, living),
         Proceed(s, todo[s], map, living)
  PROVE  InMap' /\ CreatesMissing' /\ OneSync'
<1> USE DEF IInv, TypeOK
<1>0. \A t \in Syncs : t # s => phase[t] = "idle" /\ creating[t] = None
  BY DEF OneSync
<1>1. ASSUME NEW k \in Missing(todo[s], map),
             phase' = [phase EXCEPT ![s] = "creating"],
             creating' = [creating EXCEPT ![s] = k],
             alive' = living, logsWatcher' = map
      PROVE  InMap' /\ CreatesMissing' /\ OneSync'
  <2>1. map[k] = None
    BY <1>1 DEF Missing
  <2>2. \A t \in Syncs : creating'[t] \in {k, None}
    BY <1>0, <1>1
  <2> QED BY <1>0, <1>1, <2>1, <2>2 DEF Found, InMap, CreatesMissing, OneSync
<1>2. ASSUME phase' = [phase EXCEPT ![s] = "idle"],
             creating' = [creating EXCEPT ![s] = None],
             Prune(listed[s], map, living)
      PROVE  InMap' /\ CreatesMissing' /\ OneSync'
  <2>1. \A t \in Syncs : creating'[t] = None
    BY <1>0, <1>2
  <2> DEFINE closed == {map[k] : k \in Keys \ listed[s]}
  <2>2. /\ alive' = [w \in Watchers |-> IF w \in closed THEN None ELSE living[w]]
        /\ logsWatcher' = [k \in Keys |-> IF k \in listed[s] THEN map[k] ELSE None]
    BY <1>2 DEF Prune
  <2>3. ASSUME NEW w \in Watchers, alive'[w] # None PROVE logsWatcher'[alive'[w]] = w
    <3>1. w \notin closed /\ alive'[w] = living[w]
      BY <2>2, <2>3
    <3>2. living[w] \in Keys /\ map[living[w]] = w
      BY <2>3, <3>1 DEF MapOK, Found
    <3>3. living[w] \in listed[s]
      BY <3>1, <3>2
    <3> QED BY <2>2, <3>1, <3>2, <3>3
  <2> QED BY <1>0, <1>2, <2>1, <2>3 DEF InMap, CreatesMissing, OneSync
<1> QED BY <1>1, <1>2 DEF Proceed

(***************************************************************************)
(* Once two syncs have overlapped, they have.                              *)
(***************************************************************************)
LEMMA OverlapStays == ASSUME IInv, [Next]_vars PROVE overlapped => overlapped'
<1>1. CASE WatchPm2Logs \/ TimerFires
  BY <1>1, Zenon DEF WatchPm2Logs, TimerFires, BeginSync
<1>2. CASE (\E k \in Keys : ProcessChanges(k)) \/ Calms \/ OtherEvent \/ BusOpens
           \/ BusFails \/ BusEvent \/ StopWatchingPm2Logs \/ UNCHANGED vars
  BY <1>2 DEF ProcessChanges, Calms, OtherEvent, BusOpens, BusFails, BusEvent,
     StopWatchingPm2Logs, vars, syncVars
<1>3. CASE \E s \in Syncs : Answers(s) \/ Starts(s) \/ Creates(s) \/ WatchThrows(s)
  BY <1>3 DEF Answers, Starts, Creates, WatchThrows
<1> QED BY <1>1, <1>2, <1>3 DEF Next

(***************************************************************************)
(* As long as no two syncs have overlapped, no live watcher is out of the  *)
(* map: the sync that makes one is the only one that could have made it    *)
(* since it looked.                                                        *)
(***************************************************************************)
Alone == ~overlapped => InMap /\ CreatesMissing /\ OneSync

LEMMA AloneInit == Init => Alone
BY DEF Init, Alone, InMap, CreatesMissing, OneSync

LEMMA AloneStep == IInv /\ Alone /\ [Next]_vars => Alone'
<1> SUFFICES ASSUME IInv, [Next]_vars, ~overlapped', ~overlapped,
                    InMap, CreatesMissing, OneSync
             PROVE  (InMap /\ CreatesMissing /\ OneSync)'
  BY OverlapStays DEF Alone
<1>0. MapOK(logsWatcher, alive) /\ Found(logsWatcher, alive)
  BY DEF IInv, TypeOK, MapIsAlive, MapOK, InMap, Found
<1>1. ASSUME UNCHANGED <<logsWatcher, alive, creating, phase>>
      PROVE  (InMap /\ CreatesMissing /\ OneSync)'
  BY <1>1 DEF InMap, CreatesMissing, OneSync
<1>2. CASE (\E k \in Keys : ProcessChanges(k)) \/ Calms \/ OtherEvent \/ BusOpens
           \/ BusFails \/ BusEvent \/ UNCHANGED vars
  BY <1>1, <1>2 DEF ProcessChanges, Calms, OtherEvent, BusOpens, BusFails, BusEvent,
     vars, syncVars
<1>3. CASE TimerFires \/ WatchPm2Logs
  <2>1. BeginSync /\ UNCHANGED <<logsWatcher, alive, creating>>
    BY <1>3 DEF TimerFires, WatchPm2Logs, BeginSync
  <2>2. \A s \in Syncs : phase[s] = "idle"
    BY <2>1 DEF BeginSync
  <2>3. PICK s \in Syncs : phase' = [phase EXCEPT ![s] = "listing"]
    BY <2>1 DEF BeginSync
  <2>4. OneSync'
    BY <2>2, <2>3 DEF OneSync, IInv, TypeOK
  <2> QED BY <2>1, <2>4 DEF InMap, CreatesMissing
<1>4. CASE StopWatchingPm2Logs
  <2>1. /\ alive' = [w \in Watchers |-> IF w \in Range(logsWatcher) THEN None ELSE alive[w]]
        /\ logsWatcher' = [k \in Keys |-> None] /\ creating' = creating
        /\ phase' = phase
    BY <1>4 DEF StopWatchingPm2Logs, syncVars
  <2>2. \A w \in Watchers : alive[w] # None => w \in Range(logsWatcher)
    BY DEF InMap, IInv, TypeOK, Range
  <2>3. \A w \in Watchers : alive'[w] = None
    BY <2>1, <2>2
  <2>4. CreatesMissing' /\ OneSync'
    BY <2>1 DEF CreatesMissing, OneSync, IInv, TypeOK
  <2> QED BY <2>3, <2>4 DEF InMap
<1>5. ASSUME NEW s \in Syncs, Answers(s) \/ WatchThrows(s)
      PROVE  (InMap /\ CreatesMissing /\ OneSync)'
  <2>1. UNCHANGED <<logsWatcher, alive>> /\ \A t \in Syncs : creating'[t] \in {creating[t], None}
    BY <1>5 DEF Answers, WatchThrows, IInv, TypeOK
  <2>2. phase[s] # "idle" /\ \A t \in Syncs : t # s => phase'[t] = phase[t]
    BY <1>5 DEF Answers, WatchThrows, IInv, TypeOK
  <2> QED BY <2>1, <2>2 DEF InMap, CreatesMissing, OneSync
<1>6. ASSUME NEW s \in Syncs, Starts(s) PROVE (InMap /\ CreatesMissing /\ OneSync)'
  BY <1>0, <1>6, ProceedFinds DEF Starts
<1>7. ASSUME NEW s \in Syncs, Creates(s) PROVE (InMap /\ CreatesMissing /\ OneSync)'
  <2> DEFINE map(w) == [logsWatcher EXCEPT ![creating[s]] = w]
             living(w) == [alive EXCEPT ![w] = creating[s]]
  <2>1. PICK w \in Watchers : alive[w] = None /\ Proceed(s, todo[s], map(w), living(w))
    BY <1>7 DEF Creates
  <2>2. /\ creating[s] \in Keys /\ creating[s] # None /\ logsWatcher[creating[s]] = None
        /\ phase[s] # "idle"
    BY <1>7, WatchersAssumption DEF Creates, IInv, TypeOK, CreatesMissing
  <2>3. \A k \in Keys : logsWatcher[k] # w
    BY <1>0, <2>1, WatchersAssumption DEF MapOK
  <2>4. MapOK(map(w), living(w))
    BY <1>0, <2>1, <2>2, <2>3 DEF MapOK
  <2>5. Found(map(w), living(w))
    BY <1>0, <2>1, <2>2, WatchersAssumption DEF Found, MapOK
  <2> HIDE DEF map, living
  <2> QED BY <2>1, <2>2, <2>4, <2>5, ProceedFinds
<1> QED BY <1>2, <1>3, <1>4, <1>5, <1>6, <1>7 DEF Next

THEOREM NeverLeaks == Spec => []NoLeak
<1>1. Alone => NoLeak
  BY DEF Alone, InMap, NoLeak
<1> QED BY <1>1, AloneInit, AloneStep, Invariance, PTL DEF Spec

-----------------------------------------------------------------------------
(***************************************************************************)
(* What a sync has passed is watched: in an agent that never stops         *)
(* watching, and while no two syncs have overlapped, nobody closes it      *)
(* behind the sync's back.                                                 *)
(***************************************************************************)
Passed(s) == {k \in listed[s] : k \notin todo[s] /\ k # creating[s]}

PassedAreWatched ==
  ~overlapped /\ ~Reused =>
    \A s \in Syncs : /\ phase[s] = "listed" => todo[s] = listed[s]
                     /\ phase[s] = "creating" => \A k \in Passed(s) : logsWatcher[k] # None

(***************************************************************************)
(* The loop of a sync, entered with a map that has what it has passed: it  *)
(* stops at the next log that is missing, or leaves what was listed.       *)
(***************************************************************************)
LEMMA ProceedPasses ==
  ASSUME IInv, NEW s \in Syncs, NEW map \in [Keys -> Watchers \cup {None}], NEW living,
         \A k \in listed[s] \ todo[s] : map[k] # None,
         Proceed(s, todo[s], map, living)
  PROVE  /\ \/ /\ phase'[s] = "creating"
               /\ \A k \in Passed(s)' : logsWatcher'[k] # None
            \/ /\ phase'[s] = "idle"
               /\ {k \in Keys : logsWatcher'[k] # None} = listed[s]
         /\ \A t \in Syncs : t # s => phase'[t] = phase[t]
<1> USE DEF IInv, TypeOK
<1>1. ASSUME NEW k \in Missing(todo[s], map),
             phase' = [phase EXCEPT ![s] = "creating"],
             creating' = [creating EXCEPT ![s] = k],
             NEW passed \in SUBSET (todo[s] \ Missing(todo[s], map)),
             todo' = [todo EXCEPT ![s] = Rest(todo[s], k) \ passed],
             logsWatcher' = map, UNCHANGED listed
      PROVE  phase'[s] = "creating" /\ \A j \in Passed(s)' : logsWatcher'[j] # None
  <2>1. /\ creating'[s] = k /\ listed'[s] = listed[s] /\ phase'[s] = "creating"
        /\ todo'[s] = (todo[s] \ {k}) \ passed
    BY <1>1 DEF Rest
  <2>2. \A j \in passed : map[j] # None
    BY DEF Missing
  <2> QED BY <1>1, <2>1, <2>2 DEF Passed
<1>2. ASSUME Missing(todo[s], map) = {}, phase' = [phase EXCEPT ![s] = "idle"],
             Prune(listed[s], map, living)
      PROVE  phase'[s] = "idle" /\ {k \in Keys : logsWatcher'[k] # None} = listed[s]
  <2>1. \A k \in listed[s] : map[k] # None
    BY <1>2 DEF Missing
  <2>2. logsWatcher' = [k \in Keys |-> IF k \in listed[s] THEN map[k] ELSE None]
    BY <1>2 DEF Prune
  <2> QED BY <1>2, <2>1, <2>2
<1>3. \A t \in Syncs : t # s => phase'[t] = phase[t]
  BY DEF Proceed
<1> QED BY <1>1, <1>2, <1>3 DEF Proceed

(***************************************************************************)
(* The steps of a sync's loop.                                             *)
(***************************************************************************)
LEMMA LoopStep ==
  ASSUME IInv, PassedAreWatched, ~overlapped, ~Reused, NEW s \in Syncs, Starts(s) \/ Creates(s)
  PROVE  /\ \/ /\ phase'[s] = "creating"
               /\ \A k \in Passed(s)' : logsWatcher'[k] # None
            \/ /\ phase'[s] = "idle"
               /\ {k \in Keys : logsWatcher'[k] # None} = listed[s]
         /\ \A t \in Syncs : t # s => phase'[t] = phase[t]
<1>1. CASE Starts(s)
  <2>1. todo[s] = listed[s] /\ logsWatcher \in [Keys -> Watchers \cup {None}]
    BY <1>1 DEF Starts, PassedAreWatched, IInv, TypeOK
  <2> QED BY <1>1, <2>1, ProceedPasses DEF Starts
<1>2. CASE Creates(s)
  <2>1. PICK w \in Watchers :
          Proceed(s, todo[s], [logsWatcher EXCEPT ![creating[s]] = w],
                  [alive EXCEPT ![w] = creating[s]])
    BY <1>2 DEF Creates
  <2> DEFINE map == [logsWatcher EXCEPT ![creating[s]] = w]
  <2>2. map \in [Keys -> Watchers \cup {None}]
    BY DEF IInv, TypeOK
  <2>3. \A k \in listed[s] \ todo[s] : map[k] # None
    BY <1>2, WatchersAssumption DEF Creates, PassedAreWatched, Passed, IInv, TypeOK
  <2> HIDE DEF map
  <2> QED BY <2>1, <2>2, <2>3, ProceedPasses DEF map
<1> QED BY <1>1, <1>2

LEMMA PassedStep ==
  ASSUME IInv, Alone, PassedAreWatched, [Next]_vars PROVE PassedAreWatched'
<1> SUFFICES ASSUME ~overlapped, ~Reused, OneSync, NEW s \in Syncs
             PROVE  /\ phase'[s] = "listed" => todo'[s] = listed'[s]
                    /\ phase'[s] = "creating" => \A k \in Passed(s)' : logsWatcher'[k] # None
  BY OverlapStays DEF PassedAreWatched, Alone
<1>0. /\ phase[s] = "listed" => todo[s] = listed[s]
      /\ phase[s] = "creating" => \A k \in Passed(s) : logsWatcher[k] # None
  BY DEF PassedAreWatched
<1>1. CASE TimerFires \/ WatchPm2Logs
  <2>1. BeginSync /\ UNCHANGED logsWatcher
    BY <1>1 DEF TimerFires, WatchPm2Logs
  <2>2. phase'[s] \in {phase[s], "listing"} /\ UNCHANGED <<todo, listed, creating>>
    BY <2>1 DEF BeginSync, IInv, TypeOK
  <2> QED BY <1>0, <2>1, <2>2 DEF Passed
<1>2. CASE (\E k \in Keys : ProcessChanges(k)) \/ Calms \/ OtherEvent \/ BusOpens
           \/ BusFails \/ BusEvent \/ UNCHANGED vars
  <2>1. UNCHANGED <<logsWatcher, phase, todo, listed, creating>>
    BY <1>2 DEF ProcessChanges, Calms, OtherEvent, BusOpens, BusFails, BusEvent, vars, syncVars
  <2> QED BY <1>0, <2>1 DEF Passed
<1>3. ASSUME StopWatchingPm2Logs PROVE FALSE
  BY <1>3 DEF StopWatchingPm2Logs
<1>4. ASSUME NEW t \in Syncs, Answers(t)
      PROVE  /\ phase'[s] = "listed" => todo'[s] = listed'[s]
             /\ phase'[s] = "creating" => \A k \in Passed(s)' : logsWatcher'[k] # None
  BY <1>0, <1>4 DEF Answers, Passed, IInv, TypeOK
<1>5. ASSUME NEW t \in Syncs, Starts(t) \/ Creates(t)
      PROVE  /\ phase'[s] = "listed" => todo'[s] = listed'[s]
             /\ phase'[s] = "creating" => \A k \in Passed(s)' : logsWatcher'[k] # None
  <2>1. CASE t = s
    BY <1>5, <2>1, LoopStep
  <2>2. CASE t # s
    <3>1. phase[s] = "idle"
      BY <1>5, <2>2 DEF OneSync, Starts, Creates
    <3> QED BY <1>5, <2>2, <3>1, LoopStep
  <2> QED BY <2>1, <2>2
<1>6. ASSUME NEW t \in Syncs, WatchThrows(t)
      PROVE  /\ phase'[s] = "listed" => todo'[s] = listed'[s]
             /\ phase'[s] = "creating" => \A k \in Passed(s)' : logsWatcher'[k] # None
  BY <1>0, <1>6 DEF WatchThrows, Passed, IInv, TypeOK
<1> QED BY <1>1, <1>2, <1>3, <1>4, <1>5, <1>6 DEF Next

(***************************************************************************)
(* A sync that comes to its end leaves exactly one live watcher for each   *)
(* log of the processes it was told of, and none for any other, whatever   *)
(* earlier syncs that failed half-way had left; in an agent that never     *)
(* stops watching, and until two syncs overlap (_syncPm2LogWatchers).      *)
(***************************************************************************)
Ends(s) == (Starts(s) \/ Creates(s)) /\ phase'[s] = "idle"

SyncIsExact ==
  [][\A s \in Syncs : ~Reused /\ ~overlapped /\ Ends(s) =>
       /\ \A k \in Keys : k \in listed[s] <=> \E w \in Watchers : alive'[w] = k
       /\ \A v, w \in Watchers : alive'[v] = alive'[w] /\ alive'[v] # None => v = w]_vars

THEOREM SyncsAreExact == Spec => SyncIsExact
<1> DEFINE A == \A s \in Syncs : ~Reused /\ ~overlapped /\ Ends(s) =>
                  /\ \A k \in Keys : k \in listed[s] <=> \E w \in Watchers : alive'[w] = k
                  /\ \A v, w \in Watchers : alive'[v] = alive'[w] /\ alive'[v] # None => v = w
           J == IInv /\ Alone /\ PassedAreWatched
<1>1. Init => J
  <2>1. Init => PassedAreWatched
    BY DEF Init, PassedAreWatched
  <2> QED BY <2>1, IInvInit, AloneInit
<1>2. J /\ [Next]_vars => J' /\ [A]_vars
  <2> SUFFICES ASSUME J, [Next]_vars PROVE J' /\ A
    OBVIOUS
  <2>1. J'
    BY IInvStep, AloneStep, PassedStep
  <2>2. ASSUME NEW s \in Syncs, ~Reused, ~overlapped, Ends(s)
        PROVE  /\ \A k \in Keys : k \in listed[s] <=> \E w \in Watchers : alive'[w] = k
               /\ \A v, w \in Watchers : alive'[v] = alive'[w] /\ alive'[v] # None => v = w
    <3>1. {k \in Keys : logsWatcher'[k] # None} = listed[s]
      BY <2>2, LoopStep DEF Ends
    <3>2. overlapped' = overlapped
      BY <2>2 DEF Ends, Starts, Creates
    <3>3. \A w \in Watchers : alive'[w] # None => logsWatcher'[alive'[w]] = w
      BY <2>1, <2>2, <3>2 DEF Alone, InMap
    <3>4. /\ \A w \in Watchers : alive'[w] \in Keys \cup {None}
          /\ \A k \in Keys : logsWatcher'[k] \in Watchers \cup {None}
          /\ \A k \in Keys : logsWatcher'[k] # None => alive'[logsWatcher'[k]] = k
      BY <2>1 DEF IInv, TypeOK, MapIsAlive
    <3>5. ASSUME NEW k \in Keys
          PROVE  k \in listed[s] <=> \E w \in Watchers : alive'[w] = k
      <4>1. k # None
        BY WatchersAssumption
      <4>2. k \in listed[s] => \E w \in Watchers : alive'[w] = k
        BY <3>1, <3>4
      <4>3. ASSUME NEW w \in Watchers, alive'[w] = k PROVE k \in listed[s]
        <5>1. logsWatcher'[k] = w /\ w # None
          BY <3>3, <4>1, <4>3, WatchersAssumption
        <5> QED BY <3>1, <5>1
      <4> QED BY <4>2, <4>3
    <3>6. ASSUME NEW v \in Watchers, NEW w \in Watchers, alive'[v] = alive'[w], alive'[v] # None
          PROVE  v = w
      BY <3>3, <3>6
    <3> QED BY <3>5, <3>6
  <2> QED BY <2>1, <2>2
<1> HIDE DEF J, A
<1>3. Spec => [][A]_vars
  BY <1>1, <1>2, PTL DEF Spec
<1> QED BY <1>3 DEF A, SyncIsExact
=============================================================================
