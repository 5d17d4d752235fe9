---------------------------- MODULE LogWatchers -----------------------------
(***************************************************************************)
(* Pm2Service's watchers of PM2's log files: watchPm2Logs, its debounced   *)
(* synchronisations with the processes PM2 runs, and stopWatchingPm2Logs.  *)
(*                                                                         *)
(* An action is the code between two awaits.  A key is what watcherKey     *)
(* names, one log of one process.  Some conditions are left out: a log     *)
(* file that vanishes between existsSync and statSync, and a process       *)
(* without pm_id.                                                          *)
(***************************************************************************)
EXTENDS Naturals, SequencesExt

CONSTANTS
  Keys,         \* the logs of the processes
  Syncs,        \* bound: runs of _syncPm2LogWatchers in progress
  Watchers,     \* bound: fs.FSWatcher objects alive at a time
  None,         \* no watcher, no key
  Reused,       \* watching is stopped, and started again (index.ts never does)
  CanFail       \* pm2.list, pm2.launchBus and fs.watch may fail

ASSUME WatchersAssumption == /\ None \notin Keys \cup Watchers
                             /\ Reused \in BOOLEAN
                             /\ CanFail \in BOOLEAN

VARIABLES
  up,           \* the logs whose process is online or launching
  bus,          \* the PM2 bus of _subscribeToPm2LogLifecycleEvents
  event,        \* a process event is on its way on the bus
  watching,     \* _pm2LogWatchCallback is set
  timer,        \* _pm2LogWatchSyncTimer is pending
  logsWatcher,  \* logsWatcher
  alive,        \* alive[w]: the log watcher w watches, None when closed
  phase,        \* phase[s]: where sync s is
  listed,       \* listed[s]: the keys its process list asks for
  todo,         \* todo[s]: the keys its loop has not reached
  creating,     \* creating[s]: the key whose initial content it awaits
  overlapped,   \* two syncs have been in progress at a time (history)
  failing       \* PM2 and the file system still fail now and then

vars == <<up, bus, event, watching, timer, logsWatcher, alive, phase, listed,
          todo, creating, overlapped, failing>>
syncVars == <<phase, listed, todo, creating, overlapped>>

Phases == {"idle", "listing", "listed", "creating"}

Init == /\ up \in SUBSET Keys
        /\ bus = "off"
        /\ event = FALSE
        /\ watching = FALSE
        /\ timer = FALSE
        /\ logsWatcher = [k \in Keys |-> None]
        /\ alive = [w \in Watchers |-> None]
        /\ phase = [s \in Syncs |-> "idle"]
        /\ listed = [s \in Syncs |-> {}]
        /\ todo = [s \in Syncs |-> {}]
        /\ creating = [s \in Syncs |-> None]
        /\ overlapped = FALSE
        /\ failing = CanFail

-----------------------------------------------------------------------------
(* PM2: a process starts or ends, and tells those who listen.              *)
ProcessChanges(k) ==
  /\ up' = IF k \in up THEN up \ {k} ELSE up \cup {k}
  /\ event' = (event \/ bus = "open")
  /\ UNCHANGED <<failing, bus, watching, timer, logsWatcher, alive, syncVars>>

(* From now on nothing fails any more.                                     *)
Calms ==
  /\ failing
  /\ failing' = FALSE
  /\ UNCHANGED <<up, bus, event, watching, timer, logsWatcher, alive, syncVars>>

(* The other events scheduleSync listens to.                               *)
OtherEvent ==
  /\ bus = "open"
  /\ event' = TRUE
  /\ UNCHANGED <<failing, up, bus, watching, timer, logsWatcher, alive, syncVars>>

BusOpens ==
  /\ bus = "opening"
  /\ bus' = "open"
  /\ UNCHANGED <<failing, up, event, watching, timer, logsWatcher, alive, syncVars>>

BusFails ==
  /\ failing
  /\ bus = "opening"
  /\ bus' = "off"
  /\ UNCHANGED <<failing, up, event, watching, timer, logsWatcher, alive, syncVars>>

(* _syncPm2LogWatchers with a callback set, up to the await of pm2.list.   *)
BeginSync ==
  /\ \E s \in Syncs : /\ phase[s] = "idle"
                      /\ phase' = [phase EXCEPT ![s] = "listing"]
  /\ overlapped' = (overlapped \/ \E s \in Syncs : phase[s] # "idle")
  /\ UNCHANGED <<listed, todo, creating>>

WatchPm2Logs ==
  /\ Reused \/ ~watching
  /\ watching' = TRUE
  /\ bus' = IF bus = "off" THEN "opening" ELSE bus
  /\ BeginSync
  /\ UNCHANGED <<failing, up, event, timer, logsWatcher, alive>>

(* Bug: the map keeps the watchers that were closed.                       *)
StopKeepsMap ==
  /\ Reused
  /\ watching' = FALSE
  /\ timer' = FALSE
  /\ alive' = [w \in Watchers |-> IF w \in Range(logsWatcher) THEN None ELSE alive[w]]
  /\ UNCHANGED <<failing, up, bus, event, logsWatcher, syncVars>>

StopWatchingPm2Logs ==
  /\ Reused
  /\ watching' = FALSE
  /\ timer' = FALSE
  /\ alive' = [w \in Watchers |-> IF w \in Range(logsWatcher) THEN None ELSE alive[w]]
  /\ logsWatcher' = [k \in Keys |-> None]
  /\ UNCHANGED <<failing, up, bus, event, syncVars>>

(* Bug: an event is dropped while a sync is in progress.                   *)
BusEventUnlessBusy ==
  /\ event
  /\ event' = FALSE
  /\ timer' = (timer \/ (watching /\ \A s \in Syncs : phase[s] = "idle"))
  /\ UNCHANGED <<failing, up, bus, watching, logsWatcher, alive, syncVars>>

(* _schedulePm2LogWatchersSync: a pending timer starts over.               *)
BusEvent ==
  /\ event
  /\ event' = FALSE
  /\ timer' = (timer \/ watching)
  /\ UNCHANGED <<failing, up, bus, watching, logsWatcher, alive, syncVars>>

TimerFires ==
  /\ timer
  /\ timer' = FALSE
  /\ BeginSync
  /\ UNCHANGED <<failing, up, bus, event, watching, logsWatcher, alive>>

-----------------------------------------------------------------------------
(* PM2 answers sync s; an error counts as an empty list                    *)
(* (getAllPm2Processes).                                                   *)
Answers(s) ==
  /\ phase[s] = "listing"
  /\ phase' = [phase EXCEPT ![s] = "listed"]
  /\ \E answer \in {up} \cup (IF failing THEN {{}} ELSE {}) :
       /\ listed' = [listed EXCEPT ![s] = answer]
       /\ todo' = [todo EXCEPT ![s] = answer]
  /\ UNCHANGED <<failing, up, bus, event, watching, timer, logsWatcher, alive,
                 creating, overlapped>>

(* Bug: watchers of the map are created again.                             *)
MissingAll(keys, map) == keys

(* The keys of the loop that have no watcher, and those it goes on with    *)
(* after k.                                                                *)
Missing(keys, map) == {k \in keys : map[k] = None}

Rest(keys, k) == keys \ {k}

(* Bug: the watchers nobody asks for are kept.                             *)
PruneNothing(wanted, map, living) ==
  /\ alive' = living
  /\ logsWatcher' = map

(* The last loop of a sync: watchers of keys nobody asks for are closed.   *)
Prune(wanted, map, living) ==
  LET closed == {map[k] : k \in Keys \ wanted}
  IN  /\ alive' = [w \in Watchers |-> IF w \in closed THEN None ELSE living[w]]
      /\ logsWatcher' = [k \in Keys |-> IF k \in wanted THEN map[k] ELSE None]

(* The loop of sync s over the keys to do: it runs up to the next log to   *)
(* read, in any order, or to its end.                                      *)
Proceed(s, keys, map, living) ==
  \/ \E k \in Missing(keys, map) :
       /\ phase' = [phase EXCEPT ![s] = "creating"]
       /\ creating' = [creating EXCEPT ![s] = k]
       /\ \E passed \in SUBSET (keys \ Missing(keys, map)) :
            todo' = [todo EXCEPT ![s] = Rest(keys, k) \ passed]
       /\ alive' = living
       /\ logsWatcher' = map
       /\ UNCHANGED listed
  \/ /\ Missing(keys, map) = {}
     /\ phase' = [phase EXCEPT ![s] = "idle"]
     /\ creating' = [creating EXCEPT ![s] = None]
     /\ todo' = [todo EXCEPT ![s] = {}]
     /\ listed' = [listed EXCEPT ![s] = {}]
     /\ Prune(listed[s], map, living)

Starts(s) ==
  /\ phase[s] = "listed"
  /\ Proceed(s, todo[s], logsWatcher, alive)
  /\ UNCHANGED <<failing, up, bus, event, watching, timer, overlapped>>

(* The initial content has been read and handed on, which is modelled in   *)
(* LogMirror; fs.watch makes a watcher, and the map takes it whatever it   *)
(* holds.                                                                  *)
Creates(s) ==
  /\ phase[s] = "creating"
  /\ \E w \in Watchers :
       /\ alive[w] = None
       /\ Proceed(s, todo[s], [logsWatcher EXCEPT ![creating[s]] = w],
                  [alive EXCEPT ![w] = creating[s]])
  /\ UNCHANGED <<failing, up, bus, event, watching, timer, overlapped>>

(* fs.watch throws: the sync is over, and nothing is closed.               *)
WatchThrows(s) ==
  /\ failing
  /\ phase[s] = "creating"
  /\ phase' = [phase EXCEPT ![s] = "idle"]
  /\ creating' = [creating EXCEPT ![s] = None]
  /\ todo' = [todo EXCEPT ![s] = {}]
  /\ listed' = [listed EXCEPT ![s] = {}]
  /\ UNCHANGED <<failing, up, bus, event, watching, timer, logsWatcher, alive,
                 overlapped>>

Next == \/ \E k \in Keys : ProcessChanges(k)
        \/ Calms \/ OtherEvent \/ BusOpens \/ BusFails \/ BusEvent \/ TimerFires
        \/ WatchPm2Logs \/ StopWatchingPm2Logs
        \/ \E s \in Syncs : \/ Answers(s) \/ Starts(s)
                            \/ Creates(s) \/ WatchThrows(s)

Spec == Init /\ [][Next]_vars

(* Events arrive, timers fire, PM2 and the file system answer.             *)
Fairness == /\ WF_vars(BusEvent)
            /\ WF_vars(TimerFires)
            /\ \A s \in Syncs : WF_vars(Answers(s) \/ Starts(s) \/ Creates(s))

FairSpec == Spec /\ Fairness

-----------------------------------------------------------------------------
(* The variables keep their types; a sync still has to do only keys it was *)
(* asked for, and the one it awaits is not among them.                     *)
TypeOK ==
  /\ up \in SUBSET Keys
  /\ bus \in {"off", "opening", "open"}
  /\ event \in BOOLEAN /\ watching \in BOOLEAN /\ timer \in BOOLEAN
  /\ overlapped \in BOOLEAN /\ failing \in BOOLEAN
  /\ logsWatcher \in [Keys -> Watchers \cup {None}]
  /\ alive \in [Watchers -> Keys \cup {None}]
  /\ phase \in [Syncs -> Phases]
  /\ listed \in [Syncs -> SUBSET Keys]
  /\ todo \in [Syncs -> SUBSET Keys]
  /\ creating \in [Syncs -> Keys \cup {None}]
  /\ \A s \in Syncs : /\ todo[s] \subseteq listed[s]
                      /\ creating[s] # None <=> phase[s] = "creating"
                      /\ creating[s] \in listed[s] \cup {None}
                      /\ creating[s] \notin todo[s]

(* However syncs overlap and whenever watching stops, the map holds live   *)
(* watchers only, each of the log it is kept for: a log that is in the map *)
(* is watched, and a sync may skip it (logsWatcher.has).                   *)
MapIsAlive == \A k \in Keys : logsWatcher[k] # None => alive[logsWatcher[k]] = k

(* As long as no two syncs have overlapped, every live watcher is in the   *)
(* map, where stopWatchingPm2Logs and the next sync find it, also when a   *)
(* sync crosses a stop or fails half-way.                                  *)
NoLeak ==
  ~overlapped => \A w \in Watchers : alive[w] # None => logsWatcher[alive[w]] = w

(* A process event settles what is watched: a log that stays up from then  *)
(* on gets a watcher for good (_schedulePm2LogWatchersSync).  It is what   *)
(* index.ts wants, and holds unless syncs overlap or calls fail.           *)
HeardStaysWatched ==
  \A k \in Keys :
    [](event /\ [](k \in up /\ watching) => <>[](logsWatcher[k] # None))

(* Once nothing fails any more, and while syncs do not overlap, an event   *)
(* makes good whatever earlier failures have done: a log that stays up has *)
(* a watcher for good, and a log that stays down has none.                 *)
Calm == watching /\ ~failing /\ ~overlapped

CalmStaysWatched ==
  \A k \in Keys :
    [](event /\ [](k \in up /\ Calm) => <>[](logsWatcher[k] # None))

CalmIsClosed ==
  \A k \in Keys :
    [](event /\ [](k \notin up /\ Calm) => <>[](\A w \in Watchers : alive[w] # k))
=============================================================================
