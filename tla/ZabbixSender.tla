---------------------------- MODULE ZabbixSender ----------------------------
(***************************************************************************)
(* ZabbixSenderService: pushes started by startPeriodicPush and by its     *)
(* interval build a snapshot of the metrics, put it in a queue and flush   *)
(* the queue to the Zabbix server, one flush at a time.                    *)
(*                                                                         *)
(* An action is the code between two awaits.  A snapshot that cannot even  *)
(* be taken (getSystemMetrics throws) leaves everything as it was.         *)
(***************************************************************************)
EXTENDS Naturals, SequencesExt

CONSTANTS
  Callers,      \* who calls startPeriodicPush, each one call at a time
  Pushes,       \* bound: calls of enqueueAndFlushCurrentSnapshot in progress
  Batches,      \* bound: snapshots in memory at a time
  Handles,      \* bound: intervals alive at a time
  None,         \* no interval, no push, no batch
  Enabled       \* ZABBIX_ENABLED is "true" or "1" (the host is not looked at)

ASSUME SenderAssumption == /\ None \notin Pushes \cup Batches \cup Handles
                           /\ Enabled \in BOOLEAN

VARIABLES
  intervalHandle,   \* the interval the service knows of
  intervals,        \* the intervals that are alive
  starting,         \* starting[c]: the push c's startPeriodicPush awaits
  phase,            \* phase[p]: where push p is
  holds,            \* holds[p]: the snapshot it builds, or the batch it sends
  queue,            \* queue
  isFlushing,       \* isFlushing
  lastSent          \* the last send was accepted (history)

vars == <<intervalHandle, intervals, starting, phase, holds, queue,
          isFlushing, lastSent>>

Phases == {"idle", "building", "flushing",
           "done"}          \* over, but its startPeriodicPush not yet resumed

Init == /\ intervalHandle = None
        /\ intervals = {}
        /\ starting = [c \in Callers |-> None]
        /\ phase = [p \in Pushes |-> "idle"]
        /\ holds = [p \in Pushes |-> None]
        /\ queue = <<>>
        /\ isFlushing = FALSE
        /\ lastSent = TRUE

Held == {holds[p] : p \in Pushes} \cup ToSet(queue)

-----------------------------------------------------------------------------
(* enqueueAndFlushCurrentSnapshot up to the await of the PM2 list: the     *)
(* system metrics are read, and a snapshot begins to exist.                *)
BeginPush(p) ==
  /\ phase[p] = "idle"
  /\ phase' = [phase EXCEPT ![p] = "building"]
  /\ \E b \in Batches \ Held : holds' = [holds EXCEPT ![p] = b]

(* Bug: a service that is already pushing is started again.                *)
StartAgain(c) ==
  /\ Enabled
  /\ starting[c] = None
  /\ \E p \in Pushes : /\ BeginPush(p)
                       /\ starting' = [starting EXCEPT ![c] = p]
  /\ UNCHANGED <<intervalHandle, intervals, queue, isFlushing, lastSent>>

(* startPeriodicPush, called when isCorrectlyConfigured(); with an         *)
(* interval already known it returns at once.                              *)
StartPeriodicPush(c) ==
  /\ Enabled
  /\ starting[c] = None
  /\ intervalHandle = None
  /\ \E p \in Pushes : /\ BeginPush(p)
                       /\ starting' = [starting EXCEPT ![c] = p]
  /\ UNCHANGED <<intervalHandle, intervals, queue, isFlushing, lastSent>>

(* The first push is over: setInterval, whatever happened meanwhile.       *)
StartReturns(c) ==
  /\ starting[c] # None
  /\ phase[starting[c]] = "done"
  /\ \E h \in Handles \ intervals : /\ intervals' = intervals \cup {h}
                                    /\ intervalHandle' = h
  /\ phase' = [phase EXCEPT ![starting[c]] = "idle"]
  /\ starting' = [starting EXCEPT ![c] = None]
  /\ UNCHANGED <<holds, queue, isFlushing, lastSent>>

StopPeriodicPush ==
  /\ intervalHandle # None
  /\ intervals' = intervals \ {intervalHandle}
  /\ intervalHandle' = None
  /\ UNCHANGED <<starting, phase, holds, queue, isFlushing, lastSent>>

(* An interval fires; nobody awaits its push.                              *)
Tick(h) ==
  /\ h \in intervals
  /\ \E p \in Pushes : BeginPush(p)
  /\ UNCHANGED <<intervalHandle, intervals, starting, queue, isFlushing,
                 lastSent>>

(* Push p ends: a startPeriodicPush that awaits it resumes later.          *)
Ended(p) == IF \E c \in Callers : starting[c] = p THEN "done" ELSE "idle"

(* The loop of flushQueue, with q queued: shift and send, or leave.        *)
Proceed(p, q) ==
  IF q = <<>>
    THEN /\ queue' = q
         /\ isFlushing' = FALSE
         /\ phase' = [phase EXCEPT ![p] = Ended(p)]
         /\ holds' = [holds EXCEPT ![p] = None]
    ELSE /\ queue' = Tail(q)
         /\ isFlushing' = TRUE
         /\ phase' = [phase EXCEPT ![p] = "flushing"]
         /\ holds' = [holds EXCEPT ![p] = Head(q)]

(* Bugs: flushes do not exclude each other; the batch that was built jumps *)
(* the queue.                                                              *)
BuiltUnlocked(p) ==
  /\ phase[p] = "building"
  /\ Proceed(p, Append(queue, holds[p]))
  /\ UNCHANGED <<intervalHandle, intervals, starting, lastSent>>

BuiltJumps(p) ==
  /\ phase[p] = "building"
  /\ IF isFlushing
       THEN /\ queue' = <<holds[p]>> \o queue
            /\ phase' = [phase EXCEPT ![p] = Ended(p)]
            /\ holds' = [holds EXCEPT ![p] = None]
            /\ UNCHANGED isFlushing
       ELSE Proceed(p, <<holds[p]>> \o queue)
  /\ UNCHANGED <<intervalHandle, intervals, starting, lastSent>>

(* The payload is built and queued, and the queue flushed unless another   *)
(* push is at it.                                                          *)
Built(p) ==
  /\ phase[p] = "building"
  /\ IF isFlushing
       THEN /\ queue' = Append(queue, holds[p])
            /\ phase' = [phase EXCEPT ![p] = Ended(p)]
            /\ holds' = [holds EXCEPT ![p] = None]
            /\ UNCHANGED isFlushing
       ELSE Proceed(p, Append(queue, holds[p]))
  /\ UNCHANGED <<intervalHandle, intervals, starting, lastSent>>

(* Bug: only one batch is sent per flush.                                  *)
SendOkOnce(p) ==
  /\ phase[p] = "flushing"
  /\ queue' = queue
  /\ isFlushing' = FALSE
  /\ phase' = [phase EXCEPT ![p] = Ended(p)]
  /\ holds' = [holds EXCEPT ![p] = None]
  /\ lastSent' = TRUE
  /\ UNCHANGED <<intervalHandle, intervals, starting>>

(* validateZabbixResponse accepts the answer.                              *)
SendOk(p) ==
  /\ phase[p] = "flushing"
  /\ Proceed(p, queue)
  /\ lastSent' = TRUE
  /\ UNCHANGED <<intervalHandle, intervals, starting>>

(* Bug: isFlushing is not reset when a send fails.                         *)
SendFailsLocked(p) ==
  /\ phase[p] = "flushing"
  /\ phase' = [phase EXCEPT ![p] = Ended(p)]
  /\ holds' = [holds EXCEPT ![p] = None]
  /\ lastSent' = FALSE
  /\ UNCHANGED <<intervalHandle, intervals, starting, queue, isFlushing>>

(* Socket error, timeout, or an answer that is refused: the batch was      *)
(* shifted before it was sent and is gone; the rest waits for another push. *)
SendFails(p) ==
  /\ phase[p] = "flushing"
  /\ isFlushing' = FALSE
  /\ phase' = [phase EXCEPT ![p] = Ended(p)]
  /\ holds' = [holds EXCEPT ![p] = None]
  /\ lastSent' = FALSE
  /\ UNCHANGED <<intervalHandle, intervals, starting, queue>>

Next == \/ \E c \in Callers : StartPeriodicPush(c) \/ StartReturns(c)
        \/ StopPeriodicPush
        \/ \E h \in Handles : Tick(h)
        \/ \E p \in Pushes : Built(p) \/ SendOk(p) \/ SendFails(p)

Spec == Init /\ [][Next]_vars

(* Intervals fire as long as they live, the PM2 list comes, a send ends    *)
(* (the socket times out), an awaited push resumes its caller.             *)
Fairness == /\ \A c \in Callers : WF_vars(StartReturns(c))
            /\ WF_vars(\E h \in Handles : Tick(h))
            /\ \A p \in Pushes : /\ WF_vars(Built(p))
                                 /\ WF_vars(SendOk(p) \/ SendFails(p))

FairSpec == Spec /\ Fairness

-----------------------------------------------------------------------------
(* The variables keep their types; a push holds a batch exactly while it   *)
(* builds or sends it.                                                     *)
TypeOK ==
  /\ intervalHandle \in Handles \cup {None}
  /\ intervals \in SUBSET Handles
  /\ starting \in [Callers -> Pushes \cup {None}]
  /\ phase \in [Pushes -> Phases]
  /\ holds \in [Pushes -> Batches \cup {None}]
  /\ queue \in Seq(Batches)
  /\ isFlushing \in BOOLEAN
  /\ lastSent \in BOOLEAN
  /\ \A p \in Pushes : holds[p] # None <=> phase[p] \in {"building", "flushing"}

(* isFlushing is the lock it is meant to be: it is set exactly while a     *)
(* push flushes, and two never do (flushQueue).                            *)
OneFlusher ==
  /\ isFlushing <=> \E p \in Pushes : phase[p] = "flushing"
  /\ \A p, q \in Pushes :
       phase[p] = "flushing" /\ phase[q] = "flushing" => p = q

(* Batches wait with nobody sending them only after a failed send: a push  *)
(* that queues during a flush leaves its batch to that flush (flushQueue). *)
IdleQueueMeansFailure == queue # <<>> /\ ~isFlushing => ~lastSent

(* One caller cannot make an interval the service has lost track of, and   *)
(* that stopPeriodicPush cannot reach (startPeriodicPush).                 *)
NoOrphanInterval == intervals \subseteq {intervalHandle}

(* The batch being sent and the queue behind it are a lossy FIFO: no batch *)
(* is overtaken, sent twice, or lost without having been sent (flushQueue). *)
Sending == {p \in Pushes : phase[p] = "flushing"}
Fifo == INSTANCE LossyFifo WITH
  channel <- (IF Sending = {} THEN <<>>
              ELSE <<holds[CHOOSE p \in Pushes : phase[p] = "flushing"]>>)
             \o queue,
  accepted <- lastSent
ImplementsFifo == Fifo!Spec

(* While the interval lives, a queued batch is sent at last, however many  *)
(* sends fail before it (flushQueue leaves the rest to the next push).     *)
QueuedIsSent ==
  \A b \in Batches :
    b \in ToSet(queue) ~> b \notin ToSet(queue) \/ intervals = {}

(* README.md, Zabbix V1: "The sender performs buffered retries with        *)
(* exponential backoff when pushes fail."  A batch whose send failed would *)
(* be queued again (flushQueue has shifted it and keeps no copy).          *)
FailedPushIsBuffered ==
  [][\A p \in Pushes : SendFails(p) => holds[p] \in ToSet(queue')]_vars
=============================================================================
