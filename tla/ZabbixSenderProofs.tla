------------------------- MODULE ZabbixSenderProofs -------------------------
(***************************************************************************)
(* Proofs about ZabbixSender for any callers and any number of pushes,     *)
(* batches and intervals.                                                  *)
(***************************************************************************)
EXTENDS ZabbixSender, SequenceTheorems, TLAPS

(***************************************************************************)
(* The inductive invariant: the lock, why batches wait, and a snapshot     *)
(* being built is in no other place.                                       *)
(***************************************************************************)
BuiltIsNew == \A p \in Pushes : phase[p] = "building" =>
  /\ holds[p] \notin ToSet(queue)
  /\ \A q \in Pushes : holds[q] = holds[p] => q = p

IInv == TypeOK /\ OneFlusher /\ IdleQueueMeansFailure /\ BuiltIsNew

(***************************************************************************)
(* What the loop of flushQueue does with a non-empty queue.                *)
(***************************************************************************)
LEMMA ShiftElements ==
  ASSUME NEW S, NEW q \in Seq(S), q # <<>>
  PROVE  /\ Head(q) \in S /\ Tail(q) \in Seq(S)
         /\ Head(q) \in ToSet(q)
         /\ ToSet(Tail(q)) \subseteq ToSet(q)
         /\ <<Head(q)>> \o Tail(q) = q
<1>1. /\ Head(q) \in S /\ Tail(q) \in Seq(S) /\ Len(Tail(q)) = Len(q) - 1
      /\ \A i \in 1..Len(Tail(q)) : Tail(q)[i] = q[i+1]
  BY HeadTailProperties
<1>2. /\ Len(q) \in Nat \ {0} /\ DOMAIN q = 1..Len(q)
      /\ DOMAIN Tail(q) = 1..(Len(q) - 1)
  BY <1>1, LenProperties, EmptySeq
<1>3. Head(q) = q[1]
  OBVIOUS
<1>4. Head(q) \in ToSet(q)
  BY <1>2, <1>3 DEF ToSet
<1>5. ToSet(Tail(q)) \subseteq ToSet(q)
  BY <1>1, <1>2 DEF ToSet
<1>6. <<Head(q)>> \o Tail(q) = q
  OBVIOUS
<1> QED BY <1>1, <1>4, <1>5, <1>6

LEMMA AppendElements ==
  ASSUME NEW S, NEW q \in Seq(S), NEW b \in S
  PROVE  /\ Append(q, b) \in Seq(S) /\ Append(q, b) # <<>>
         /\ ToSet(Append(q, b)) = ToSet(q) \cup {b}
<1> DEFINE t == Append(q, b)
<1>1. /\ t \in Seq(S) /\ t # <<>> /\ Len(t) = Len(q) + 1
      /\ \A i \in 1..Len(q) : t[i] = q[i]
      /\ t[Len(q) + 1] = b
  BY AppendProperties
<1> HIDE DEF t
<1>2. Len(q) \in Nat /\ DOMAIN q = 1..Len(q) /\ DOMAIN t = 1..(Len(q) + 1)
  BY <1>1, LenProperties
<1>3. \A i \in 1..(Len(q) + 1) : i \in 1..Len(q) \/ i = Len(q) + 1
  BY <1>2
<1>4. ToSet(t) = ToSet(q) \cup {b}
  BY <1>1, <1>2, <1>3 DEF ToSet
<1> QED BY <1>1, <1>4 DEF t

LEMMA IInvInit == Init => IInv
<1> SUFFICES ASSUME Init PROVE IInv
  OBVIOUS
<1>1. <<>> \in Seq(Batches)
  BY EmptySeq
<1>2. isFlushing \in BOOLEAN /\ lastSent \in BOOLEAN /\ ~isFlushing
  BY Zenon DEF Init
<1>3. TypeOK
  BY <1>1, <1>2, SenderAssumption DEF Init, TypeOK, Phases
<1>4. OneFlusher
  BY <1>2 DEF Init, OneFlusher
<1>5. IdleQueueMeansFailure /\ BuiltIsNew
  BY DEF Init, IdleQueueMeansFailure, BuiltIsNew
<1> QED BY <1>3, <1>4, <1>5 DEF IInv

(***************************************************************************)
(* A new push takes a batch that is nowhere in memory.                     *)
(***************************************************************************)
LEMMA BeginPushStep ==
  ASSUME IInv, NEW p \in Pushes, BeginPush(p),
         UNCHANGED <<queue, isFlushing, lastSent>>
  PROVE  /\ phase' \in [Pushes -> Phases]
         /\ holds' \in [Pushes -> Batches \cup {None}]
         /\ \A q \in Pushes : holds'[q] # None <=> phase'[q] \in {"building", "flushing"}
         /\ OneFlusher' /\ IdleQueueMeansFailure' /\ BuiltIsNew'
         /\ \A q \in Pushes : phase'[q] = "flushing" <=> phase[q] = "flushing"
<1>1. PICK b \in Batches : /\ holds' = [holds EXCEPT ![p] = b] /\ b \notin Held
                           /\ phase' = [phase EXCEPT ![p] = "building"]
                           /\ phase[p] = "idle"
  BY DEF BeginPush
<1>2. b # None /\ b \notin ToSet(queue) /\ \A q \in Pushes : holds[q] # b
  BY <1>1, SenderAssumption DEF Held
<1>3. /\ phase' \in [Pushes -> Phases]
      /\ holds' \in [Pushes -> Batches \cup {None}]
      /\ \A q \in Pushes : holds'[q] # None <=> phase'[q] \in {"building", "flushing"}
  BY <1>1, <1>2 DEF IInv, TypeOK, Phases
<1>4. \A q \in Pushes : phase'[q] = "flushing" <=> phase[q] = "flushing"
  BY <1>1 DEF IInv, TypeOK
<1>5. OneFlusher' /\ IdleQueueMeansFailure'
  BY <1>4 DEF IInv, OneFlusher, IdleQueueMeansFailure
<1>6. BuiltIsNew'
  BY <1>1, <1>2 DEF IInv, TypeOK, BuiltIsNew, ToSet
<1> QED BY <1>3, <1>4, <1>5, <1>6

(***************************************************************************)
(* Push p goes on with the loop of flushQueue, holding the lock or taking  *)
(* it, with a queue q in which nothing is being built.                     *)
(***************************************************************************)
LEMMA ProceedStep ==
  ASSUME IInv, NEW p \in Pushes, NEW q \in Seq(Batches), Proceed(p, q),
         \A r \in Pushes : phase[r] = "flushing" => r = p,
         \A r \in Pushes : phase[r] = "building" /\ r # p => holds[r] \notin ToSet(q),
         lastSent' \in BOOLEAN,
         UNCHANGED <<intervalHandle, intervals, starting>>
  PROVE  TypeOK' /\ OneFlusher' /\ IdleQueueMeansFailure' /\ BuiltIsNew'
<1>0. TypeOK
  BY DEF IInv
<1>1. CASE q = <<>>
  <2>1. /\ queue' = <<>> /\ ~isFlushing' /\ isFlushing' \in BOOLEAN
        /\ phase' = [phase EXCEPT ![p] = Ended(p)]
        /\ holds' = [holds EXCEPT ![p] = None]
        /\ Ended(p) \in {"done", "idle"}
    BY <1>1, Zenon DEF Proceed, Ended
  <2>2. ToSet(queue') = {}
    BY <2>1 DEF ToSet
  <2>3. TypeOK'
    BY <1>0, <2>1, EmptySeq DEF TypeOK, Phases
  <2>4. \A r \in Pushes : phase'[r] # "flushing"
    BY <1>0, <2>1 DEF TypeOK
  <2>5. OneFlusher' /\ IdleQueueMeansFailure'
    BY <2>1, <2>4 DEF OneFlusher, IdleQueueMeansFailure
  <2>6. BuiltIsNew'
    BY <1>0, <2>1, <2>2, SenderAssumption DEF TypeOK, BuiltIsNew, IInv, ToSet
  <2> QED BY <2>3, <2>5, <2>6
<1>2. CASE q # <<>>
  <2>a. /\ Head(q) \in Batches /\ Tail(q) \in Seq(Batches)
        /\ Head(q) \in ToSet(q) /\ ToSet(Tail(q)) \subseteq ToSet(q)
    BY <1>2, ShiftElements
  <2>b. Head(q) # None
    BY <2>a, SenderAssumption
  <2>0. /\ Head(q) \in Batches /\ Tail(q) \in Seq(Batches) /\ Head(q) # None
        /\ Head(q) \in ToSet(q) /\ ToSet(Tail(q)) \subseteq ToSet(q)
    BY <2>a, <2>b
  <2>1. /\ queue' = Tail(q) /\ isFlushing' /\ isFlushing' \in BOOLEAN
        /\ phase' = [phase EXCEPT ![p] = "flushing"]
        /\ holds' = [holds EXCEPT ![p] = Head(q)]
    BY <1>2, Zenon DEF Proceed
  <2>2. ToSet(queue)' \subseteq ToSet(q)
    BY <2>0, <2>1 DEF ToSet
  <2>3. TypeOK'
    BY <1>0, <2>0, <2>1 DEF TypeOK, Phases
  <2>4. \A r \in Pushes : phase'[r] = "flushing" <=> r = p
    BY <1>0, <2>1 DEF TypeOK
  <2>5. OneFlusher' /\ IdleQueueMeansFailure'
    BY <2>1, <2>4 DEF OneFlusher, IdleQueueMeansFailure
  <2>6. BuiltIsNew'
    <3> SUFFICES ASSUME NEW r \in Pushes, phase'[r] = "building"
                 PROVE  /\ holds'[r] \notin ToSet(queue)'
                        /\ \A s \in Pushes : holds'[s] = holds'[r] => s = r
      BY DEF BuiltIsNew
    <3>1. r # p /\ phase[r] = "building" /\ holds'[r] = holds[r]
      BY <1>0, <2>1 DEF TypeOK
    <3>2. holds[r] \notin ToSet(q)
      BY <3>1
    <3>3. \A s \in Pushes : holds'[s] = holds'[r] => s = r
      BY <1>0, <2>0, <2>1, <3>1, <3>2 DEF TypeOK, IInv, BuiltIsNew
    <3> QED BY <2>2, <3>1, <3>2, <3>3
  <2> QED BY <2>3, <2>5, <2>6
<1> QED BY <1>1, <1>2

LEMMA IInvStep == IInv /\ [Next]_vars => IInv'
<1> SUFFICES ASSUME IInv, [Next]_vars PROVE IInv'
  OBVIOUS
<1>0. TypeOK /\ OneFlusher /\ IdleQueueMeansFailure /\ BuiltIsNew
  BY DEF IInv
<1>1. ASSUME NEW c \in Callers, StartPeriodicPush(c) PROVE IInv'
  <2>1. PICK p \in Pushes : BeginPush(p) /\ starting' = [starting EXCEPT ![c] = p]
    BY <1>1 DEF StartPeriodicPush
  <2>2. UNCHANGED <<intervalHandle, intervals, queue, isFlushing, lastSent>>
    BY <1>1 DEF StartPeriodicPush
  <2> QED BY <1>0, <2>1, <2>2, BeginPushStep DEF IInv, TypeOK
<1>2. ASSUME NEW c \in Callers, StartReturns(c) PROVE IInv'
  <2>1. PICK h \in Handles : intervals' = intervals \cup {h} /\ intervalHandle' = h
    BY <1>2 DEF StartReturns
  <2>2. /\ starting[c] \in Pushes /\ phase[starting[c]] = "done"
        /\ phase' = [phase EXCEPT ![starting[c]] = "idle"]
        /\ starting' = [starting EXCEPT ![c] = None]
        /\ UNCHANGED <<holds, queue, isFlushing, lastSent>>
    BY <1>0, <1>2 DEF StartReturns, TypeOK
  <2>3. TypeOK'
    BY <1>0, <2>1, <2>2 DEF TypeOK, Phases
  <2>4. \A p \in Pushes : /\ phase'[p] = "flushing" <=> phase[p] = "flushing"
                          /\ phase'[p] = "building" <=> phase[p] = "building"
    BY <1>0, <2>2 DEF TypeOK
  <2>5. OneFlusher' /\ IdleQueueMeansFailure' /\ BuiltIsNew'
    BY <1>0, <2>2, <2>4 DEF OneFlusher, IdleQueueMeansFailure, BuiltIsNew, ToSet
  <2> QED BY <2>3, <2>5 DEF IInv
<1>3. CASE StopPeriodicPush
  BY <1>0, <1>3 DEF StopPeriodicPush, IInv, TypeOK, OneFlusher,
     IdleQueueMeansFailure, BuiltIsNew, ToSet
<1>4. ASSUME NEW h \in Handles, Tick(h) PROVE IInv'
  <2>1. PICK p \in Pushes : BeginPush(p)
    BY <1>4 DEF Tick
  <2>2. UNCHANGED <<intervalHandle, intervals, starting, queue, isFlushing, lastSent>>
    BY <1>4 DEF Tick
  <2> QED BY <1>0, <2>1, <2>2, BeginPushStep DEF IInv, TypeOK
<1>5. ASSUME NEW p \in Pushes, Built(p) PROVE IInv'
  <2>0. /\ phase[p] = "building" /\ holds[p] \in Batches
        /\ UNCHANGED <<intervalHandle, intervals, starting, lastSent>>
    BY <1>0, <1>5 DEF Built, TypeOK
  <2>1. /\ Append(queue, holds[p]) \in Seq(Batches)
        /\ ToSet(Append(queue, holds[p])) = ToSet(queue) \cup {holds[p]}
    BY <1>0, <2>0, AppendElements DEF TypeOK
  <2>2. CASE isFlushing
    <3>1. /\ queue' = Append(queue, holds[p])
          /\ phase' = [phase EXCEPT ![p] = Ended(p)]
          /\ holds' = [holds EXCEPT ![p] = None]
          /\ isFlushing' = isFlushing
          /\ Ended(p) \in {"done", "idle"}
      BY <1>5, <2>2 DEF Built, Ended
    <3>2. TypeOK'
      BY <1>0, <2>0, <2>1, <3>1 DEF TypeOK, Phases
    <3>3. \A q \in Pushes : phase'[q] = "flushing" <=> phase[q] = "flushing"
      BY <1>0, <2>0, <3>1 DEF TypeOK
    <3>4. OneFlusher' /\ IdleQueueMeansFailure'
      BY <1>0, <2>2, <3>1, <3>3 DEF OneFlusher, IdleQueueMeansFailure
    <3>5. ToSet(queue)' = ToSet(queue) \cup {holds[p]}
      BY <2>1, <3>1 DEF ToSet
    <3>6. \A q \in Pushes : phase'[q] = "building" =>
            q # p /\ phase[q] = "building" /\ holds'[q] = holds[q]
      BY <1>0, <3>1 DEF TypeOK
    <3>7. \A q \in Pushes : holds'[q] = IF q = p THEN None ELSE holds[q]
      BY <1>0, <3>1 DEF TypeOK
    <3>8. BuiltIsNew'
      BY <1>0, <2>0, <3>5, <3>6, <3>7, SenderAssumption DEF BuiltIsNew, TypeOK
    <3> QED BY <3>2, <3>4, <3>8 DEF IInv
  <2>3. CASE ~isFlushing
    <3>1. Proceed(p, Append(queue, holds[p]))
      BY <1>5, <2>3 DEF Built
    <3>2. \A r \in Pushes : phase[r] = "flushing" => r = p
      BY <1>0, <2>3 DEF OneFlusher
    <3>3. \A r \in Pushes : phase[r] = "building" /\ r # p =>
            holds[r] \notin ToSet(Append(queue, holds[p]))
      BY <1>0, <2>1 DEF BuiltIsNew
    <3>4. lastSent' \in BOOLEAN
      BY <1>0, <2>0 DEF TypeOK
    <3> QED BY <2>0, <2>1, <3>1, <3>2, <3>3, <3>4, ProceedStep DEF IInv
  <2> QED BY <2>2, <2>3
<1>6. ASSUME NEW p \in Pushes, SendOk(p) PROVE IInv'
  <2>1. /\ phase[p] = "flushing" /\ Proceed(p, queue)
        /\ UNCHANGED <<intervalHandle, intervals, starting>>
        /\ lastSent' \in BOOLEAN /\ queue \in Seq(Batches)
    BY <1>0, <1>6, Zenon DEF SendOk, TypeOK
  <2>2. \A r \in Pushes : phase[r] = "flushing" => r = p
    BY <1>0, <2>1 DEF OneFlusher
  <2>3. \A r \in Pushes : phase[r] = "building" /\ r # p => holds[r] \notin ToSet(queue)
    BY <1>0 DEF BuiltIsNew
  <2> QED BY <2>1, <2>2, <2>3, ProceedStep DEF IInv
<1>7. ASSUME NEW p \in Pushes, SendFails(p) PROVE IInv'
  <2>1. /\ phase[p] = "flushing"
        /\ phase' = [phase EXCEPT ![p] = Ended(p)]
        /\ holds' = [holds EXCEPT ![p] = None]
        /\ UNCHANGED <<intervalHandle, intervals, starting, queue>>
        /\ Ended(p) \in {"done", "idle"}
    BY <1>7 DEF SendFails, Ended
  <2>2. /\ ~isFlushing' /\ isFlushing' \in BOOLEAN
        /\ ~lastSent' /\ lastSent' \in BOOLEAN
    BY <1>7, Zenon DEF SendFails
  <2>3. TypeOK'
    BY <1>0, <2>1, <2>2 DEF TypeOK, Phases
  <2>4. \A q \in Pushes : phase'[q] # "flushing"
    BY <1>0, <2>1 DEF TypeOK, OneFlusher
  <2>5. OneFlusher' /\ IdleQueueMeansFailure'
    BY <2>2, <2>4 DEF OneFlusher, IdleQueueMeansFailure
  <2>6. BuiltIsNew'
    BY <1>0, <2>1, SenderAssumption DEF BuiltIsNew, TypeOK, ToSet
  <2> QED BY <2>3, <2>5, <2>6 DEF IInv
<1>8. CASE UNCHANGED vars
  BY <1>0, <1>8 DEF vars, IInv, TypeOK, OneFlusher, IdleQueueMeansFailure,
     BuiltIsNew, ToSet
<1> QED BY <1>1, <1>2, <1>3, <1>4, <1>5, <1>6, <1>7, <1>8 DEF Next

LEMMA Invariance == Spec => []IInv
  BY IInvInit, IInvStep, PTL DEF Spec

(***************************************************************************)
(* The variables of the sender keep their types, and a push holds a batch  *)
(* exactly while it builds or sends it.                                    *)
(***************************************************************************)
THEOREM TypeCorrect == Spec => []TypeOK
<1>1. IInv => TypeOK
  BY DEF IInv
<1> QED BY Invariance, <1>1, PTL

(***************************************************************************)
(* Whoever starts the service, and however often, the queue has one        *)
(* flusher, and isFlushing says when (flushQueue).                         *)
(***************************************************************************)
THEOREM AlwaysOneFlusher == Spec => []OneFlusher
<1>1. IInv => OneFlusher
  BY DEF IInv
<1> QED BY Invariance, <1>1, PTL

(***************************************************************************)
(* A push that finds a flush going on may leave its batch to it: batches   *)
(* wait with no flush only after a failed send (flushQueue).               *)
(***************************************************************************)
THEOREM WaitsOnlyAfterFailure == Spec => []IdleQueueMeansFailure
<1>1. IInv => IdleQueueMeansFailure
  BY DEF IInv
<1> QED BY Invariance, <1>1, PTL

-----------------------------------------------------------------------------
(***************************************************************************)
(* What one caller adds: while it awaits its first push there is no        *)
(* interval.                                                               *)
(***************************************************************************)
OneCaller == \A c, d \in Callers : c = d

StartingHasNone == \A c \in Callers : starting[c] # None => intervalHandle = None

(***************************************************************************)
(* With one caller at most, no interval is ever out of stopPeriodicPush's  *)
(* reach.                                                                  *)
(***************************************************************************)
THEOREM NoIntervalIsLost ==
  ASSUME OneCaller
  PROVE  Spec => []NoOrphanInterval
<1> DEFINE J == NoOrphanInterval /\ StartingHasNone
<1>1. Init => J
  BY DEF Init, NoOrphanInterval, StartingHasNone
<1>2. TypeOK /\ J /\ [Next]_vars => J'
  <2> SUFFICES ASSUME TypeOK, J, [Next]_vars PROVE J'
    OBVIOUS
  <2> USE DEF NoOrphanInterval, StartingHasNone
  <2>1. ASSUME NEW c \in Callers, StartPeriodicPush(c) PROVE J'
    BY <2>1 DEF StartPeriodicPush, TypeOK
  <2>2. ASSUME NEW c \in Callers, StartReturns(c) PROVE J'
    <3>1. PICK h \in Handles : intervals' = intervals \cup {h} /\ intervalHandle' = h
      BY <2>2 DEF StartReturns
    <3>2. starting[c] # None /\ starting' = [starting EXCEPT ![c] = None]
      BY <2>2 DEF StartReturns
    <3>3. intervals = {}
      BY <3>2, SenderAssumption DEF TypeOK
    <3>4. \A d \in Callers : starting'[d] = None
      BY <3>2 DEF OneCaller, TypeOK
    <3> QED BY <3>1, <3>3, <3>4
  <2>3. CASE StopPeriodicPush
    BY <2>3 DEF StopPeriodicPush
  <2>4. ASSUME NEW h \in Handles, Tick(h) PROVE J'
    BY <2>4 DEF Tick
  <2>5. ASSUME NEW p \in Pushes, Built(p) \/ SendOk(p) \/ SendFails(p) PROVE J'
    BY <2>5 DEF Built, SendOk, SendFails
  <2>6. CASE UNCHANGED vars
    BY <2>6 DEF vars
  <2> QED BY <2>1, <2>2, <2>3, <2>4, <2>5, <2>6 DEF Next
<1> HIDE DEF J
<1>3. J => NoOrphanInterval
  BY DEF J
<1>4. IInv => TypeOK
  BY DEF IInv
<1> QED BY <1>1, <1>2, <1>3, <1>4, Invariance, PTL DEF Spec

-----------------------------------------------------------------------------
(***************************************************************************)
(* The channel seen by LossyFifo, for any phases, held batches and queue.  *)
(***************************************************************************)
FlushersOf(ph) == {p \in Pushes : ph[p] = "flushing"}

FlushesAlone(ph, p) == FlushersOf(ph) = {p}

ChannelOf(ph, ho, q) ==
  (IF FlushersOf(ph) = {} THEN <<>>
   ELSE <<ho[CHOOSE p \in Pushes : ph[p] = "flushing"]>>) \o q

LEMMA ChannelIdle ==
  ASSUME NEW ph, NEW ho, NEW q \in Seq(Batches), FlushersOf(ph) = {}
  PROVE  ChannelOf(ph, ho, q) = q
BY DEF ChannelOf

LEMMA ChannelBusy ==
  ASSUME NEW ph, NEW ho, NEW q, NEW p, FlushesAlone(ph, p)
  PROVE  ChannelOf(ph, ho, q) = <<ho[p]>> \o q
<1>1. (CHOOSE r \in Pushes : ph[r] = "flushing") = p
  BY DEF FlushesAlone, FlushersOf
<1> QED BY <1>1 DEF ChannelOf, FlushesAlone

(***************************************************************************)
(* What push p leaves in the channel when it goes on with a queue q.       *)
(***************************************************************************)
LEMMA ChannelProceeds ==
  ASSUME IInv, NEW p \in Pushes, NEW q \in Seq(Batches), Proceed(p, q),
         FlushersOf(phase) \subseteq {p}
  PROVE  ChannelOf(phase', holds', queue') = q
<1>0. phase \in [Pushes -> Phases] /\ holds \in [Pushes -> Batches \cup {None}]
  BY DEF IInv, TypeOK
<1>1. CASE q = <<>>
  <2>1. queue' = q /\ phase' = [phase EXCEPT ![p] = Ended(p)]
    BY <1>1 DEF Proceed
  <2>2. FlushersOf(phase') = {}
    BY <1>0, <2>1 DEF Ended, FlushersOf
  <2> QED BY <2>1, <2>2, ChannelIdle
<1>2. CASE q # <<>>
  <2>1. /\ queue' = Tail(q) /\ phase' = [phase EXCEPT ![p] = "flushing"]
        /\ holds' = [holds EXCEPT ![p] = Head(q)]
    BY <1>2 DEF Proceed
  <2>2. FlushesAlone(phase', p) /\ holds'[p] = Head(q)
    BY <1>0, <2>1 DEF FlushersOf, FlushesAlone
  <2>3. ChannelOf(phase', holds', queue') = <<holds'[p]>> \o queue'
    BY <2>2, ChannelBusy
  <2> QED BY <1>2, <2>1, <2>2, <2>3, ShiftElements
<1> QED BY <1>1, <1>2

(***************************************************************************)
(* The abstract steps, in terms of ChannelOf.                              *)
(***************************************************************************)
channelNow == ChannelOf(phase, holds, queue)

LEMMA FifoActions ==
  /\ Fifo!Init <=> channelNow = <<>> /\ lastSent = TRUE
  /\ \A b : Fifo!Put(b) <=> /\ \A i \in DOMAIN channelNow : channelNow[i] # b
                            /\ channelNow' = Append(channelNow, b)
                            /\ lastSent' = lastSent
  /\ \A ok : Fifo!Leave(ok) <=> /\ channelNow # <<>>
                                /\ channelNow' = Tail(channelNow)
                                /\ lastSent' = ok
  /\ Fifo!vars' = Fifo!vars <=> channelNow' = channelNow /\ lastSent' = lastSent
BY DEF Fifo!Init, Fifo!Put, Fifo!Leave, Fifo!vars, channelNow, ChannelOf,
   FlushersOf, Sending

LEMMA FifoInit == Init => Fifo!Init
<1> SUFFICES ASSUME Init PROVE Fifo!Init
  OBVIOUS
<1>1. queue = <<>> /\ FlushersOf(phase) = {} /\ lastSent = TRUE
  BY DEF Init, FlushersOf
<1>2. queue \in Seq(Batches)
  BY <1>1, EmptySeq
<1> QED BY <1>1, <1>2, ChannelIdle, FifoActions DEF channelNow

(***************************************************************************)
(* A snapshot queued during a flush, or put in an idle sender, is put at   *)
(* the end of the channel.                                                 *)
(***************************************************************************)
LEMMA BuiltPuts ==
  ASSUME IInv, NEW p \in Pushes, Built(p)
  PROVE  \E b \in Batches : Fifo!Put(b)
<1>0. /\ phase \in [Pushes -> Phases] /\ holds \in [Pushes -> Batches \cup {None}]
      /\ queue \in Seq(Batches) /\ phase[p] = "building"
  BY DEF IInv, TypeOK, Built
<1>1. holds[p] \in Batches
  BY <1>0 DEF IInv, TypeOK
<1>2. Append(queue, holds[p]) \in Seq(Batches)
  BY <1>0, <1>1, AppendElements
<1>3. \A i \in DOMAIN queue : queue[i] # holds[p]
  BY <1>0 DEF IInv, BuiltIsNew, ToSet
<1>4. lastSent' = lastSent
  BY DEF Built
<1> SUFFICES /\ channelNow' = Append(channelNow, holds[p])
             /\ \A i \in DOMAIN channelNow : channelNow[i] # holds[p]
  <2>1. PICK b \in Batches : b = holds[p]
    BY <1>1
  <2> QED BY <1>4, <2>1, FifoActions
<1>5. CASE ~isFlushing
  <2>1. FlushersOf(phase) = {}
    BY <1>5 DEF IInv, OneFlusher, FlushersOf
  <2>2. channelNow = queue
    BY <1>0, <2>1, ChannelIdle DEF channelNow
  <2>3. Proceed(p, Append(queue, holds[p]))
    BY <1>5 DEF Built
  <2>4. ChannelOf(phase', holds', queue') = Append(queue, holds[p])
    BY <1>2, <2>1, <2>3, ChannelProceeds
  <2>5. channelNow' = Append(channelNow, holds[p])
    BY <2>2, <2>4 DEF channelNow
  <2>6. \A i \in DOMAIN channelNow : channelNow[i] # holds[p]
    BY <1>3, <2>2, Zenon
  <2> QED BY <2>5, <2>6
<1>6. CASE isFlushing
  <2>1. PICK f \in Pushes : phase[f] = "flushing" /\ FlushesAlone(phase, f)
    BY <1>6 DEF IInv, OneFlusher, FlushersOf, FlushesAlone
  <2>2. /\ queue' = Append(queue, holds[p])
        /\ phase' = [phase EXCEPT ![p] = Ended(p)]
        /\ holds' = [holds EXCEPT ![p] = None]
    BY <1>6 DEF Built
  <2>3. f # p /\ holds[f] # holds[p] /\ holds[f] \in Batches
    BY <1>0, <2>1 DEF IInv, TypeOK, BuiltIsNew
  <2>4. channelNow = <<holds[f]>> \o queue
    BY <2>1, ChannelBusy DEF channelNow
  <2>5. FlushesAlone(phase', f) /\ holds'[f] = holds[f]
    BY <1>0, <2>1, <2>2, <2>3 DEF Ended, FlushersOf, FlushesAlone
  <2>6. ChannelOf(phase', holds', queue') = <<holds[f]>> \o queue'
    BY <2>5, ChannelBusy
  <2>7. <<holds[f]>> \o Append(queue, holds[p]) = Append(<<holds[f]>> \o queue, holds[p])
    BY <1>0, <1>1, <2>3
  <2>8. \A i \in DOMAIN (<<holds[f]>> \o queue) : (<<holds[f]>> \o queue)[i] # holds[p]
    BY <1>0, <1>3, <2>3
  <2>9. channelNow' = Append(channelNow, holds[p])
    BY <2>2, <2>4, <2>6, <2>7 DEF channelNow
  <2>10. \A i \in DOMAIN channelNow : channelNow[i] # holds[p]
    BY <2>4, <2>8, Zenon
  <2> QED BY <2>9, <2>10
<1> QED BY <1>5, <1>6

(***************************************************************************)
(* The end of a send takes the head of the channel away, and nothing else. *)
(***************************************************************************)
LEMMA SendLeaves ==
  ASSUME IInv, NEW p \in Pushes, SendOk(p) \/ SendFails(p)
  PROVE  Fifo!Leave(TRUE) \/ Fifo!Leave(FALSE)
<1>0. /\ phase \in [Pushes -> Phases] /\ holds \in [Pushes -> Batches \cup {None}]
      /\ queue \in Seq(Batches) /\ phase[p] = "flushing"
  BY DEF IInv, TypeOK, SendOk, SendFails
<1>1. FlushesAlone(phase, p)
  BY <1>0 DEF IInv, OneFlusher, FlushersOf, FlushesAlone
<1>2. channelNow = <<holds[p]>> \o queue
  BY <1>0, <1>1, ChannelBusy DEF channelNow
<1>3. holds[p] \in Batches
  BY <1>0 DEF IInv, TypeOK
<1>4. channelNow # <<>> /\ Tail(channelNow) = queue
  BY <1>0, <1>2, <1>3
<1>5. CASE SendOk(p)
  <2>1. Proceed(p, queue) /\ lastSent' = TRUE
    BY <1>5 DEF SendOk
  <2>2. ChannelOf(phase', holds', queue') = queue
    BY <1>0, <1>1, <2>1, ChannelProceeds DEF FlushesAlone
  <2> QED BY <1>4, <2>1, <2>2, FifoActions DEF channelNow
<1>6. CASE SendFails(p)
  <2>1. /\ queue' = queue /\ lastSent' = FALSE
        /\ phase' = [phase EXCEPT ![p] = Ended(p)]
    BY <1>6 DEF SendFails
  <2>2. FlushersOf(phase') = {}
    BY <1>0, <1>1, <2>1 DEF Ended, FlushersOf, FlushesAlone
  <2>3. ChannelOf(phase', holds', queue') = queue
    BY <1>0, <2>1, <2>2, ChannelIdle
  <2> QED BY <1>4, <2>1, <2>3, FifoActions DEF channelNow
<1> QED BY <1>5, <1>6
(***************************************************************************)
(* A step that leaves the flusher, its batch and the queue alone leaves    *)
(* the channel alone.                                                      *)
(***************************************************************************)
LEMMA ChannelSame ==
  ASSUME IInv, FlushersOf(phase') = FlushersOf(phase), queue' = queue,
         \A f \in Pushes : phase[f] = "flushing" => holds'[f] = holds[f]
  PROVE  channelNow' = channelNow
<1>1. ASSUME NEW f \in Pushes, phase[f] = "flushing" PROVE channelNow' = channelNow
  <2>1. FlushesAlone(phase, f) /\ FlushesAlone(phase', f)
    BY <1>1 DEF IInv, OneFlusher, FlushersOf, FlushesAlone
  <2>2. channelNow = <<holds[f]>> \o queue
    BY <2>1, ChannelBusy DEF channelNow
  <2>3. ChannelOf(phase', holds', queue') = <<holds'[f]>> \o queue'
    BY <2>1, ChannelBusy
  <2> QED BY <1>1, <2>2, <2>3 DEF channelNow
<1>2. CASE \A r \in Pushes : phase[r] # "flushing"
  <2>1. FlushersOf(phase) = {} /\ FlushersOf(phase') = {}
    BY <1>2 DEF FlushersOf
  <2>2. queue \in Seq(Batches)
    BY DEF IInv, TypeOK
  <2>3. channelNow = queue
    BY <2>1, <2>2, ChannelIdle DEF channelNow
  <2>4. ChannelOf(phase', holds', queue') = queue'
    BY <2>1, <2>2, ChannelIdle
  <2> QED BY <2>3, <2>4 DEF channelNow
<1> QED BY <1>1, <1>2

LEMMA FifoStep == IInv /\ [Next]_vars => [Fifo!Next]_(Fifo!vars)
<1> SUFFICES ASSUME IInv, [Next]_vars PROVE [Fifo!Next]_(Fifo!vars)
  OBVIOUS
<1>0. phase \in [Pushes -> Phases] /\ queue \in Seq(Batches)
  BY DEF IInv, TypeOK
<1>1. ASSUME NEW p \in Pushes, Built(p) PROVE Fifo!Next
  BY <1>1, BuiltPuts DEF Fifo!Next
<1>2. ASSUME NEW p \in Pushes, SendOk(p) \/ SendFails(p) PROVE Fifo!Next
  BY <1>2, SendLeaves DEF Fifo!Next
<1>3. ASSUME NEW p \in Pushes, BeginPush(p), UNCHANGED <<queue, isFlushing, lastSent>>
      PROVE  UNCHANGED Fifo!vars
  <2>1. FlushersOf(phase') = FlushersOf(phase) /\ phase[p] = "idle"
    BY <1>3, BeginPushStep DEF BeginPush, FlushersOf
  <2>2. PICK b \in Batches : holds' = [holds EXCEPT ![p] = b]
    BY <1>3 DEF BeginPush
  <2>3. \A f \in Pushes : phase[f] = "flushing" => holds'[f] = holds[f]
    BY <2>1, <2>2 DEF IInv, TypeOK
  <2>4. channelNow' = channelNow
    BY <1>3, <2>1, <2>3, ChannelSame
  <2> QED BY <1>3, <2>4, FifoActions, Zenon
<1>4. ASSUME NEW c \in Callers, StartPeriodicPush(c) PROVE UNCHANGED Fifo!vars
  BY <1>3, <1>4 DEF StartPeriodicPush
<1>5. ASSUME NEW h \in Handles, Tick(h) PROVE UNCHANGED Fifo!vars
  BY <1>3, <1>5 DEF Tick
<1>6. ASSUME NEW c \in Callers, StartReturns(c) PROVE UNCHANGED Fifo!vars
  <2> DEFINE s == starting[c]
  <2>1. /\ phase' = [phase EXCEPT ![s] = "idle"] /\ phase[s] = "done"
        /\ holds' = holds /\ queue' = queue /\ lastSent' = lastSent
    BY <1>6 DEF StartReturns
  <2>2. \A r \in Pushes : phase'[r] = "flushing" <=> phase[r] = "flushing"
    BY <1>0, <2>1
  <2>3. FlushersOf(phase') = FlushersOf(phase)
    BY <2>2 DEF FlushersOf
  <2>4. channelNow' = channelNow
    BY <2>1, <2>3, ChannelSame
  <2> QED BY <2>1, <2>4, FifoActions, Zenon
<1>7. CASE StopPeriodicPush \/ UNCHANGED vars
  <2>1. phase' = phase /\ holds' = holds /\ queue' = queue /\ lastSent' = lastSent
    BY <1>7 DEF StopPeriodicPush, vars
  <2>2. channelNow' = channelNow
    BY <2>1 DEF channelNow
  <2> QED BY <2>1, <2>2, FifoActions, Zenon
<1> QED BY <1>1, <1>2, <1>4, <1>5, <1>6, <1>7 DEF Next

(***************************************************************************)
(* Batches leave in the order they were queued, each once, whatever pushes *)
(* overlap and whatever sends fail (flushQueue).                           *)
(***************************************************************************)
THEOREM FirstInFirstOut == Spec => ImplementsFifo
BY FifoInit, FifoStep, Invariance, PTL DEF Spec, ImplementsFifo, Fifo!Spec
=============================================================================
