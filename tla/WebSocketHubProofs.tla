------------------------- MODULE WebSocketHubProofs --------------------------
(***************************************************************************)
(* Proofs about WebSocketHub, for any clients, requests and events: of the *)
(* types of the mirror, which in the hub behaves as it does alone, and of  *)
(* what becomes of a log's last content; that an event comes once to whom  *)
(* it is due, and no line of a log is missed by a client.                  *)
(***************************************************************************)
EXTENDS WebSocketHub, SequenceTheorems, TLAPS

(* What the mirror's type invariant says of now, and of the past.          *)
Typed ==
  /\ file \in 0..MaxChanges
  /\ watcher \in Watchers
  /\ changed \in BOOLEAN
  /\ phase \in [Reads -> Phases]
  /\ content \in [Reads -> 0..file] /\ initial \in [Reads -> 0..file]
  /\ node \in [Reads -> Nat]
  /\ copies \in Seq(0..file)
  /\ \A r \in Reads : IF phase[r] = "uploading"
                        THEN node[r] \in DOMAIN copies /\ content[r] # 0
                        ELSE node[r] = 0

Past == /\ missed \in 0..file
        /\ overlapped \in BOOLEAN
        /\ requests \in 0..MaxRequests
        /\ deaths \in 0..MaxDeaths

(* Whatever is told or read was written.                                   *)
Written == /\ Typed
           /\ changed => file > 0
           /\ \A r \in Reads : phase[r] = "reading" => file > 0

MirrorInv == Written /\ Past

(* A handling that goes on at place p, while files, nodes and the other    *)
(* handlings stay as they are.                                             *)
LEMMA GoesTo ==
  ASSUME Written, NEW r \in Reads, NEW p \in Phases \ {"uploading"},
         phase' = [phase EXCEPT ![r] = p], p = "reading" => file > 0,
         UNCHANGED <<file, copies>>, watcher' \in Watchers,
         changed' = changed \/ changed' = FALSE,
         content' \in [Reads -> 0..file], initial' \in [Reads -> 0..file],
         \A q \in Reads : q # r => content'[q] = content[q],
         \/ node' = node /\ phase[r] # "uploading"
         \/ node' = [node EXCEPT ![r] = 0]
  PROVE  Written'
<1>1. /\ phase' \in [Reads -> Phases] /\ phase'[r] = p
      /\ \A q \in Reads : q # r => phase'[q] = phase[q]
  BY SMT DEF Written, Typed, Phases
<1>2. /\ node' \in [Reads -> Nat] /\ node'[r] = 0
      /\ \A q \in Reads : q # r => node'[q] = node[q]
  <2>1. node \in [Reads -> Nat] /\ (phase[r] # "uploading" => node[r] = 0)
    BY DEF Written, Typed
  <2>2. CASE node' = node /\ phase[r] # "uploading"
    BY <2>1, <2>2
  <2>3. CASE node' = [node EXCEPT ![r] = 0]
    BY <2>1, <2>3, SMT
  <2>4. QED
    BY <2>2, <2>3
<1>3. \A q \in Reads : IF phase'[q] = "uploading"
                         THEN node'[q] \in DOMAIN copies /\ content'[q] # 0
                         ELSE node'[q] = 0
  <2> TAKE q \in Reads
  <2>1. CASE q = r
    BY <1>1, <1>2, <2>1
  <2>2. CASE q # r
    BY <1>1, <1>2, <2>2 DEF Written, Typed
  <2>3. QED
    BY <2>1, <2>2
<1>4. changed' \in BOOLEAN /\ (changed' => file > 0)
  <2>1. changed \in BOOLEAN /\ (changed => file > 0)
    BY DEF Written, Typed
  <2>2. CASE changed' = changed
    BY <2>1, <2>2
  <2>3. CASE changed' = FALSE
    BY <2>3
  <2>4. QED
    BY <2>2, <2>3
<1>5. \A q \in Reads : phase'[q] = "reading" => file > 0
  <2> TAKE q \in Reads
  <2>1. CASE q = r
    BY <1>1, <2>1
  <2>2. CASE q # r
    BY <1>1, <2>2 DEF Written
  <2>3. QED
    BY <2>1, <2>2
<1>6. file' = file /\ copies' = copies /\ file \in 0..MaxChanges /\ copies \in Seq(0..file)
  BY DEF Written, Typed
<1>7. Typed'
  BY <1>1, <1>2, <1>3, <1>4, <1>6 DEF Typed, Phases
<1>8. QED
  BY <1>4, <1>5, <1>6, <1>7 DEF Written

(* A handling that has got its log node, perhaps a new one.                *)
LEMMA GoesOnStep ==
  ASSUME Written, NEW r \in Reads, NEW i \in Nat, GoesOn(r, i),
         phase[r] \in {"looking", "adding"}, UNCHANGED <<file, watcher, changed, content>>,
         initial' \in [Reads -> 0..file],
         copies' \in Seq(0..file), DOMAIN copies \subseteq DOMAIN copies',
         i \in DOMAIN copies'
  PROVE  Written'
<1>1. PICK p \in Phases :
        /\ phase' = [phase EXCEPT ![r] = p] /\ p \in {"idle", "uploading"}
        /\ p = "uploading" <=> content[r] # 0
        /\ node' = IF p = "uploading" THEN [node EXCEPT ![r] = i] ELSE node
  <2>1. CASE content[r] = 0
    BY <2>1, Zenon DEF GoesOn, Phases
  <2>2. CASE content[r] # 0
    BY <2>2, Zenon DEF GoesOn, Phases
  <2>3. QED
    BY <2>1, <2>2
<1>2. /\ phase' \in [Reads -> Phases] /\ phase'[r] = p
      /\ \A q \in Reads : q # r => phase'[q] = phase[q]
  BY <1>1, SMT DEF Written, Typed, Phases
<1>3. /\ node' \in [Reads -> Nat]
      /\ node'[r] = IF p = "uploading" THEN i ELSE 0
      /\ \A q \in Reads : q # r => node'[q] = node[q]
  BY <1>1, SMT DEF Written, Typed
<1>4. \A q \in Reads : IF phase'[q] = "uploading"
                         THEN node'[q] \in DOMAIN copies' /\ content[q] # 0
                         ELSE node'[q] = 0
  <2> TAKE q \in Reads
  <2>1. CASE q = r
    BY <1>1, <1>2, <1>3, <2>1
  <2>2. CASE q # r
    BY <1>2, <1>3, <2>2 DEF Written, Typed
  <2>3. QED
    BY <2>1, <2>2
<1>5. \A q \in Reads : phase'[q] = "reading" => file > 0
  <2> TAKE q \in Reads
  <2>1. CASE q = r
    BY <1>1, <1>2, <2>1
  <2>2. CASE q # r
    BY <1>2, <2>2 DEF Written
  <2>3. QED
    BY <2>1, <2>2
<1>6. /\ file' = file /\ changed' = changed /\ content' = content
      /\ watcher' = watcher /\ watcher \in Watchers
      /\ file \in 0..MaxChanges /\ changed \in BOOLEAN /\ content \in [Reads -> 0..file]
      /\ changed => file > 0
  BY DEF Written, Typed
<1>7. Typed'
  BY <1>2, <1>3, <1>4, <1>6 DEF Typed, Phases
<1>8. QED
  BY <1>5, <1>6, <1>7 DEF Written

(* The mirror's steps keep it.                                             *)
LEMMA WrittenStep == ASSUME Written, [Next]_vars PROVE Written'
<1>0. /\ Typed /\ file \in Nat /\ copies \in Seq(0..file)
      /\ content \in [Reads -> 0..file] /\ initial \in [Reads -> 0..file]
      /\ phase \in [Reads -> Phases] /\ watcher \in Watchers
      /\ Len(copies) \in Nat /\ DOMAIN copies = 1..Len(copies)
  BY MirrorAssumption, LenProperties, SMT DEF Written, Typed, Phases
<1>1. CASE Writes
  <2>1. /\ file' = file + 1 /\ file' \in 0..MaxChanges /\ changed' \in BOOLEAN
        /\ watcher' = watcher /\ phase' = phase /\ content' = content /\ initial' = initial /\ node' = node
        /\ copies' = copies
    BY <1>0, <1>1, MirrorAssumption, SMT DEF Writes, Typed, handlings
  <2>2. 0..file \subseteq 0..file'
    BY <1>0, <2>1, SMT
  <2>3. copies' \in Seq(0..file')
    BY <1>0, <2>1, <2>2, SeqMonotonic
  <2>4. content' \in [Reads -> 0..file'] /\ initial' \in [Reads -> 0..file']
    BY <1>0, <2>1, <2>2, SMT
  <2>5. file' > 0
    BY <1>0, <2>1, SMT
  <2>6. Typed'
    BY <1>0, <2>1, <2>3, <2>4 DEF Typed
  <2>7. QED
    BY <2>5, <2>6 DEF Written
<1>2. ASSUME NEW r \in Reads, Change(r) PROVE Written'
  <2>1. file > 0
    BY <1>2 DEF Change, Written
  <2>2. QED
    BY <1>0, <1>2, <2>1, GoesTo DEF Change, Begins, Phases
<1>3. ASSUME NEW r \in Reads, ReadEnds(r) PROVE Written'
  <2>1. /\ content' \in [Reads -> 0..file]
        /\ \A q \in Reads : q # r => content'[q] = content[q]
    BY <1>0, <1>3, SMT DEF ReadEnds
  <2>2. QED
    BY <1>0, <1>3, <2>1, GoesTo DEF ReadEnds, Phases
<1>4. ASSUME NEW r \in Reads, CopyRequested(r) PROVE Written'
  BY <1>0, <1>4, GoesTo DEF CopyRequested, Begins, Phases
<1>5. ASSUME NEW r \in Reads, Looks(r) PROVE Written'
  <2>1. CASE copies # <<>> /\ GoesOn(r, 1)
    <3>1. 1 \in DOMAIN copies
      BY <1>0, <2>1, EmptySeq, SMT
    <3>2. QED
      BY <1>0, <1>5, <2>1, <3>1, GoesOnStep DEF Looks
  <2>2. CASE phase' = [phase EXCEPT ![r] = "making"] /\ UNCHANGED node
    BY <1>0, <1>5, <2>2, GoesTo DEF Looks, Phases
  <2>3. QED
    BY <1>5, <2>1, <2>2 DEF Looks
<1>6. ASSUME NEW r \in Reads, Makes(r) PROVE Written'
  <2>1. file \in 0..file
    BY <1>0, SMT
  <2>2. initial' \in [Reads -> 0..file]
    BY <1>0, <1>6, <2>1, SMT DEF Makes
  <2>3. QED
    BY <1>0, <1>6, <2>2, GoesTo DEF Makes, Phases
<1>7. ASSUME NEW r \in Reads, Adds(r) PROVE Written'
  <2>1. copies' = Append(copies, initial[r]) /\ initial[r] \in 0..file
    BY <1>0, <1>7 DEF Adds
  <2>2. initial' \in [Reads -> 0..file]
    BY <1>0, <1>7, SMT DEF Adds
  <2>3. /\ copies' \in Seq(0..file) /\ Len(copies') = Len(copies) + 1
        /\ DOMAIN copies' = 1..(Len(copies) + 1)
    BY <1>0, <2>1, AppendProperties, LenProperties
  <2>4. /\ DOMAIN copies \subseteq DOMAIN copies'
        /\ Len(copies') \in DOMAIN copies' /\ Len(copies') \in Nat
    BY <1>0, <2>3, SMT
  <2>5. QED
    BY <1>7, <2>2, <2>3, <2>4, GoesOnStep DEF Adds
<1>8. ASSUME NEW r \in Reads, GivesUp(r) PROVE Written'
  <2>1. /\ content' \in [Reads -> 0..file] /\ initial' \in [Reads -> 0..file]
        /\ \A q \in Reads : q # r => content'[q] = content[q]
    BY <1>0, <1>8, SMT DEF GivesUp
  <2>2. QED
    BY <1>0, <1>8, <2>1, GoesTo DEF GivesUp, Phases
<1>9. ASSUME NEW r \in Reads, Uploaded(r) PROVE Written'
  <2>1. /\ content' \in [Reads -> 0..file] /\ initial' \in [Reads -> 0..file]
        /\ \A q \in Reads : q # r => content'[q] = content[q]
    BY <1>0, <1>9, SMT DEF Uploaded
  <2>2. node[r] \in DOMAIN copies /\ content[r] \in 0..file
    BY <1>0, <1>9 DEF Uploaded, Typed
  <2>3. copies' \in Seq(0..file) /\ DOMAIN copies' = DOMAIN copies
    BY <1>0, <1>9, <2>2, ExceptSeq DEF Uploaded
  <2>4. /\ \A q \in Reads : phase'[q] = IF q = r THEN "idle" ELSE phase[q]
        /\ \A q \in Reads : node'[q] = IF q = r THEN 0 ELSE node[q]
        /\ phase' \in [Reads -> Phases] /\ node' \in [Reads -> Nat]
    BY <1>0, <1>9, SMT DEF Uploaded, Typed, Phases
  <2>5. \A q \in Reads : IF phase'[q] = "uploading"
                           THEN node'[q] \in DOMAIN copies' /\ content'[q] # 0
                           ELSE node'[q] = 0
    BY <2>1, <2>3, <2>4 DEF Written, Typed
  <2>6. file' = file /\ watcher' = watcher /\ changed' = changed
    BY <1>9 DEF Uploaded
  <2>7. Typed'
    BY <2>1, <2>3, <2>4, <2>5, <2>6 DEF Written, Typed
  <2>8. QED
    BY <2>4, <2>6, <2>7 DEF Written
<1>10. CASE Starts \/ InitialFails \/ Watches
  BY <1>10 DEF Starts, InitialFails, Watches, handlings, Written, Typed, Watchers
<1>11. CASE InitialRead
  <2>1. UNCHANGED <<file, changed, initial, node, copies>> /\ watcher' \in Watchers
    BY <1>11 DEF InitialRead, Watchers
  <2>2. CASE UNCHANGED <<phase, content>>
    BY <2>1, <2>2 DEF Written, Typed
  <2>3. ASSUME NEW r \in Reads, Begins(r, "looking"), content' = [content EXCEPT ![r] = file]
        PROVE  Written'
    <3>1. /\ content' \in [Reads -> 0..file]
          /\ \A q \in Reads : q # r => content'[q] = content[q]
      BY <1>0, <2>3, SMT
    <3>2. QED
      BY <1>0, <2>1, <2>3, <3>1, GoesTo DEF Begins, Phases
  <2>4. QED
    BY <1>11, <2>2, <2>3 DEF InitialRead
<1>12. CASE AgentDies
  <2>1. /\ watcher' = "down" /\ changed' = FALSE /\ UNCHANGED <<file, copies>>
        /\ phase' = [r \in Reads |-> "idle"] /\ content' = [r \in Reads |-> 0]
        /\ initial' = [r \in Reads |-> 0] /\ node' = [r \in Reads |-> 0]
    BY <1>12 DEF AgentDies
  <2>2. \A r \in Reads : phase'[r] = "idle" /\ node'[r] = 0
    BY <2>1, Zenon
  <2>3. /\ phase' \in [Reads -> Phases] /\ content' \in [Reads -> 0..file]
        /\ initial' \in [Reads -> 0..file] /\ node' \in [Reads -> Nat]
    BY <1>0, <2>1, SMT DEF Phases
  <2>4. Typed'
    BY <1>0, <2>1, <2>2, <2>3 DEF Written, Typed, Watchers
  <2>5. QED
    BY <2>1, <2>2, <2>4 DEF Written
<1>13. CASE UNCHANGED vars
  BY <1>13 DEF vars, handlings, Written, Typed
<1>14. QED
  BY <1>1, <1>2, <1>3, <1>4, <1>5, <1>6, <1>7, <1>8, <1>9, <1>10, <1>11, <1>12, <1>13
     DEF Next, Goes, Meets, Handles

LEMMA WrittenStart == Init => Written
<1> SUFFICES ASSUME Init PROVE Written
  OBVIOUS
<1>1. file = 0 /\ watcher = "down" /\ changed = FALSE /\ copies = <<>>
  BY DEF Init
<1>2. /\ phase \in [Reads -> Phases] /\ content \in [Reads -> 0..file]
      /\ initial \in [Reads -> 0..file] /\ node \in [Reads -> Nat]
  BY <1>1, SMT DEF Init, Phases
<1>3. \A r \in Reads : phase[r] = "idle" /\ node[r] = 0
  BY Zenon DEF Init
<1>4. file \in 0..MaxChanges /\ changed \in BOOLEAN /\ copies \in Seq(0..file)
  <2>1. file \in 0..MaxChanges
    BY <1>1, MirrorAssumption, SMT
  <2>2. changed \in BOOLEAN
    BY <1>1, Zenon
  <2>3. QED
    BY <1>1, <2>1, <2>2, EmptySeq
<1>5. \A r \in Reads : phase[r] \notin {"reading", "uploading"}
  BY <1>3
<1>6. Typed
  BY <1>1, <1>2, <1>3, <1>4, <1>5 DEF Typed, Watchers
<1>7. QED
  BY <1>1, <1>5, <1>6 DEF Written

(* Only what was written is missed, and bounds are kept.                   *)
LEMMA PastStep == ASSUME Typed, Past, [Next]_vars PROVE Past'
<1>1. /\ file \in Nat /\ content \in [Reads -> 0..file] /\ missed \in 0..file
      /\ MaxRequests \in Nat /\ MaxDeaths \in Nat
  BY MirrorAssumption, SMT DEF Typed, Past
<1>2. ASSUME NEW n \in 0..file', file' \in Nat, file <= file', Misses(n)
      PROVE  missed' \in 0..file'
  BY <1>1, <1>2, SMT DEF Misses
<1>3. CASE Writes
  <2>1. file' \in Nat /\ file' = file + 1 /\ UNCHANGED <<overlapped, requests, deaths>>
    BY <1>1, <1>3, SMT DEF Writes
  <2>2. missed' \in 0..file'
    <3>1. CASE Misses(file')
      BY <1>1, <1>2, <2>1, <3>1, SMT
    <3>2. CASE UNCHANGED missed
      BY <1>1, <2>1, <3>2, SMT
    <3>3. QED
      BY <1>3, <3>1, <3>2 DEF Writes
  <2>3. QED
    BY <2>1, <2>2 DEF Past
<1>4. ASSUME UNCHANGED <<file, missed, requests, deaths>>, overlapped' \in BOOLEAN PROVE Past'
  BY <1>4 DEF Past
<1>5. ASSUME NEW r \in Reads, NEW p, Begins(r, p) PROVE overlapped' \in BOOLEAN
  BY <1>5 DEF Begins, Past
<1>6. ASSUME NEW r \in Reads, Handles(r) PROVE Past'
  <2>1. CASE Change(r)
    BY <1>4, <1>5, <2>1 DEF Change
  <2>2. CASE ReadEnds(r) \/ Looks(r) \/ Makes(r) \/ Adds(r) \/ Uploaded(r)
    BY <1>4, <2>2 DEF ReadEnds, Looks, Makes, Adds, Uploaded, history, Past
  <2>3. QED
    BY <1>6, <2>1, <2>2 DEF Handles
<1>7. CASE InitialRead
  <2>1. UNCHANGED overlapped \/ \E r \in Reads : Begins(r, "looking")
    BY <1>7 DEF InitialRead
  <2>2. overlapped' \in BOOLEAN
    BY <1>5, <2>1 DEF Past
  <2>3. QED
    BY <1>4, <1>7, <2>2 DEF InitialRead
<1>8. CASE Starts \/ Watches \/ UNCHANGED vars
  BY <1>4, <1>8 DEF Starts, Watches, vars, history, Past
<1>9. ASSUME NEW r \in Reads, CopyRequested(r) PROVE Past'
  BY <1>1, <1>5, <1>9, SMT DEF CopyRequested, Past
<1>10. CASE InitialFails
  <2>1. missed' \in 0..file'
    BY <1>1, <1>2, <1>10, SMT DEF InitialFails
  <2>2. QED
    BY <1>10, <2>1 DEF InitialFails, Past
<1>11. ASSUME NEW r \in Reads, GivesUp(r) PROVE Past'
  <2>1. (IF phase[r] = "reading" THEN file ELSE content[r]) \in 0..file
    BY <1>1, SMT
  <2>2. missed' \in 0..file'
    BY <1>1, <1>2, <1>11, <2>1, SMT DEF GivesUp
  <2>3. QED
    BY <1>11, <2>2 DEF GivesUp, Past
<1>12. CASE AgentDies
  BY <1>1, <1>12, SMT DEF AgentDies, Past
<1>13. QED
  BY <1>3, <1>6, <1>7, <1>8, <1>9, <1>10, <1>11, <1>12 DEF Next, Goes, Meets

LEMMA MirrorStep == ASSUME MirrorInv, [Next]_vars PROVE MirrorInv'
  BY WrittenStep, PastStep DEF MirrorInv, Written

LEMMA MirrorStart == Init => MirrorInv
<1> SUFFICES ASSUME Init PROVE MirrorInv
  OBVIOUS
<1>1. file = 0 /\ missed = 0 /\ overlapped = FALSE /\ requests = 0 /\ deaths = 0
  BY DEF Init
<1>2. missed \in 0..file /\ requests \in 0..MaxRequests /\ deaths \in 0..MaxDeaths
  BY <1>1, MirrorAssumption, SMT
<1>3. overlapped \in BOOLEAN
  BY <1>1, Zenon
<1>4. QED
  BY <1>2, <1>3, WrittenStart DEF MirrorInv, Past

(* LogMirror.TypeOK: what is uploaded was read after a change and has a    *)
(* log node to go to, however handlings that look for it and make it meet. *)
THEOREM MirrorTypes == Spec => []TypeOK
<1>1. MirrorInv => TypeOK
  BY DEF MirrorInv, Written, Typed, Past, TypeOK
<1>2. QED
  BY <1>1, MirrorStart, MirrorStep, PTL DEF Spec
-----------------------------------------------------------------------------
(* The last content is carried by the initial read that is still to come,  *)
(* a change that is still to be told, or a handling that has it or will    *)
(* read it.                                                                *)
Carries(r) ==
  \/ phase[r] = "reading"
  \/ phase[r] \in {"looking", "making", "adding", "uploading"} /\ content[r] = file

Carried == watcher \in {"down", "reading"} \/ changed \/ \E r \in Reads : Carries(r)

(* The graph shows it, or there are more log nodes than the one shown.     *)
Shown == Shows(file) \/ Len(copies) > 1

(* Who goes on with the content he has carries it on.                      *)
LEMMA CarriesOn ==
  ASSUME NEW r \in Reads, NEW p, phase \in [Reads -> Phases], phase' = [phase EXCEPT ![r] = p],
         Carries(r) => p = "reading"
                       \/ (p \in {"looking", "making", "adding", "uploading"} /\ content'[r] = file),
         UNCHANGED <<file, watcher, changed>>,
         \A q \in Reads : q # r => content'[q] = content[q],
         Carried
  PROVE  Carried'
<1>1. ASSUME NEW q \in Reads, Carries(q) PROVE Carries(q)'
  <2>1. CASE q = r
    BY <1>1, <2>1 DEF Carries
  <2>2. CASE q # r
    BY <1>1, <2>2 DEF Carries
  <2>3. QED
    BY <2>1, <2>2
<1>2. QED
  BY <1>1 DEF Carried

LEMMA LogNodeCarries ==
  ASSUME MirrorInv, NEW r \in Reads, NEW i, GoesOn(r, i), file > 0, Carried,
         phase[r] \in {"looking", "adding"}, UNCHANGED <<file, watcher, changed, content>>
  PROVE  Carried'
<1>1. phase \in [Reads -> Phases]
  BY DEF MirrorInv, Written, Typed
<1>2. CASE content[r] = 0
  BY <1>1, <1>2, CarriesOn DEF GoesOn, Carries
<1>3. CASE content[r] # 0
  BY <1>1, <1>3, CarriesOn DEF GoesOn, Carries
<1>4. QED
  BY <1>2, <1>3

(* How the last content may be lost: its read or its upload fails, or the  *)
(* process has no node in the graph.                                       *)
Lost == InitialFails \/ \E r \in Reads : Carries(r) /\ GivesUp(r)

LEMMA CarryingStep ==
  ASSUME MirrorInv, [Next]_vars, Carried, file > 0, file' = file
  PROVE  Carried' \/ Shown' \/ Lost
<1>1. /\ phase \in [Reads -> Phases] /\ content \in [Reads -> 0..file] /\ file \in Nat
      /\ copies \in Seq(0..file) /\ Len(copies) \in Nat /\ DOMAIN copies = 1..Len(copies)
  BY MirrorAssumption, LenProperties, SMT DEF MirrorInv, Written, Typed
<1>2. CASE Writes
  BY <1>1, <1>2 DEF Writes
<1>3. ASSUME NEW r \in Reads, Change(r) PROVE Carried'
  BY <1>1, <1>3 DEF Change, Begins, Carried, Carries
<1>4. ASSUME NEW r \in Reads, ReadEnds(r) PROVE Carried'
  BY <1>1, <1>4, CarriesOn DEF ReadEnds
<1>5. ASSUME NEW r \in Reads, CopyRequested(r) PROVE Carried'
  BY <1>1, <1>5, CarriesOn DEF CopyRequested, Begins, Carries
<1>6. ASSUME NEW r \in Reads, Looks(r) PROVE Carried'
  <2>1. CASE GoesOn(r, 1)
    BY <1>6, <2>1, LogNodeCarries DEF Looks
  <2>2. CASE phase' = [phase EXCEPT ![r] = "making"]
    BY <1>1, <1>6, <2>2, CarriesOn DEF Looks, Carries
  <2>3. QED
    BY <1>6, <2>1, <2>2 DEF Looks
<1>7. ASSUME NEW r \in Reads, Makes(r) PROVE Carried'
  BY <1>1, <1>7, CarriesOn DEF Makes, Carries
<1>8. ASSUME NEW r \in Reads, Adds(r) PROVE Carried'
  BY <1>8, LogNodeCarries DEF Adds
<1>9. ASSUME NEW r \in Reads, GivesUp(r) PROVE Carried' \/ Lost
  <2>1. CASE Carries(r)
    BY <1>9, <2>1 DEF Lost
  <2>2. CASE ~Carries(r)
    BY <1>1, <1>9, <2>2, CarriesOn DEF GivesUp
  <2>3. QED
    BY <2>1, <2>2
<1>10. ASSUME NEW r \in Reads, Uploaded(r) PROVE Carried' \/ Shown'
  <2>1. CASE content[r] # file
    BY <1>1, <1>10, <2>1, CarriesOn DEF Uploaded, Carries
  <2>2. CASE content[r] = file
    <3>1. node[r] \in 1..Len(copies)
      BY <1>1, <1>10 DEF Uploaded, MirrorInv, Written, Typed
    <3>2. copies' = [copies EXCEPT ![node[r]] = file]
      BY <1>10, <2>2 DEF Uploaded
    <3>3. Len(copies') = Len(copies) /\ copies'[node[r]] = file /\ copies' \in Seq(0..file)
      BY <1>1, <3>1, <3>2, ExceptSeq
    <3>4. Len(copies') > 1 \/ (node[r] = 1 /\ Head(copies') = copies'[1])
      BY <1>1, <3>1, <3>3
    <3>5. copies' # <<>>
      BY <1>1, <3>1, <3>3
    <3>6. QED
      BY <3>3, <3>4, <3>5 DEF Shown, Shows
  <2>3. QED
    BY <2>1, <2>2
<1>11. CASE Starts \/ InitialFails
  BY <1>11 DEF Starts, Carried, Lost
<1>12. CASE Watches \/ UNCHANGED vars
  BY <1>12 DEF Watches, vars, handlings, Carried, Carries
<1>13. CASE InitialRead
  <2>1. PICK r \in Reads : /\ phase' = [phase EXCEPT ![r] = "looking"]
                           /\ content' = [content EXCEPT ![r] = file]
    BY <1>13 DEF InitialRead, Begins
  <2>2. Carries(r)'
    BY <1>1, <2>1 DEF Carries
  <2>3. QED
    BY <2>2 DEF Carried
<1>14. CASE AgentDies
  BY <1>14 DEF AgentDies, Carried
<1>15. QED
  BY <1>2, <1>3, <1>4, <1>5, <1>6, <1>7, <1>8, <1>9, <1>10, <1>11, <1>12, <1>13, <1>14
     DEF Next, Goes, Meets, Handles

(* A content that is written is carried until the graph shows it: as long  *)
(* as nothing newer is written, the initial read is still to come, a       *)
(* change is told, a read goes on or the content itself is on its way,     *)
(* whatever handlings meet it and also when the agent dies.  It is lost    *)
(* only if it is written between the initial read and fs.watch, if its     *)
(* read or upload fails or its process has no node, or to a second log     *)
(* node (_createLogWatcher, _emitAppendedLogContent,                       *)
(* updatePm2LogFileContent).                                               *)
ContentIsCarried ==
  [][(Writes /\ watcher # "ready") \/ (Carried /\ file > 0 /\ file' = file) =>
       Carried' \/ Shown' \/ Lost]_vars

THEOREM NoContentIsLost == Spec => ContentIsCarried
<1> DEFINE A == (Writes /\ watcher # "ready") \/ (Carried /\ file > 0 /\ file' = file) =>
                  Carried' \/ Shown' \/ Lost
<1>1. MirrorInv /\ [Next]_vars => [A]_vars
  <2>1. ASSUME MirrorInv, Writes, watcher # "ready" PROVE Carried'
    BY <2>1, Zenon DEF Writes, Carried, MirrorInv, Written, Typed, Watchers
  <2>2. QED
    BY <2>1, CarryingStep
<1>2. QED
  BY <1>1, MirrorStart, MirrorStep, PTL DEF Spec, ContentIsCarried
-----------------------------------------------------------------------------
(* Without overlaps.  There is one handling at a time, one log node, and a *)
(* handling that has an older content is followed by another or its last   *)
(* content was missed.                                                     *)
Kept == file > 0 => Carried \/ missed = file \/ Shows(file)

Alone ==
  /\ \A q, r \in Reads : phase[q] # "idle" /\ phase[r] # "idle" => q = r
  /\ Len(copies) <= 1
  /\ \A r \in Reads : phase[r] \in {"making", "adding"} => copies = <<>>
  /\ \A r \in Reads :
       phase[r] = "reading" \/ content[r] # 0 => watcher \in {"ready", "watching"}
  /\ \A r \in Reads : content[r] # 0 => content[r] = file \/ changed \/ missed = file
  /\ Kept

Told == /\ changed => watcher = "watching"
        /\ \A r \in Reads : phase[r] \in {"idle", "reading"} => content[r] = 0

AloneInv == MirrorInv /\ Told /\ (~overlapped => Alone)

(* What is missed stays missed until something newer is written.           *)
LEMMA MissedStays ==
  ASSUME MirrorInv, MirrorInv', file' = file, missed = file,
         UNCHANGED missed \/ \E n \in 0..file : Misses(n)
  PROVE  missed' = file
  BY MirrorAssumption, SMT DEF Misses, MirrorInv, Past, Written, Typed

(* The mirror does not write to the log.                                   *)
LEMMA FileStays == ASSUME Goes \/ Meets PROVE file' = file
<1>1. ASSUME NEW r \in Reads, Handles(r) PROVE file' = file
  BY <1>1 DEF Handles, Change, ReadEnds, Looks, Makes, Adds, Uploaded
<1>2. CASE Starts \/ InitialRead \/ Watches
  BY <1>2 DEF Starts, InitialRead, Watches
<1>3. CASE Meets
  BY <1>3 DEF Meets, InitialFails, AgentDies, CopyRequested, GivesUp
<1>4. QED
  BY <1>1, <1>2, <1>3 DEF Goes

(* What a step of the mirror that writes nothing says of what was missed.  *)
LEMMA MissesSome ==
  ASSUME MirrorInv, Goes \/ Meets
  PROVE  UNCHANGED missed \/ \E n \in 0..file : Misses(n)
<1>1. file \in Nat /\ content \in [Reads -> 0..file] /\ file \in 0..file
  BY MirrorAssumption, SMT DEF MirrorInv, Written, Typed
<1>2. CASE Goes
  <2>1. ASSUME NEW r \in Reads, Handles(r) PROVE UNCHANGED missed
    BY <2>1 DEF Handles, Change, ReadEnds, Looks, Makes, Adds, Uploaded, history
  <2>2. CASE Starts \/ InitialRead \/ Watches
    BY <2>2 DEF Starts, InitialRead, Watches, history
  <2>3. QED
    BY <1>2, <2>1, <2>2 DEF Goes
<1>3. ASSUME NEW r \in Reads, GivesUp(r) PROVE \E n \in 0..file : Misses(n)
  <2>1. (IF phase[r] = "reading" THEN file ELSE content[r]) \in 0..file
    BY <1>1
  <2>2. QED
    BY <1>3, <2>1 DEF GivesUp
<1>4. CASE Meets
  BY <1>1, <1>3, <1>4 DEF Meets, InitialFails, AgentDies, CopyRequested
<1>5. QED
  BY <1>2, <1>4

(* Whoever gives up the last content, or does not get it, is recorded.     *)
LEMMA LostIsMissed ==
  ASSUME MirrorInv, Lost, UNCHANGED file PROVE missed' = file
<1>1. file \in Nat /\ missed \in 0..file
  BY MirrorAssumption, SMT DEF MirrorInv, Written, Typed, Past
<1>2. ASSUME Misses(file) PROVE missed' = file
  BY <1>1, <1>2, SMT DEF Misses
<1>3. ASSUME NEW r \in Reads, Carries(r), GivesUp(r) PROVE Misses(file)
  BY <1>3 DEF GivesUp, Carries
<1>4. QED
  BY <1>2, <1>3 DEF Lost, InitialFails

(* What the graph shows, and nobody carries, is not written over.          *)
LEMMA ShownStays ==
  ASSUME MirrorInv, Alone, Goes \/ Meets, Shows(file), ~Carried, missed # file, file > 0
  PROVE  copies' = copies
<1>1. ASSUME NEW r \in Reads, Adds(r) PROVE FALSE
  BY <1>1 DEF Adds, Alone, Shows
<1>2. ASSUME NEW r \in Reads, Uploaded(r) PROVE FALSE
  <2>1. content[r] # 0 /\ phase[r] = "uploading"
    BY <1>2 DEF Uploaded, MirrorInv, Written, Typed
  <2>2. content[r] = file
    BY <2>1 DEF Alone, Carried
  <2>3. QED
    BY <2>1, <2>2 DEF Carried, Carries
<1>3. ASSUME NEW r \in Reads, Handles(r) PROVE copies' = copies
  BY <1>1, <1>2, <1>3 DEF Handles, Change, ReadEnds, Looks, Makes
<1>4. CASE Starts \/ InitialRead \/ Watches \/ Meets
  BY <1>4 DEF Starts, InitialRead, Watches, Meets, InitialFails, AgentDies, CopyRequested, GivesUp
<1>5. QED
  BY <1>3, <1>4 DEF Goes

LEMMA KeptStep ==
  ASSUME MirrorInv, MirrorInv', Alone, [Next]_vars, Len(copies') <= 1 PROVE Kept'
<1>1. file \in Nat /\ missed \in 0..file /\ watcher \in Watchers
  BY MirrorAssumption, SMT DEF MirrorInv, Written, Typed, Past
<1>2. CASE Writes
  <2>1. file' = file + 1 /\ watcher' = watcher
    BY <1>2 DEF Writes
  <2>2. CASE watcher = "ready"
    BY <1>1, <1>2, <2>1, <2>2, SMT DEF Writes, Misses, Kept
  <2>3. CASE watcher # "ready"
    BY <1>1, <1>2, <2>1, <2>3 DEF Writes, Kept, Carried, Watchers
  <2>4. QED
    BY <2>2, <2>3
<1>3. CASE Goes \/ Meets
  <2>1. UNCHANGED file /\ Next
    BY <1>3, FileStays DEF Next
  <2> SUFFICES ASSUME file > 0 PROVE Carried' \/ missed' = file \/ Shows(file)'
    BY <2>1 DEF Kept
  <2>2. CASE Carried
    <3>1. Carried' \/ Shown' \/ Lost
      BY <2>1, <2>2, CarryingStep
    <3>2. Len(copies') \in Nat
      BY LenProperties DEF MirrorInv, Written, Typed
    <3>3. Shown' => Shows(file)'
      BY <3>2 DEF Shown
    <3>4. QED
      BY <2>1, <3>1, <3>3, LostIsMissed
  <2>3. CASE missed = file
    BY <1>3, <2>1, <2>3, MissesSome, MissedStays
  <2>4. CASE Shows(file) /\ ~Carried /\ missed # file
    BY <1>3, <2>1, <2>4, ShownStays DEF Shows
  <2>5. QED
    BY <2>2, <2>3, <2>4 DEF Alone, Kept
<1>4. CASE UNCHANGED vars
  BY <1>4 DEF vars, handlings, history, Alone, Kept, Carried, Carries, Shows
<1>5. QED
  BY <1>2, <1>3, <1>4 DEF Next

(* One handling goes on; the others are idle and have nothing.             *)
LEMMA SingleStep ==
  ASSUME NEW r \in Reads, Kept', Len(copies') <= 1,
         \A q \in Reads : q # r => phase'[q] = "idle" /\ content'[q] = 0,
         phase'[r] \in {"making", "adding"} => copies' = <<>>,
         phase'[r] = "reading" \/ content'[r] # 0 => watcher' \in {"ready", "watching"},
         content'[r] # 0 => content'[r] = file' \/ changed' \/ missed' = file'
  PROVE  Alone'
<1>1. \A q \in Reads : phase'[q] # "idle" \/ content'[q] # 0 => q = r
  OBVIOUS
<1>2. QED
  BY <1>1 DEF Alone

LEMMA ToldAlways == ASSUME MirrorInv, Told, [Next]_vars PROVE Told'
<1>0. phase \in [Reads -> Phases] /\ content \in [Reads -> 0..file]
  BY DEF MirrorInv, Written, Typed
<1>1. CASE Writes
  BY <1>1 DEF Writes, handlings, Told
<1>2. ASSUME NEW r \in Reads, NEW p, phase' = [phase EXCEPT ![r] = p],
             p \in {"idle", "reading"} => content'[r] = 0,
             \A q \in Reads : q # r => content'[q] = content[q],
             changed' => watcher' = "watching"
      PROVE  Told'
  BY <1>0, <1>2 DEF Told
<1>3. ASSUME NEW r \in Reads, Change(r) \/ CopyRequested(r) PROVE Told'
  BY <1>0, <1>2, <1>3 DEF Change, CopyRequested, Begins, Told
<1>4. ASSUME NEW r \in Reads, ReadEnds(r) PROVE Told'
  BY <1>0, <1>2, <1>4 DEF ReadEnds, Told
<1>5. ASSUME NEW r \in Reads, Looks(r) \/ Adds(r) PROVE Told'
  BY <1>0, <1>2, <1>5 DEF Looks, Adds, GoesOn, Told
<1>6. ASSUME NEW r \in Reads, Makes(r) PROVE Told'
  BY <1>0, <1>2, <1>6 DEF Makes, Told
<1>7. ASSUME NEW r \in Reads, Uploaded(r) \/ GivesUp(r) PROVE Told'
  BY <1>0, <1>2, <1>7 DEF Uploaded, GivesUp, Told
<1>8. CASE Starts \/ InitialFails \/ Watches
  BY <1>8 DEF Starts, InitialFails, Watches, handlings, Told
<1>9. CASE InitialRead
  <2>1. CASE UNCHANGED <<phase, content>>
    BY <1>9, <2>1 DEF InitialRead, Told
  <2>2. ASSUME NEW r \in Reads, Begins(r, "looking"), content' = [content EXCEPT ![r] = file]
        PROVE  Told'
    BY <1>0, <1>2, <1>9, <2>2 DEF InitialRead, Begins, Told
  <2>3. QED
    BY <1>9, <2>1, <2>2 DEF InitialRead
<1>10. CASE AgentDies
  BY <1>10 DEF AgentDies, Told
<1>11. CASE UNCHANGED vars
  BY <1>11 DEF vars, handlings, Told
<1>12. QED
  BY <1>1, <1>3, <1>4, <1>5, <1>6, <1>7, <1>8, <1>9, <1>10, <1>11 DEF Next, Goes, Meets, Handles

(* An overlap stays recorded, and without one who begins is alone.         *)
LEMMA NoOverlap ==
  ASSUME [Next]_vars, ~overlapped'
  PROVE  ~overlapped /\ \A r \in Reads : \A p \in Phases :
           Begins(r, p) => \A q \in Reads : phase[q] = "idle"
<1>1. ASSUME NEW r \in Reads, NEW p, Begins(r, p)
      PROVE  ~overlapped /\ \A q \in Reads : phase[q] = "idle"
  BY <1>1 DEF Begins
<1>2. ASSUME NEW r \in Reads, Handles(r) PROVE ~overlapped
  BY <1>1, <1>2 DEF Handles, Change, ReadEnds, Looks, Makes, Adds, Uploaded, history
<1>3. ASSUME Starts \/ Watches \/ InitialFails \/ AgentDies \/ Writes \/ UNCHANGED vars
      PROVE  ~overlapped
  BY <1>3 DEF Starts, Watches, InitialFails, AgentDies, Writes, vars, history
<1>4. ASSUME InitialRead PROVE ~overlapped
  BY <1>1, <1>4 DEF InitialRead
<1>5. ASSUME NEW r \in Reads, CopyRequested(r) \/ GivesUp(r) PROVE ~overlapped
  BY <1>1, <1>5 DEF CopyRequested, GivesUp
<1>6. QED
  BY <1>1, <1>2, <1>3, <1>4, <1>5 DEF Next, Goes, Meets

(* Without overlaps the mirror's steps keep one log node, and its content. *)
LEMMA AloneStep ==
  ASSUME MirrorInv, MirrorInv', Told, Told', Alone, [Next]_vars, ~overlapped' PROVE Alone'
<1>0. /\ phase \in [Reads -> Phases] /\ content \in [Reads -> 0..file] /\ file \in Nat
      /\ copies \in Seq(0..file) /\ Len(copies) <= 1
  BY MirrorAssumption, SMT DEF MirrorInv, Written, Typed, Alone
<1>1. Len(copies') <= 1 => Kept'
  BY KeptStep
<1>2. ASSUME NEW r \in Reads, phase[r] # "idle" \/ \A q \in Reads : phase[q] = "idle"
      PROVE  \A q \in Reads : q # r => phase[q] = "idle" /\ content[q] = 0
  BY <1>2 DEF Alone, Told
<1>3. ASSUME NEW r \in Reads, NEW p,
             phase[r] # "idle" \/ \A q \in Reads : phase[q] = "idle",
             phase' = [phase EXCEPT ![r] = p],
             \A q \in Reads : q # r => content'[q] = content[q],
             Len(copies') <= 1,
             p \in {"making", "adding"} => copies' = <<>>,
             p = "reading" \/ content'[r] # 0 => watcher' \in {"ready", "watching"},
             content'[r] # 0 => content'[r] = file' \/ changed' \/ missed' = file'
      PROVE  Alone'
  <2>1. phase'[r] = p /\ \A q \in Reads : q # r => phase'[q] = "idle" /\ content'[q] = 0
    BY <1>0, <1>2, <1>3
  <2>2. QED
    BY <1>1, <1>3, <2>1, SingleStep
<1>4. CASE Writes
  <2>1. UNCHANGED <<copies, watcher, phase, content>> /\ file' = file + 1 /\ missed \in 0..file
    BY <1>4 DEF Writes, handlings, MirrorInv, Past
  <2>2. watcher = "watching" => changed'
    BY <1>4, Zenon DEF Writes
  <2>3. watcher = "ready" => missed' = file'
    <3>1. watcher = "ready" => Misses(file')
      BY <1>4 DEF Writes
    <3>2. QED
      BY <1>0, <2>1, <3>1, SMT DEF Misses
  <2>4. \A r \in Reads : content'[r] # 0 => changed' \/ missed' = file'
    BY <2>1, <2>2, <2>3 DEF Alone
  <2>5. QED
    BY <1>0, <1>1, <2>1, <2>4 DEF Alone
<1>5. ASSUME NEW r \in Reads, Change(r) PROVE Alone'
  <2>1. \A q \in Reads : phase[q] = "idle"
    BY <1>5, NoOverlap DEF Change, Phases
  <2>2. content'[r] = 0 /\ watcher' = "watching"
    BY <1>5, <2>1 DEF Change, Told
  <2>3. QED
    BY <1>0, <1>3, <1>5, <2>1, <2>2 DEF Change, Begins
<1>6. ASSUME NEW r \in Reads, CopyRequested(r) PROVE Alone'
  <2>1. \A q \in Reads : phase[q] = "idle"
    BY <1>6, NoOverlap DEF CopyRequested, Phases
  <2>2. content'[r] = 0
    BY <1>6, <2>1 DEF CopyRequested, Told
  <2>3. QED
    BY <1>0, <1>3, <1>6, <2>1, <2>2 DEF CopyRequested, Begins
<1>7. ASSUME NEW r \in Reads, ReadEnds(r) PROVE Alone'
  BY <1>0, <1>3, <1>7 DEF ReadEnds, Alone
<1>8. ASSUME NEW r \in Reads, Looks(r) PROVE Alone'
  BY <1>0, <1>3, <1>8 DEF Looks, GoesOn, Alone, history
<1>9. ASSUME NEW r \in Reads, Makes(r) PROVE Alone'
  BY <1>0, <1>3, <1>9 DEF Makes, Alone, history
<1>10. ASSUME NEW r \in Reads, Adds(r) PROVE Alone'
  <2>1. copies = <<>> /\ initial[r] \in 0..file
    BY <1>10 DEF Adds, Alone, MirrorInv, Written, Typed
  <2>2. Len(copies') = 1
    BY <1>0, <1>10, <2>1, AppendProperties DEF Adds
  <2>3. QED
    BY <1>0, <1>3, <1>10, <2>2 DEF Adds, GoesOn, Alone, history
<1>11. ASSUME NEW r \in Reads, Uploaded(r) PROVE Alone'
  <2>1. node[r] \in DOMAIN copies /\ content[r] \in 0..file
    BY <1>11 DEF Uploaded, MirrorInv, Written, Typed
  <2>2. Len(copies') = Len(copies)
    BY <1>0, <1>11, <2>1, ExceptSeq DEF Uploaded
  <2>3. content'[r] = 0
    BY <1>0, <1>11 DEF Uploaded
  <2>4. QED
    BY <1>0, <1>3, <1>11, <2>2, <2>3 DEF Uploaded
<1>12. ASSUME NEW r \in Reads, GivesUp(r) PROVE Alone'
  <2>1. content'[r] = 0 /\ phase[r] # "idle"
    BY <1>0, <1>12 DEF GivesUp
  <2>2. QED
    BY <1>0, <1>3, <1>12, <2>1 DEF GivesUp
<1>13. CASE Starts \/ InitialFails \/ Watches
  BY <1>0, <1>1, <1>13 DEF Starts, InitialFails, Watches, handlings, history, Alone
<1>14. CASE InitialRead
  <2>1. CASE UNCHANGED <<phase, content>>
    BY <1>0, <1>1, <1>14, <2>1 DEF InitialRead, Alone
  <2>2. ASSUME NEW r \in Reads, Begins(r, "looking"), content' = [content EXCEPT ![r] = file]
        PROVE  Alone'
    <3>1. \A q \in Reads : phase[q] = "idle"
      BY <2>2, NoOverlap DEF Phases
    <3>2. QED
      BY <1>0, <1>3, <1>14, <2>2, <3>1 DEF InitialRead, Begins
  <2>3. QED
    BY <1>14, <2>1, <2>2 DEF InitialRead
<1>15. CASE AgentDies
  BY <1>0, <1>1, <1>15 DEF AgentDies, Alone
<1>16. CASE UNCHANGED vars
  BY <1>0, <1>1, <1>16 DEF vars, handlings, history, Alone
<1>17. QED
  BY <1>4, <1>5, <1>6, <1>7, <1>8, <1>9, <1>10, <1>11, <1>12, <1>13, <1>14, <1>15, <1>16
     DEF Next, Goes, Meets, Handles

(* The safety core of LastContentStays: as long as no two handlings of the *)
(* log have overlapped there is one log node at most, and what was written *)
(* last is on its way to the graph, is shown there, or was missed: no      *)
(* older upload replaces it for good (_emitAppendedLogContent,             *)
(* updatePm2LogFileContent).                                               *)
NothingOlderStays == ~overlapped => Len(copies) <= 1 /\ Kept

THEOREM ContentIsKept == Spec => []NothingOlderStays
<1>1. Init => AloneInv
  <2> SUFFICES ASSUME Init PROVE AloneInv
    OBVIOUS
  <2>1. file = 0 /\ changed = FALSE /\ copies = <<>> /\ Len(copies) <= 1
    BY DEF Init
  <2>2. \A r \in Reads : phase[r] = "idle" /\ content[r] = 0
    BY Zenon DEF Init
  <2>3. QED
    BY <2>1, <2>2, MirrorStart DEF AloneInv, Told, Alone, Kept
<1>2. AloneInv /\ [Next]_vars => AloneInv'
  BY MirrorStep, ToldAlways, AloneStep, NoOverlap DEF AloneInv
<1>3. AloneInv => NothingOlderStays
  BY DEF AloneInv, Alone, NothingOlderStays
<1>4. QED
  BY <1>1, <1>2, <1>3, PTL DEF Spec
-----------------------------------------------------------------------------
(* One connection to the bus is asked for, by whoever sets the flag; an    *)
(* event has as many handlers as there were listeners, and each of them is *)
(* still at its look-up or has sent to each client at most once.           *)
EventInv ==
  /\ launching \in Nat /\ listeners \in Nat /\ told \in 0..MaxEvents
  /\ looking \in [1..MaxEvents -> Nat]
  /\ delivered \in [1..MaxEvents -> [Clients -> Nat]]
  /\ launching + listeners <= 1
  /\ "event" \notin started => launching = 0 /\ listeners = 0
  /\ \A e \in 1..MaxEvents, c \in Clients : looking[e] + delivered[e][c] <= listeners
  /\ \A e \in (told + 1)..MaxEvents, c \in Clients : looking[e] = 0 /\ delivered[e][c] = 0

LEMMA EventStart == HubInit => EventInv
  BY HubAssumption, SMT DEF HubInit, EventInv

(* What leaves the events alone, and forgets no flag, keeps the invariant. *)
LEMMA EventsAlone ==
  ASSUME EventInv, UNCHANGED events, started \subseteq started' PROVE EventInv'
  BY SMT DEF EventInv, events

(* A step of a client.                                                     *)
LEMMA ClientStep ==
  ASSUME EventInv, NEW c \in Clients, Client(c) PROVE EventInv'
<1>1. ASSUME NEW t \in Metrics, AskMetrics(c, t) PROVE EventInv'
  BY <1>1, EventsAlone DEF AskMetrics
<1>2. CASE AskEvents(c)
  BY <1>2, SMT DEF AskEvents, EventInv
<1>3. CASE AskPushes(c)
  BY <1>3, EventsAlone DEF AskPushes
<1>4. CASE AskLog(c)
  BY <1>4, EventsAlone DEF AskLog, clients
<1>5. CASE Leave(c)
  BY <1>5, EventsAlone DEF Leave
<1>6. QED
  BY <1>1, <1>2, <1>3, <1>4, <1>5 DEF Client

(* A handler sends what it has looked up.                                  *)
LEMMA HandledStep ==
  ASSUME EventInv, NEW e \in 1..MaxEvents, Handled(e) PROVE EventInv'
<1>1. /\ looking[e] \in Nat /\ looking[e] > 0
      /\ looking' = [looking EXCEPT ![e] = looking[e] - 1]
      /\ UNCHANGED <<launching, listeners, told, started>>
  BY SMT DEF Handled, EventInv, clients
<1>2. delivered' = [delivered EXCEPT ![e] =
        [c \in Clients |-> delivered[e][c] + IF c \in Served("event") THEN 1 ELSE 0]]
  BY SMT DEF Handled
<1>3. \A c \in Clients : /\ delivered'[e][c] \in Nat
                         /\ delivered'[e][c] <= delivered[e][c] + 1
  BY <1>2, SMT DEF EventInv
<1>4. \A d \in 1..MaxEvents : d # e => looking'[d] = looking[d] /\ delivered'[d] = delivered[d]
  BY <1>1, <1>2, SMT DEF EventInv
<1>5. delivered' \in [1..MaxEvents -> [Clients -> Nat]]
  BY <1>2, SMT DEF EventInv
<1>6. looking' \in [1..MaxEvents -> Nat] /\ looking'[e] = looking[e] - 1
  BY <1>1, SMT DEF EventInv
<1>7. e \notin (told + 1)..MaxEvents \/ Clients = {}
  BY <1>1, SMT DEF EventInv
<1>8. \A d \in 1..MaxEvents, c \in Clients : looking'[d] + delivered'[d][c] <= listeners
  BY <1>1, <1>3, <1>4, <1>6, SMT DEF EventInv
<1>9. \A d \in (told + 1)..MaxEvents, c \in Clients : looking'[d] = 0 /\ delivered'[d][c] = 0
  <2> TAKE d \in (told + 1)..MaxEvents, c \in Clients
  <2>1. d \in 1..MaxEvents /\ looking[d] = 0 /\ delivered[d][c] = 0
    BY HubAssumption, SMT DEF EventInv
  <2>2. d # e
    BY <1>7
  <2>3. QED
    BY <1>4, <2>1, <2>2
<1>10. QED
  BY <1>1, <1>5, <1>6, <1>8, <1>9, SMT DEF EventInv

(* The bus tells an event to its listeners.                                *)
LEMMA ToldStep == ASSUME EventInv, Event PROVE EventInv'
<1>1. /\ told' = told + 1 /\ told' \in 1..MaxEvents
      /\ looking' = [looking EXCEPT ![told + 1] = listeners]
      /\ UNCHANGED <<launching, listeners, delivered, started>>
  BY HubAssumption, SMT DEF Event, EventInv, clients
<1>2. QED
  BY <1>1, SMT DEF EventInv

(* A step of a sender.                                                     *)
LEMMA SenderStep == ASSUME EventInv, Sender PROVE EventInv'
<1>1. ASSUME NEW t \in Metrics, Tick(t) PROVE EventInv'
  BY <1>1, EventsAlone DEF Tick, clients
<1>2. CASE Launch
  BY <1>2, SMT DEF Launch, EventInv, clients
<1>3. ASSUME NEW e \in 1..MaxEvents, Handled(e) PROVE EventInv'
  BY <1>3, HandledStep
<1>4. CASE Poll
  BY <1>4, EventsAlone DEF Poll, clients
<1>5. ASSUME NEW s \in Streams, Found(s) \/ ReadsOn(s) \/ ReadsAll(s) \/ ReadsTail(s)
      PROVE EventInv'
  BY <1>5, EventsAlone DEF Found, ReadsOn, ReadsAll, ReadsTail, clients
<1>6. QED
  BY <1>1, <1>2, <1>3, <1>4, <1>5 DEF Sender

(* A failure ends the host or a request.                                   *)
LEMMA FailureStep == ASSUME EventInv, Failure PROVE EventInv'
<1>1. CASE Dies
  BY <1>1, EventsAlone DEF Dies, clients
<1>2. ASSUME NEW s \in Streams, Refused(s) PROVE EventInv'
  BY <1>2, EventsAlone DEF Refused, clients
<1>3. QED
  BY <1>1, <1>2 DEF Failure, TickFails, LaunchFails, NotFound

LEMMA EventStep == ASSUME EventInv, [HubNext]_hubVars PROVE EventInv'
<1>1. CASE Write \/ Mirrors \/ MirrorMeets
  BY <1>1, EventsAlone DEF Write, Mirrors, MirrorMeets, clients
<1>2. CASE UNCHANGED hubVars
  BY <1>2, EventsAlone DEF hubVars, clients
<1>3. QED
  BY <1>1, <1>2, ClientStep, ToldStep, SenderStep, FailureStep DEF HubNext

(* EventOnce: for any number of clients, events and failures, no client    *)
(* gets an event twice (_isPm2EventsStarted is set before the await).      *)
THEOREM NoEventTwice == HubSpec => []EventOnce
<1>1. EventInv => EventOnce
  BY SMT DEF EventInv, EventOnce
<1>2. QED
  BY <1>1, EventStart, EventStep, PTL DEF HubSpec
-----------------------------------------------------------------------------
(* The hub leaves the mirror its behaviours: what holds of the mirror for  *)
(* itself holds in the agent (the two share the file only).                *)
THEOREM MirrorInHub == HubSpec => Spec
<1>1. HubInit => Init
  BY DEF HubInit
<1>2. ASSUME [HubNext]_hubVars PROVE [Next]_vars
  <2>1. CASE Write
    BY <2>1 DEF Write, Next
  <2>2. CASE Mirrors \/ MirrorMeets
    BY <2>2 DEF Mirrors, MirrorMeets, Next
  <2>3. ASSUME NEW c \in Clients, Client(c) PROVE UNCHANGED vars
    BY <2>3 DEF Client, AskMetrics, AskEvents, AskPushes, AskLog, Leave
  <2>4. CASE Event
    BY <2>4 DEF Event
  <2>5. CASE Sender
    BY <2>5 DEF Sender, Tick, Launch, Handled, Poll, Found, ReadsOn, ReadsAll, ReadsTail
  <2>6. CASE Failure
    BY <2>6 DEF Failure, TickFails, LaunchFails, NotFound, Refused, Dies
  <2>7. CASE UNCHANGED hubVars
    BY <2>7 DEF hubVars
  <2>8. QED
    BY <1>2, <2>1, <2>2, <2>3, <2>4, <2>5, <2>6, <2>7 DEF HubNext
<1>3. QED
  BY <1>1, <1>2, PTL DEF HubSpec, Spec
-----------------------------------------------------------------------------
(* A request s of a client c, or one that it has joined, has sent it the   *)
(* lines up to its own end, and is not done with the others: it is at its  *)
(* reading, one of its tails starts at that end, or the file's watcher has *)
(* yet to see the last change.                                             *)
Follows(s, c) ==
  /\ 1..pos[s] \subseteq lines[c]
  /\ \/ stream[s] = "reading"
     \/ /\ stream[s] = "watching"
        /\ 1..file \subseteq lines[c] \/ pos[s] \in tails[s] \/ stat # {file}

LogTypes ==
  /\ file \in Nat
  /\ stream \in [Streams -> {"free", "looking", "reading", "watching", "refused"}]
  /\ pos \in [Streams -> 0..file]
  /\ tails \in [Streams -> SUBSET Nat]
  /\ \A v \in stat : v \in 0..file
  /\ subscribed \in [Types -> SUBSET Clients]
  /\ lines \in [Clients -> SUBSET Nat]

(* A request is asked by one client, and has read nothing until it is      *)
(* found; a stream at its end has been seen by the watcher.                *)
Requested ==
  /\ \A s \in Streams, c \in Clients : <<s, c>> \in asked => stream[s] = "looking"
  /\ \A s \in Streams, c, d \in Clients : <<s, c>> \in asked /\ <<s, d>> \in asked => c = d
  /\ \A s \in Streams : stream[s] \in {"free", "looking"} => pos[s] = 0
  /\ \A s \in Streams : stream[s] = "watching" => stat # {}

LogInv == /\ LogTypes /\ Requested
          /\ \A c \in Served("log") : \E s \in Streams : Follows(s, c)

LEMMA LogStart == HubInit => LogInv
<1> SUFFICES ASSUME HubInit PROVE LogInv
  OBVIOUS
<1>1. Served("log") = {}
  BY DEF HubInit, Served, Types
<1>2. LogTypes
  BY DEF HubInit, Init, LogTypes
<1>3. Requested
  BY DEF HubInit, Requested
<1>4. QED
  BY <1>1, <1>2, <1>3 DEF LogInv

(* What leaves the log and its requests alone.                             *)
LEMMA LogsAlone ==
  ASSUME LogInv, UNCHANGED <<file, logs>>, gone \subseteq gone',
         subscribed' \in [Types -> SUBSET Clients], subscribed'["log"] = subscribed["log"]
  PROVE  LogInv'
<1>1. Served("log")' \subseteq Served("log")
  BY DEF Served
<1>2. LogTypes'
  BY DEF LogInv, LogTypes, logs
<1>3. Requested'
  BY DEF LogInv, Requested, logs
<1>4. \A s \in Streams, c \in Clients : Follows(s, c) => Follows(s, c)'
  BY DEF Follows, logs
<1>5. \A c \in Served("log") : c \in Clients
  BY DEF Served, LogInv, LogTypes, Types
<1>6. QED
  BY <1>1, <1>2, <1>3, <1>4, <1>5 DEF LogInv

(* The file grows: who follows is behind, or its watcher is.               *)
LEMMA LogGrows ==
  ASSUME LogInv, file' = file + 1,
         UNCHANGED <<logs, gone, subscribed>>
  PROVE  LogInv'
<1>1. file \in Nat /\ 0..file \subseteq 0..file' /\ file' \in Nat /\ file' \notin 0..file
  BY DEF LogInv, LogTypes
<1>2. stat # {file'}
  BY <1>1 DEF LogInv, LogTypes
<1>3. LogTypes'
  BY <1>1 DEF LogInv, LogTypes, logs
<1>4. Requested'
  BY DEF LogInv, Requested, logs
<1>5. \A s \in Streams, c \in Clients : Follows(s, c) => Follows(s, c)'
  BY <1>2 DEF Follows, logs
<1>6. \A c \in Served("log") : c \in Clients
  BY DEF Served, LogInv, LogTypes, Types
<1>7. Served("log")' = Served("log")
  BY DEF Served
<1>8. QED
  BY <1>3, <1>4, <1>5, <1>6, <1>7 DEF LogInv

(* What is sent from a position p is added to what the clients have.       *)
LEMMA Sent ==
  ASSUME LogTypes, NEW p \in Nat, SendsFrom(p), UNCHANGED file
  PROVE  /\ lines' \in [Clients -> SUBSET Nat]
         /\ \A c \in Clients : lines[c] \subseteq lines'[c]
         /\ \A c \in Served("log") \cap Clients : 1..p \subseteq lines[c] => 1..file \subseteq lines'[c]
<1>1. file \in Nat /\ (p + 1)..file \subseteq Nat /\ 1..file \subseteq 1..p \cup (p + 1)..file
  BY DEF LogTypes
<1>2. \A c \in Clients : lines[c] \subseteq Nat
  BY DEF LogTypes
<1>3. \A c \in Clients :
        lines'[c] = IF c \in Served("log") THEN lines[c] \cup (p + 1)..file ELSE lines[c]
  BY DEF SendsFrom
<1>4. lines' \in [Clients -> SUBSET Nat]
  <2>1. \A c \in Clients :
          (IF c \in Served("log") THEN lines[c] \cup (p + 1)..file ELSE lines[c]) \in SUBSET Nat
    BY <1>1, <1>2
  <2>2. QED
    BY <2>1, Zenon DEF SendsFrom
<1>5. QED
  BY <1>1, <1>3, <1>4

(* A client asks for something, or leaves.                                 *)
LEMMA LogClientStep ==
  ASSUME LogInv, NEW c \in Clients, Client(c) PROVE LogInv'
<1>1. subscribed \in [Types -> SUBSET Clients]
  BY DEF LogInv, LogTypes
<1>2. ASSUME NEW t \in Types, t # "log", Subscribe(c, t)
      PROVE  /\ subscribed' \in [Types -> SUBSET Clients]
             /\ subscribed'["log"] = subscribed["log"]
  BY <1>1, <1>2 DEF Subscribe, Types
<1>3. ASSUME NEW t \in Metrics, AskMetrics(c, t) PROVE LogInv'
  <2>1. file' = file /\ gone' = gone /\ UNCHANGED logs /\ Subscribe(c, t)
    BY <1>3 DEF AskMetrics, vars
  <2>2. t \in Types /\ t # "log"
    BY DEF Metrics, Types
  <2>3. QED
    BY <1>2, <2>1, <2>2, LogsAlone
<1>4. CASE AskEvents(c) \/ AskPushes(c)
  <2>1. /\ file' = file /\ gone' = gone /\ UNCHANGED logs
        /\ Subscribe(c, "event") \/ Subscribe(c, "zabbixPush")
    BY <1>4 DEF AskEvents, AskPushes, vars
  <2>2. "event" \in Types /\ "zabbixPush" \in Types
    BY DEF Types
  <2>3. QED
    BY <1>2, <2>1, <2>2, LogsAlone
<1>5. CASE AskLog(c)
  <2> DEFINE s == CHOOSE s \in Free : TRUE
  <2>1. /\ s \in Streams /\ stream[s] = "free"
        /\ asked' = asked \cup {<<s, c>>}
        /\ stream' = [stream EXCEPT ![s] = "looking"]
        /\ UNCHANGED <<file, gone, subscribed, pos, tails, stat, lines>>
    BY <1>5, SMT DEF AskLog, Free, vars, clients
  <2> HIDE DEF s
  <2>2. \A q \in Streams : q # s => stream'[q] = stream[q]
    BY <2>1 DEF LogInv, LogTypes
  <2>3. stream'[s] = "looking"
    BY <2>1 DEF LogInv, LogTypes
  <2>4. LogTypes'
    BY <2>1 DEF LogInv, LogTypes
  <2>5. Requested'
    <3>1. \A q \in Streams, d \in Clients : <<q, d>> \in asked' =>
            \/ <<q, d>> \in asked /\ stream[q] = "looking" /\ q # s
            \/ q = s /\ d = c
      BY <2>1 DEF LogInv, Requested
    <3>2. \A q \in Streams, d \in Clients : <<q, d>> \in asked' => stream'[q] = "looking"
      BY <2>2, <2>3, <3>1
    <3>3. \A q \in Streams, d, e \in Clients :
            <<q, d>> \in asked' /\ <<q, e>> \in asked' => d = e
      BY <3>1 DEF LogInv, Requested
    <3>4. \A q \in Streams : stream'[q] \in {"free", "looking"} => pos'[q] = 0
      BY <2>1, <2>2 DEF LogInv, Requested
    <3>5. \A q \in Streams : stream'[q] = "watching" => stat' # {}
      BY <2>1, <2>2, <2>3 DEF LogInv, Requested
    <3>6. QED
      BY <3>2, <3>3, <3>4, <3>5 DEF Requested
  <2>6. \A q \in Streams, d \in Clients : Follows(q, d) => Follows(q, d)'
    BY <2>1, <2>2 DEF Follows
  <2>7. Served("log")' = Served("log") /\ Served("log") \subseteq Clients
    BY <2>1, <1>1 DEF Served, Types
  <2>8. QED
    BY <2>4, <2>5, <2>6, <2>7 DEF LogInv
<1>6. CASE Leave(c)
  <2>1. UNCHANGED <<file, logs, subscribed>> /\ gone \subseteq gone'
    BY <1>6 DEF Leave, vars
  <2>2. QED
    BY <1>1, <2>1, LogsAlone
<1>7. QED
  BY <1>3, <1>4, <1>5, <1>6 DEF Client

(* The process of a request is found: who asked follows that request.      *)
LEMMA FoundStep ==
  ASSUME LogInv, NEW s \in Streams, Found(s) PROVE LogInv'
<1>1. PICK c \in Clients : /\ <<s, c>> \in asked
                           /\ asked' = asked \ {<<s, c>>}
                           /\ Subscribe(c, "log")
  BY DEF Found
<1>2. /\ stream' = [stream EXCEPT ![s] = "reading"]
      /\ UNCHANGED <<file, gone, pos, tails, stat, lines>>
  BY DEF Found, vars
<1>3. stream[s] = "looking" /\ pos[s] = 0
  BY <1>1 DEF LogInv, Requested
<1>4. /\ stream'[s] = "reading"
      /\ \A q \in Streams : q # s => stream'[q] = stream[q]
  BY <1>2 DEF LogInv, LogTypes
<1>5. /\ subscribed' \in [Types -> SUBSET Clients]
      /\ subscribed'["log"] = subscribed["log"] \cup {c}
  BY <1>1 DEF LogInv, LogTypes, Subscribe, Types
<1>6. LogTypes'
  BY <1>2, <1>5 DEF LogInv, LogTypes
<1>7. Requested'
  <2>1. \A q \in Streams, d \in Clients : <<q, d>> \in asked' => <<q, d>> \in asked /\ q # s
    BY <1>1 DEF LogInv, Requested
  <2>2. QED
    BY <1>2, <1>4, <2>1 DEF LogInv, Requested
<1>8. \A q \in Streams, d \in Clients : Follows(q, d) => Follows(q, d)'
  <2>1. \A d \in Clients : ~Follows(s, d)
    BY <1>3 DEF Follows
  <2>2. \A q \in Streams, d \in Clients : q # s /\ Follows(q, d) => Follows(q, d)'
    BY <1>2, <1>4 DEF Follows
  <2>3. QED
    BY <2>1, <2>2
<1>9. Follows(s, c)'
  BY <1>2, <1>3, <1>4 DEF Follows
<1>10. Served("log")' \subseteq Served("log") \cup {c} /\ Served("log") \subseteq Clients
  BY <1>2, <1>5 DEF Served, LogInv, LogTypes, Types
<1>11. QED
  BY <1>6, <1>7, <1>8, <1>9, <1>10 DEF LogInv

LEMMA RefusedStep ==
  ASSUME LogInv, NEW s \in Streams, Refused(s) PROVE LogInv'
<1>1. PICK c \in Clients : <<s, c>> \in asked /\ asked' = asked \ {<<s, c>>}
  BY DEF Refused
<1>2. /\ stream' = [stream EXCEPT ![s] = "refused"]
      /\ UNCHANGED <<file, gone, subscribed, pos, tails, stat, lines>>
  BY DEF Refused, vars, clients
<1>3. stream[s] = "looking"
  BY <1>1 DEF LogInv, Requested
<1>4. /\ stream'[s] = "refused"
      /\ \A q \in Streams : q # s => stream'[q] = stream[q]
  BY <1>2 DEF LogInv, LogTypes
<1>5. LogTypes'
  BY <1>2 DEF LogInv, LogTypes
<1>6. Requested'
  <2>1. \A q \in Streams, d \in Clients : <<q, d>> \in asked' => <<q, d>> \in asked /\ q # s
    BY <1>1 DEF LogInv, Requested
  <2>2. QED
    BY <1>2, <1>4, <2>1 DEF LogInv, Requested
<1>7. \A q \in Streams, d \in Clients : Follows(q, d) => Follows(q, d)'
  BY <1>2, <1>3, <1>4 DEF Follows
<1>8. Served("log")' = Served("log") /\ Served("log") \subseteq Clients
  BY <1>2 DEF Served, LogInv, LogTypes, Types
<1>9. QED
  BY <1>5, <1>6, <1>7, <1>8 DEF LogInv

(* A stream reads on, or ends and is watched.                              *)
LEMMA ReadsStep ==
  ASSUME LogInv, NEW s \in Streams, ReadsOn(s) \/ ReadsAll(s) PROVE LogInv'
<1>0. /\ file \in Nat /\ pos[s] \in 0..file /\ LogTypes
      /\ Served("log") \subseteq Clients
  BY DEF Served, LogInv, LogTypes, Types
<1>1. CASE ReadsOn(s)
  <2>1. /\ stream[s] = "reading" /\ SendsFrom(pos[s])
        /\ pos' = [pos EXCEPT ![s] = file]
        /\ UNCHANGED <<file, gone, subscribed, asked, stream, tails, stat>>
    BY <1>1 DEF ReadsOn, vars, clients
  <2>2. /\ lines' \in [Clients -> SUBSET Nat]
        /\ \A c \in Clients : lines[c] \subseteq lines'[c]
        /\ \A c \in Served("log") :
             1..pos[s] \subseteq lines[c] => 1..file \subseteq lines'[c]
    BY <1>0, <2>1, Sent
  <2>3. /\ pos'[s] = file /\ pos' \in [Streams -> 0..file]
        /\ \A q \in Streams : q # s => pos'[q] = pos[q]
    BY <1>0, <2>1 DEF LogTypes
  <2>4. LogTypes'
    BY <2>1, <2>2, <2>3 DEF LogInv, LogTypes
  <2>5. Requested'
    BY <2>1, <2>3 DEF LogInv, Requested
  <2>6. ASSUME NEW q \in Streams, NEW c \in Served("log"), Follows(q, c)
        PROVE  Follows(q, c)'
    <3>1. CASE q = s
      BY <1>0, <2>1, <2>2, <2>3, <2>6, <3>1 DEF Follows
    <3>2. CASE q # s
      BY <1>0, <2>1, <2>2, <2>3, <2>6, <3>2 DEF Follows
    <3>3. QED
      BY <3>1, <3>2
  <2>7. Served("log")' = Served("log")
    BY <2>1 DEF Served
  <2>8. QED
    BY <2>4, <2>5, <2>6, <2>7 DEF LogInv
<1>2. CASE ReadsAll(s)
  <2>1. /\ stream[s] = "reading" /\ pos[s] = file /\ stat # {}
        /\ stream' = [stream EXCEPT ![s] = "watching"]
        /\ UNCHANGED <<file, gone, subscribed, asked, pos, tails, stat, lines>>
    BY <1>2 DEF ReadsAll, vars, clients
  <2>2. /\ stream'[s] = "watching"
        /\ \A q \in Streams : q # s => stream'[q] = stream[q]
    BY <2>1 DEF LogInv, LogTypes
  <2>3. LogTypes'
    BY <2>1 DEF LogInv, LogTypes
  <2>4. Requested'
    BY <2>1, <2>2 DEF LogInv, Requested
  <2>5. ASSUME NEW q \in Streams, NEW c \in Served("log"), Follows(q, c)
        PROVE  Follows(q, c)'
    <3>1. CASE q = s
      BY <2>1, <2>2, <2>5, <3>1 DEF Follows
    <3>2. CASE q # s
      BY <2>1, <2>2, <2>5, <3>2 DEF Follows
    <3>3. QED
      BY <3>1, <3>2
  <2>6. Served("log")' = Served("log")
    BY <2>1 DEF Served
  <2>7. QED
    BY <2>3, <2>4, <2>5, <2>6 DEF LogInv
<1>3. QED
  BY <1>1, <1>2

(* The watcher sees the last change: what follows is given a tail.         *)
LEMMA PollStep == ASSUME LogInv, Poll PROVE LogInv'
<1>1. /\ stat' = {file}
      /\ tails' = [q \in Streams |->
           IF stat # {} /\ q \in Watched THEN tails[q] \cup {pos[q]} ELSE tails[q]]
      /\ UNCHANGED <<file, gone, subscribed, asked, stream, pos, lines>>
  BY DEF Poll, vars, clients
<1>2. /\ \A q \in Streams : tails[q] \subseteq tails'[q]
      /\ \A q \in Streams : stat # {} /\ stream[q] = "watching" => pos[q] \in tails'[q]
  BY <1>1 DEF Watched
<1>3. tails' \in [Streams -> SUBSET Nat]
  <2>1. \A q \in Streams : tails[q] \subseteq Nat /\ pos[q] \in Nat
    BY DEF LogInv, LogTypes
  <2>2. \A q \in Streams :
          (IF stat # {} /\ q \in Watched THEN tails[q] \cup {pos[q]} ELSE tails[q]) \in SUBSET Nat
    BY <2>1
  <2>3. QED
    BY <1>1, <2>2, Zenon
<1>4. LogTypes'
  BY <1>1, <1>3 DEF LogInv, LogTypes
<1>5. Requested'
  BY <1>1 DEF LogInv, Requested
<1>6. \A q \in Streams, c \in Clients : Follows(q, c) => Follows(q, c)'
  BY <1>1, <1>2 DEF Follows, LogInv, Requested
<1>7. Served("log")' = Served("log") /\ Served("log") \subseteq Clients
  BY <1>1 DEF Served, LogInv, LogTypes, Types
<1>8. QED
  BY <1>4, <1>5, <1>6, <1>7 DEF LogInv

(* A tail reads to the end.                                                *)
LEMMA TailStep ==
  ASSUME LogInv, NEW s \in Streams, ReadsTail(s) PROVE LogInv'
<1>1. PICK p \in tails[s] : SendsFrom(p) /\ tails' = [tails EXCEPT ![s] = tails[s] \ {p}]
  BY DEF ReadsTail
<1>2. UNCHANGED <<file, gone, subscribed, asked, stream, pos, stat>>
  BY DEF ReadsTail, vars, clients
<1>3. /\ LogTypes /\ p \in Nat /\ tails' \in [Streams -> SUBSET Nat]
      /\ Served("log") \subseteq Clients
  BY <1>1 DEF Served, LogInv, LogTypes, Types
<1>4. /\ lines' \in [Clients -> SUBSET Nat]
      /\ \A c \in Clients : lines[c] \subseteq lines'[c]
      /\ \A c \in Served("log") : 1..p \subseteq lines[c] => 1..file \subseteq lines'[c]
  BY <1>1, <1>2, <1>3, Sent
<1>5. /\ \A q \in Streams : q # s => tails'[q] = tails[q]
      /\ tails'[s] = tails[s] \ {p}
  BY <1>1 DEF LogInv, LogTypes
<1>6. LogTypes'
  BY <1>2, <1>3, <1>4 DEF LogTypes
<1>7. Requested'
  BY <1>2 DEF LogInv, Requested
<1>8. ASSUME NEW q \in Streams, NEW c \in Served("log"), Follows(q, c)
      PROVE  Follows(q, c)'
  <2>1. c \in Clients /\ 1..pos[q] \subseteq lines'[c]
    BY <1>3, <1>4, <1>8 DEF Follows
  <2>2. CASE q = s /\ pos[q] = p
    BY <1>2, <1>4, <1>8, <2>1, <2>2 DEF Follows
  <2>3. CASE q # s \/ pos[q] # p
    BY <1>2, <1>4, <1>5, <1>8, <2>1, <2>3 DEF Follows
  <2>4. QED
    BY <2>2, <2>3
<1>9. Served("log")' = Served("log")
  BY <1>2 DEF Served
<1>10. QED
  BY <1>6, <1>7, <1>8, <1>9 DEF LogInv

LEMMA LogStep == ASSUME LogInv, [HubNext]_hubVars PROVE LogInv'
<1>0. subscribed \in [Types -> SUBSET Clients]
  BY DEF LogInv, LogTypes
<1>1. CASE Write
  <2>1. file' = file + 1 /\ UNCHANGED <<logs, gone, subscribed>>
    BY <1>1 DEF Write, Writes, clients
  <2>2. QED
    BY <2>1, LogGrows
<1>2. CASE Mirrors \/ MirrorMeets
  <2>1. file' = file /\ UNCHANGED <<logs, gone, subscribed>>
    BY <1>2, FileStays DEF Mirrors, MirrorMeets, clients
  <2>2. QED
    BY <1>0, <2>1, LogsAlone
<1>3. CASE Event
  <2>1. UNCHANGED <<file, logs, gone, subscribed>>
    BY <1>3 DEF Event, vars, clients
  <2>2. QED
    BY <1>0, <2>1, LogsAlone
<1>4. CASE Sender
  <2>1. ASSUME UNCHANGED <<vars, clients, logs>> PROVE LogInv'
    BY <1>0, <2>1, LogsAlone DEF vars, clients
  <2>2. ASSUME NEW t \in Metrics, Tick(t) PROVE LogInv'
    BY <2>1, <2>2 DEF Tick
  <2>3. CASE Launch
    BY <2>1, <2>3 DEF Launch
  <2>4. ASSUME NEW e \in 1..MaxEvents, Handled(e) PROVE LogInv'
    BY <2>1, <2>4 DEF Handled
  <2>5. QED
    BY <1>4, <2>2, <2>3, <2>4, PollStep, FoundStep, ReadsStep, TailStep DEF Sender
<1>5. CASE Failure
  <2>1. CASE Dies
    <3>1. UNCHANGED <<file, logs, gone, subscribed>>
      BY <2>1 DEF Dies, vars, clients
    <3>2. QED
      BY <1>0, <3>1, LogsAlone
  <2>2. QED
    BY <1>5, <2>1, RefusedStep DEF Failure, TickFails, LaunchFails, NotFound
<1>6. ASSUME NEW c \in Clients, Client(c) PROVE LogInv'
  BY <1>6, LogClientStep
<1>7. CASE UNCHANGED hubVars
  <2>1. UNCHANGED <<file, logs, gone, subscribed>>
    BY <1>7 DEF hubVars, vars, clients
  <2>2. QED
    BY <1>0, <2>1, LogsAlone
<1>8. QED
  BY <1>1, <1>2, <1>3, <1>4, <1>5, <1>6, <1>7 DEF HubNext

(* A client that follows a log is owed nothing once the hub is still: when *)
(* every stream has come to its end, and the watcher has seen the file's   *)
(* last change, each of them has all the lines, those of before its        *)
(* request and those written while other clients' streams were read        *)
(* (sendStreamLogsToAllClients).                                           *)
LogAtRest == /\ \A s \in Streams : stream[s] # "reading" /\ tails[s] = {}
             /\ Watched # {} => stat = {file}

FollowersHaveAll == LogAtRest => \A c \in Served("log") : 1..file \subseteq lines[c]

THEOREM NoLineIsMissed == HubSpec => []FollowersHaveAll
<1>1. LogInv => FollowersHaveAll
  <2> SUFFICES ASSUME LogInv, LogAtRest, NEW c \in Served("log")
               PROVE  1..file \subseteq lines[c]
    BY DEF FollowersHaveAll
  <2>1. PICK s \in Streams : Follows(s, c)
    BY DEF LogInv
  <2>2. stream[s] = "watching" /\ tails[s] = {}
    BY <2>1 DEF Follows, LogAtRest
  <2>3. stat = {file}
    BY <2>2 DEF LogAtRest, Watched
  <2>4. QED
    BY <2>1, <2>2, <2>3 DEF Follows
<1>2. QED
  BY <1>1, LogStart, LogStep, PTL DEF HubSpec
-----------------------------------------------------------------------------
(* Who asks for events has a connection to the bus, there or under way;    *)
(* whom an event is due is on the list, and is sent to by the first of the *)
(* event's handlers that ends.                                             *)
DueInv ==
  /\ EventInv
  /\ subscribed \in [Types -> SUBSET Clients]
  /\ "event" \in started => launching + listeners = 1
  /\ subscribed["event"] # {} => "event" \in started
  /\ due \in [1..MaxEvents -> SUBSET Clients]
  /\ \A e \in 1..MaxEvents : /\ due[e] \subseteq subscribed["event"]
                             /\ \A c \in due[e] : \/ c \in gone \/ looking[e] > 0
                                                  \/ delivered[e][c] > 0

LEMMA DueStart == HubInit => DueInv
<1> SUFFICES ASSUME HubInit PROVE DueInv
  OBVIOUS
<1>1. EventInv
  BY EventStart
<1>2. /\ subscribed \in [Types -> SUBSET Clients] /\ subscribed["event"] = {}
      /\ started = {} /\ due \in [1..MaxEvents -> SUBSET Clients]
  BY DEF HubInit, Types
<1>3. \A e \in 1..MaxEvents : due[e] = {}
  BY DEF HubInit
<1>4. QED
  BY <1>1, <1>2, <1>3 DEF DueInv

(* What leaves the events and their list alone.                            *)
LEMMA DueAlone ==
  ASSUME DueInv, EventInv', UNCHANGED events, started \subseteq started', gone \subseteq gone',
         "event" \in started' => "event" \in started,
         subscribed' \in [Types -> SUBSET Clients], subscribed'["event"] = subscribed["event"]
  PROVE  DueInv'
  BY SMT DEF DueInv, events

LEMMA DueStep == ASSUME DueInv, [HubNext]_hubVars PROVE DueInv'
<1>0. EventInv /\ EventInv' /\ subscribed \in [Types -> SUBSET Clients]
  BY EventStep DEF DueInv
<1>1. ASSUME UNCHANGED <<clients, events>> PROVE DueInv'
  BY <1>0, <1>1, DueAlone DEF clients
<1>2. ASSUME NEW c \in Clients, NEW t \in Types, Subscribe(c, t)
      PROVE  /\ subscribed' \in [Types -> SUBSET Clients]
             /\ subscribed'[t] = subscribed[t] \cup {c}
             /\ \A u \in Types : u # t => subscribed'[u] = subscribed[u]
  BY <1>0, <1>2 DEF Subscribe
<1>3. "event" \in Types /\ "log" \in Types /\ "zabbixPush" \in Types /\ Metrics \subseteq Types
      /\ "event" \notin Metrics
  BY DEF Types, Metrics
<1>4. ASSUME NEW c \in Clients, Client(c) PROVE DueInv'
  <2>1. ASSUME NEW t \in Metrics, AskMetrics(c, t) PROVE DueInv'
    <3>1. Subscribe(c, t) /\ started' = started \cup {t} /\ UNCHANGED <<events, gone>>
      BY <2>1 DEF AskMetrics
    <3>2. t \in Types /\ t # "event"
      BY <1>3
    <3>3. QED
      BY <1>0, <1>2, <1>3, <3>1, <3>2, DueAlone
  <2>2. CASE AskEvents(c)
    <3>1. /\ Subscribe(c, "event") /\ started' = started \cup {"event"}
          /\ launching' = IF "event" \in started THEN launching ELSE launching + 1
          /\ UNCHANGED <<gone, listeners, looking, due, delivered>>
      BY <2>2 DEF AskEvents
    <3>2. /\ subscribed' \in [Types -> SUBSET Clients]
          /\ subscribed["event"] \subseteq subscribed'["event"]
      BY <1>2, <1>3, <3>1
    <3>3. launching' + listeners' = 1
      BY <1>0, <3>1, SMT DEF DueInv, EventInv
    <3>4. QED
      BY <1>0, <3>1, <3>2, <3>3 DEF DueInv
  <2>3. CASE AskPushes(c)
    <3>1. Subscribe(c, "zabbixPush") /\ UNCHANGED <<events, gone, started>>
      BY <2>3 DEF AskPushes
    <3>2. QED
      BY <1>0, <1>2, <1>3, <3>1, DueAlone
  <2>4. CASE AskLog(c)
    BY <1>1, <2>4 DEF AskLog
  <2>5. CASE Leave(c)
    BY <1>0, <2>5, DueAlone DEF Leave
  <2>6. QED
    BY <1>4, <2>1, <2>2, <2>3, <2>4, <2>5 DEF Client
<1>5. CASE Launch
  <2>1. /\ launching' = launching - 1 /\ listeners' = listeners + 1
        /\ UNCHANGED <<clients, looking, due, delivered>>
    BY <1>5 DEF Launch
  <2>2. launching' + listeners' = launching + listeners
    BY <1>0, <2>1, SMT DEF EventInv
  <2>3. QED
    BY <1>0, <2>1, <2>2 DEF DueInv, clients
<1>6. CASE Event
  <2> DEFINE n == told + 1
  <2>1. /\ n \in 1..MaxEvents /\ looking \in [1..MaxEvents -> Nat]
        /\ due \in [1..MaxEvents -> SUBSET Clients]
    BY <1>0, <1>6, HubAssumption, SMT DEF Event, EventInv, DueInv
  <2>2. /\ looking' = [looking EXCEPT ![n] = listeners]
        /\ due' = [due EXCEPT ![n] = IF listeners > 0 THEN Served("event") ELSE {}]
        /\ UNCHANGED <<clients, launching, listeners, delivered>>
    BY <1>6 DEF Event
  <2>3. Served("event") \subseteq Clients /\ Served("event") \subseteq subscribed["event"]
    BY <1>0, <1>3 DEF Served
  <2>4. /\ looking'[n] = listeners
        /\ due'[n] \subseteq Served("event") /\ (due'[n] # {} => listeners > 0)
        /\ \A e \in 1..MaxEvents : e # n => looking'[e] = looking[e] /\ due'[e] = due[e]
    <3> HIDE DEF n
    <3>1. QED
      BY <2>1, <2>2
  <2>5. due' \in [1..MaxEvents -> SUBSET Clients]
    BY <2>1, <2>2, <2>3
  <2>6. \A e \in 1..MaxEvents :
          /\ due'[e] \subseteq subscribed["event"]
          /\ \A c \in due'[e] : c \in gone \/ looking'[e] > 0 \/ delivered[e][c] > 0
    <3> HIDE DEF n
    <3>1. QED
      BY <2>3, <2>4 DEF DueInv
  <2>7. QED
    BY <1>0, <2>2, <2>5, <2>6 DEF DueInv, clients
<1>7. ASSUME NEW e \in 1..MaxEvents, Handled(e) PROVE DueInv'
  <2>1. /\ looking' = [looking EXCEPT ![e] = looking[e] - 1]
        /\ UNCHANGED <<clients, launching, listeners, told, due>>
    BY <1>7, SMT DEF Handled
  <2>2. delivered' = [delivered EXCEPT ![e] =
          [c \in Clients |-> delivered[e][c] + IF c \in Served("event") THEN 1 ELSE 0]]
    BY <1>7, SMT DEF Handled
  <2>3. \A d \in 1..MaxEvents : d # e => looking'[d] = looking[d] /\ delivered'[d] = delivered[d]
    BY <1>0, <2>1, <2>2, SMT DEF EventInv
  <2>4. \A c \in Clients : c \in Served("event") => delivered'[e][c] > 0
    BY <1>0, <2>2, SMT DEF EventInv
  <2>5. \A c \in due[e] : c \in Clients /\ (c \in gone \/ c \in Served("event"))
    BY DEF DueInv, Served
  <2>6. \A d \in 1..MaxEvents : \A c \in due[d] :
          c \in gone \/ looking'[d] > 0 \/ delivered'[d][c] > 0
    <3> TAKE d \in 1..MaxEvents
    <3> TAKE c \in due[d]
    <3>1. CASE d = e
      BY <2>4, <2>5, <3>1
    <3>2. CASE d # e
      BY <2>3, <3>2 DEF DueInv
    <3>3. QED
      BY <3>1, <3>2
  <2>7. QED
    BY <1>0, <2>1, <2>6 DEF DueInv, clients
<1>8. ASSUME NEW s \in Streams, Found(s) PROVE DueInv'
  <2>1. PICK c \in Clients : Subscribe(c, "log")
    BY <1>8 DEF Found
  <2>2. UNCHANGED <<events, gone, started>>
    BY <1>8 DEF Found
  <2>3. QED
    BY <1>0, <1>2, <1>3, <2>1, <2>2, DueAlone
<1>9. CASE Sender
  BY <1>1, <1>5, <1>7, <1>8, <1>9
     DEF Sender, Tick, Poll, ReadsOn, ReadsAll, ReadsTail
<1>10. CASE Write \/ Mirrors \/ MirrorMeets \/ Failure \/ UNCHANGED hubVars
  BY <1>1, <1>10 DEF Write, Mirrors, MirrorMeets, Failure, TickFails, LaunchFails, NotFound,
                     Refused, Dies, hubVars
<1>11. QED
  BY <1>4, <1>6, <1>9, <1>10 DEF HubNext

(* Who follows PM2's events is listened for, over one connection that is   *)
(* there or under way, and an event reaches everybody it is due exactly    *)
(* once, as soon as none of its look-ups is open (startSendingPm2Events,   *)
(* subscribeToPm2EventStream).                                             *)
EventsReachAll ==
  /\ Served("event") # {} => launching + listeners = 1
  /\ \A e \in 1..MaxEvents : looking[e] = 0 =>
       \A c \in due[e] \ gone : delivered[e][c] = 1

THEOREM NoEventIsMissed == HubSpec => []EventsReachAll
<1>1. DueInv => EventsReachAll
  <2> SUFFICES ASSUME DueInv PROVE EventsReachAll
    OBVIOUS
  <2>1. Served("event") # {} => launching + listeners = 1
    BY DEF DueInv, Served
  <2>2. ASSUME NEW e \in 1..MaxEvents, looking[e] = 0, NEW c \in due[e] \ gone
        PROVE  delivered[e][c] = 1
    <3>1. c \in Clients /\ delivered[e][c] > 0
      BY <2>2 DEF DueInv
    <3>2. looking[e] + delivered[e][c] <= listeners /\ delivered[e][c] \in Nat
          /\ launching + listeners <= 1 /\ launching \in Nat /\ listeners \in Nat
      BY <3>1, SMT DEF DueInv, EventInv
    <3>3. QED
      BY <2>2, <3>1, <3>2, SMT
  <2>3. QED
    BY <2>1, <2>2 DEF EventsReachAll
<1>2. QED
  BY <1>1, DueStart, DueStep, PTL DEF HubSpec
=============================================================================
