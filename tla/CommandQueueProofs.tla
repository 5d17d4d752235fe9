-------------------------- MODULE CommandQueueProofs --------------------------
(***************************************************************************)
(* Proofs about CommandQueue for every set of commands, callers, runs and  *)
(* every number of crashes.                                                *)
(***************************************************************************)
EXTENDS CommandQueue, SequenceTheorems, TLAPS

(* No command is listed twice.                                             *)
NoDup(s) == \A i, j \in 1..Len(s) : s[i] = s[j] => i = j

(***************************************************************************)
(* Splicing an element out of a list (removeFromGraph).                    *)
(***************************************************************************)
LEMMA RemoveAtElements ==
  ASSUME NEW S, NEW s \in Seq(S), NEW k \in 1..Len(s)
  PROVE  /\ RemoveAt(s, k) \in Seq(S)
         /\ Len(RemoveAt(s, k)) = Len(s) - 1
         /\ \A i \in 1..(Len(s) - 1) :
              RemoveAt(s, k)[i] = IF i < k THEN s[i] ELSE s[i+1]
<1> DEFINE L == SubSeq(s, 1, k-1)
           R == SubSeq(s, k+1, Len(s))
<1>0. Len(s) \in Nat /\ \A i \in 1..Len(s) : s[i] \in S
  BY LenProperties, ElementOfSeq
<1>1. /\ L \in Seq(S) /\ Len(L) = k - 1
      /\ \A i \in 1..(k-1) : L[i] = s[i]
  <2>1. \A i \in 1..(k-1) : s[i] \in S
    BY <1>0
  <2>2. /\ L \in Seq(S)
        /\ Len(L) = IF 1 <= k-1 THEN (k-1)-1+1 ELSE 0
        /\ \A i \in 1..((k-1)-1+1) : L[i] = s[1+i-1]
    BY <2>1, <1>0, SubSeqProperties
  <2> QED BY <2>2, <1>0
<1>2. /\ R \in Seq(S) /\ Len(R) = Len(s) - k
      /\ \A i \in 1..(Len(s) - k) : R[i] = s[k+i]
  <2>1. \A i \in (k+1)..Len(s) : s[i] \in S
    BY <1>0
  <2>2. /\ R \in Seq(S)
        /\ Len(R) = IF k+1 <= Len(s) THEN Len(s)-(k+1)+1 ELSE 0
        /\ \A i \in 1..(Len(s)-(k+1)+1) : R[i] = s[(k+1)+i-1]
    BY <2>1, <1>0, SubSeqProperties
  <2> QED BY <2>2, <1>0
<1>3. RemoveAt(s, k) = L \o R
  BY DEF RemoveAt
<1> HIDE DEF L, R
<1>4. /\ L \o R \in Seq(S)
      /\ Len(L \o R) = Len(L) + Len(R)
      /\ \A i \in 1..(Len(L) + Len(R)) :
           (L \o R)[i] = IF i <= Len(L) THEN L[i] ELSE R[i - Len(L)]
  BY <1>1, <1>2, ConcatProperties
<1>5. ASSUME NEW i \in 1..(Len(s) - 1)
      PROVE  (IF i <= Len(L) THEN L[i] ELSE R[i - Len(L)])
               = IF i < k THEN s[i] ELSE s[i+1]
  <2>1. CASE i < k
    BY <2>1, <1>0, <1>1
  <2>2. CASE ~(i < k)
    <3>1. i - Len(L) \in 1..(Len(s) - k) /\ ~(i <= Len(L))
      BY <2>2, <1>0, <1>1
    <3>2. R[i - Len(L)] = s[k + (i - Len(L))]
      BY <3>1, <1>2
    <3> QED BY <2>2, <3>1, <3>2, <1>0, <1>1
  <2> QED BY <2>1, <2>2
<1> DEFINE T == L \o R
<1>6. /\ T \in Seq(S)
      /\ Len(T) = Len(s) - 1
      /\ \A i \in 1..(Len(s) - 1) : T[i] = IF i < k THEN s[i] ELSE s[i+1]
  BY <1>0, <1>1, <1>2, <1>4, <1>5
<1> HIDE DEF T
<1> QED BY <1>6, <1>3 DEF T

(***************************************************************************)
(* What remains was listed before, in the same order, and what was spliced *)
(* out is gone when it was listed only once.                               *)
(***************************************************************************)
LEMMA RemoveAtOnce ==
  ASSUME NEW S, NEW s \in Seq(S), NEW k \in 1..Len(s)
  PROVE  /\ RemoveAt(s, k) \in Seq(S)
         /\ ToSet(RemoveAt(s, k)) \subseteq ToSet(s)
         /\ ToSet(s) \subseteq ToSet(RemoveAt(s, k)) \cup {s[k]}
         /\ NoDup(s) => /\ NoDup(RemoveAt(s, k))
                        /\ s[k] \notin ToSet(RemoveAt(s, k))
<1> DEFINE t == RemoveAt(s, k)
<1>0. Len(s) \in Nat /\ DOMAIN s = 1..Len(s)
  BY LenProperties
<1>1. /\ t \in Seq(S) /\ Len(t) = Len(s) - 1
      /\ \A i \in 1..(Len(s) - 1) : t[i] = IF i < k THEN s[i] ELSE s[i+1]
  BY RemoveAtElements
<1> HIDE DEF t
<1>2. DOMAIN t = 1..(Len(s) - 1)
  BY <1>1, LenProperties
<1>3. ToSet(t) \subseteq ToSet(s)
  <2> SUFFICES ASSUME NEW i \in 1..(Len(s) - 1) PROVE t[i] \in ToSet(s)
    BY <1>2 DEF ToSet
  <2>1. /\ i \in 1..Len(s) /\ i + 1 \in 1..Len(s)
        /\ t[i] = s[i] \/ t[i] = s[i+1]
    BY <1>0, <1>1
  <2> QED BY <1>0, <2>1 DEF ToSet
<1>4. NoDup(s) => s[k] \notin ToSet(t)
  BY <1>0, <1>1, <1>2 DEF ToSet, NoDup
<1>5. NoDup(s) => NoDup(t)
  BY <1>0, <1>1, <1>2 DEF NoDup
<1>6. ToSet(s) \subseteq ToSet(t) \cup {s[k]}
  <2> SUFFICES ASSUME NEW i \in 1..Len(s), s[i] # s[k] PROVE s[i] \in ToSet(t)
    BY <1>0 DEF ToSet
  <2>1. CASE i < k
    <3>1. i \in 1..(Len(s) - 1) /\ t[i] = s[i]
      BY <1>0, <1>1, <2>1
    <3> QED BY <3>1, <1>2 DEF ToSet
  <2>2. CASE ~(i < k)
    <3>1. i - 1 \in 1..(Len(s) - 1) /\ t[i-1] = s[i]
      BY <1>0, <1>1, <2>2
    <3> QED BY <3>1, <1>2 DEF ToSet
  <2> QED BY <2>1, <2>2
<1> QED BY <1>1, <1>3, <1>4, <1>5, <1>6, Zenon DEF t

LEMMA RemoveAtOrder ==
  ASSUME NEW S, NEW s \in Seq(S), NEW k \in 1..Len(s), NEW t, t = RemoveAt(s, k),
         NEW i \in DOMAIN t, NEW j \in DOMAIN t, i < j
  PROVE  \E p, q \in DOMAIN s : p < q /\ s[p] = t[i] /\ s[q] = t[j]
<1> DEFINE p == IF i < k THEN i ELSE i + 1
           q == IF j < k THEN j ELSE j + 1
<1>1. /\ t \in Seq(S) /\ Len(t) = Len(s) - 1
      /\ \A l \in 1..(Len(s) - 1) : t[l] = IF l < k THEN s[l] ELSE s[l+1]
  BY RemoveAtElements
<1>2. /\ Len(s) \in Nat /\ DOMAIN s = 1..Len(s)
      /\ DOMAIN t = 1..(Len(s) - 1)
  BY <1>1, LenProperties
<1>3. /\ p \in DOMAIN s /\ q \in DOMAIN s /\ p < q
      /\ s[p] = t[i] /\ s[q] = t[j]
  BY <1>1, <1>2
<1> QED BY <1>3

LEMMA AppendKeepsOnce ==
  ASSUME NEW s \in Seq(Cmds), NEW c \in Cmds
  PROVE  /\ ToSet(Append(s, c)) = ToSet(s) \cup {c}
         /\ NoDup(s) /\ c \notin ToSet(s) => NoDup(Append(s, c))
<1>1. /\ Append(s, c) \in Seq(Cmds) /\ Len(Append(s, c)) = Len(s) + 1
      /\ \A i \in 1..Len(s) : Append(s, c)[i] = s[i]
      /\ Append(s, c)[Len(s) + 1] = c
  BY AppendProperties
<1>2. DOMAIN s = 1..Len(s) /\ Len(s) \in Nat
  BY LenProperties
<1>3. DOMAIN Append(s, c) = 1..(Len(s) + 1)
  BY <1>1, LenProperties
<1> DEFINE t == Append(s, c)
<1> HIDE DEF t
<1>4. /\ DOMAIN t = 1..(Len(s) + 1) /\ Len(t) = Len(s) + 1
      /\ \A i \in 1..Len(s) : t[i] = s[i]
      /\ t[Len(s) + 1] = c
  BY <1>1, <1>3 DEF t
<1>5. ToSet(t) = ToSet(s) \cup {c}
  <2>1. \A i \in 1..(Len(s) + 1) : i \in 1..Len(s) \/ i = Len(s) + 1
    BY <1>2
  <2> QED BY <1>2, <1>4, <2>1 DEF ToSet
<1>6. NoDup(s) /\ c \notin ToSet(s) => NoDup(t)
  BY <1>2, <1>4 DEF NoDup, ToSet
<1> QED BY <1>5, <1>6 DEF t

(* The rest of a snapshot.                                                 *)
LEMMA TailElements ==
  ASSUME NEW S, NEW s \in Seq(S), s # <<>>
  PROVE  /\ ToSet(Tail(s)) \subseteq ToSet(s)
         /\ \A d \in ToSet(s) : d = Head(s) \/ d \in ToSet(Tail(s))
<1>1. /\ Len(s) \in Nat /\ DOMAIN s = 1..Len(s) /\ Head(s) = s[1]
      /\ Len(Tail(s)) = Len(s) - 1 /\ Tail(s) \in Seq(S)
      /\ \A i \in 1..(Len(s) - 1) : Tail(s)[i] = s[i+1]
  BY HeadTailProperties, LenProperties
<1>2. DOMAIN Tail(s) = 1..(Len(s) - 1)
  BY <1>1, LenProperties
<1>3. ASSUME NEW i \in 1..(Len(s) - 1) PROVE Tail(s)[i] \in ToSet(s)
  <2>1. i + 1 \in 1..Len(s) /\ Tail(s)[i] = s[i+1]
    BY <1>1
  <2> QED BY <1>1, <2>1 DEF ToSet
<1>4. ASSUME NEW i \in 1..Len(s), s[i] # Head(s) PROVE s[i] \in ToSet(Tail(s))
  <2>1. i - 1 \in 1..(Len(s) - 1) /\ Tail(s)[i-1] = s[i]
    BY <1>1, <1>4
  <2> QED BY <1>2, <2>1 DEF ToSet
<1> QED BY <1>1, <1>2, <1>3, <1>4 DEF ToSet

(* A snapshot keeps its order as its head goes.                            *)
LEMMA TailKeeps ==
  ASSUME NEW S, NEW s \in Seq(S), s # <<>>
  PROVE  /\ Tail(s) \in Seq(S)
         /\ NoDup(s) => NoDup(Tail(s)) /\ Head(s) \notin ToSet(Tail(s))
<1>1. /\ Len(s) \in Nat /\ DOMAIN s = 1..Len(s) /\ Head(s) = s[1]
      /\ Len(Tail(s)) = Len(s) - 1 /\ Tail(s) \in Seq(S)
      /\ \A i \in 1..(Len(s) - 1) : Tail(s)[i] = s[i+1]
  BY HeadTailProperties, LenProperties
<1>2. DOMAIN Tail(s) = 1..(Len(s) - 1) /\ Len(s) # 0
  BY <1>1, LenProperties, EmptySeq
<1>3. NoDup(s) => NoDup(Tail(s)) /\ Head(s) \notin ToSet(Tail(s))
  <2>1. NoDup(s) => NoDup(Tail(s))
    BY <1>1 DEF NoDup
  <2>2. ASSUME NoDup(s), NEW i \in 1..(Len(s) - 1), Tail(s)[i] = Head(s)
        PROVE  FALSE
    <3>1. s[i+1] = s[1] /\ i + 1 \in 1..Len(s) /\ 1 \in 1..Len(s) /\ i + 1 # 1
      BY <1>1, <1>2, <2>2
    <3> QED BY <3>1, <2>2 DEF NoDup
  <2> QED BY <1>2, <2>1, <2>2 DEF ToSet
<1> QED BY <1>1, <1>3

LEMMA TailShift ==
  ASSUME NEW S, NEW s \in Seq(S), s # <<>>, NEW i \in 2..Len(s)
  PROVE  i - 1 \in DOMAIN Tail(s) /\ Tail(s)[i-1] = s[i]
<1>1. /\ Len(s) \in Nat /\ Len(Tail(s)) = Len(s) - 1 /\ Tail(s) \in Seq(S)
      /\ \A k \in 1..(Len(s) - 1) : Tail(s)[k] = s[k+1]
  BY HeadTailProperties, LenProperties
<1>2. DOMAIN Tail(s) = 1..(Len(s) - 1)
  BY <1>1, LenProperties
<1> QED BY <1>1, <1>2

(* Two lists without a command in common, one after the other.             *)
LEMMA ConcatOnce ==
  ASSUME NEW s \in Seq(Cmds), NEW t \in Seq(Cmds)
  PROVE  /\ s \o t \in Seq(Cmds)
         /\ ToSet(s \o t) = ToSet(s) \cup ToSet(t)
         /\ NoDup(s) /\ NoDup(t) /\ ToSet(s) \cap ToSet(t) = {} => NoDup(s \o t)
<1> DEFINE u == s \o t
<1>1. /\ u \in Seq(Cmds) /\ Len(u) = Len(s) + Len(t)
      /\ \A i \in 1..(Len(s) + Len(t)) :
           u[i] = IF i <= Len(s) THEN s[i] ELSE t[i - Len(s)]
  BY ConcatProperties
<1>2. /\ Len(s) \in Nat /\ Len(t) \in Nat
      /\ DOMAIN s = 1..Len(s) /\ DOMAIN t = 1..Len(t)
  BY LenProperties
<1> HIDE DEF u
<1>3. DOMAIN u = 1..(Len(s) + Len(t))
  BY <1>1, LenProperties
<1>4. \A i \in 1..Len(s) : i \in 1..(Len(s) + Len(t)) /\ u[i] = s[i]
  BY <1>1, <1>2
<1>5. \A j \in 1..Len(t) : /\ Len(s) + j \in 1..(Len(s) + Len(t))
                           /\ u[Len(s) + j] = t[j]
  BY <1>1, <1>2
<1>6. \A k \in 1..(Len(s) + Len(t)) :
        \/ k \in 1..Len(s) /\ u[k] = s[k]
        \/ k - Len(s) \in 1..Len(t) /\ u[k] = t[k - Len(s)]
  BY <1>1, <1>2
<1>7. ToSet(u) = ToSet(s) \cup ToSet(t)
  <2>1. ToSet(u) \subseteq ToSet(s) \cup ToSet(t)
    BY <1>2, <1>3, <1>6 DEF ToSet
  <2>2. ToSet(s) \subseteq ToSet(u)
    BY <1>2, <1>3, <1>4 DEF ToSet
  <2>3. ToSet(t) \subseteq ToSet(u)
    BY <1>2, <1>3, <1>5 DEF ToSet
  <2> QED BY <2>1, <2>2, <2>3
<1>8. ASSUME NoDup(s), NoDup(t), ToSet(s) \cap ToSet(t) = {} PROVE NoDup(u)
  <2> SUFFICES ASSUME NEW i \in 1..Len(u), NEW j \in 1..Len(u), u[i] = u[j]
               PROVE  i = j
    BY DEF NoDup
  <2>0. i \in 1..(Len(s) + Len(t)) /\ j \in 1..(Len(s) + Len(t))
    BY <1>1
  <2>1. \A a \in 1..Len(s), b \in 1..Len(t) : s[a] # t[b]
    BY <1>2, <1>8 DEF ToSet
  <2>2. CASE i \in 1..Len(s) /\ u[i] = s[i]
    <3>1. j \in 1..Len(s) /\ u[j] = s[j]
      BY <1>6, <2>0, <2>1, <2>2
    <3> QED BY <1>8, <2>2, <3>1 DEF NoDup
  <2>3. CASE i - Len(s) \in 1..Len(t) /\ u[i] = t[i - Len(s)]
    <3>1. j - Len(s) \in 1..Len(t) /\ u[j] = t[j - Len(s)]
      BY <1>6, <2>0, <2>1, <2>3
    <3>2. i - Len(s) = j - Len(s)
      BY <1>8, <2>3, <3>1 DEF NoDup
    <3> QED BY <1>2, <2>0, <3>2
  <2> QED BY <1>6, <2>0, <2>2, <2>3
<1> QED BY <1>1, <1>7, <1>8 DEF u


-----------------------------------------------------------------------------
(***************************************************************************)
(* A run that is executing or removing has a command in hand.              *)
(***************************************************************************)
LEMMA InHand ==
  ASSUME TypeOK, NEW r \in Runs, todo[r] # <<>>
  PROVE  Head(todo[r]) \in Cmds /\ Tail(todo[r]) \in Seq(Cmds)
<1>1. todo[r] \in Seq(Cmds)
  BY DEF TypeOK
<1> QED BY <1>1, HeadTailProperties

LEMMA HandIsTodo ==
  ASSUME TypeOK, NEW r \in Runs, todo[r] # <<>>
  PROVE  Head(todo[r]) \in ToSet(todo[r])
<1>1. todo[r] \in Seq(Cmds)
  BY DEF TypeOK
<1>2. 1 \in DOMAIN todo[r] /\ Head(todo[r]) = todo[r][1]
  BY <1>1, HeadTailProperties, LenProperties
<1> QED BY <1>2 DEF ToSet

(* The next push the hub tells the agent of.                               *)
LEMMA NextUntold ==
  ASSUME TypeOK, untold # <<>>
  PROVE  /\ Head(untold) \in Cmds /\ Tail(untold) \in Seq(Cmds)
         /\ Head(untold) \in ToSet(untold)
<1>1. untold \in Seq(Cmds)
  BY DEF TypeOK
<1>2. 1 \in DOMAIN untold /\ Head(untold) = untold[1]
  BY <1>1, HeadTailProperties, LenProperties
<1> QED BY <1>1, <1>2, HeadTailProperties DEF ToSet

LEMMA TypeInit == Init => TypeOK
<1> SUFFICES ASSUME Init PROVE TypeOK
  OBVIOUS
<1>1. <<>> \in Seq(Cmds)
  BY EmptySeq
<1>2. alive \in BOOLEAN /\ wake \in BOOLEAN
  BY Zenon DEF Init
<1>3. crashes \in 0..MaxCrashes
  BY CommandAssumption DEF Init
<1>4. status \in [Cmds -> Statuses] /\ hubStatus \in [Cmds -> Statuses]
  BY DEF Init, Statuses
<1>5. word \in [Cmds -> Words]
  BY DEF Init, Words
<1> QED
  BY <1>1, <1>2, <1>3, <1>4, <1>5 DEF Init, TypeOK, Phases, Requests

(* What a removal does to the list, whichever entry it takes.              *)
LEMMA RemovedList ==
  ASSUME TypeOK, NEW r \in Runs, Removed(r)
  PROVE  \/ /\ list' = list
            /\ \A d \in ToSet(list) : ~SameId(d, Head(todo[r]))
         \/ \E i \in 1..Len(list) :
              /\ SameId(list[i], Head(todo[r]))
              /\ \A j \in 1..(i-1) : ~SameId(list[j], Head(todo[r]))
              /\ list' = RemoveAt(list, i)
<1>1. DOMAIN list = 1..Len(list)
  BY LenProperties DEF TypeOK
<1> QED BY <1>1 DEF Removed

LEMMA TypeStep == TypeOK /\ [Next]_vars => TypeOK'
<1> SUFFICES ASSUME TypeOK, [Next]_vars PROVE TypeOK'
  OBVIOUS
<1> USE DEF TypeOK, Statuses, Phases, Requests, Words, agentVars, hubVars, history
<1>1. ASSUME NEW c \in Cmds, Create(c) PROVE TypeOK'
  BY <1>1 DEF Create
<1>2. ASSUME NEW c \in Cmds, Push(c) PROVE TypeOK'
  <2>1. /\ Append(list, c) \in Seq(Cmds) /\ Append(hubList, c) \in Seq(Cmds)
        /\ Append(untold, c) \in Seq(Cmds)
    BY AppendProperties
  <2>2. /\ list' \in Seq(Cmds) /\ hubList' \in Seq(Cmds)
        /\ untold' \in Seq(Cmds) /\ wake' \in BOOLEAN
    BY <1>2, <2>1 DEF Push
  <2>3. req' \in [Cmds -> Requests]
    BY <1>2 DEF Push
  <2> QED BY <1>2, <2>2, <2>3 DEF Push
<1>3. ASSUME NEW c \in Cmds, Expire(c) PROVE TypeOK'
  BY <1>3 DEF Expire
<1>4. ASSUME NEW c \in Cmds, TimerFires(c) PROVE TypeOK'
  BY <1>4 DEF TimerFires, SetTimeout
<1>5. ASSUME NEW c \in Cmds, Answer(c) PROVE TypeOK'
  BY <1>5 DEF Answer
<1>6. ASSUME NEW c \in Cmds, Elsewhere(c) PROVE TypeOK'
  BY <1>6 DEF Elsewhere, Overtake, SendTimeout, TellTimeout
<1>7. CASE TellPush
  <2>1. untold # <<>>
    BY <1>7 DEF TellPush
  <2>2. Head(untold) \in Cmds /\ Tail(untold) \in Seq(Cmds)
    BY <2>1, NextUntold
  <2>3. Append(list, Head(untold)) \in Seq(Cmds)
    BY <2>2, AppendProperties
  <2>4. wake' \in BOOLEAN
    BY <1>7 DEF TellPush
  <2> QED BY <1>7, <2>2, <2>3, <2>4 DEF TellPush
<1>8. ASSUME NEW r \in Runs, Wake(r) PROVE TypeOK'
  BY <1>8 DEF Wake
<1>9. ASSUME NEW r \in Runs, TakeNext(r) PROVE TypeOK'
  <2>1. Head(todo[r]) \in Cmds
    BY <1>9, InHand DEF TakeNext
  <2>2. CASE Begin(r)
    <3>1. todo[r] # <<>>
      BY <1>9 DEF TakeNext
    <3>2. /\ status' \in [Cmds -> Statuses] /\ begun' \in [Cmds -> Nat]
          /\ executed' \in SUBSET Cmds /\ unsent' \in SUBSET Cmds
          /\ at' \in [Runs -> Phases]
      BY <2>1, <2>2 DEF Begin
    <3>3. \A q \in Runs : todo'[q] = <<>> => at'[q] = "next"
      BY <2>2, <3>1 DEF Begin
    <3> QED BY <2>2, <3>2, <3>3 DEF Begin
  <2>3. CASE Discard(r)
    BY <1>9, <2>3 DEF TakeNext, Discard
  <2> QED BY <1>9, <2>2, <2>3 DEF TakeNext
<1>10. ASSUME NEW r \in Runs, Finish(r) PROVE TypeOK'
  <2>1. todo[r] # <<>> /\ Head(todo[r]) \in Cmds
    BY <1>10, InHand DEF Finish
  <2>2. PICK final \in {"completed", "failed"} :
           status' = [status EXCEPT ![Head(todo[r])] = final]
    BY <1>10 DEF Finish
  <2>3. status' \in [Cmds -> Statuses]
    BY <2>1, <2>2
  <2>4. /\ at' \in [Runs -> Phases] /\ ended' \in [Cmds -> Nat]
        /\ unsent' \in SUBSET Cmds
        /\ \A q \in Runs : todo'[q] = <<>> => at'[q] = "next"
    BY <1>10, <2>1 DEF Finish
  <2> QED BY <1>10, <2>3, <2>4 DEF Finish
<1>11. ASSUME NEW r \in Runs, Removed(r) PROVE TypeOK'
  <2>1. todo[r] # <<>> /\ Tail(todo[r]) \in Seq(Cmds)
    BY <1>11, InHand DEF Removed
  <2>2. \A i \in DOMAIN list : RemoveAt(list, i) \in Seq(Cmds)
    BY RemoveAtOnce, LenProperties
  <2>3. list' \in Seq(Cmds)
    BY <1>11, <2>2 DEF Removed
  <2> HIDE DEF hubVars, history
  <2>4. /\ todo' = [todo EXCEPT ![r] = Tail(@)] /\ at' = [at EXCEPT ![r] = "next"]
        /\ UNCHANGED <<req, status, expired, alive, wake, executed>>
        /\ UNCHANGED hubVars /\ UNCHANGED history
    BY <1>11 DEF Removed
  <2> QED BY <2>1, <2>3, <2>4 DEF hubVars, history
<1>12. CASE Sync
  <2>1. list \o untold \in Seq(Cmds) /\ ToSet(list) \subseteq Cmds
    BY ConcatOnce, LenProperties DEF ToSet
  <2> QED BY <1>12, <2>1 DEF Sync
<1>13. CASE Start
  BY <1>13, EmptySeq DEF Start, FromHub
<1>14. CASE Crash
  <2>1. <<>> \in Seq(Cmds) /\ crashes + 1 \in 0..MaxCrashes
    BY <1>14, EmptySeq, CommandAssumption DEF Crash
  <2> QED BY <1>14, <2>1 DEF Crash, FromHub
<1>15. CASE UNCHANGED vars
  BY <1>15 DEF vars
<1> QED
  BY <1>1, <1>2, <1>3, <1>4, <1>5, <1>6, <1>7, <1>8, <1>9, <1>10, <1>11,
     <1>12, <1>13, <1>14, <1>15 DEF Next, Caller, Agent

(***************************************************************************)
(* The variables of the protocol keep their types, and a run with nothing  *)
(* in hand is at the top of its loop (bindCommandList).                    *)
(***************************************************************************)
THEOREM TypeCorrect == Spec => []TypeOK
  BY TypeInit, TypeStep, PTL DEF Spec

-----------------------------------------------------------------------------
(***************************************************************************)
(* The inductive invariant.                                                *)
(***************************************************************************)

(* Of what is pending for the agent the hub can know no more than a        *)
(* "timeout" it has not told the agent of.                                 *)
HubBehind == \A c \in Cmds :
  status[c] = "pending" => hubStatus[c] = "pending" \/ word[c] = "hub"

(* Only callers elsewhere say "timeout", when their timers have fired.     *)
Said == \A c \in Cmds : word[c] # "none" =>
          c \notin Local /\ req[c] \notin {"idle", "loading", "waiting"}

(* What a run executes was marked, and what was marked is not pending.     *)
Marked == /\ \A r \in Runs : at[r] = "executing" => Head(todo[r]) \in executed
          /\ \A c \in executed : status[c] # "pending"

(* A dead process has no run, no mark and no caller of its own.            *)
DeadIsClean == ~alive =>
  /\ ~wake /\ executed = {}
  /\ \A r \in Runs : todo[r] = <<>>
  /\ \A c \in Local : req[c] \notin {"loading", "waiting", "timedout"}

(* A command is listed at most once, or on its way to the list, and        *)
(* neither before it is pushed.                                            *)
ListedOnce ==
  /\ NoDup(list) /\ NoDup(hubList) /\ NoDup(untold)
  /\ ToSet(list) \cap ToSet(untold) = {}
  /\ \A c \in Cmds : req[c] \in {"idle", "loading"} =>
       c \notin ToSet(list) \cup ToSet(hubList) \cup ToSet(untold)

(* The hub has seen what comes from elsewhere and what it lists itself;    *)
(* what it has not seen goes with the process that asked for it.           *)
Seen ==
  /\ Cmds \ Local \subseteq sent
  /\ ToSet(untold) \subseteq Cmds \ Local
  /\ ToSet(hubList) \subseteq sent
  /\ \A c \in Cmds : /\ req[c] = "overwritten" => c \notin Local
                     /\ req[c] = "lost" => c \in Local
  /\ \A c \in Cmds : c \notin sent /\ req[c] = "lost" =>
       c \notin ToSet(list) /\ \A r \in Runs : c \notin ToSet(todo[r])

(* What has not been pushed, or of whose push the agent has not been told, *)
(* was never touched.                                                      *)
Untouched == \A c \in Cmds :
  req[c] \in {"idle", "loading"} \/ c \in ToSet(untold) =>
    /\ status[c] = "pending" /\ begun[c] = 0
    /\ \A r \in Runs : c \notin ToSet(todo[r])

(* Of two commands the hub has not seen, the one listed first comes first  *)
(* in every snapshot that still has the other.                             *)
InOrder == \A r \in Runs :
  /\ NoDup(todo[r])
  /\ \A i, j \in DOMAIN list :
       /\ i < j /\ list[i] \notin sent /\ list[j] \notin sent
       /\ list[j] \in ToSet(todo[r])
       => \E a, b \in DOMAIN todo[r] :
            a < b /\ todo[r][a] = list[i] /\ todo[r][b] = list[j]

(* Executions that ended were begun, and one in progress has not ended.    *)
Counted == /\ \A c \in Cmds : ended[c] <= begun[c]
           /\ \A r \in Runs : at[r] = "executing" =>
                ended[Head(todo[r])] < begun[Head(todo[r])]

(* A final status, wherever it is seen, comes from an execution.           *)
FinalIsEarned == \A c \in Cmds :
  \/ status[c] \in {"completed", "failed"}
  \/ hubStatus[c] \in {"completed", "failed"}
  => ended[c] > 0

(* What timed out has expired, but for callers whose clock is ahead.       *)
RejectedIsOver == \A c \in Cmds \ Ahead :
  \/ status[c] = "timeout" \/ hubStatus[c] = "timeout" \/ word[c] # "none"
  \/ req[c] \in {"timedout", "overwritten", "rejected"}
  => c \in expired

(* The agent's own callers always wake it, and it is done with what it has *)
(* begun only when that has left the list: also in its next life, since    *)
(* the hub gives it back what it had not removed.                          *)
Owed(c) == \/ c \in Local \/ begun[c] # 0
           \/ status[c] \in {"in_progress", "completed", "failed"}

Attended == \A c \in Cmds :
  alive /\ c \in ToSet(list) /\ Owed(c)
  => wake \/ \E r \in Runs : c \in ToSet(todo[r])

IInv == /\ TypeOK /\ HubBehind /\ Said /\ Marked /\ DeadIsClean /\ ListedOnce
        /\ Seen /\ Untouched /\ InOrder /\ Counted /\ FinalIsEarned
        /\ RejectedIsOver /\ OneExecutor /\ Attended

LEMMA IInvInit == Init => IInv
<1> SUFFICES ASSUME Init PROVE IInv
  OBVIOUS
<1>1. TypeOK
  BY TypeInit
<1>2. ToSet(<<>>) = {} /\ NoDup(<<>>)
  BY DEF ToSet, NoDup
<1>3. list = <<>> /\ hubList = <<>> /\ untold = <<>>
  BY DEF Init
<1>4. ListedOnce /\ Attended
  BY <1>2, <1>3 DEF ListedOnce, Attended
<1>5. /\ status = [c \in Cmds |-> "pending"] /\ hubStatus = status
      /\ req = [c \in Cmds |-> "idle"] /\ word = [c \in Cmds |-> "none"]
      /\ at = [r \in Runs |-> "next"] /\ todo = [r \in Runs |-> <<>>]
      /\ executed = {} /\ sent = Cmds \ Local
      /\ begun = [c \in Cmds |-> 0] /\ ended = [c \in Cmds |-> 0]
      /\ ~wake
  BY DEF Init
<1>6. HubBehind /\ Said /\ FinalIsEarned /\ RejectedIsOver
  BY <1>5 DEF HubBehind, Said, FinalIsEarned, RejectedIsOver
<1>7. Marked /\ DeadIsClean /\ Counted /\ OneExecutor
  BY <1>5, CommandAssumption DEF Marked, DeadIsClean, Counted, OneExecutor
<1>8. Seen /\ Untouched
  BY <1>2, <1>3, <1>5 DEF Seen, Untouched
<1>9. InOrder
  BY <1>2, <1>3, <1>5 DEF InOrder
<1> QED BY <1>1, <1>4, <1>6, <1>7, <1>8, <1>9 DEF IInv

(***************************************************************************)
(* A turn of the loop of bindCommandList begins the command in hand, which *)
(* is then unmarked, pending and not expired, or discards it.              *)
(***************************************************************************)
LEMMA TakeNextCases ==
  ASSUME TypeOK, NEW r \in Runs, TakeNext(r)
  PROVE  /\ at[r] = "next" /\ todo[r] # <<>> /\ Head(todo[r]) \in Cmds
         /\ \/ /\ Begin(r)
               /\ Head(todo[r]) \notin executed
               /\ status[Head(todo[r])] = "pending"
               /\ Head(todo[r]) \notin expired
            \/ /\ Discard(r)
               /\ \/ Head(todo[r]) \in executed
                  \/ status[Head(todo[r])] # "pending"
                  \/ Head(todo[r]) \in expired
<1>1. at[r] = "next" /\ todo[r] # <<>>
  BY DEF TakeNext
<1> QED BY <1>1, InHand DEF TakeNext, isAvailable

(***************************************************************************)
(* A removal never leaves the command in hand on the list: an earlier      *)
(* entry the hub has not seen either would have come first in the          *)
(* snapshot.  What else it takes the hub has not seen, and then the        *)
(* command in hand was not listed any more.                                *)
(***************************************************************************)
LEMMA RemovedTakes ==
  ASSUME TypeOK, ListedOnce, InOrder, NEW r \in Runs, Removed(r)
  PROVE  /\ todo[r] # <<>> /\ Head(todo[r]) \in Cmds
         /\ NoDup(list') /\ ToSet(list') \subseteq ToSet(list)
         /\ Head(todo[r]) \notin ToSet(list')
         /\ \A d \in ToSet(list) : d \notin ToSet(list') =>
              \/ d = Head(todo[r])
              \/ /\ d \notin sent /\ Head(todo[r]) \notin sent
                 /\ Head(todo[r]) \notin ToSet(list)
         /\ \A i, j \in DOMAIN list' : i < j =>
              \E p, q \in DOMAIN list :
                p < q /\ list[p] = list'[i] /\ list[q] = list'[j]
<1> DEFINE c == Head(todo[r])
<1>1. /\ todo[r] # <<>> /\ c \in Cmds /\ todo[r] \in Seq(Cmds)
      /\ list \in Seq(Cmds) /\ DOMAIN list = 1..Len(list) /\ Len(list) \in Nat
  BY InHand, LenProperties DEF Removed, TypeOK
<1>2. c \in ToSet(todo[r]) /\ c = todo[r][1] /\ NoDup(todo[r])
      /\ DOMAIN todo[r] = 1..Len(todo[r]) /\ Len(todo[r]) \in Nat
      /\ 1 \in DOMAIN todo[r]
  BY <1>1, HandIsTodo, HeadTailProperties, LenProperties DEF InOrder
<1> HIDE DEF c
<1>3. ASSUME NEW i \in 1..Len(list), SameId(list[i], c),
             \A j \in 1..(i-1) : ~SameId(list[j], c),
             list' = RemoveAt(list, i)
      PROVE  /\ c \notin ToSet(list')
             /\ \A d \in ToSet(list) : d \notin ToSet(list') =>
                  \/ d = c
                  \/ d \notin sent /\ c \notin sent /\ c \notin ToSet(list)
  <2>1. /\ ToSet(list') \subseteq ToSet(list)
        /\ ToSet(list) \subseteq ToSet(list') \cup {list[i]}
        /\ list[i] \notin ToSet(list')
    BY <1>1, <1>3, RemoveAtOnce DEF ListedOnce
  <2>2. CASE list[i] = c
    BY <2>1, <2>2
  <2>3. CASE list[i] # c
    <3>1. list[i] \notin sent /\ c \notin sent
      BY <1>3, <2>3 DEF SameId
    <3>2. ASSUME c \in ToSet(list) PROVE FALSE
      <4>1. PICK j \in 1..Len(list) : list[j] = c
        BY <1>1, <3>2 DEF ToSet
      <4>2. i < j
        <5>1. ~(j < i)
          BY <1>1, <1>3, <4>1 DEF SameId
        <5> QED BY <1>1, <2>3, <4>1, <5>1
      <4>3. PICK a, b \in DOMAIN todo[r] :
              a < b /\ todo[r][a] = list[i] /\ todo[r][b] = list[j]
        <5>1. /\ i \in DOMAIN list /\ j \in DOMAIN list /\ list[j] \notin sent
              /\ list[j] \in ToSet(todo[r])
          BY <1>1, <1>2, <3>1, <4>1
        <5> QED BY <3>1, <4>2, <5>1 DEF InOrder
      <4>4. b = 1
        BY <1>2, <4>1, <4>3 DEF NoDup
      <4> QED BY <1>2, <4>3, <4>4
    <3> QED BY <2>1, <3>1, <3>2
  <2> QED BY <2>2, <2>3
<1>4. ASSUME NEW i \in 1..Len(list), list' = RemoveAt(list, i)
      PROVE  /\ NoDup(list') /\ ToSet(list') \subseteq ToSet(list)
             /\ \A k, j \in DOMAIN list' : k < j =>
                  \E p, q \in DOMAIN list :
                    p < q /\ list[p] = list'[k] /\ list[q] = list'[j]
  <2> DEFINE t == RemoveAt(list, i)
  <2>1. /\ NoDup(t) /\ ToSet(t) \subseteq ToSet(list)
        /\ \A k, j \in DOMAIN t : k < j =>
             \E p, q \in DOMAIN list : p < q /\ list[p] = t[k] /\ list[q] = t[j]
    <3>1. NoDup(list)
      BY DEF ListedOnce
    <3>2. /\ NoDup(list) => NoDup(t)
          /\ ToSet(t) \subseteq ToSet(list)
      BY <1>1, RemoveAtOnce
    <3>3. \A k, j \in DOMAIN t : k < j =>
             \E p, q \in DOMAIN list : p < q /\ list[p] = t[k] /\ list[q] = t[j]
      BY <1>1, RemoveAtOrder
    <3> QED BY <3>1, <3>2, <3>3
  <2>2. list' = t
    BY <1>4
  <2> HIDE DEF t
  <2> QED BY <2>1, <2>2
<1>5. \/ /\ list' = list /\ \A d \in ToSet(list) : ~SameId(d, c)
      \/ \E i \in 1..Len(list) :
           /\ SameId(list[i], c)
           /\ \A j \in 1..(i-1) : ~SameId(list[j], c)
           /\ list' = RemoveAt(list, i)
  BY RemovedList DEF c
<1>6. CASE \E i \in 1..Len(list) :
           /\ SameId(list[i], c)
           /\ \A j \in 1..(i-1) : ~SameId(list[j], c)
           /\ list' = RemoveAt(list, i)
  BY <1>1, <1>3, <1>4, <1>6 DEF c
<1>7. CASE list' = list /\ \A d \in ToSet(list) : ~SameId(d, c)
  <2>1. c \notin ToSet(list)
    BY <1>7 DEF SameId
  <2> QED BY <1>1, <1>7, <2>1 DEF ListedOnce, c
<1> QED BY <1>5, <1>6, <1>7

LEMMA HubBehindStep ==
  TypeOK /\ HubBehind /\ Said /\ [Next]_vars => HubBehind' /\ Said'
<1> SUFFICES ASSUME TypeOK, HubBehind, Said, [Next]_vars
             PROVE  HubBehind' /\ Said'
  OBVIOUS
<1> USE DEF HubBehind, Said, agentVars, hubVars, history
<1>1. ASSUME NEW c \in Cmds, TimerFires(c) PROVE HubBehind' /\ Said'
  BY <1>1 DEF TimerFires, SetTimeout, TypeOK
<1>2. ASSUME NEW c \in Cmds, Overtake(c) PROVE HubBehind' /\ Said'
  BY <1>2 DEF Overtake, TypeOK
<1>3. ASSUME NEW c \in Cmds, SendTimeout(c) \/ TellTimeout(c)
      PROVE  HubBehind' /\ Said'
  BY <1>3 DEF SendTimeout, TellTimeout, TypeOK
<1>4. ASSUME NEW c \in Cmds, Create(c) \/ Push(c) \/ Expire(c) \/ Answer(c)
      PROVE  HubBehind' /\ Said'
  <2>1. UNCHANGED <<status, hubStatus, word>>
    BY <1>4 DEF Create, Push, Expire, Answer
  <2>2. \A d \in Cmds : req'[d] \in {"idle", "loading", "waiting"} =>
                          req[d] \in {"idle", "loading", "waiting"}
    BY <1>4 DEF Create, Push, Expire, Answer, TypeOK
  <2> QED BY <2>1, <2>2
<1>5. ASSUME NEW r \in Runs, TakeNext(r) PROVE HubBehind' /\ Said'
  <2>1. Head(todo[r]) \in Cmds
    BY <1>5, InHand DEF TakeNext
  <2> QED BY <1>5, <2>1 DEF TakeNext, Begin, Discard, TypeOK
<1>6. ASSUME NEW r \in Runs, Finish(r) PROVE HubBehind' /\ Said'
  BY <1>6 DEF Finish, TypeOK
<1>7. ASSUME NEW r \in Runs, Wake(r) \/ Removed(r) PROVE HubBehind' /\ Said'
  <2>1. UNCHANGED <<status, hubStatus, word, req>>
    BY <1>7 DEF Wake, Removed
  <2> QED BY <2>1
<1>8. CASE Sync
  <2>1. /\ UNCHANGED <<status, word, req>>
        /\ \A c \in Cmds : hubStatus'[c] \in {status[c], hubStatus[c]}
    BY <1>8 DEF Sync
  <2> QED BY <2>1
<1>9. CASE Start \/ Crash
  <2>1. /\ status' = hubStatus /\ hubStatus' = hubStatus
        /\ \A c \in Cmds : word'[c] \in {word[c], "none"}
        /\ \A c \in Cmds : req'[c] \in {req[c], "lost"}
    BY <1>9 DEF Start, Crash, FromHub, TypeOK
  <2> QED BY <2>1
<1>10. CASE TellPush \/ UNCHANGED vars
  BY <1>10 DEF TellPush, vars
<1> QED
  BY <1>1, <1>2, <1>3, <1>4, <1>5, <1>6, <1>7, <1>8, <1>9, <1>10
     DEF Next, Caller, Elsewhere, Agent

LEMMA MarkedStep ==
  TypeOK /\ Marked /\ DeadIsClean /\ [Next]_vars => Marked'
<1> SUFFICES ASSUME TypeOK, Marked, DeadIsClean, [Next]_vars PROVE Marked'
  OBVIOUS
<1> USE DEF Marked, agentVars, hubVars, history
<1>1. ASSUME NEW c \in Cmds, TimerFires(c) \/ Elsewhere(c) PROVE Marked'
  <2>1. UNCHANGED <<executed, todo, at>>
    BY <1>1 DEF TimerFires, Elsewhere, Overtake, SendTimeout, TellTimeout
  <2>2. \A d \in Cmds : status'[d] \in {status[d], "timeout"}
    BY <1>1 DEF TimerFires, SetTimeout, Elsewhere, Overtake, SendTimeout,
                TellTimeout, TypeOK
  <2> QED BY <2>1, <2>2 DEF TypeOK
<1>2. ASSUME NEW r \in Runs, TakeNext(r) PROVE Marked'
  <2> DEFINE c == Head(todo[r])
  <2>1. CASE Begin(r)
    <3>1. /\ todo' = todo /\ at' = [at EXCEPT ![r] = "executing"]
          /\ executed' = executed \cup {c}
          /\ status' = [status EXCEPT ![c] = "in_progress"]
          /\ c \in Cmds
      BY <1>2, <2>1, TakeNextCases DEF Begin
    <3> HIDE DEF c
    <3>2. \A d \in executed' : status'[d] # "pending"
      BY <3>1 DEF TypeOK
    <3>3. \A q \in Runs : at'[q] = "executing" => Head(todo'[q]) \in executed'
      BY <3>1 DEF TypeOK, c
    <3> QED BY <3>2, <3>3
  <2>2. CASE Discard(r)
    BY <2>2 DEF Discard, TypeOK
  <2> QED BY <1>2, <2>1, <2>2, TakeNextCases
<1>3. ASSUME NEW r \in Runs, Finish(r) PROVE Marked'
  BY <1>3 DEF Finish, TypeOK
<1>4. ASSUME NEW r \in Runs, Wake(r) PROVE Marked'
  BY <1>4 DEF Wake, TypeOK
<1>5. ASSUME NEW r \in Runs, Removed(r) PROVE Marked'
  <2>1. /\ UNCHANGED <<status, executed>>
        /\ at' = [at EXCEPT ![r] = "next"]
        /\ todo' = [todo EXCEPT ![r] = Tail(@)]
    BY <1>5 DEF Removed
  <2> QED BY <2>1 DEF TypeOK
<1>6. CASE Crash
  BY <1>6 DEF Crash
<1>7. CASE Start
  <2>1. executed' = {} /\ \A r \in Runs : at'[r] = "next"
    BY <1>7 DEF Start, DeadIsClean, TypeOK
  <2> QED BY <2>1
<1>8. ASSUME NEW c \in Cmds, Create(c) \/ Push(c) \/ Expire(c) \/ Answer(c)
      PROVE  Marked'
  <2>1. UNCHANGED <<status, executed, todo, at>>
    BY <1>8 DEF Create, Push, Expire, Answer
  <2> QED BY <2>1
<1>9. CASE TellPush \/ Sync \/ UNCHANGED vars
  <2>1. UNCHANGED <<status, executed, todo, at>>
    BY <1>9 DEF TellPush, Sync, vars
  <2> QED BY <2>1
<1> QED
  BY <1>1, <1>2, <1>3, <1>4, <1>5, <1>6, <1>7, <1>8, <1>9
     DEF Next, Caller, Agent

LEMMA OneExecutorStep ==
  TypeOK /\ Marked /\ OneExecutor /\ [Next]_vars => OneExecutor'
<1> SUFFICES ASSUME TypeOK, Marked, OneExecutor, [Next]_vars
             PROVE  OneExecutor'
  OBVIOUS
<1> USE DEF OneExecutor, agentVars
<1>1. ASSUME NEW r \in Runs, TakeNext(r) PROVE OneExecutor'
  <2>1. ASSUME Begin(r), Head(todo[r]) \notin executed PROVE OneExecutor'
    <3>1. todo' = todo /\ at' = [at EXCEPT ![r] = "executing"]
      BY <2>1 DEF Begin
    <3>2. \A q \in Runs : at[q] = "executing" => Head(todo[q]) # Head(todo[r])
      BY <2>1 DEF Marked
    <3> QED BY <3>1, <3>2 DEF TypeOK
  <2>2. CASE Discard(r)
    BY <2>2 DEF Discard, TypeOK
  <2> QED BY <1>1, <2>1, <2>2, TakeNextCases
<1>2. ASSUME NEW r \in Runs, Wake(r) \/ Finish(r) \/ Removed(r)
      PROVE  OneExecutor'
  <2>1. /\ \A q \in Runs : at'[q] = "executing" => at[q] = "executing"
        /\ \A q \in Runs : at[q] = "executing" /\ at'[q] = "executing" =>
                             todo'[q] = todo[q]
    BY <1>2 DEF Wake, Finish, Removed, TypeOK
  <2> QED BY <2>1
<1>3. CASE Crash
  BY <1>3 DEF Crash
<1>4. ASSUME NEW c \in Cmds, Caller(c) \/ Elsewhere(c) PROVE OneExecutor'
  <2>1. UNCHANGED <<todo, at>>
    BY <1>4 DEF Caller, Create, Push, Expire, TimerFires, Answer, Elsewhere,
                Overtake, SendTimeout, TellTimeout
  <2> QED BY <2>1
<1>5. CASE TellPush \/ Sync \/ Start \/ UNCHANGED vars
  <2>1. UNCHANGED <<todo, at>>
    BY <1>5 DEF TellPush, Sync, Start, vars
  <2> QED BY <2>1
<1> QED
  BY <1>1, <1>2, <1>3, <1>4, <1>5 DEF Next, Agent

LEMMA DeadIsCleanStep == TypeOK /\ DeadIsClean /\ [Next]_vars => DeadIsClean'
<1> SUFFICES ASSUME TypeOK, DeadIsClean, [Next]_vars PROVE DeadIsClean'
  OBVIOUS
<1> USE DEF DeadIsClean, agentVars
<1>1. ASSUME NEW r \in Runs, Agent(r) PROVE DeadIsClean'
  <2>1. alive
    BY <1>1 DEF Agent, Wake, TakeNext, Finish, Removed, TypeOK
  <2>2. alive' = alive
    BY <1>1 DEF Agent, Wake, TakeNext, Begin, Discard, Finish, Removed
  <2> QED BY <2>1, <2>2
<1>2. ASSUME NEW c \in Cmds, Caller(c) PROVE DeadIsClean'
  <2>1. UNCHANGED <<alive, todo, executed>>
    BY <1>2 DEF Caller, Create, Push, Expire, TimerFires, Answer
  <2>2. ~alive => ~wake'
    BY <1>2 DEF Caller, Create, Push, Expire, TimerFires, Answer, TypeOK
  <2>3. ~alive => \A d \in Local :
                    req'[d] \notin {"loading", "waiting", "timedout"}
    BY <1>2, CommandAssumption
       DEF Caller, Create, Push, Expire, TimerFires, Answer, TypeOK
  <2> QED BY <2>1, <2>2, <2>3
<1>3. ASSUME NEW c \in Cmds, Elsewhere(c) PROVE DeadIsClean'
  <2>1. /\ UNCHANGED <<alive, wake, todo, executed>>
        /\ c \notin Local => \A d \in Local : req'[d] = req[d]
        /\ req' = req \/ c \notin Local
    BY <1>3, CommandAssumption
       DEF Elsewhere, Overtake, SendTimeout, TellTimeout, TypeOK
  <2> QED BY <2>1
<1>4. CASE TellPush \/ Sync \/ Start
  BY <1>4 DEF TellPush, Sync, Start
<1>5. CASE Crash
  BY <1>5, CommandAssumption DEF Crash
<1>6. CASE UNCHANGED vars
  BY <1>6 DEF vars
<1> QED
  BY <1>1, <1>2, <1>3, <1>4, <1>5, <1>6 DEF Next

LEMMA CountedStep ==
  TypeOK /\ OneExecutor /\ Counted /\ [Next]_vars => Counted'
<1> SUFFICES ASSUME TypeOK, OneExecutor, Counted, [Next]_vars
             PROVE  Counted'
  OBVIOUS
<1> USE DEF Counted, agentVars, history
<1>1. ASSUME NEW r \in Runs, TakeNext(r) PROVE Counted'
  <2> DEFINE c == Head(todo[r])
  <2>1. CASE Begin(r)
    <3>1. /\ todo' = todo /\ at' = [at EXCEPT ![r] = "executing"]
          /\ begun' = [begun EXCEPT ![c] = @ + 1] /\ ended' = ended
          /\ c \in Cmds
      BY <1>1, <2>1, TakeNextCases DEF Begin
    <3>2. \A q \in Runs : at[q] = "executing" => Head(todo[q]) \in Cmds
      BY InHand DEF TypeOK
    <3> HIDE DEF c
    <3>3. \A d \in Cmds : begun'[d] = IF d = c THEN begun[d] + 1 ELSE begun[d]
      BY <3>1 DEF TypeOK
    <3>4. \A d \in Cmds : ended'[d] <= begun'[d]
      BY <3>1, <3>3 DEF TypeOK
    <3>5. \A q \in Runs : at'[q] = "executing" =>
            ended'[Head(todo'[q])] < begun'[Head(todo'[q])]
      <4> TAKE q \in Runs
      <4>1. CASE q = r
        BY <4>1, <3>1, <3>3 DEF TypeOK, c
      <4>2. CASE q # r
        BY <4>2, <3>1, <3>2, <3>3 DEF TypeOK
      <4> QED BY <4>1, <4>2
    <3> QED BY <3>4, <3>5
  <2>2. CASE Discard(r)
    BY <2>2 DEF Discard, TypeOK
  <2> QED BY <1>1, <2>1, <2>2, TakeNextCases
<1>2. ASSUME NEW r \in Runs, Finish(r) PROVE Counted'
  <2> DEFINE c == Head(todo[r])
  <2>1. /\ todo' = todo /\ at' = [at EXCEPT ![r] = "removing"]
        /\ ended' = [ended EXCEPT ![c] = @ + 1] /\ begun' = begun
        /\ ended[c] < begun[c]
    BY <1>2 DEF Finish
  <2>2. \A q \in Runs : at[q] = "executing" => Head(todo[q]) \in Cmds
    BY InHand DEF TypeOK
  <2>3. \A q \in Runs : at'[q] = "executing" =>
                          at[q] = "executing" /\ Head(todo[q]) # c
    BY <1>2, <2>1 DEF OneExecutor, Finish, TypeOK
  <2> HIDE DEF c
  <2>4. \A d \in Cmds : ended'[d] = IF d = c THEN ended[d] + 1 ELSE ended[d]
    BY <2>1 DEF TypeOK
  <2>5. \A d \in Cmds : ended'[d] <= begun'[d]
    BY <2>1, <2>4 DEF TypeOK
  <2>6. \A q \in Runs : at'[q] = "executing" =>
          ended'[Head(todo'[q])] < begun'[Head(todo'[q])]
    BY <2>1, <2>2, <2>3, <2>4
  <2> QED BY <2>5, <2>6
<1>3. ASSUME NEW r \in Runs, Wake(r) \/ Removed(r) PROVE Counted'
  <2>1. /\ UNCHANGED <<begun, ended>>
        /\ \A q \in Runs : at'[q] = "executing" =>
             at[q] = "executing" /\ todo'[q] = todo[q]
    BY <1>3 DEF Wake, Removed, TypeOK
  <2> QED BY <2>1
<1>4. CASE Crash
  BY <1>4 DEF Crash
<1>5. ASSUME NEW c \in Cmds, Caller(c) \/ Elsewhere(c) PROVE Counted'
  <2>1. UNCHANGED <<begun, ended, at, todo>>
    BY <1>5 DEF Caller, Create, Push, Expire, TimerFires, Answer, Elsewhere,
                Overtake, SendTimeout, TellTimeout
  <2> QED BY <2>1
<1>6. CASE TellPush \/ Sync \/ Start \/ UNCHANGED vars
  <2>1. UNCHANGED <<begun, ended, at, todo>>
    BY <1>6 DEF TellPush, Sync, Start, vars
  <2> QED BY <2>1
<1> QED
  BY <1>1, <1>2, <1>3, <1>4, <1>5, <1>6 DEF Next, Agent

LEMMA FinalIsEarnedStep ==
  TypeOK /\ FinalIsEarned /\ [Next]_vars => FinalIsEarned'
<1> SUFFICES ASSUME TypeOK, FinalIsEarned, [Next]_vars PROVE FinalIsEarned'
  OBVIOUS
<1> USE DEF FinalIsEarned, agentVars, hubVars, history
<1>1. ASSUME NEW c \in Cmds, Caller(c) \/ Elsewhere(c) PROVE FinalIsEarned'
  <2>1. /\ ended' = ended
        /\ \A d \in Cmds : /\ status'[d] \in {status[d], "timeout"}
                           /\ hubStatus'[d] \in {hubStatus[d], "timeout"}
    BY <1>1 DEF Caller, Create, Push, Expire, TimerFires, SetTimeout, Answer,
                Elsewhere, Overtake, SendTimeout, TellTimeout, TypeOK
  <2> QED BY <2>1
<1>2. ASSUME NEW r \in Runs, TakeNext(r) PROVE FinalIsEarned'
  <2>1. /\ UNCHANGED <<ended, hubStatus>>
        /\ \A d \in Cmds : status'[d] \in {status[d], "in_progress"}
    BY <1>2, TakeNextCases DEF Begin, Discard, TypeOK
  <2> QED BY <2>1
<1>3. ASSUME NEW r \in Runs, Finish(r) PROVE FinalIsEarned'
  <2> DEFINE c == Head(todo[r])
  <2>1. /\ c \in Cmds /\ hubStatus' = hubStatus
        /\ ended' = [ended EXCEPT ![c] = @ + 1]
    BY <1>3, InHand DEF Finish, TypeOK
  <2>2. PICK final : status' = [status EXCEPT ![c] = final]
    BY <1>3 DEF Finish
  <2> HIDE DEF c
  <2> QED BY <2>1, <2>2 DEF TypeOK
<1>4. CASE Sync \/ Start \/ Crash
  <2>1. /\ ended' = ended
        /\ \A d \in Cmds : /\ status'[d] \in {status[d], hubStatus[d]}
                           /\ hubStatus'[d] \in {status[d], hubStatus[d]}
    BY <1>4 DEF Sync, Start, Crash, FromHub
  <2> QED BY <2>1
<1>5. ASSUME NEW r \in Runs, Wake(r) \/ Removed(r) PROVE FinalIsEarned'
  <2>1. UNCHANGED <<ended, status, hubStatus>>
    BY <1>5 DEF Wake, Removed
  <2> QED BY <2>1
<1>6. CASE TellPush \/ UNCHANGED vars
  BY <1>6 DEF TellPush, vars
<1> QED
  BY <1>1, <1>2, <1>3, <1>4, <1>5, <1>6 DEF Next, Agent

LEMMA RejectedIsOverStep ==
  TypeOK /\ RejectedIsOver /\ [Next]_vars => RejectedIsOver'
<1> SUFFICES ASSUME TypeOK, RejectedIsOver, [Next]_vars
             PROVE  RejectedIsOver'
  OBVIOUS
<1> USE DEF RejectedIsOver, agentVars, hubVars, history
<1>1. ASSUME NEW c \in Cmds, TimerFires(c) PROVE RejectedIsOver'
  BY <1>1 DEF TimerFires, SetTimeout, TypeOK
<1>2. ASSUME NEW c \in Cmds, Answer(c) PROVE RejectedIsOver'
  BY <1>2 DEF Answer, View, TypeOK
<1>3. ASSUME NEW c \in Cmds, Elsewhere(c) PROVE RejectedIsOver'
  BY <1>3 DEF Elsewhere, Overtake, SendTimeout, TellTimeout, TypeOK
<1>4. ASSUME NEW r \in Runs, TakeNext(r) \/ Finish(r) PROVE RejectedIsOver'
  <2>1. /\ UNCHANGED <<hubStatus, word, req, expired>>
        /\ \A d \in Cmds : status'[d] = "timeout" => status[d] = "timeout"
    BY <1>4, TakeNextCases DEF Begin, Discard, Finish, TypeOK
  <2> QED BY <2>1
<1>5. CASE Sync \/ Start \/ Crash
  <2>1. /\ expired' = expired
        /\ \A d \in Cmds : /\ status'[d] \in {status[d], hubStatus[d]}
                           /\ hubStatus'[d] \in {status[d], hubStatus[d]}
                           /\ word'[d] \in {word[d], "none"}
                           /\ req'[d] \in {req[d], "lost"}
    BY <1>5 DEF Sync, Start, Crash, FromHub
  <2> QED BY <2>1
<1>6. ASSUME NEW c \in Cmds, Create(c) \/ Push(c) \/ Expire(c)
      PROVE  RejectedIsOver'
  <2>1. /\ UNCHANGED <<status, hubStatus, word>> /\ expired \subseteq expired'
        /\ \A d \in Cmds : req'[d] \in {req[d], "loading", "waiting"}
    BY <1>6 DEF Create, Push, Expire, TypeOK
  <2> QED BY <2>1
<1>7. ASSUME NEW r \in Runs, Wake(r) \/ Removed(r) PROVE RejectedIsOver'
  <2>1. UNCHANGED <<status, hubStatus, word, req, expired>>
    BY <1>7 DEF Wake, Removed
  <2> QED BY <2>1
<1>8. CASE TellPush \/ UNCHANGED vars
  BY <1>8 DEF TellPush, vars
<1> QED
  BY <1>1, <1>2, <1>3, <1>4, <1>5, <1>6, <1>7, <1>8 DEF Next, Caller, Agent

(***************************************************************************)
(* The lists.                                                              *)
(***************************************************************************)

(* What a told push leaves of the pushes on their way.                     *)
LEMMA TellPushLists ==
  ASSUME TypeOK, ListedOnce, TellPush
  PROVE  /\ NoDup(list') /\ NoDup(untold')
         /\ Head(untold) \in ToSet(untold) /\ Head(untold) \in Cmds
         /\ ToSet(list') = ToSet(list) \cup {Head(untold)}
         /\ ToSet(untold') \subseteq ToSet(untold)
         /\ Head(untold) \notin ToSet(untold')
<1>1. /\ untold # <<>> /\ untold \in Seq(Cmds) /\ list \in Seq(Cmds)
      /\ list' = Append(list, Head(untold)) /\ untold' = Tail(untold)
  BY DEF TellPush, TypeOK
<1>2. Head(untold) \in ToSet(untold) /\ Head(untold) \in Cmds
  BY <1>1, NextUntold
<1>3. NoDup(list) /\ NoDup(untold) /\ Head(untold) \notin ToSet(list)
  BY <1>2 DEF ListedOnce
<1>4. /\ NoDup(Append(list, Head(untold)))
      /\ ToSet(Append(list, Head(untold))) = ToSet(list) \cup {Head(untold)}
  BY <1>1, <1>2, <1>3, AppendKeepsOnce
<1>5. ToSet(Tail(untold)) \subseteq ToSet(untold)
  BY <1>1, TailElements
<1>6. NoDup(Tail(untold)) /\ Head(untold) \notin ToSet(Tail(untold))
  BY <1>1, <1>3, TailKeeps
<1> QED BY <1>1, <1>2, <1>4, <1>5, <1>6

(* What a push adds.                                                       *)
LEMMA PushLists ==
  ASSUME TypeOK, ListedOnce, NEW c \in Cmds, Push(c)
  PROVE  /\ NoDup(list') /\ NoDup(hubList') /\ NoDup(untold')
         /\ c \notin ToSet(list) \cup ToSet(hubList) \cup ToSet(untold)
         /\ c \in Local => /\ ToSet(list') = ToSet(list) \cup {c}
                           /\ hubList' = hubList /\ untold' = untold
         /\ c \notin Local => /\ list' = list
                              /\ ToSet(hubList') = ToSet(hubList) \cup {c}
                              /\ ToSet(untold') = ToSet(untold) \cup {c}
<1>1. c \notin ToSet(list) \cup ToSet(hubList) \cup ToSet(untold)
  BY DEF Push, ListedOnce
<1>2. /\ list \in Seq(Cmds) /\ hubList \in Seq(Cmds) /\ untold \in Seq(Cmds)
      /\ NoDup(list) /\ NoDup(hubList) /\ NoDup(untold)
  BY DEF TypeOK, ListedOnce
<1>3. /\ NoDup(Append(list, c)) /\ ToSet(Append(list, c)) = ToSet(list) \cup {c}
      /\ NoDup(Append(hubList, c))
      /\ ToSet(Append(hubList, c)) = ToSet(hubList) \cup {c}
      /\ NoDup(Append(untold, c))
      /\ ToSet(Append(untold, c)) = ToSet(untold) \cup {c}
  BY <1>1, <1>2, AppendKeepsOnce
<1> QED BY <1>1, <1>2, <1>3 DEF Push

LEMMA ListedOnceStep ==
  TypeOK /\ ListedOnce /\ InOrder /\ [Next]_vars => ListedOnce'
<1> SUFFICES ASSUME TypeOK, ListedOnce, InOrder, [Next]_vars
             PROVE  /\ NoDup(list') /\ NoDup(hubList') /\ NoDup(untold')
                    /\ ToSet(list') \cap ToSet(untold') = {}
                    /\ \A c \in Cmds : req'[c] \in {"idle", "loading"} =>
                         c \notin ToSet(list') \cup ToSet(hubList')
                                               \cup ToSet(untold')
  BY DEF ListedOnce, NoDup, ToSet
<1> USE DEF agentVars, hubVars, history
<1>0. /\ NoDup(list) /\ NoDup(hubList) /\ NoDup(untold)
      /\ ToSet(list) \cap ToSet(untold) = {}
      /\ \A c \in Cmds : req[c] \in {"idle", "loading"} =>
           c \notin ToSet(list) \cup ToSet(hubList) \cup ToSet(untold)
  BY DEF ListedOnce
<1> DEFINE Once == /\ NoDup(list') /\ NoDup(hubList') /\ NoDup(untold')
                   /\ ToSet(list') \cap ToSet(untold') = {}
                   /\ \A c \in Cmds : req'[c] \in {"idle", "loading"} =>
                        c \notin ToSet(list') \cup ToSet(hubList')
                                              \cup ToSet(untold')
<1>1. ASSUME NEW c \in Cmds, Push(c) PROVE Once
  <2>1. \A d \in Cmds : req'[d] \in {"idle", "loading"} =>
          d # c /\ req[d] \in {"idle", "loading"}
    BY <1>1 DEF Push, TypeOK
  <2>2. CASE c \in Local
    BY <1>0, <1>1, <2>1, <2>2, PushLists
  <2>3. CASE c \notin Local
    BY <1>0, <1>1, <2>1, <2>3, PushLists
  <2> QED BY <2>2, <2>3
<1>2. CASE TellPush
  BY <1>0, <1>2, TellPushLists DEF TellPush
<1>3. ASSUME NEW r \in Runs, Removed(r) PROVE Once
  <2>1. UNCHANGED <<hubList, untold, req>>
    BY <1>3 DEF Removed
  <2>2. NoDup(list') /\ ToSet(list') \subseteq ToSet(list)
    BY <1>3, RemovedTakes
  <2> QED BY <1>0, <2>1, <2>2
<1>4. CASE Sync
  <2>1. /\ list \in Seq(Cmds) /\ untold \in Seq(Cmds)
        /\ UNCHANGED <<list, untold, req>> /\ hubList' = list \o untold
    BY <1>4 DEF Sync, TypeOK
  <2>2. NoDup(list \o untold) /\ ToSet(list \o untold) = ToSet(list) \cup ToSet(untold)
    BY <1>0, <2>1, ConcatOnce
  <2> QED BY <1>0, <2>1, <2>2
<1>5. CASE Start \/ Crash
  <2>1. /\ list' = hubList /\ hubList' = hubList /\ untold' = <<>>
        /\ \A c \in Cmds : req'[c] \in {req[c], "lost"}
    BY <1>5 DEF Start, Crash, FromHub, TypeOK
  <2>2. NoDup(<<>>) /\ ToSet(<<>>) = {}
    BY DEF NoDup, ToSet
  <2> QED BY <1>0, <2>1, <2>2
<1>6. ASSUME NEW c \in Cmds,
             \/ Create(c) \/ Expire(c) \/ TimerFires(c) \/ Answer(c)
             \/ Elsewhere(c)
      PROVE  Once
  <2>1. UNCHANGED <<list, hubList, untold>>
    BY <1>6 DEF Create, Expire, TimerFires, Answer, Elsewhere, Overtake,
                SendTimeout, TellTimeout
  <2>2. \A d \in Cmds : req'[d] \in {"idle", "loading"} =>
                          req[d] \in {"idle", "loading"}
    BY <1>6 DEF Create, Expire, TimerFires, Answer, Elsewhere, Overtake,
                SendTimeout, TellTimeout, TypeOK
  <2> QED BY <1>0, <2>1, <2>2
<1>7. ASSUME NEW r \in Runs, Wake(r) \/ TakeNext(r) \/ Finish(r) PROVE Once
  <2>1. UNCHANGED <<list, hubList, untold, req>>
    BY <1>7 DEF Wake, TakeNext, Begin, Discard, Finish
  <2> QED BY <1>0, <2>1
<1>8. CASE UNCHANGED vars
  BY <1>0, <1>8 DEF vars
<1> QED
  BY <1>1, <1>2, <1>3, <1>4, <1>5, <1>6, <1>7, <1>8 DEF Next, Caller, Agent

LEMMA SeenStep ==
  TypeOK /\ ListedOnce /\ Seen /\ Untouched /\ InOrder /\ [Next]_vars => Seen'
<1> SUFFICES ASSUME TypeOK, ListedOnce, Seen, Untouched, InOrder, [Next]_vars
             PROVE
    /\ Cmds \ Local \subseteq sent'
    /\ ToSet(untold') \subseteq Cmds \ Local
    /\ ToSet(hubList') \subseteq sent'
    /\ \A c \in Cmds : /\ req'[c] = "overwritten" => c \notin Local
                       /\ req'[c] = "lost" => c \in Local
    /\ \A c \in Cmds : c \notin sent' /\ req'[c] = "lost" =>
         c \notin ToSet(list') /\ \A r \in Runs : c \notin ToSet(todo'[r])
  BY DEF Seen, ToSet
<1> DEFINE Good ==
    /\ Cmds \ Local \subseteq sent'
    /\ ToSet(untold') \subseteq Cmds \ Local
    /\ ToSet(hubList') \subseteq sent'
    /\ \A c \in Cmds : /\ req'[c] = "overwritten" => c \notin Local
                       /\ req'[c] = "lost" => c \in Local
    /\ \A c \in Cmds : c \notin sent' /\ req'[c] = "lost" =>
         c \notin ToSet(list') /\ \A r \in Runs : c \notin ToSet(todo'[r])
<1> USE DEF agentVars, hubVars, history
<1>0. /\ Cmds \ Local \subseteq sent
      /\ ToSet(untold) \subseteq Cmds \ Local
      /\ ToSet(hubList) \subseteq sent
      /\ \A c \in Cmds : /\ req[c] = "overwritten" => c \notin Local
                         /\ req[c] = "lost" => c \in Local
      /\ \A c \in Cmds : c \notin sent /\ req[c] = "lost" =>
           c \notin ToSet(list) /\ \A r \in Runs : c \notin ToSet(todo[r])
  BY DEF Seen
<1>1. ASSUME NEW c \in Cmds, Push(c) PROVE Good
  <2>1. /\ UNCHANGED <<sent, todo>>
        /\ \A d \in Cmds : d # c => req'[d] = req[d]
        /\ req'[c] = "waiting"
    BY <1>1 DEF Push, TypeOK
  <2>2. CASE c \in Local
    BY <1>0, <1>1, <2>1, <2>2, PushLists
  <2>3. CASE c \notin Local
    BY <1>0, <1>1, <2>1, <2>3, PushLists
  <2> QED BY <2>2, <2>3
<1>2. CASE TellPush
  <2>1. UNCHANGED <<sent, todo, hubList, req>>
    BY <1>2 DEF TellPush
  <2>2. /\ ToSet(list') = ToSet(list) \cup {Head(untold)}
        /\ Head(untold) \in ToSet(untold)
        /\ ToSet(untold') \subseteq ToSet(untold)
    BY <1>2, TellPushLists
  <2>3. Head(untold) \in sent
    BY <1>0, <2>2
  <2> QED BY <1>0, <2>1, <2>2, <2>3
<1>3. ASSUME NEW r \in Runs, Removed(r) PROVE Good
  <2>1. /\ UNCHANGED <<sent, untold, hubList, req>>
        /\ todo' = [todo EXCEPT ![r] = Tail(@)]
        /\ todo[r] # <<>> /\ todo[r] \in Seq(Cmds)
    BY <1>3 DEF Removed, TypeOK
  <2>2. ToSet(list') \subseteq ToSet(list)
    BY <1>3, RemovedTakes
  <2>3. ToSet(Tail(todo[r])) \subseteq ToSet(todo[r])
    BY <2>1, TailElements
  <2>4. \A q \in Runs : ToSet(todo'[q]) \subseteq ToSet(todo[q])
    BY <2>1, <2>3 DEF TypeOK
  <2> QED BY <1>0, <2>1, <2>2, <2>4
<1>4. ASSUME NEW r \in Runs, Wake(r) PROVE Good
  <2>1. /\ UNCHANGED <<sent, untold, hubList, req, list>>
        /\ \A q \in Runs : todo'[q] \in {todo[q], list}
    BY <1>4 DEF Wake, TypeOK
  <2> QED BY <1>0, <2>1
<1>5. CASE Sync
  <2>1. /\ list \in Seq(Cmds) /\ untold \in Seq(Cmds)
        /\ UNCHANGED <<list, untold, req, todo>> /\ hubList' = list \o untold
        /\ sent' = sent \cup ToSet(list)
    BY <1>5 DEF Sync, TypeOK
  <2>2. ToSet(list \o untold) = ToSet(list) \cup ToSet(untold)
    BY <2>1, ConcatOnce
  <2> QED BY <1>0, <2>1, <2>2
<1>6. CASE Start
  <2>1. /\ UNCHANGED <<sent, hubList, req, todo>>
        /\ list' = hubList /\ untold' = <<>> /\ ToSet(<<>>) = {}
    BY <1>6 DEF Start, FromHub, ToSet
  <2> QED BY <1>0, <2>1
<1>7. CASE Crash
  <2>1. /\ UNCHANGED <<sent, hubList>>
        /\ list' = hubList /\ untold' = <<>> /\ ToSet(<<>>) = {}
        /\ \A r \in Runs : todo'[r] = <<>>
        /\ \A c \in Cmds : /\ req'[c] \in {req[c], "lost"}
                           /\ c \notin Local => req'[c] = req[c]
    BY <1>7 DEF Crash, FromHub, ToSet, TypeOK
  <2> QED BY <1>0, <2>1
<1>8. ASSUME NEW c \in Cmds,
             \/ Create(c) \/ Expire(c) \/ TimerFires(c) \/ Answer(c)
             \/ Elsewhere(c)
      PROVE  Good
  <2>1. UNCHANGED <<sent, list, hubList, untold, todo>>
    BY <1>8 DEF Create, Expire, TimerFires, Answer, Elsewhere, Overtake,
                SendTimeout, TellTimeout
  <2>2. \A d \in Cmds : /\ req'[d] = "lost" => req[d] = "lost"
                        /\ req'[d] = "overwritten" =>
                             req[d] = "overwritten" \/ d \notin Local
    BY <1>8 DEF Create, Expire, TimerFires, Answer, Elsewhere, Overtake,
                SendTimeout, TellTimeout, TypeOK
  <2> QED BY <1>0, <2>1, <2>2
<1>9. ASSUME NEW r \in Runs, TakeNext(r) \/ Finish(r) PROVE Good
  <2>1. UNCHANGED <<sent, list, hubList, untold, todo, req>>
    BY <1>9 DEF TakeNext, Begin, Discard, Finish
  <2> QED BY <1>0, <2>1
<1>10. CASE UNCHANGED vars
  BY <1>0, <1>10 DEF vars
<1> QED
  BY <1>1, <1>2, <1>3, <1>4, <1>5, <1>6, <1>7, <1>8, <1>9, <1>10
     DEF Next, Caller, Agent

LEMMA UntouchedStep ==
  /\ TypeOK /\ HubBehind /\ Said /\ ListedOnce /\ Seen /\ Untouched
  /\ InOrder /\ [Next]_vars
  => Untouched'
<1> SUFFICES ASSUME TypeOK, HubBehind, Said, ListedOnce, Seen, Untouched,
                    InOrder, [Next]_vars, NEW d \in Cmds,
                    req'[d] \in {"idle", "loading"} \/ d \in ToSet(untold')
             PROVE  /\ status'[d] = "pending" /\ begun'[d] = 0
                    /\ \A q \in Runs : d \notin ToSet(todo'[q])
  BY DEF Untouched, ToSet
<1> DEFINE Fresh == /\ status'[d] = "pending" /\ begun'[d] = 0
                    /\ \A q \in Runs : d \notin ToSet(todo'[q])
<1> USE DEF agentVars, hubVars, history
<1>0. req[d] \in {"idle", "loading"} \/ d \in ToSet(untold) =>
        /\ status[d] = "pending" /\ begun[d] = 0
        /\ \A q \in Runs : d \notin ToSet(todo[q])
  BY DEF Untouched
<1>1. ASSUME NEW c \in Cmds, Push(c) PROVE Fresh
  <2>1. /\ UNCHANGED <<status, begun, todo>>
        /\ req[c] = "loading" /\ \A e \in Cmds : e # c => req'[e] = req[e]
    BY <1>1 DEF Push, TypeOK
  <2>2. d \in ToSet(untold') => d = c \/ d \in ToSet(untold)
    BY <1>1, PushLists
  <2> QED BY <1>0, <2>1, <2>2
<1>2. CASE TellPush
  <2>1. UNCHANGED <<status, begun, todo, req>>
    BY <1>2 DEF TellPush
  <2> QED BY <1>0, <1>2, <2>1, TellPushLists
<1>3. ASSUME NEW c \in Cmds,
             Create(c) \/ Expire(c) \/ TimerFires(c) \/ Answer(c) \/ Elsewhere(c)
      PROVE  Fresh
  <2>1. UNCHANGED <<untold, begun, todo>>
    BY <1>3 DEF Create, Expire, TimerFires, Answer, Elsewhere, Overtake,
                SendTimeout, TellTimeout
  <2>2. req'[d] \in {"idle", "loading"} => req[d] \in {"idle", "loading"}
    BY <1>3 DEF Create, Expire, TimerFires, Answer, Elsewhere, Overtake,
                SendTimeout, TellTimeout, TypeOK
  <2>3. CASE status' = status
    BY <1>0, <2>1, <2>2, <2>3
  <2>4. CASE TimerFires(c)
    <3>1. CASE c \in Local /\ d = c
      <4>1. req[d] = "waiting" /\ req'[d] = "timedout"
        BY <2>4, <3>1 DEF TimerFires, TypeOK
      <4>2. d \in ToSet(untold)
        BY <2>1, <4>1
      <4> QED BY <3>1, <4>2 DEF Seen
    <3>2. CASE d # c \/ c \notin Local
      BY <1>0, <2>1, <2>2, <2>4, <3>2 DEF TimerFires, SetTimeout, TypeOK
    <3> QED BY <3>1, <3>2
  <2>5. CASE TellTimeout(c)
    <3>1. req'[c] \notin {"idle", "loading"} /\ c \notin ToSet(untold)
      BY <2>5 DEF TellTimeout, Said
    <3> QED BY <1>0, <2>1, <2>2, <2>5, <3>1 DEF TellTimeout, TypeOK
  <2> QED BY <1>3, <2>3, <2>4, <2>5
          DEF Create, Expire, Answer, Elsewhere, Overtake, SendTimeout
<1>4. ASSUME NEW r \in Runs, Wake(r) PROVE Fresh
  <2>1. /\ UNCHANGED <<req, status, begun, untold, list>>
        /\ \A q \in Runs : todo'[q] \in {todo[q], list}
    BY <1>4 DEF Wake, TypeOK
  <2>2. d \notin ToSet(list)
    BY <2>1 DEF ListedOnce
  <2> QED BY <1>0, <2>1, <2>2
<1>5. ASSUME NEW r \in Runs, TakeNext(r) \/ Finish(r) PROVE Fresh
  <2>1. UNCHANGED <<req, untold, todo>>
    BY <1>5 DEF TakeNext, Begin, Discard, Finish
  <2>2. todo[r] # <<>>
    BY <1>5 DEF TakeNext, Finish, TypeOK
  <2>3. d # Head(todo[r])
    BY <1>0, <2>1, <2>2, HandIsTodo
  <2>4. status'[d] = status[d] /\ begun'[d] = begun[d]
    BY <1>5, <2>3 DEF TakeNext, Begin, Discard, Finish, TypeOK
  <2> QED BY <1>0, <2>1, <2>4
<1>6. ASSUME NEW r \in Runs, Removed(r) PROVE Fresh
  <2>1. /\ UNCHANGED <<req, status, begun, untold>>
        /\ todo' = [todo EXCEPT ![r] = Tail(@)]
        /\ todo[r] # <<>> /\ todo[r] \in Seq(Cmds)
    BY <1>6 DEF Removed, TypeOK
  <2>2. ToSet(Tail(todo[r])) \subseteq ToSet(todo[r])
    BY <2>1, TailElements
  <2> QED BY <1>0, <2>1, <2>2 DEF TypeOK
<1>7. CASE Sync
  BY <1>0, <1>7 DEF Sync
<1>8. CASE Start \/ Crash
  <2>1. /\ untold' = <<>> /\ status' = hubStatus /\ begun' = begun
        /\ todo' = todo \/ \A q \in Runs : todo'[q] = <<>>
        /\ \A c \in Cmds : req'[c] \in {req[c], "lost"}
    BY <1>8 DEF Start, Crash, FromHub, TypeOK
  <2>2. req[d] \in {"idle", "loading"} /\ ToSet(<<>>) = {}
    BY <2>1 DEF ToSet
  <2>3. hubStatus[d] = "pending"
    BY <1>0, <2>2 DEF HubBehind, Said
  <2> QED BY <1>0, <2>1, <2>2, <2>3
<1>9. CASE UNCHANGED vars
  BY <1>0, <1>9 DEF vars
<1> QED
  BY <1>1, <1>2, <1>3, <1>4, <1>5, <1>6, <1>7, <1>8, <1>9
     DEF Next, Caller, Agent

(* Steps that add to the list nothing the hub has not seen but a command   *)
(* of no snapshot, and leave the snapshots alone.                          *)
LEMMA InOrderAppend ==
  ASSUME TypeOK, InOrder, NEW c \in Cmds, list' = Append(list, c),
         todo' = todo, sent' = sent,
         c \in sent \/ \A r \in Runs : c \notin ToSet(todo[r])
  PROVE  InOrder'
<1>1. /\ list \in Seq(Cmds) /\ DOMAIN list = 1..Len(list) /\ Len(list) \in Nat
  BY LenProperties DEF TypeOK
<1>2. /\ Append(list, c) \in Seq(Cmds) /\ Len(Append(list, c)) = Len(list) + 1
      /\ \A i \in 1..Len(list) : Append(list, c)[i] = list[i]
      /\ Append(list, c)[Len(list) + 1] = c
  BY <1>1, AppendProperties
<1>3. DOMAIN list' = 1..(Len(list) + 1)
  BY <1>2, LenProperties
<1>4. \A i \in 1..Len(list) : list'[i] = list[i]
  BY <1>2
<1>5. list'[Len(list) + 1] = c
  BY <1>2
<1> SUFFICES ASSUME NEW r \in Runs
             PROVE  /\ NoDup(todo[r])
                    /\ \A i, j \in DOMAIN list' :
                         /\ i < j /\ list'[i] \notin sent /\ list'[j] \notin sent
                         /\ list'[j] \in ToSet(todo[r])
                         => \E a, b \in DOMAIN todo[r] :
                              /\ a < b /\ todo[r][a] = list'[i]
                              /\ todo[r][b] = list'[j]
  BY DEF InOrder, NoDup, ToSet
<1>6. NoDup(todo[r])
  BY DEF InOrder
<1>7. ASSUME NEW i \in DOMAIN list', NEW j \in DOMAIN list', i < j,
             list'[i] \notin sent, list'[j] \notin sent,
             list'[j] \in ToSet(todo[r])
      PROVE  \E a, b \in DOMAIN todo[r] :
               a < b /\ todo[r][a] = list'[i] /\ todo[r][b] = list'[j]
  <2>1. j # Len(list) + 1
    BY <1>5, <1>7
  <2>2. i \in DOMAIN list /\ j \in DOMAIN list
    BY <1>1, <1>3, <1>7, <2>1
  <2>3. list'[i] = list[i] /\ list'[j] = list[j]
    BY <1>1, <1>4, <2>2
  <2> QED BY <1>7, <2>2, <2>3 DEF InOrder
<1> QED BY <1>6, <1>7

LEMMA InOrderStep ==
  TypeOK /\ DeadIsClean /\ ListedOnce /\ Seen /\ Untouched /\ InOrder /\ [Next]_vars
  => InOrder'
<1> SUFFICES ASSUME TypeOK, DeadIsClean, ListedOnce, Seen, Untouched, InOrder,
                    [Next]_vars
             PROVE  InOrder'
  OBVIOUS
<1> USE DEF agentVars, hubVars, history
<1>a. ASSUME UNCHANGED <<list, todo>>, sent \subseteq sent' PROVE InOrder'
  BY <1>a DEF InOrder, NoDup, ToSet
<1>b. ASSUME \A r \in Runs : todo'[r] = <<>> PROVE InOrder'
  <2>1. NoDup(<<>>) /\ ToSet(<<>>) = {}
    BY DEF NoDup, ToSet
  <2>2. \A r \in Runs : /\ NoDup(todo[r])' = NoDup(todo'[r])
                        /\ ToSet(todo[r])' = ToSet(todo'[r])
    BY DEF NoDup, ToSet
  <2> QED BY <1>b, <2>1, <2>2 DEF InOrder
<1>1. ASSUME NEW c \in Cmds, Push(c) PROVE InOrder'
  <2>1. UNCHANGED <<todo, sent>> /\ req[c] = "loading"
    BY <1>1 DEF Push
  <2>2. CASE c \in Local
    <3>1. list' = Append(list, c)
      BY <1>1, <2>2 DEF Push
    <3>2. \A r \in Runs : c \notin ToSet(todo[r])
      BY <2>1 DEF Untouched
    <3> QED BY <2>1, <3>1, <3>2, InOrderAppend
  <2>3. CASE c \notin Local
    <3>1. list' = list
      BY <1>1, <2>3 DEF Push
    <3> QED BY <2>1, <3>1, <1>a
  <2> QED BY <2>2, <2>3
<1>2. CASE TellPush
  <2>1. UNCHANGED <<todo, sent>> /\ list' = Append(list, Head(untold))
    BY <1>2 DEF TellPush
  <2>2. Head(untold) \in Cmds /\ Head(untold) \in sent
    BY <1>2, TellPushLists DEF Seen
  <2> QED BY <2>1, <2>2, InOrderAppend
<1>3. ASSUME NEW r \in Runs, Wake(r) PROVE InOrder'
  <2>1. /\ UNCHANGED <<list, sent>> /\ todo'[r] = list
        /\ \A q \in Runs : q # r => todo'[q] = todo[q]
    BY <1>3 DEF Wake, TypeOK
  <2> SUFFICES ASSUME NEW q \in Runs
               PROVE  /\ NoDup(todo'[q])
                      /\ \A i, j \in DOMAIN list :
                           /\ i < j /\ list[i] \notin sent /\ list[j] \notin sent
                           /\ list[j] \in ToSet(todo'[q])
                           => \E a, b \in DOMAIN todo'[q] :
                                /\ a < b /\ todo'[q][a] = list[i]
                                /\ todo'[q][b] = list[j]
    BY <2>1 DEF InOrder, NoDup, ToSet
  <2>2. CASE q = r
    BY <2>1, <2>2 DEF ListedOnce
  <2>3. CASE q # r
    BY <2>1, <2>3 DEF InOrder
  <2> QED BY <2>2, <2>3
<1>4. ASSUME NEW r \in Runs, Removed(r) PROVE InOrder'
  <2> DEFINE c == Head(todo[r])
  <2>1. /\ sent' = sent /\ todo'[r] = Tail(todo[r]) /\ todo[r] # <<>>
        /\ todo[r] \in Seq(Cmds) /\ NoDup(todo[r])
        /\ \A q \in Runs : q # r => todo'[q] = todo[q]
    BY <1>4 DEF Removed, TypeOK, InOrder
  <2>2. /\ c \notin ToSet(list')
        /\ \A i, j \in DOMAIN list' : i < j =>
              \E p, q \in DOMAIN list :
                p < q /\ list[p] = list'[i] /\ list[q] = list'[j]
    BY <1>4, RemovedTakes
  <2> HIDE DEF c
  <2> SUFFICES ASSUME NEW q \in Runs
               PROVE  /\ NoDup(todo'[q])
                      /\ \A i, j \in DOMAIN list' :
                           /\ i < j /\ list'[i] \notin sent /\ list'[j] \notin sent
                           /\ list'[j] \in ToSet(todo'[q])
                           => \E a, b \in DOMAIN todo'[q] :
                                /\ a < b /\ todo'[q][a] = list'[i]
                                /\ todo'[q][b] = list'[j]
    BY <2>1 DEF InOrder, NoDup, ToSet
  <2>3. /\ NoDup(todo'[q]) /\ ToSet(todo'[q]) \subseteq ToSet(todo[q])
    <3>1. CASE q = r
      BY <2>1, <3>1, TailKeeps, TailElements
    <3>2. CASE q # r
      BY <2>1, <3>2 DEF InOrder
    <3> QED BY <3>1, <3>2
  <2>4. ASSUME NEW i \in DOMAIN list', NEW j \in DOMAIN list', i < j,
               list'[i] \notin sent, list'[j] \notin sent,
               list'[j] \in ToSet(todo'[q])
        PROVE  \E a, b \in DOMAIN todo'[q] :
                 a < b /\ todo'[q][a] = list'[i] /\ todo'[q][b] = list'[j]
    <3>1. PICK p1, p2 \in DOMAIN list :
            p1 < p2 /\ list[p1] = list'[i] /\ list[p2] = list'[j]
      BY <2>2, <2>4
    <3>2. PICK a, b \in DOMAIN todo[q] :
            a < b /\ todo[q][a] = list'[i] /\ todo[q][b] = list'[j]
      BY <2>3, <2>4, <3>1 DEF InOrder
    <3>3. CASE q # r
      BY <2>1, <3>2, <3>3
    <3>4. CASE q = r
      <4>1. todo[r][a] # c
        BY <2>2, <2>4, <3>2, <3>4 DEF ToSet
      <4>2. /\ a \in 2..Len(todo[r]) /\ b \in 2..Len(todo[r])
            /\ a - 1 < b - 1
        <5>1. /\ DOMAIN todo[r] = 1..Len(todo[r]) /\ Len(todo[r]) \in Nat
              /\ Head(todo[r]) = todo[r][1]
          BY <2>1, HeadTailProperties, LenProperties
        <5>2. a # 1
          BY <4>1, <5>1 DEF c
        <5> QED BY <3>2, <3>4, <5>1, <5>2
      <4>3. /\ a - 1 \in DOMAIN todo'[r] /\ todo'[r][a-1] = todo[r][a]
            /\ b - 1 \in DOMAIN todo'[r] /\ todo'[r][b-1] = todo[r][b]
        BY <2>1, <4>2, TailShift
      <4> QED BY <3>2, <3>4, <4>2, <4>3
    <3> QED BY <3>3, <3>4
  <2> QED BY <2>3, <2>4
<1>5. CASE Sync
  BY <1>5, <1>a DEF Sync
<1>6. CASE Start
  BY <1>6, <1>b DEF Start, DeadIsClean
<1>7. CASE Crash
  BY <1>7, <1>b DEF Crash
<1>8. ASSUME NEW c \in Cmds,
             Create(c) \/ Expire(c) \/ TimerFires(c) \/ Answer(c) \/ Elsewhere(c)
      PROVE  InOrder'
  <2>1. UNCHANGED <<list, todo, sent>>
    BY <1>8 DEF Create, Expire, TimerFires, Answer, Elsewhere, Overtake,
                SendTimeout, TellTimeout
  <2> QED BY <2>1, <1>a
<1>9. ASSUME NEW r \in Runs, TakeNext(r) \/ Finish(r) PROVE InOrder'
  <2>1. UNCHANGED <<list, todo, sent>>
    BY <1>9 DEF TakeNext, Begin, Discard, Finish
  <2> QED BY <2>1, <1>a
<1>10. CASE UNCHANGED vars
  BY <1>10, <1>a DEF vars
<1> QED
  BY <1>1, <1>2, <1>3, <1>4, <1>5, <1>6, <1>7, <1>8, <1>9, <1>10
     DEF Next, Caller, Agent

LEMMA AttendedStep ==
  /\ TypeOK /\ ListedOnce /\ Seen /\ Untouched /\ InOrder /\ Attended
  /\ [Next]_vars
  => Attended'
<1> SUFFICES ASSUME TypeOK, ListedOnce, Seen, Untouched, InOrder, Attended,
                    [Next]_vars, NEW d \in Cmds,
                    alive', d \in ToSet(list'), Owed(d)'
             PROVE  wake' \/ \E q \in Runs : d \in ToSet(todo'[q])
  BY DEF Attended, ToSet
<1> DEFINE Coming == wake' \/ \E q \in Runs : d \in ToSet(todo'[q])
<1> USE DEF agentVars, hubVars, history
<1>0. alive /\ d \in ToSet(list) /\ Owed(d)
        => wake \/ \E r \in Runs : d \in ToSet(todo[r])
  BY DEF Attended
<1>1. ASSUME NEW c \in Cmds, Push(c) PROVE Coming
  <2>1. UNCHANGED <<alive, todo, status, begun>>
    BY <1>1 DEF Push
  <2>2. Owed(d)
    BY <2>1 DEF Owed
  <2>3. CASE c \in Local
    BY <1>1, <2>3 DEF Push
  <2>4. CASE c \notin Local
    <3>1. list' = list /\ wake' = wake
      BY <1>1, <2>4 DEF Push
    <3> QED BY <1>0, <2>1, <2>2, <3>1
  <2> QED BY <2>3, <2>4
<1>2. CASE TellPush
  <2>1. UNCHANGED <<alive, todo, status, begun>>
    BY <1>2 DEF TellPush
  <2>2. Owed(d)
    BY <2>1 DEF Owed
  <2>3. d # Head(untold)
    <3>1. Head(untold) \in ToSet(untold)
      BY <1>2, TellPushLists
    <3> QED BY <2>2, <3>1 DEF Owed, Seen, Untouched
  <2>4. d \in ToSet(list)
    BY <1>2, <2>3, TellPushLists
  <2>5. wake => wake'
    BY <1>2, Zenon DEF TellPush
  <2> QED BY <1>0, <2>1, <2>2, <2>4, <2>5
<1>3. ASSUME NEW c \in Cmds,
             Create(c) \/ Expire(c) \/ TimerFires(c) \/ Answer(c) \/ Elsewhere(c)
      PROVE  Coming
  <2>1. UNCHANGED <<list, alive, wake, todo, begun>>
    BY <1>3 DEF Create, Expire, TimerFires, Answer, Elsewhere, Overtake,
                SendTimeout, TellTimeout
  <2>2. status'[d] \in {status[d], "timeout"}
    BY <1>3 DEF Create, Expire, TimerFires, SetTimeout, Answer, Elsewhere,
                Overtake, SendTimeout, TellTimeout, TypeOK
  <2> QED BY <1>0, <2>1, <2>2 DEF Owed
<1>4. ASSUME NEW r \in Runs, Wake(r) PROVE Coming
  <2>1. list' = list /\ todo'[r] = list
    BY <1>4 DEF Wake, TypeOK
  <2> QED BY <2>1
<1>5. ASSUME NEW r \in Runs, TakeNext(r) \/ Finish(r) PROVE Coming
  <2>1. UNCHANGED <<list, alive, wake, todo>> /\ todo[r] # <<>>
    BY <1>5 DEF TakeNext, Begin, Discard, Finish, TypeOK
  <2>2. CASE d = Head(todo[r])
    BY <2>1, <2>2, HandIsTodo
  <2>3. CASE d # Head(todo[r])
    <3>1. status'[d] = status[d] /\ begun'[d] = begun[d]
      BY <1>5, <2>3 DEF TakeNext, Begin, Discard, Finish, TypeOK
    <3> QED BY <1>0, <2>1, <3>1 DEF Owed
  <2> QED BY <2>2, <2>3
<1>6. ASSUME NEW r \in Runs, Removed(r) PROVE Coming
  <2>1. /\ UNCHANGED <<alive, wake, status, begun>>
        /\ todo'[r] = Tail(todo[r]) /\ todo[r] \in Seq(Cmds)
        /\ \A q \in Runs : q # r => todo'[q] = todo[q]
    BY <1>6 DEF Removed, TypeOK
  <2>2. d \in ToSet(list) /\ d # Head(todo[r]) /\ todo[r] # <<>>
    BY <1>6, RemovedTakes
  <2>3. wake \/ \E q \in Runs : d \in ToSet(todo[q])
    BY <1>0, <2>1, <2>2 DEF Owed
  <2>4. ASSUME NEW q \in Runs, d \in ToSet(todo[q]) PROVE d \in ToSet(todo'[q])
    <3>1. CASE q # r
      BY <2>1, <2>4, <3>1
    <3>2. CASE q = r
      BY <2>1, <2>2, <2>4, <3>2, TailElements
    <3> QED BY <3>1, <3>2
  <2> QED BY <2>1, <2>3, <2>4
<1>7. CASE Sync \/ UNCHANGED vars
  <2>1. UNCHANGED <<list, alive, wake, todo, status, begun>>
    BY <1>7 DEF Sync, vars
  <2> QED BY <1>0, <2>1 DEF Owed
<1>8. CASE Start \/ Crash
  BY <1>8 DEF Start, Crash
<1> QED
  BY <1>1, <1>2, <1>3, <1>4, <1>5, <1>6, <1>7, <1>8 DEF Next, Caller, Agent

LEMMA IInvStep == IInv /\ [Next]_vars => IInv'
  BY TypeStep, HubBehindStep, MarkedStep, OneExecutorStep, DeadIsCleanStep,
     ListedOnceStep, SeenStep, UntouchedStep, InOrderStep, CountedStep,
     FinalIsEarnedStep, RejectedIsOverStep, AttendedStep DEF IInv

LEMMA Invariance == Spec => []IInv
  BY IInvInit, IInvStep, PTL DEF Spec

-----------------------------------------------------------------------------
(***************************************************************************)
(* No command is executed by two overlapping runs at a time, however many  *)
(* runs overlap (bindCommandList, SpinalCommand.execute).                  *)
(***************************************************************************)
THEOREM AlwaysOneExecutor == Spec => []OneExecutor
<1>1. IInv => OneExecutor
  BY DEF IInv
<1> QED BY Invariance, <1>1, PTL

(***************************************************************************)
(* No pending command of a local caller is forgotten by a live agent       *)
(* (executeCommand, bindCommandList).                                      *)
(***************************************************************************)
THEOREM NeverLosesWakeup == Spec => []NoLostWakeup
<1>1. IInv => NoLostWakeup
  BY CommandAssumption DEF IInv, Attended, Owed, NoLostWakeup
<1> QED BY Invariance, <1>1, PTL

(***************************************************************************)
(* When an agent has nothing more to do, what it finds on the list is of   *)
(* other hosts only, and no agent has ever begun it, this one or one that  *)
(* died: nothing that was begun or finished stays on the list for ever     *)
(* (SpinalCommand.execute, bindCommandList).                               *)
(***************************************************************************)
AgentAtRest == alive /\ ~wake /\ \A r \in Runs : todo[r] = <<>>

RestingListIsForeign ==
  AgentAtRest => \A c \in ToSet(list) :
    c \notin Local /\ begun[c] = 0 /\ status[c] \in {"pending", "timeout"}

THEOREM NothingBegunStays == Spec => []RestingListIsForeign
<1>1. IInv => RestingListIsForeign
  <2> SUFFICES ASSUME IInv, AgentAtRest, NEW c \in ToSet(list)
               PROVE  c \notin Local /\ begun[c] = 0 /\ status[c] \in {"pending", "timeout"}
    BY DEF RestingListIsForeign
  <2>1. c \in Cmds /\ status[c] \in Statuses
    <3>1. list \in Seq(Cmds) /\ status \in [Cmds -> Statuses]
      BY DEF IInv, TypeOK
    <3>2. ToSet(list) \subseteq Cmds
      BY <3>1, LenProperties, ElementOfSeq DEF ToSet
    <3> QED BY <3>1, <3>2
  <2>2. ToSet(<<>>) = {}
    BY DEF ToSet
  <2>3. ~Owed(c)
    BY <2>1, <2>2 DEF IInv, Attended, AgentAtRest
  <2> QED BY <2>1, <2>3 DEF Owed, Statuses
<1> QED BY <1>1, Invariance, PTL

(***************************************************************************)
(* Only a turn of the loop begins an execution, of the command in hand.    *)
(* It is pending here and has not expired.  What the hub knows more is a   *)
(* "timeout" on its way; only a caller with a clock ahead can have said    *)
(* that, or have been told so.                                             *)
(***************************************************************************)
LEMMA BeginStep ==
  ASSUME IInv, NEW r \in Runs, TakeNext(r), Begin(r),
         Head(todo[r]) \notin executed, status[Head(todo[r])] = "pending",
         Head(todo[r]) \notin expired
  PROVE  /\ Head(todo[r]) \in Cmds
         /\ \/ hubStatus[Head(todo[r])] = "pending"
            \/ word[Head(todo[r])] = "hub" /\ Head(todo[r]) \in Ahead
         /\ req[Head(todo[r])] = "rejected" => Head(todo[r]) \in Ahead
         /\ begun' = [begun EXCEPT ![Head(todo[r])] = @ + 1]
         /\ UNCHANGED <<req, ended>>
<1>1. Head(todo[r]) \in Cmds
  BY TakeNextCases DEF IInv
<1>2. hubStatus[Head(todo[r])] = "pending" \/ word[Head(todo[r])] = "hub"
  BY <1>1 DEF IInv, HubBehind
<1>3. \/ Head(todo[r]) \in Ahead
      \/ /\ word[Head(todo[r])] # "hub"
         /\ req[Head(todo[r])] # "rejected"
  BY <1>1 DEF IInv, RejectedIsOver
<1> QED BY <1>1, <1>2, <1>3 DEF Begin

(***************************************************************************)
(* A command the hub knows as begun, finished or timed out is not begun    *)
(* again, by this agent or by one restarted after a crash (isAvailable):   *)
(* but for a "timeout" the agent has not been told of, said by a clock     *)
(* ahead of the agent's.                                                   *)
(***************************************************************************)
THEOREM HubIsBelieved == Spec => HubKnowsNeverBegins
<1> DEFINE A == \A c \in Cmds : hubStatus[c] # "pending" /\ begun'[c] # begun[c]
                  => c \in Ahead /\ word[c] = "hub"
<1>1. IInv /\ [Next]_vars => [A]_vars
  <2> SUFFICES ASSUME IInv, [Next]_vars PROVE A \/ UNCHANGED vars
    OBVIOUS
  <2> USE DEF history
  <2>1. ASSUME NEW r \in Runs, TakeNext(r) PROVE A
    <3>1. CASE Discard(r)
      BY <3>1 DEF Discard
    <3>2. ASSUME Begin(r), Head(todo[r]) \notin executed,
                 status[Head(todo[r])] = "pending",
                 Head(todo[r]) \notin expired
          PROVE  A
      BY <2>1, <3>2, BeginStep DEF IInv, TypeOK
    <3> QED BY <2>1, <3>1, <3>2, TakeNextCases DEF IInv
  <2>2. ASSUME NEW r \in Runs, Wake(r) \/ Finish(r) \/ Removed(r) PROVE A
    BY <2>2 DEF Wake, Finish, Removed
  <2>3. ASSUME NEW c \in Cmds, Caller(c) \/ Elsewhere(c) PROVE A
    BY <2>3 DEF Caller, Create, Push, Expire, TimerFires, Answer, Elsewhere,
                Overtake, SendTimeout, TellTimeout
  <2>4. CASE TellPush \/ Sync \/ Start \/ Crash
    BY <2>4 DEF TellPush, Sync, Start, Crash
  <2> QED BY <2>1, <2>2, <2>3, <2>4 DEF Next, Agent
<1> QED BY Invariance, <1>1, PTL DEF Spec, HubKnowsNeverBegins

-----------------------------------------------------------------------------
(***************************************************************************)
(* Why no command is dropped while it is waited for.                       *)
(***************************************************************************)

(* Whatever happens to c now is too late for its caller, or was asked for. *)
Over(c) == \/ req[c] \in {"timedout", "overwritten", "resolved", "rejected", "lost"}
           \/ begun[c] # 0
           \/ c \in expired

(* A second removal of another unseen command can have taken c.            *)
Taken(c) == c \notin sent /\ \E d \in Cmds \ {c} : RemovedUnseen(d)

(* What is no longer pending, for the agent or the hub, what its caller    *)
(* has given up, what is marked and what is being removed is over.         *)
MarksOver ==
  /\ \A c \in Cmds : \/ status[c] # "pending" \/ hubStatus[c] # "pending"
                     \/ word[c] # "none"
                     => Over(c)
  /\ \A c \in executed : begun[c] # 0
  /\ \A r \in Runs, c \in Cmds :
       at[r] = "removing" /\ c = Head(todo[r]) => Over(c)

(* So is a command that is waited for and neither listed nor on its way,   *)
(* unless it was taken; of a caller elsewhere also for the hub.            *)
UnlistedOver ==
  /\ \A c \in Cmds : req[c] = "waiting" /\ c \notin ToSet(list) \cup ToSet(untold)
                       => Over(c) \/ Taken(c)
  /\ \A c \in Cmds \ Local : req[c] = "waiting" /\ c \notin ToSet(hubList)
                               => Over(c)

DropInv == MarksOver /\ UnlistedOver

LEMMA DropInit == Init => DropInv
  BY CommandAssumption DEF Init, DropInv, MarksOver, UnlistedOver

(* What is over stays over.                                                *)
LEMMA OverStays ==
  ASSUME TypeOK, [Next]_vars, NEW c \in Cmds, Over(c) PROVE Over(c)'
<1> USE DEF Over, agentVars, hubVars, history
<1>1. ASSUME NEW d \in Cmds, Caller(d) PROVE Over(c)'
  BY <1>1 DEF Caller, Create, Push, Expire, TimerFires, Answer, TypeOK
<1>2. ASSUME NEW d \in Cmds, Elsewhere(d) PROVE Over(c)'
  BY <1>2 DEF Elsewhere, Overtake, SendTimeout, TellTimeout, TypeOK
<1>3. ASSUME NEW r \in Runs, TakeNext(r) PROVE Over(c)'
  <2>1. CASE Begin(r)
    <3>1. /\ begun' = [begun EXCEPT ![Head(todo[r])] = @ + 1]
          /\ UNCHANGED <<req, expired>>
      BY <2>1 DEF Begin
    <3> QED BY <3>1 DEF TypeOK
  <2>2. CASE Discard(r)
    BY <2>2 DEF Discard
  <2> QED BY <1>3, <2>1, <2>2 DEF TakeNext
<1>4. ASSUME NEW r \in Runs, Wake(r) \/ Finish(r) \/ Removed(r) PROVE Over(c)'
  <2>1. UNCHANGED <<req, begun, expired>>
    BY <1>4 DEF Wake, Finish, Removed
  <2> QED BY <2>1
<1>5. CASE Crash
  BY <1>5 DEF Crash, TypeOK
<1>6. CASE TellPush \/ Sync \/ Start \/ UNCHANGED vars
  BY <1>6 DEF TellPush, Sync, Start, vars
<1> QED BY <1>1, <1>2, <1>3, <1>4, <1>5, <1>6 DEF Next, Agent

LEMMA MarksOverStep == IInv /\ MarksOver /\ [Next]_vars => MarksOver'
<1> SUFFICES ASSUME IInv, MarksOver, [Next]_vars PROVE MarksOver'
  OBVIOUS
<1> USE DEF agentVars, hubVars, history
<1>0. TypeOK /\ Marked /\ DeadIsClean
  BY DEF IInv
<1>a. \A c \in Cmds : Over(c) => Over(c)'
  BY <1>0, OverStays
<1>b. \A r \in Runs : at[r] = "removing" => todo[r] # <<>> /\ Head(todo[r]) \in Cmds
  BY <1>0, InHand DEF TypeOK
(* Steps after which whatever is not pending was already so, or is over.   *)
<1>c. ASSUME \A c \in Cmds :
               \/ Over(c)'
               \/ /\ status'[c] \in {status[c], hubStatus[c]}
                  /\ hubStatus'[c] \in {status[c], hubStatus[c]}
                  /\ word'[c] \in {word[c], "none"}
      PROVE  \A c \in Cmds : \/ status'[c] # "pending" \/ hubStatus'[c] # "pending"
                             \/ word'[c] # "none"
                             => Over(c)'
  BY <1>a, <1>c DEF MarksOver
<1>d. ASSUME executed' \subseteq executed, begun' = begun
      PROVE  \A c \in executed' : begun'[c] # 0
  BY <1>d DEF MarksOver
<1>e. ASSUME \A r \in Runs : at'[r] = "removing" =>
               at[r] = "removing" /\ todo'[r] = todo[r]
      PROVE  \A r \in Runs, c \in Cmds :
               at'[r] = "removing" /\ c = Head(todo'[r]) => Over(c)'
  BY <1>a, <1>e DEF MarksOver
<1>1. ASSUME NEW c \in Cmds,
             \/ Create(c) \/ Push(c) \/ Expire(c) \/ Answer(c)
             \/ TimerFires(c) \/ Elsewhere(c)
      PROVE  MarksOver'
  <2>1. UNCHANGED <<executed, begun, todo, at>>
    BY <1>1 DEF Create, Push, Expire, Answer, TimerFires, Elsewhere, Overtake,
                SendTimeout, TellTimeout
  <2>2. \A d \in Cmds :
               \/ Over(d)'
               \/ /\ status'[d] \in {status[d], hubStatus[d]}
                  /\ hubStatus'[d] \in {status[d], hubStatus[d]}
                  /\ word'[d] \in {word[d], "none"}
    <3>1. CASE Create(c) \/ Push(c) \/ Expire(c) \/ Answer(c)
      BY <3>1 DEF Create, Push, Expire, Answer
    <3>2. CASE TimerFires(c)
      BY <1>0, <3>2 DEF TimerFires, SetTimeout, Over, TypeOK
    <3>3. CASE Overtake(c)
      BY <1>0, <3>3 DEF Overtake, TypeOK
    <3>4. CASE SendTimeout(c) \/ TellTimeout(c)
      <4>1. word[c] # "none"
        BY <3>4 DEF SendTimeout, TellTimeout
      <4>2. Over(c)'
        BY <1>a, <4>1 DEF MarksOver
      <4> QED BY <1>0, <3>4, <4>2 DEF SendTimeout, TellTimeout, TypeOK
    <3> QED BY <1>1, <3>1, <3>2, <3>3, <3>4 DEF Elsewhere
  <2> QED BY <1>c, <1>d, <1>e, <2>1, <2>2 DEF MarksOver
<1>2. ASSUME NEW r \in Runs, Wake(r) \/ Removed(r) PROVE MarksOver'
  <2>1. /\ UNCHANGED <<status, hubStatus, word, executed, begun>>
        /\ \A q \in Runs : at'[q] = "removing" =>
             at[q] = "removing" /\ todo'[q] = todo[q]
    BY <1>0, <1>2, <1>b DEF Wake, Removed, TypeOK
  <2> QED BY <1>c, <1>d, <1>e, <2>1 DEF MarksOver
<1>3. ASSUME NEW r \in Runs, TakeNext(r) PROVE MarksOver'
  <2> DEFINE c == Head(todo[r])
  <2>1. CASE Begin(r)
    <3>1. /\ executed' = executed \cup {c} /\ c \in Cmds
          /\ status' = [status EXCEPT ![c] = "in_progress"]
          /\ at' = [at EXCEPT ![r] = "executing"]
          /\ begun' = [begun EXCEPT ![c] = @ + 1]
          /\ UNCHANGED <<hubStatus, word, todo>>
      BY <1>0, <1>3, <2>1, TakeNextCases DEF Begin
    <3> HIDE DEF c
    <3>2. \A d \in Cmds : begun'[d] = IF d = c THEN begun[d] + 1 ELSE begun[d]
      BY <1>0, <3>1 DEF TypeOK
    <3>3. \A d \in Cmds : d = c => Over(d)'
      BY <1>0, <3>1, <3>2 DEF Over, TypeOK
    <3>4. \A d \in executed' : begun'[d] # 0
      BY <1>0, <3>1, <3>2 DEF MarksOver, TypeOK
    <3>5. \A d \in Cmds : Over(d)' \/ status'[d] = status[d]
      BY <1>0, <3>1, <3>3 DEF TypeOK
    <3>6. \A q \in Runs : at'[q] = "removing" =>
            at[q] = "removing" /\ todo'[q] = todo[q]
      BY <1>0, <3>1 DEF TypeOK
    <3> QED BY <1>c, <1>e, <3>1, <3>4, <3>5, <3>6 DEF MarksOver
  <2>2. ASSUME Discard(r),
               \/ c \in executed \/ status[c] # "pending" \/ c \in expired
        PROVE  MarksOver'
    <3>1. /\ UNCHANGED <<executed, status, hubStatus, word, begun, todo, req, expired>>
          /\ at' = [at EXCEPT ![r] = "removing"] /\ c \in Cmds
      BY <1>0, <1>3, <2>2, TakeNextCases DEF Discard
    <3>2. Over(c)
      BY <2>2, <3>1 DEF MarksOver, Over
    <3>3. \A q \in Runs, d \in Cmds :
            at'[q] = "removing" /\ d = Head(todo'[q]) => Over(d)'
      BY <1>0, <1>a, <3>1, <3>2 DEF MarksOver, TypeOK
    <3> QED BY <1>c, <1>d, <3>1, <3>3 DEF MarksOver
  <2> QED BY <1>0, <1>3, <2>1, <2>2, TakeNextCases
<1>4. ASSUME NEW r \in Runs, Finish(r) PROVE MarksOver'
  <2> DEFINE c == Head(todo[r])
  <2>1. /\ UNCHANGED <<req, hubStatus, word, executed, todo, begun, expired>>
        /\ at' = [at EXCEPT ![r] = "removing"]
        /\ c \in executed /\ c \in Cmds
    BY <1>0, <1>4, InHand DEF Finish, Marked, TypeOK
  <2>2. Over(c)
    BY <2>1 DEF MarksOver, Over
  <2>3. PICK final : status' = [status EXCEPT ![c] = final]
    BY <1>4 DEF Finish
  <2>4. \A q \in Runs, d \in Cmds :
          at'[q] = "removing" /\ d = Head(todo'[q]) => Over(d)'
    BY <1>0, <1>a, <2>1, <2>2 DEF MarksOver, TypeOK
  <2> HIDE DEF c
  <2>5. \A d \in Cmds : Over(d)' \/ status'[d] = status[d]
    BY <1>0, <1>a, <2>1, <2>2, <2>3 DEF TypeOK
  <2> QED BY <1>c, <1>d, <2>1, <2>4, <2>5 DEF MarksOver
<1>5. CASE Sync \/ Start \/ Crash
  <2>1. /\ begun' = begun /\ executed' \subseteq executed
        /\ \A c \in Cmds : /\ status'[c] \in {status[c], hubStatus[c]}
                           /\ hubStatus'[c] \in {status[c], hubStatus[c]}
                           /\ word'[c] \in {word[c], "none"}
        /\ \A r \in Runs : at'[r] = "removing" =>
             at[r] = "removing" /\ todo'[r] = todo[r]
    BY <1>5 DEF Sync, Start, Crash, FromHub
  <2> QED BY <1>c, <1>d, <1>e, <2>1 DEF MarksOver
<1>6. CASE TellPush \/ UNCHANGED vars
  <2>1. UNCHANGED <<status, hubStatus, word, executed, begun, todo, at>>
    BY <1>6 DEF TellPush, vars
  <2> QED BY <1>c, <1>d, <1>e, <2>1 DEF MarksOver
<1> QED
  BY <1>1, <1>2, <1>3, <1>4, <1>5, <1>6 DEF Next, Caller, Agent

(* A command taken off the list before the hub had seen it stays unseen    *)
(* and unlisted, while the agent lives.                                    *)
LEMMA UnseenStays ==
  ASSUME IInv, [Next]_vars, ~Crash, NEW d \in Cmds, RemovedUnseen(d)
  PROVE  RemovedUnseen(d)'
<1> USE DEF agentVars, hubVars, history
<1>0. /\ TypeOK /\ ListedOnce /\ InOrder /\ Seen
      /\ d \notin sent /\ d \notin ToSet(list)
      /\ req[d] \in {"waiting", "timedout", "resolved", "rejected"}
      /\ d \in Local
  BY DEF IInv, RemovedUnseen, Seen
<1>1. req'[d] \in {"waiting", "timedout", "resolved", "rejected"}
  <2>1. ASSUME NEW c \in Cmds, Caller(c) PROVE req'[d] \in {"waiting", "timedout", "resolved", "rejected"}
    BY <1>0, <2>1 DEF Caller, Create, Push, Expire, TimerFires, Answer, TypeOK
  <2>2. ASSUME NEW c \in Cmds, Elsewhere(c) PROVE req'[d] = req[d]
    BY <1>0, <2>2 DEF Elsewhere, Overtake, SendTimeout, TellTimeout, TypeOK
  <2>3. ASSUME NEW r \in Runs, Agent(r) PROVE req' = req
    BY <2>3 DEF Agent, Wake, TakeNext, Begin, Discard, Finish, Removed
  <2>4. CASE TellPush \/ Sync \/ Start \/ UNCHANGED vars
    BY <1>0, <2>4 DEF TellPush, Sync, Start, vars
  <2> QED BY <1>0, <2>1, <2>2, <2>3, <2>4 DEF Next
<1>2. d \notin sent' /\ d \notin ToSet(list')
  <2>1. ASSUME NEW c \in Cmds, Push(c) PROVE d \notin sent' /\ d \notin ToSet(list')
    <3>1. sent' = sent /\ d # c
      BY <1>0, <2>1 DEF Push
    <3> QED BY <1>0, <2>1, <3>1, PushLists
  <2>2. CASE TellPush
    <3>1. sent' = sent
      BY <2>2 DEF TellPush
    <3>2. Head(untold) \in sent /\ ToSet(list') = ToSet(list) \cup {Head(untold)}
      BY <1>0, <2>2, TellPushLists DEF Seen
    <3> QED BY <1>0, <3>1, <3>2
  <2>3. ASSUME NEW r \in Runs, Removed(r)
        PROVE  d \notin sent' /\ d \notin ToSet(list')
    <3>1. sent' = sent
      BY <2>3 DEF Removed
    <3> QED BY <1>0, <2>3, <3>1, RemovedTakes
  <2>4. CASE Sync
    BY <1>0, <2>4 DEF Sync
  <2>5. CASE Start
    BY <1>0, <2>5 DEF Start, FromHub, Seen
  <2>6. ASSUME NEW c \in Cmds,
               \/ Create(c) \/ Expire(c) \/ TimerFires(c) \/ Answer(c)
               \/ Elsewhere(c)
        PROVE  UNCHANGED <<sent, list>>
    BY <2>6 DEF Create, Expire, TimerFires, Answer, Elsewhere, Overtake,
                SendTimeout, TellTimeout
  <2>7. ASSUME NEW r \in Runs, Wake(r) \/ TakeNext(r) \/ Finish(r)
        PROVE  UNCHANGED <<sent, list>>
    BY <2>7 DEF Wake, TakeNext, Begin, Discard, Finish
  <2>8. CASE UNCHANGED vars
    BY <1>0, <2>8 DEF vars
  <2> QED BY <1>0, <2>1, <2>2, <2>3, <2>4, <2>5, <2>6, <2>7, <2>8
          DEF Next, Caller, Agent
<1> QED BY <1>1, <1>2 DEF RemovedUnseen, ToSet

(* The removal that takes a command other than the one in hand: the one in *)
(* hand was removed before, unseen.                                        *)
LEMMA RemovedUnseenBefore ==
  ASSUME IInv, NEW r \in Runs, Removed(r),
         NEW c \in Cmds, c = Head(todo[r]), c \notin sent
  PROVE  RemovedUnseen(c)'
<1>1. c \in ToSet(todo[r]) /\ c \notin ToSet(list')
  <2>1. c \notin ToSet(list') /\ todo[r] # <<>>
    BY RemovedTakes DEF IInv
  <2> QED BY <2>1, HandIsTodo DEF IInv
<1>2. req[c] \in {"waiting", "timedout", "resolved", "rejected"}
  BY <1>1 DEF IInv, Seen, Untouched, TypeOK, Requests
<1>3. UNCHANGED <<req, sent>>
  BY DEF Removed, hubVars
<1> QED BY <1>1, <1>2, <1>3 DEF RemovedUnseen, ToSet

LEMMA UnlistedOverStep == IInv /\ DropInv /\ [Next]_vars => UnlistedOver'
<1> SUFFICES ASSUME IInv, DropInv, [Next]_vars, NEW d \in Cmds,
                    req'[d] = "waiting"
             PROVE  /\ d \notin ToSet(list') \cup ToSet(untold')
                         => Over(d)' \/ Taken(d)'
                    /\ d \notin Local /\ d \notin ToSet(hubList') => Over(d)'
  BY DEF UnlistedOver, ToSet
<1> DEFINE Kept == /\ d \notin ToSet(list') \cup ToSet(untold')
                         => Over(d)' \/ Taken(d)'
                   /\ d \notin Local /\ d \notin ToSet(hubList') => Over(d)'
<1> USE DEF agentVars, hubVars, history
<1>0. /\ TypeOK /\ ListedOnce /\ InOrder
      /\ req[d] = "waiting" => /\ d \notin ToSet(list) \cup ToSet(untold)
                                    => Over(d) \/ Taken(d)
                               /\ d \notin Local /\ d \notin ToSet(hubList)
                                    => Over(d)
  BY DEF IInv, DropInv, UnlistedOver
<1>a. Over(d) => Over(d)'
  BY <1>0, OverStays
<1>b. ASSUME ~Crash, req[d] = "waiting", d \notin ToSet(list), Taken(d)
      PROVE  Taken(d)'
  <2>1. PICK e \in Cmds \ {d} : RemovedUnseen(e)
    BY <1>b DEF Taken
  <2>2. RemovedUnseen(e)' /\ e \in Cmds \ {d}
    BY <1>b, <2>1, UnseenStays
  <2>3. RemovedUnseen(d)'
    BY <1>b, UnseenStays DEF RemovedUnseen, Taken
  <2>4. d \notin sent'
    BY <2>3 DEF RemovedUnseen
  <2> QED BY <2>2, <2>4 DEF Taken
(* Steps that only add to the lists.                                       *)
<1>c. ASSUME ~Crash, req[d] = "waiting",
             ToSet(list) \cup ToSet(untold) \subseteq ToSet(list') \cup ToSet(untold'),
             ToSet(hubList) \subseteq ToSet(hubList')
      PROVE  Kept
  <2>1. d \notin ToSet(list') \cup ToSet(untold') => Over(d)' \/ Taken(d)'
    BY <1>0, <1>a, <1>b, <1>c
  <2>2. d \notin Local /\ d \notin ToSet(hubList') => Over(d)'
    BY <1>0, <1>a, <1>c
  <2> QED BY <2>1, <2>2
<1>1. ASSUME NEW c \in Cmds, Push(c), ~Crash PROVE Kept
  <2>1. CASE d = c
    <3>1. c \in Local => d \in ToSet(list')
      BY <1>0, <1>1, <2>1, PushLists
    <3>2. c \notin Local => d \in ToSet(untold') /\ d \in ToSet(hubList')
      BY <1>0, <1>1, <2>1, PushLists
    <3> QED BY <2>1, <3>1, <3>2
  <2>2. CASE d # c
    <3>1. req[d] = "waiting"
      BY <1>0, <1>1, <2>2 DEF Push, TypeOK
    <3>2. /\ ToSet(list) \subseteq ToSet(list')
          /\ ToSet(untold) \subseteq ToSet(untold')
          /\ ToSet(hubList) \subseteq ToSet(hubList')
      BY <1>0, <1>1, PushLists
    <3> QED BY <1>1, <1>c, <3>1, <3>2
  <2> QED BY <2>1, <2>2
<1>2. CASE TellPush /\ ~Crash
  <2>1. UNCHANGED <<req, hubList>> /\ untold # <<>> /\ untold' = Tail(untold)
    BY <1>2 DEF TellPush
  <2>2. ToSet(list') = ToSet(list) \cup {Head(untold)}
    BY <1>0, <1>2, TellPushLists
  <2>3. \A e \in ToSet(untold) : e = Head(untold) \/ e \in ToSet(untold')
    BY <1>0, <2>1, TailElements DEF TypeOK
  <2>4. ToSet(list) \cup ToSet(untold) \subseteq ToSet(list') \cup ToSet(untold')
    BY <2>2, <2>3
  <2>5. req[d] = "waiting" /\ ToSet(hubList) \subseteq ToSet(hubList')
    BY <2>1
  <2> QED BY <1>2, <1>c, <2>4, <2>5
<1>3. ASSUME NEW r \in Runs, Removed(r), ~Crash PROVE Kept
  <2>1. /\ UNCHANGED <<req, sent, hubList, untold>>
        /\ at[r] = "removing" /\ req[d] = "waiting"
    BY <1>3 DEF Removed
  <2>2. PICK c \in Cmds : c = Head(todo[r])
    BY <1>0, <1>3, RemovedTakes
  <2>3. Over(c)
    BY <2>1, <2>2 DEF DropInv, MarksOver
  <2>4. CASE d \notin ToSet(list) \/ d \in ToSet(list')
    <3>1. d \notin ToSet(list') \cup ToSet(untold') => Over(d)' \/ Taken(d)'
      BY <1>0, <1>a, <1>b, <1>3, <2>1, <2>4
    <3> QED BY <1>0, <1>a, <2>1, <3>1
  <2>5. CASE d \in ToSet(list) /\ d \notin ToSet(list')
    <3>1. \/ d = c
          \/ d \notin sent /\ c \notin sent /\ c \notin ToSet(list)
      BY <1>0, <1>3, <2>2, <2>5, RemovedTakes
    <3>2. CASE d = c
      BY <1>a, <2>3, <3>2
    <3>3. CASE d \notin sent /\ c \notin sent /\ c \notin ToSet(list)
      <4>1. RemovedUnseen(c)'
        BY <1>3, <2>2, <3>3, RemovedUnseenBefore
      <4>2. c \in Cmds \ {d} /\ d \notin sent'
        BY <2>1, <2>5, <3>3
      <4>3. Taken(d)'
        BY <4>1, <4>2 DEF Taken
      <4>4. d \in Local
        BY <3>3 DEF IInv, Seen
      <4> QED BY <4>3, <4>4
    <3> QED BY <3>1, <3>2, <3>3
  <2> QED BY <2>4, <2>5
<1>4. CASE Sync /\ ~Crash
  <2>1. /\ UNCHANGED <<list, untold, req>> /\ hubList' = list \o untold
        /\ list \in Seq(Cmds) /\ untold \in Seq(Cmds)
    BY <1>0, <1>4 DEF Sync, TypeOK
  <2>2. ToSet(hubList') = ToSet(list) \cup ToSet(untold)
    BY <2>1, ConcatOnce
  <2>3. d \notin ToSet(list') \cup ToSet(untold') => Over(d)' \/ Taken(d)'
    BY <1>0, <1>a, <1>b, <1>4, <2>1
  <2>4. d \notin Local => ~Taken(d)
    BY DEF IInv, Seen, Taken
  <2> QED BY <1>0, <1>a, <2>1, <2>2, <2>3, <2>4
<1>5. CASE Start \/ Crash
  <2>1. /\ list' = hubList /\ hubList' = hubList
        /\ d \notin Local => req'[d] = req[d]
    BY <1>0, <1>5 DEF Start, Crash, FromHub, TypeOK
  <2>2. d \notin Local
    <3>1. CASE Start
      BY <3>1, CommandAssumption DEF Start, IInv, DeadIsClean
    <3>2. CASE Crash
      BY <1>0, <3>2 DEF Crash, TypeOK
    <3> QED BY <1>5, <3>1, <3>2
  <2> QED BY <1>0, <1>a, <2>1, <2>2
<1>6. ASSUME NEW c \in Cmds, ~Crash,
             \/ Create(c) \/ Expire(c) \/ TimerFires(c) \/ Answer(c)
             \/ Elsewhere(c)
      PROVE  Kept
  <2>1. UNCHANGED <<list, untold, hubList>>
    BY <1>6 DEF Create, Expire, TimerFires, Answer, Elsewhere, Overtake,
                SendTimeout, TellTimeout
  <2>2. req[d] = "waiting"
    BY <1>0, <1>6 DEF Create, Expire, TimerFires, Answer, Elsewhere, Overtake,
                SendTimeout, TellTimeout, TypeOK
  <2> QED BY <1>6, <1>c, <2>1, <2>2
<1>7. ASSUME NEW r \in Runs, ~Crash, Wake(r) \/ TakeNext(r) \/ Finish(r)
      PROVE  Kept
  <2>1. UNCHANGED <<req, list, untold, hubList>>
    BY <1>7 DEF Wake, TakeNext, Begin, Discard, Finish
  <2> QED BY <1>7, <1>c, <2>1
<1>8. CASE UNCHANGED vars /\ ~Crash
  <2>1. UNCHANGED <<req, list, untold, hubList>>
    BY <1>8 DEF vars
  <2> QED BY <1>8, <1>c, <2>1
<1> QED
  BY <1>1, <1>2, <1>3, <1>4, <1>5, <1>6, <1>7, <1>8 DEF Next, Caller, Agent

(***************************************************************************)
(* A command that is waited for and was never begun leaves the list only   *)
(* when its time is over, however the removals of overlapping runs, the    *)
(* hub and crashes interleave; but for one the hub has not seen, which a   *)
(* second removal of another such command takes                            *)
(* (SpinalCommand.removeFromGraph).                                        *)
(***************************************************************************)
THEOREM NothingIsDropped == Spec => []NoSilentDrop
<1>1. DropInv => NoSilentDrop
  BY DEF DropInv, UnlistedOver, Over, Taken, NoSilentDrop
<1>2. Spec => []DropInv
  <2>1. IInv /\ DropInv /\ [Next]_vars => DropInv'
    BY MarksOverStep, UnlistedOverStep DEF DropInv
  <2> QED BY <2>1, DropInit, Invariance, PTL DEF Spec
<1> QED BY <1>1, <1>2, PTL

-----------------------------------------------------------------------------
(* What the callers have got, as CommandContract sees it.                  *)
answerMap == [c \in Cmds |-> IF req[c] \in {"resolved", "rejected", "lost"}
                             THEN req[c] ELSE "open"]

LEMMA ContractInit == Init => Contract!Init
<1> SUFFICES ASSUME Init PROVE Contract!Init
  OBVIOUS
<1>1. answerMap = [c \in Cmds |-> "open"]
  BY DEF Init, answerMap
<1> QED BY <1>1 DEF Init, Contract!Init, answerMap

LEMMA ContractStep == IInv /\ [Next]_vars => [Contract!Next]_(Contract!vars)
<1> SUFFICES ASSUME IInv, [Next]_vars
             PROVE  Contract!Next \/ UNCHANGED Contract!vars
  OBVIOUS
<1> USE DEF agentVars, history
<1>0. TypeOK
  BY DEF IInv
<1>a. ASSUME UNCHANGED <<req, begun, ended>>
      PROVE  UNCHANGED Contract!vars
  BY <1>a DEF Contract!vars
<1>1. ASSUME NEW c \in Cmds, Create(c) \/ Push(c) \/ TimerFires(c) \/ Overtake(c)
      PROVE  UNCHANGED Contract!vars
  <2>1. UNCHANGED <<begun, ended>>
    BY <1>1 DEF Create, Push, TimerFires, Overtake
  <2>2. \A d \in Cmds : (IF req'[d] \in {"resolved", "rejected", "lost"}
                            THEN req'[d] ELSE "open")
                           = IF req[d] \in {"resolved", "rejected", "lost"}
                             THEN req[d] ELSE "open"
    BY <1>0, <1>1 DEF Create, Push, TimerFires, Overtake, TypeOK
  <2> QED BY <2>1, <2>2 DEF Contract!vars
<1>2. ASSUME NEW c \in Cmds, Answer(c)
      PROVE  Contract!Resolve(c) \/ Contract!Reject(c)
  <2>1. answerMap[c] = "open" /\ UNCHANGED <<begun, ended>>
    BY <1>2 DEF Answer, answerMap
  <2>2. CASE View(c) \in {"completed", "failed"} /\ req' = [req EXCEPT ![c] = "resolved"]
    <3>1. ended[c] > 0
      BY <2>2 DEF View, IInv, FinalIsEarned
    <3>2. answerMap' = [answerMap EXCEPT ![c] = "resolved"]
      BY <1>0, <2>2 DEF answerMap, TypeOK
    <3> QED
      BY <2>1, <3>1, <3>2 DEF Contract!Resolve, Contract!Settle, answerMap
  <2>3. CASE View(c) = "timeout" /\ req' = [req EXCEPT ![c] = "rejected"]
    <3>1. answerMap' = [answerMap EXCEPT ![c] = "rejected"]
      BY <1>0, <2>3 DEF answerMap, TypeOK
    <3> QED
      BY <2>1, <3>1 DEF Contract!Reject, Contract!Settle, answerMap
  <2> QED BY <1>2, <2>2, <2>3 DEF Answer
<1>3. ASSUME NEW r \in Runs, TakeNext(r)
      PROVE  Contract!Next \/ UNCHANGED Contract!vars
  <2>1. CASE Discard(r)
    BY <2>1, <1>a DEF Discard
  <2>2. ASSUME Begin(r), Head(todo[r]) \notin executed,
               status[Head(todo[r])] = "pending",
               Head(todo[r]) \notin expired
        PROVE  Contract!Begin(Head(todo[r])) /\ Head(todo[r]) \in Cmds
    BY <1>3, <2>2, BeginStep DEF Contract!Begin
  <2> QED BY <1>0, <1>3, <2>1, <2>2, TakeNextCases DEF Contract!Next
<1>4. ASSUME NEW r \in Runs, Finish(r)
      PROVE  Contract!End(Head(todo[r])) /\ Head(todo[r]) \in Cmds
  <2>1. Head(todo[r]) \in Cmds
    BY <1>0, <1>4, InHand DEF Finish, TypeOK
  <2>2. ended[Head(todo[r])] < begun[Head(todo[r])]
    BY <1>4 DEF Finish, IInv, Counted
  <2> QED BY <1>4, <2>1, <2>2 DEF Finish, Contract!End
<1>5. CASE Crash
  <2> DEFINE gone == {c \in Cmds : /\ c \in Local
                                   /\ req[c] \in {"loading", "waiting", "timedout"}}
  <2>1. gone \in SUBSET {c \in Cmds : answerMap[c] = "open"}
    BY DEF answerMap
  <2>2. answerMap' = [c \in Cmds |-> IF c \in gone THEN "lost" ELSE answerMap[c]]
    BY <1>5 DEF Crash, answerMap
  <2>3. UNCHANGED <<begun, ended>>
    BY <1>5 DEF Crash
  <2> QED BY <2>1, <2>2, <2>3 DEF Contract!Next, Contract!Lose, answerMap
<1>6. ASSUME NEW r \in Runs, Wake(r) \/ Removed(r)
      PROVE  UNCHANGED Contract!vars
  BY <1>6, <1>a DEF Wake, Removed
<1>7. ASSUME NEW c \in Cmds, Expire(c) \/ SendTimeout(c) \/ TellTimeout(c)
      PROVE  UNCHANGED Contract!vars
  BY <1>7, <1>a DEF Expire, SendTimeout, TellTimeout
<1>8. CASE TellPush \/ Sync \/ Start \/ UNCHANGED vars
  BY <1>8, <1>a DEF TellPush, Sync, Start, vars
<1> QED
  BY <1>1, <1>2, <1>3, <1>4, <1>5, <1>6, <1>7, <1>8
     DEF Next, Caller, Elsewhere, Agent, Contract!Next

(***************************************************************************)
(* The protocol implements its contract: one answer per call, resolved     *)
(* only after an execution has ended, and nothing executed after a         *)
(* rejection but for a caller whose clock is ahead of the agent's, through *)
(* any number of crashes of the agent.                                     *)
(***************************************************************************)
THEOREM Refinement == Spec => ImplementsContract
  BY Invariance, ContractInit, ContractStep, PTL
     DEF Spec, ImplementsContract, Contract!Spec
=============================================================================
