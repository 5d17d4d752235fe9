----------------------------- MODULE BosGroups ------------------------------
(***************************************************************************)
(* How the processes of a machine are put into groups, one for each BOS:   *)
(* getPm2ProcessClassifiedByBos goes through them once, and puts each into *)
(* the first group whose keys (those of its first process) it shares.      *)
(*                                                                         *)
(* A process has an id, the BOS name its hub data give ("absent" when they *)
(* give none), the one in the path of its directory, and the protocol, url *)
(* and port of its hub data as one connection ("" when one is missing).    *)
(***************************************************************************)
EXTENDS Naturals, SequencesExt

(* _getBosData: the hub data come last, an empty name in them counts.      *)
BosName(p) == IF p.hub = "absent" THEN p.path ELSE p.hub

(* Bug: two BOSes behind one connection have a key in common.              *)
BosKeysByConnection(p) ==
  (IF BosName(p) # "" THEN {<<"", BosName(p)>>} ELSE {})
    \cup (IF p.conn # "" THEN {<<p.conn, "">>} ELSE {})

BosKeys(p) == (IF BosName(p) # "" THEN {<<"", BosName(p)>>} ELSE {})
             \cup (IF p.conn # "" THEN {<<p.conn, BosName(p)>>} ELSE {})

NewGroup(p) == [keys |-> BosKeys(p), name |-> BosName(p), conn |-> p.conn, processes |-> <<p>>]

(* consolidateGroupInfo: what the group does not have yet is filled in.    *)
Joined(group, p) ==
  [group EXCEPT !.conn = IF @ = "" THEN p.conn ELSE @,
                !.processes = Append(@, p)]

Place(groups, p) ==
  LET i == SelectInSeq(groups, LAMBDA g : g.keys \cap BosKeys(p) # {})
  IN IF i = 0 THEN Append(groups, NewGroup(p))
              ELSE [groups EXCEPT ![i] = Joined(@, p)]

Classify(ps) ==
  LET groups[n \in 0..Len(ps)] == IF n = 0 THEN <<>> ELSE Place(groups[n - 1], ps[n])
  IN groups[Len(ps)]

-----------------------------------------------------------------------------
(* The definition: processes of one BOS have its name, or have no name and *)
(* the same connection.                                                    *)
SameBos(p, q) == /\ BosName(p) = BosName(q)
                 /\ BosName(p) # "" \/ (p.conn = q.conn /\ p.conn # "")

Belongs(p, group) == p \in ToSet(group.processes)

(* Every process is once in one group, with the processes of its BOS and   *)
(* no others, and the group has a connection when one of them has.         *)
Parted(groups, ps) ==
  /\ UNION {ToSet(groups[i].processes) : i \in DOMAIN groups} = ps
  /\ \A i, k \in DOMAIN groups :
       \A j \in DOMAIN groups[i].processes, l \in DOMAIN groups[k].processes :
         groups[i].processes[j] = groups[k].processes[l] => i = k /\ j = l

AreBos(groups, ps) ==
  /\ Parted(groups, ps)
  /\ \A p \in ps, q \in ps :
       p = q \/ (SameBos(p, q) <=> \E i \in DOMAIN groups :
                                     Belongs(p, groups[i]) /\ Belongs(q, groups[i]))
  /\ \A i \in DOMAIN groups :
       groups[i].conn = "" => \A p \in ToSet(groups[i].processes) : p.conn = ""
=============================================================================
