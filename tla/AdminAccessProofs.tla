------------------------- MODULE AdminAccessProofs --------------------------
(***************************************************************************)
(* Proofs about AdminAccess for any passwords, secrets and number of       *)
(* crashes.                                                                *)
(***************************************************************************)
EXTENDS AdminAccess, TLAPS

(***************************************************************************)
(* The hub has no administrator the agent does not know, and the agent     *)
(* makes one only in a graph that has none.                                *)
(***************************************************************************)
HubBehind ==
  /\ hub.admins \subseteq mine.admins
  /\ ~hub.graph => hub.admins = {}
  /\ phase \notin {"down", "loading", "failed"} => mine.graph
  /\ phase = "writing" => mine.admins = {}
  /\ phase = "adding" => password \in mine.admins

(***************************************************************************)
(* The replica's administrator is the one of the file, and only one that   *)
(* the hub has was ever let in.                                            *)
(***************************************************************************)
FileFirst ==
  /\ \A p \in mine.admins : file \in {p, Removed}
  /\ accepted \subseteq hub.admins

(***************************************************************************)
(* Tokens are signed with the secret of .env alone, which is lost only     *)
(* while it has signed nothing.                                            *)
(***************************************************************************)
SecretSaved ==
  /\ \A t \in tokens : t = env.secret
  /\ ~env.settings => env.secret = None
  /\ phase \in {"loading", "storing", "secret", "users", "context", "checking",
                "writing", "adding", "serving"} => secret = env.secret
  /\ phase \in {"users", "context", "checking", "writing", "adding", "serving"}
       => secret \in Secrets
  /\ phase = "persisting" => ~env.settings /\ secret \in Secrets

IInv == TypeOK /\ OneAdmin /\ HubBehind /\ FileFirst /\ SecretSaved

LEMMA EmptyStore ==
  ASSUME NEW g \in BOOLEAN
  PROVE  [graph |-> g, context |-> FALSE, admins |-> {}] \in Stores
BY DEF Stores

LEMMA EnvironmentType ==
  ASSUME NEW b \in BOOLEAN, NEW s \in Secrets \cup {None, Weak}
  PROVE  [settings |-> b, secret |-> s] \in
           [settings : BOOLEAN, secret : Secrets \cup {None, Weak}]
OBVIOUS

LEMMA InitHolds == Init => IInv
<1> SUFFICES ASSUME Init PROVE IInv
  OBVIOUS
<1>1. /\ phase = "down" /\ mine = hub
      /\ hub = [graph |-> FALSE, context |-> FALSE, admins |-> {}]
      /\ env.settings /\ env \in [settings : BOOLEAN, secret : Secrets \cup {None, Weak}]
      /\ file = None /\ secret = None /\ password = None
      /\ tokens = {} /\ accepted = {} /\ crashes = 0
  BY DEF Init
<1>2. TypeOK
  BY <1>1, AccessAssumption DEF TypeOK, Phases, Stores
<1>3. OneAdmin /\ HubBehind /\ FileFirst /\ SecretSaved
  BY <1>1 DEF OneAdmin, HubBehind, FileFirst, SecretSaved
<1> QED BY <1>2, <1>3 DEF IInv

(***************************************************************************)
(* Every step of the agent, the hub and the operator keeps the invariant.  *)
(***************************************************************************)
LEMMA StepHolds == IInv /\ [Next]_vars => IInv'
<1> SUFFICES ASSUME IInv, [Next]_vars PROVE IInv'
  OBVIOUS
<1> USE AccessAssumption DEF IInv, TypeOK, Phases, Stores, OneAdmin,
        HubBehind, FileFirst, SecretSaved
<1>1. CASE Start
  BY <1>1 DEF Start
<1>2. CASE Load
  <2>1. TypeOK'
    <3>1. CASE hub.graph
      BY <1>2, <3>1 DEF Load
    <3>2. CASE ~hub.graph
      <4>1. phase' = "storing" /\ mine' \in Stores
        BY <1>2, <3>2, EmptyStore DEF Load
      <4> QED BY <1>2, <4>1 DEF Load
    <3> QED BY <3>1, <3>2
  <2>2. OneAdmin'
    BY <1>2 DEF Load
  <2>3. HubBehind'
    BY <1>2 DEF Load
  <2>4. FileFirst'
    BY <1>2 DEF Load
  <2>5. SecretSaved'
    BY <1>2 DEF Load
  <2> QED BY <2>1, <2>2, <2>3, <2>4, <2>5
<1>3. CASE Stored
  <2>1. TypeOK'
    <3>1. CASE hub.graph
      BY <1>3, <3>1 DEF Stored, WaitUntil
    <3>2. CASE ~(hub.graph)
      BY <1>3, <3>2 DEF Stored, WaitUntil
    <3> QED BY <3>1, <3>2
  <2>2. OneAdmin'
    BY <1>3 DEF Stored, WaitUntil
  <2>3. HubBehind'
    BY <1>3 DEF Stored, WaitUntil
  <2>4. FileFirst'
    BY <1>3 DEF Stored, WaitUntil
  <2>5. SecretSaved'
    BY <1>3 DEF Stored, WaitUntil
  <2> QED BY <2>1, <2>2, <2>3, <2>4, <2>5
<1>4. CASE ReadSecret
  <2>1. TypeOK'
    <3>1. CASE secret = None
      <4>1. /\ env' = [settings |-> FALSE, secret |-> None]
            /\ phase' = "persisting" /\ secret' \in Secrets
        BY <1>4, <3>1 DEF ReadSecret
      <4>2. env' \in [settings : BOOLEAN, secret : Secrets \cup {None, Weak}]
        BY <4>1, EnvironmentType
      <4> QED BY <1>4, <4>1, <4>2 DEF ReadSecret
    <3>2. CASE secret # None
      BY <1>4, <3>2 DEF ReadSecret
    <3> QED BY <3>1, <3>2
  <2>2. OneAdmin'
    BY <1>4 DEF ReadSecret
  <2>3. HubBehind'
    BY <1>4 DEF ReadSecret
  <2>4. FileFirst'
    BY <1>4 DEF ReadSecret
  <2>5. SecretSaved'
    BY <1>4 DEF ReadSecret
  <2> QED BY <2>1, <2>2, <2>3, <2>4, <2>5
<1>5. CASE PersistSecret
  BY <1>5 DEF PersistSecret
<1>6. CASE GetUsers
  BY <1>6 DEF GetUsers
<1>7. CASE ContextStored
  <2>1. TypeOK'
    <3>1. CASE hub.context
      BY <1>7, <3>1 DEF ContextStored, WaitUntil
    <3>2. CASE ~(hub.context)
      BY <1>7, <3>2 DEF ContextStored, WaitUntil
    <3> QED BY <3>1, <3>2
  <2>2. OneAdmin'
    BY <1>7 DEF ContextStored, WaitUntil
  <2>3. HubBehind'
    BY <1>7 DEF ContextStored, WaitUntil
  <2>4. FileFirst'
    BY <1>7 DEF ContextStored, WaitUntil
  <2>5. SecretSaved'
    BY <1>7 DEF ContextStored, WaitUntil
  <2> QED BY <2>1, <2>2, <2>3, <2>4, <2>5
<1>8. CASE CheckAdmin
  BY <1>8 DEF CheckAdmin, Check, Several, MakePassword
<1>9. CASE WritePassword
  BY <1>9 DEF WritePassword
<1>10. CASE AdminStored
  <2>1. TypeOK'
    <3>1. CASE password \in hub.admins
      BY <1>10, <3>1 DEF AdminStored, WaitUntil
    <3>2. CASE ~(password \in hub.admins)
      BY <1>10, <3>2 DEF AdminStored, WaitUntil
    <3> QED BY <3>1, <3>2
  <2>2. OneAdmin'
    BY <1>10 DEF AdminStored, WaitUntil
  <2>3. HubBehind'
    BY <1>10 DEF AdminStored, WaitUntil
  <2>4. FileFirst'
    BY <1>10 DEF AdminStored, WaitUntil
  <2>5. SecretSaved'
    BY <1>10 DEF AdminStored, WaitUntil
  <2> QED BY <2>1, <2>2, <2>3, <2>4, <2>5
<1>11. CASE StepFails
  BY <1>11 DEF StepFails
<1>12. CASE Sync
  BY <1>12 DEF Sync
<1>13. CASE Crash
  BY <1>13 DEF Crash, Dies
<1>14. CASE Repair
  <2>1. TypeOK'
    BY <1>14 DEF Repair
  <2>2. OneAdmin'
    BY <1>14 DEF Repair
  <2>3. HubBehind'
    BY <1>14 DEF Repair
  <2>4. FileFirst'
    BY <1>14 DEF Repair
  <2>5. SecretSaved'
    BY <1>14 DEF Repair
  <2> QED BY <2>1, <2>2, <2>3, <2>4, <2>5
<1>15. CASE Restart
  BY <1>15 DEF Restart, Dies
<1>16. CASE RemoveFile
  BY <1>16 DEF RemoveFile
<1>17. ASSUME NEW p \in Passwords, Login(p) PROVE IInv'
  BY <1>17 DEF Login
<1>18. CASE UNCHANGED vars
  BY <1>18 DEF vars
<1> QED BY <1>1, <1>2, <1>3, <1>4, <1>5, <1>6, <1>7, <1>8, <1>9, <1>10, <1>11,
           <1>12, <1>13, <1>14, <1>15, <1>16, <1>17, <1>18
        DEF Next, Agent, Operator

LEMMA Invariance == Spec => []IInv
BY InitHolds, StepHolds, PTL DEF Spec

(***************************************************************************)
(* What is in memory and what the hub knows fit the place of the start-up. *)
(***************************************************************************)
THEOREM TypeCorrect == Spec => []TypeOK
<1>1. IInv => TypeOK
  BY DEF IInv
<1> QED BY <1>1, Invariance, PTL

(***************************************************************************)
(* No sequence of start-ups that are cut makes a second administrator.     *)
(***************************************************************************)
THEOREM AlwaysOneAdmin == Spec => []OneAdmin
<1>1. IInv => OneAdmin
  BY DEF IInv
<1> QED BY <1>1, Invariance, PTL

(***************************************************************************)
(* The file holds the password of the hub's administrator until it is      *)
(* removed, whatever start-ups died between the two.                       *)
(***************************************************************************)
THEOREM PasswordOnFile == Spec => []PasswordIsAdmins
<1>1. IInv => PasswordIsAdmins
  BY DEF IInv, HubBehind, FileFirst, PasswordIsAdmins
<1> QED BY <1>1, Invariance, PTL

(***************************************************************************)
(* A token outlives the process that signed it.                            *)
(***************************************************************************)
THEOREM TokensSurvive == Spec => []TokensStayValid
<1>1. IInv => TokensStayValid
  BY AccessAssumption DEF IInv, SecretSaved, TokensStayValid, isTokenValid
<1> QED BY <1>1, Invariance, PTL

(***************************************************************************)
(* A password outlives the process that accepted it.                       *)
(***************************************************************************)
THEOREM LoginsSurvive == Spec => []LoginsStayValid
<1>1. IInv => LoginsStayValid
  BY DEF IInv, HubBehind, FileFirst, LoginsStayValid
<1> QED BY <1>1, Invariance, PTL

(***************************************************************************)
(* What earlier start-ups left behind never makes a start-up fail.         *)
(***************************************************************************)
THEOREM NeverFailsOnRemains == Spec => FailsForAReason
<1> DEFINE Reason == /\ phase' = "failed"
                     /\ phase # "failed"
                     => \/ ~env.settings
                        \/ env.secret = Weak
                        \/ phase = "storing" /\ ~hub.graph
                        \/ phase = "writing"
<1>1. IInv /\ [Next]_vars => [Reason]_vars
  <2> SUFFICES ASSUME IInv, Next PROVE Reason
    BY DEF vars
  <2> USE DEF IInv, OneAdmin, SecretSaved
  <2>1. CASE Agent
    BY <2>1 DEF Agent, Start, Load, Stored, ReadSecret, PersistSecret, GetUsers,
       ContextStored, CheckAdmin, Check, Several, MakePassword, WritePassword,
       AdminStored, WaitUntil
  <2>2. CASE StepFails
    BY <2>2 DEF StepFails
  <2>3. CASE Sync \/ Crash \/ Operator
    BY <2>3 DEF Sync, Crash, Operator, Repair, Restart, RemoveFile, Dies
  <2>4. ASSUME NEW p \in Passwords, Login(p) PROVE Reason
    BY <2>4 DEF Login
  <2> QED BY <2>1, <2>2, <2>3, <2>4 DEF Next
<1> QED BY <1>1, Invariance, PTL DEF Spec, FailsForAReason
=============================================================================
