----------------------------- MODULE AdminAccess ----------------------------
(***************************************************************************)
(* The agent's start-up as its users see it: the graph is loaded or made   *)
(* in the hub, the secret of the tokens and the administrator are found or *)
(* made (UserService), and the HTTP server answers.  Every part of it may  *)
(* be cut by the end of the process; files and the hub keep what they got. *)
(*                                                                         *)
(* An action is the code between two awaits; a file is written in two      *)
(* steps, emptied and filled.  A password stands for its salt and hash.    *)
(* The registration of the machine is ProcessGraph's, and the lifetime of  *)
(* a token is left out.                                                    *)
(***************************************************************************)
EXTENDS Naturals, FiniteSets

CONSTANTS
  Passwords,    \* random passwords
  Secrets,      \* secrets of at least 32 bytes
  None,         \* no password, no secret
  Weak,         \* a secret of less than 32 bytes
  Torn,         \* a password file that is not written to its end
  Removed,      \* a password file the operator has read and removed
  CanFail,      \* the hub may refuse a graph, and a file may not be written
  MaxCrashes    \* bound: ends of a process that is starting or serving

ASSUME AccessAssumption ==
  /\ {None, Torn, Removed} \cap Passwords = {}
  /\ {None, Weak} \cap Secrets = {} /\ None # Weak
  /\ Cardinality({None, Torn, Removed}) = 3
  /\ CanFail \in BOOLEAN
  /\ MaxCrashes \in Nat

VARIABLES
  phase,        \* where main is
  hub,          \* what the hub stores
  mine,         \* the agent's replica of it
  env,          \* the .env file: the hub's settings, and JWT_SECRET
  file,         \* the password file, .admin.log
  secret,       \* JWT_SECRET of the process, then jwtSecret
  password,     \* the password _createAdminUser is making an administrator of
  tokens,       \* the secrets that tokens were signed with (history)
  accepted,     \* the passwords that were accepted (history)
  crashes       \* how often the process ended

vars == <<phase, hub, mine, env, file, secret, password, tokens, accepted,
          crashes>>

Phases == {"down", "loading", "storing", "secret", "persisting", "users",
           "context", "checking", "writing", "adding", "serving",
           "failed"}         \* main has caught an error: no HTTP server

Stores == [graph : BOOLEAN, context : BOOLEAN, admins : SUBSET Passwords]
Init == /\ phase = "down"
        /\ hub = [graph |-> FALSE, context |-> FALSE, admins |-> {}]
        /\ mine = hub
        /\ env \in [settings : {TRUE}, secret : Secrets \cup {None, Weak}]
        /\ file = None
        /\ secret = None
        /\ password = None
        /\ tokens = {}
        /\ accepted = {}
        /\ crashes = 0

-----------------------------------------------------------------------------
(* The environment is read, and connectToSpinalhub throws without settings.*)
Start ==
  /\ phase = "down"
  /\ phase' = IF env.settings THEN "loading" ELSE "failed"
  /\ secret' = env.secret
  /\ UNCHANGED <<hub, mine, env, file, password, tokens, accepted, crashes>>

(* _loadOrMakeConfigFile: when the graph cannot be loaded it is made.      *)
Load ==
  /\ phase = "loading"
  /\ IF hub.graph
       THEN /\ phase' = "secret"
            /\ mine' = hub
       ELSE /\ phase' = "storing"
            /\ mine' = [graph |-> TRUE, context |-> FALSE, admins |-> {}]
  /\ UNCHANGED <<hub, env, file, secret, password, tokens, accepted, crashes>>

(* One look of waitUntil, which polls with no end.                         *)
WaitUntil(condition, next) == phase' = IF condition THEN next ELSE phase

Stored ==
  /\ phase = "storing"
  /\ WaitUntil(hub.graph, "secret")
  /\ UNCHANGED <<hub, mine, env, file, secret, password, tokens, accepted,
                 crashes>>

(* The hub refuses the graph, or a file cannot be written to its end.      *)
StepFails ==
  /\ CanFail
  /\ phase \in {"storing", "persisting", "writing"}
  /\ phase = "storing" => ~hub.graph
  /\ phase' = "failed"
  /\ mine' = hub
  /\ password' = None
  /\ UNCHANGED <<hub, env, file, secret, tokens, accepted, crashes>>

(* Bug: a generated secret is kept in memory only.                         *)
ReadSecretUnsaved ==
  /\ phase = "secret"
  /\ IF secret = None
       THEN secret' \in Secrets \ tokens /\ phase' = "users"
       ELSE /\ phase' = IF secret = Weak THEN "failed" ELSE "users"
            /\ UNCHANGED secret
  /\ UNCHANGED <<hub, mine, env, file, password, tokens, accepted, crashes>>

(* _readJwtSecret; nobody edits .env since Start read it.  A missing secret*)
(* is generated, and _persistJwtSecret empties the file to write it again. *)
ReadSecret ==
  /\ phase = "secret"
  /\ IF secret = None
       THEN /\ secret' \in Secrets \ tokens
            /\ env' = [settings |-> FALSE, secret |-> None]
            /\ phase' = "persisting"
       ELSE /\ phase' = IF secret = Weak THEN "failed" ELSE "users"
            /\ UNCHANGED <<secret, env>>
  /\ UNCHANGED <<hub, mine, file, password, tokens, accepted, crashes>>

PersistSecret ==
  /\ phase = "persisting"
  /\ env' = [settings |-> TRUE, secret |-> secret]
  /\ phase' = "users"
  /\ UNCHANGED <<hub, mine, file, secret, password, tokens, accepted, crashes>>

(* Bug: the new context is not added to the graph.                         *)
GetUsersUnadded ==
  /\ phase = "users"
  /\ phase' = IF mine.context THEN "checking" ELSE "context"
  /\ UNCHANGED <<hub, mine, env, file, secret, password, tokens, accepted,
                 crashes>>

(* _getOrCreateUsersContext.                                               *)
GetUsers ==
  /\ phase = "users"
  /\ phase' = IF mine.context THEN "checking" ELSE "context"
  /\ mine' = [mine EXCEPT !.context = TRUE]
  /\ UNCHANGED <<hub, env, file, secret, password, tokens, accepted, crashes>>

ContextStored ==
  /\ phase = "context"
  /\ WaitUntil(hub.context, "checking")
  /\ UNCHANGED <<hub, mine, env, file, secret, password, tokens, accepted,
                 crashes>>

(* _createAdminUser up to the emptied password file; the password is new.  *)
MakePassword ==
  /\ password' \in Passwords \ (mine.admins \cup accepted)
  /\ file' = Torn
  /\ phase' = "writing"

Several == \E p, q \in mine.admins : p # q

Check(missing) ==
  /\ phase = "checking"
  /\ \/ Several /\ phase' = "failed" /\ UNCHANGED <<file, password>>
     \/ ~Several /\ missing /\ MakePassword
     \/ ~Several /\ ~missing /\ phase' = "serving"
        /\ UNCHANGED <<file, password>>
  /\ UNCHANGED <<hub, mine, env, secret, tokens, accepted, crashes>>

(* Bug: the administrator is looked for in the password file.              *)
CheckAdminByFile == Check(file \notin Passwords)

(* Bug: an administrator is made at every start.                           *)
CheckAdminNever == Check(TRUE)

(* initialize, from the list of users on.                                  *)
CheckAdmin == Check(mine.admins = {})

(* Bug: the user is added to the graph, and its password never written.    *)
AddFirst ==
  /\ phase = "writing"
  /\ mine' = [mine EXCEPT !.admins = @ \cup {password}]
  /\ phase' = "adding"
  /\ UNCHANGED <<hub, env, file, secret, password, tokens, accepted, crashes>>

(* The password is written, and then the user is added to the graph.       *)
WritePassword ==
  /\ phase = "writing"
  /\ file' = password
  /\ mine' = [mine EXCEPT !.admins = @ \cup {password}]
  /\ phase' = "adding"
  /\ UNCHANGED <<hub, env, secret, password, tokens, accepted, crashes>>

(* Bug: the server is started before the user is in the hub.               *)
AdminStoredAtOnce ==
  /\ phase = "adding"
  /\ phase' = "serving"
  /\ password' = None
  /\ UNCHANGED <<hub, mine, env, file, secret, tokens, accepted, crashes>>

AdminStored ==
  /\ phase = "adding"
  /\ WaitUntil(password \in hub.admins, "serving")
  /\ password' = IF phase' = "serving" THEN None ELSE password
  /\ UNCHANGED <<hub, mine, env, file, secret, tokens, accepted, crashes>>

-----------------------------------------------------------------------------
(* login: with the administrator's password a token is signed; with another*)
(* it returns null, and without an administrator it throws.                *)
Login(p) ==
  /\ phase = "serving"
  /\ IF p \in mine.admins
       THEN /\ accepted' = accepted \cup {p}
            /\ tokens' = tokens \cup {secret}
       ELSE UNCHANGED <<accepted, tokens>>
  /\ UNCHANGED <<phase, hub, mine, env, file, secret, password, crashes>>

isTokenValid(t) == secret # None /\ t = secret

(* The hub gets the changes of the agent's replica, all at once.           *)
Sync ==
  /\ hub # mine
  /\ hub' = mine
  /\ UNCHANGED <<phase, mine, env, file, secret, password, tokens, accepted,
                 crashes>>

Dies == /\ phase' = "down"
        /\ mine' = hub
        /\ secret' = None
        /\ UNCHANGED <<hub, env, file, tokens, accepted>>

Crash ==
  /\ phase \notin {"down", "failed"}
  /\ crashes < MaxCrashes
  /\ crashes' = crashes + 1
  /\ Dies
  /\ password' = None

-----------------------------------------------------------------------------
(* The operator puts right the .env file of an agent that could not start. *)
Repair ==
  /\ phase = "failed"
  /\ ~env.settings \/ env.secret = Weak
  /\ env' \in [settings : {TRUE}, secret : {None} \cup (Secrets \ tokens)]
  /\ UNCHANGED <<phase, hub, mine, file, secret, password, tokens, accepted,
                 crashes>>

Restart ==
  /\ phase = "failed"
  /\ Dies
  /\ password' = None
  /\ UNCHANGED crashes

RemoveFile ==
  /\ file \in Passwords
  /\ file' = Removed
  /\ UNCHANGED <<phase, hub, mine, env, secret, password, tokens, accepted,
                 crashes>>

Agent == \/ Start \/ Load \/ Stored \/ ReadSecret \/ PersistSecret
         \/ GetUsers \/ ContextStored
         \/ CheckAdmin \/ WritePassword \/ AdminStored
Operator == Repair \/ Restart \/ RemoveFile

Next == \/ Agent \/ StepFails \/ Sync \/ Crash \/ Operator
        \/ \E p \in Passwords : Login(p)

(* pm2 starts the process again, Node.js runs what is ready, and the hub   *)
(* answers; the operator may do nothing.                                   *)
Spec == Init /\ [][Next]_vars /\ WF_vars(Agent) /\ WF_vars(Sync)

-----------------------------------------------------------------------------
(* Types; a password is in memory exactly while an administrator is made,  *)
(* and the hub lags behind the agent by the step that awaits it.           *)
TypeOK ==
  /\ phase \in Phases
  /\ hub \in Stores /\ mine \in Stores
  /\ env \in [settings : BOOLEAN, secret : Secrets \cup {None, Weak}]
  /\ file \in Passwords \cup {None, Torn, Removed}
  /\ secret \in Secrets \cup {None, Weak}
  /\ password \in Passwords \cup {None}
  /\ tokens \subseteq Secrets
  /\ accepted \subseteq Passwords
  /\ crashes \in 0..MaxCrashes
  /\ password # None <=> phase \in {"writing", "adding"}
  /\ \/ hub = mine
     \/ phase = "storing" /\ ~hub.graph
     \/ phase = "context" /\ ~hub.context
     \/ phase = "adding" /\ password \notin hub.admins

(* Wherever a start-up is cut, the next one makes no second administrator: *)
(* there is one at most, in the hub and in the agent's replica.            *)
OneAdmin == \A p, q \in hub.admins \cup mine.admins : p = q

(* An administrator of the hub can be used: the operator finds its password*)
(* in the file, unless he has removed the file, whatever start-ups died    *)
(* between the file and the graph (_createAdminUser).                      *)
PasswordIsAdmins == \A p \in hub.admins : file \in {p, Removed}

(* A token stays valid for every later process of the agent, as            *)
(* test/api-auth.test.js asserts of a restarted UserService.               *)
TokensStayValid == phase = "serving" => \A t \in tokens : isTokenValid(t)

(* A password that was accepted once is accepted by every later process.   *)
LoginsStayValid == phase = "serving" => accepted \subseteq mine.admins

(* A start-up that throws has lost the settings or has a weak secret, or   *)
(* one of its own steps failed: never what earlier start-ups left in the   *)
(* graph (several administrators) or in the files.                         *)
FailsForAReason ==
  [][phase' = "failed" /\ phase # "failed" =>
       \/ ~env.settings
       \/ env.secret = Weak
       \/ phase = "storing" /\ ~hub.graph
       \/ phase = "writing"]_vars

(* A start-up comes to its end: no wait for the hub (waitUntil) is for     *)
(* something that is never sent.                                           *)
ComesUp == []<>(phase \in {"serving", "failed"})
=============================================================================
