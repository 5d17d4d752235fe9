---------------------------- MODULE CommandQueue ----------------------------
(***************************************************************************)
(* The command protocol: GraphService.executeCommand puts a SpinalCommand  *)
(* on the list pm2_commands of a VM's context and waits for its status;    *)
(* the agent of that VM (bindCommandList of index.ts) is woken by changes  *)
(* of lastCommand and runs through a snapshot of the list.                 *)
(*                                                                         *)
(* JavaScript is single-threaded: an action is the code between two awaits *)
(* or the body of one callback.  Bindings are called back later, and read  *)
(* the value current at that time, so two changes may be seen as one.      *)
(*                                                                         *)
(* The agent's process and each caller elsewhere work on replicas of their *)
(* own.  The hub hears of what the agent did when the agent sends it, and  *)
(* the agent of what the hub has when the hub tells it, in order.  The hub *)
(* merges what is done to one list: a push adds its command, a splice      *)
(* takes its own out.                                                      *)
(***************************************************************************)
EXTENDS Naturals, SequencesExt

CONSTANTS
  Cmds,         \* the commands ever requested
  Local,        \* those requested by the API server inside the agent's process
  Ahead,        \* those requested where the clock runs ahead of the agent's
  Runs,         \* bound: runs of the lastCommand callback in progress at a time
  MaxCrashes    \* bound: crashes of the agent's process

ASSUME CommandAssumption == /\ Local \subseteq Cmds
                            /\ Ahead \subseteq Cmds \ Local
                            /\ MaxCrashes \in Nat

VARIABLES
  req,          \* req[c]: where the call executeCommand of c is
  status,       \* status[c]: command.status as the agent's process sees it
  list,         \* pm2_commands as the agent's process sees it
  hubStatus,    \* command.status as the hub has it
  hubList,      \* pm2_commands as the hub has it
  sent,         \* commands with a _server_id: the hub has seen them
  unsent,       \* commands whose status the agent changed and has not sent
  untold,       \* commands pushed at the hub that the agent is not told of yet
  word,         \* word[c]: how far the "timeout" of a caller elsewhere has got
  expired,      \* commands older than SPINAL_COMMAND_TIMEOUT_MS
  alive,        \* the agent's process is up and bindCommandList is bound
  wake,         \* a change of lastCommand waits for its callback
  executed,     \* commandExecuted
  todo,         \* todo[r]: the rest of run r's snapshot, its head in hand
  at,           \* at[r]: what run r is doing with the head of todo[r]
  begun,        \* begun[c]: executions of c begun (history)
  ended,        \* ended[c]: executions of c that set a final status (history)
  crashes       \* crashes so far

agentVars == <<alive, wake, executed, todo, at>>
hubVars   == <<hubStatus, hubList, sent, unsent, untold, word>>
history   == <<begun, ended, crashes>>
vars == <<req, status, list, hubStatus, hubList, sent, unsent, untold, word,
          expired, alive, wake, executed, todo, at, begun, ended, crashes>>

Statuses == {"pending", "in_progress", "completed", "failed", "timeout"}
Phases   == {"next", "executing", "removing"}
Requests == {"idle",      \* executeCommand not called yet
             "loading",   \* command created, pm2_commands being loaded
             "waiting",   \* command listed, timer armed
             "timedout",  \* timer fired, status callback still to come
             "overwritten", \* an update came between the timer and that callback
             "resolved", "rejected",
             "lost"}      \* the process of the caller has died
Words    == {"none",      \* not said, taken back, or known to the agent
             "caller",    \* set in the caller's replica only
             "hub"}       \* known to the hub, the agent is not told yet

Init == /\ req = [c \in Cmds |-> "idle"]
        /\ status = [c \in Cmds |-> "pending"]
        /\ hubStatus = status
        /\ list = <<>>
        /\ hubList = <<>>
        /\ sent = Cmds \ Local
        /\ unsent = {}
        /\ untold = <<>>
        /\ word = [c \in Cmds |-> "none"]
        /\ expired = {}
        /\ alive = FALSE
        /\ wake = FALSE
        /\ executed = {}
        /\ todo = [r \in Runs |-> <<>>]
        /\ at = [r \in Runs |-> "next"]
        /\ begun = [c \in Cmds |-> 0]
        /\ ended = [c \in Cmds |-> 0]
        /\ crashes = 0

-----------------------------------------------------------------------------
(* The caller's side.                                                      *)

(* The status the callback of c would read.  A caller in the agent's       *)
(* process shares its objects; one elsewhere has what the hub told it last, *)
(* or the "timeout" of its own timer.                                      *)
View(c) == IF c \in Local THEN status[c]
           ELSE IF req[c] = "timedout" THEN "timeout" ELSE hubStatus[c]

(* new SpinalCommand(...), then the await of pm2_commands.load().          *)
Create(c) ==
  /\ req[c] = "idle"
  /\ c \in Local => alive
  /\ req' = [req EXCEPT ![c] = "loading"]
  /\ UNCHANGED <<status, list, hubVars, expired, agentVars, history>>

(* The list is loaded: push, lastCommand.set(Date.now()), timer, binding.  *)
(* A caller in the agent's process pushes on the agent's list, and setting *)
(* lastCommand wakes the agent: if the millisecond is that of an earlier   *)
(* push its callback is still to come.                                     *)
Push(c) ==
  /\ req[c] = "loading"
  /\ req' = [req EXCEPT ![c] = "waiting"]
  /\ \/ /\ c \in Local
        /\ list' = Append(list, c)
        /\ wake' = TRUE
        /\ UNCHANGED <<hubList, untold>>
     \/ /\ c \notin Local
        /\ hubList' = Append(hubList, c)
        /\ untold' = Append(untold, c)
        /\ UNCHANGED <<list, wake>>
  /\ UNCHANGED <<status, hubStatus, sent, unsent, word, expired, alive,
                 executed, todo, at, history>>

(* SPINAL_COMMAND_TIMEOUT_MS pass since createdAt, on the agent's clock.   *)
Expire(c) ==
  /\ req[c] # "idle"
  /\ c \notin expired
  /\ expired' = expired \cup {c}
  /\ UNCHANGED <<req, status, list, hubVars, agentVars, history>>

(* Setting a status where the timer runs.                                  *)
SetTimeout(c) ==
  \/ /\ c \in Local
     /\ status' = [status EXCEPT ![c] = "timeout"]
     /\ unsent' = unsent \cup {c}
     /\ UNCHANGED word
  \/ /\ c \notin Local
     /\ word' = [word EXCEPT ![c] = "caller"]
     /\ UNCHANGED <<status, unsent>>

(* Bug: a timer that spares commands already taken up by an agent.         *)
TimerSparesBegun(c) ==
  /\ req[c] = "waiting"
  /\ c \notin Ahead => c \in expired
  /\ View(c) = "pending"
  /\ req' = [req EXCEPT ![c] = "timedout"]
  /\ SetTimeout(c)
  /\ UNCHANGED <<list, hubStatus, hubList, sent, untold, expired, agentVars,
                 history>>

(* The timer of executeCommand.  It was armed after createdAt was read: it *)
(* fires when the command has expired, for an agent whose clock is not     *)
(* behind.                                                                 *)
TimerFires(c) ==
  /\ req[c] = "waiting"
  /\ c \notin Ahead => c \in expired
  /\ req' = [req EXCEPT ![c] = "timedout"]
  /\ SetTimeout(c)
  /\ UNCHANGED <<list, hubStatus, hubList, sent, untold, expired, agentVars,
                 history>>

(* The callback bound to status; on "pending" and "in_progress" it does    *)
(* nothing.  clearTimeout comes with either answer.                        *)
Answer(c) ==
  /\ req[c] \in {"waiting", "timedout", "overwritten"}
  /\ \/ /\ View(c) \in {"completed", "failed"}
        /\ req' = [req EXCEPT ![c] = "resolved"]
     \/ /\ View(c) = "timeout"
        /\ req' = [req EXCEPT ![c] = "rejected"]
  /\ UNCHANGED <<status, list, hubVars, expired, agentVars, history>>

-----------------------------------------------------------------------------
(* Between a caller elsewhere, the hub and the agent.                      *)

(* What the hub has of an agent's work reaches the caller's replica while  *)
(* its own "timeout" is there: before the callback, or before the send.    *)
Overtake(c) ==
  /\ c \notin Local
  /\ hubStatus[c] \in {"in_progress", "completed", "failed"}
  /\ req[c] = "timedout" \/ word[c] = "caller"
  /\ req' = [req EXCEPT ![c] = IF @ = "timedout" THEN "overwritten" ELSE @]
  /\ word' = [word EXCEPT ![c] = IF @ = "caller" THEN "none" ELSE @]
  /\ UNCHANGED <<status, list, hubStatus, hubList, sent, unsent, untold,
                 expired, agentVars, history>>

(* The caller's process sends its "timeout" to the hub.                    *)
SendTimeout(c) ==
  /\ word[c] = "caller"
  /\ word' = [word EXCEPT ![c] = "hub"]
  /\ hubStatus' = [hubStatus EXCEPT ![c] = "timeout"]
  /\ UNCHANGED <<req, status, list, hubList, sent, unsent, untold, expired,
                 agentVars, history>>

(* The hub tells the agent of the "timeout", and of the push before it.    *)
TellTimeout(c) ==
  /\ alive
  /\ word[c] = "hub"
  /\ c \notin ToSet(untold)
  /\ word' = [word EXCEPT ![c] = "none"]
  /\ status' = [status EXCEPT ![c] = "timeout"]
  /\ unsent' = unsent \ {c}
  /\ UNCHANGED <<req, list, hubStatus, hubList, sent, untold, expired,
                 agentVars, history>>

(* The hub tells the agent of a push and of lastCommand: another host's    *)
(* clock may repeat a millisecond the agent has already consumed, which    *)
(* changes nothing and wakes nobody.                                       *)
TellPush ==
  /\ alive
  /\ untold # <<>>
  /\ list' = Append(list, Head(untold))
  /\ untold' = Tail(untold)
  /\ wake' \in {wake, TRUE}
  /\ UNCHANGED <<req, status, hubStatus, hubList, sent, unsent, word, expired,
                 alive, executed, todo, at, history>>

-----------------------------------------------------------------------------
(* The agent's side.                                                       *)

(* Bug: a callback that gives up when a run is in progress.                *)
WakeUnlessBusy(r) ==
  /\ wake
  /\ todo[r] = <<>>
  /\ wake' = FALSE
  /\ todo' = IF \E s \in Runs : todo[s] # <<>> THEN todo
                                               ELSE [todo EXCEPT ![r] = list]
  /\ UNCHANGED <<req, status, list, hubVars, expired, alive, executed, at,
                 history>>

(* The callback of lastCommand: Array.from(commandList).                   *)
Wake(r) ==
  /\ wake
  /\ todo[r] = <<>>
  /\ wake' = FALSE
  /\ todo' = [todo EXCEPT ![r] = list]
  /\ UNCHANGED <<req, status, list, hubVars, expired, alive, executed, at,
                 history>>

(* Bugs: only the age, or only the status of a command is looked at.       *)
AvailableByAge(c)    == c \notin expired
AvailableByStatus(c) == status[c] = "pending"

isAvailable(c) == status[c] = "pending" /\ c \notin expired

(* Bug: the marks are set only after the first await of execute().         *)
BeginUnmarked(r) ==
  /\ at' = [at EXCEPT ![r] = "executing"]
  /\ begun' = [begun EXCEPT ![Head(todo[r])] = @ + 1]
  /\ UNCHANGED <<req, status, list, hubVars, expired, alive, wake, executed,
                 todo, ended, crashes>>

(* commandExecuted[id] = true and execute() up to its first await.         *)
Begin(r) ==
  LET c == Head(todo[r]) IN
  /\ executed' = executed \cup {c}
  /\ status' = [status EXCEPT ![c] = "in_progress"]
  /\ unsent' = unsent \cup {c}
  /\ at' = [at EXCEPT ![r] = "executing"]
  /\ begun' = [begun EXCEPT ![c] = @ + 1]
  /\ UNCHANGED <<req, list, hubStatus, hubList, sent, untold, word, expired,
                 alive, wake, todo, ended, crashes>>

(* Bug: a command that is not available is skipped and stays listed.       *)
DiscardKeeps(r) ==
  /\ todo' = [todo EXCEPT ![r] = Tail(@)]
  /\ UNCHANGED <<req, status, list, hubVars, expired, alive, wake, executed,
                 at, history>>

(* removeFromGraph() up to its await of pm2_commands.load().               *)
Discard(r) ==
  /\ at' = [at EXCEPT ![r] = "removing"]
  /\ UNCHANGED <<req, status, list, hubVars, expired, alive, wake, executed,
                 todo, history>>

(* One turn of the for loop over the snapshot.                             *)
TakeNext(r) ==
  /\ at[r] = "next"
  /\ todo[r] # <<>>
  /\ IF Head(todo[r]) \notin executed /\ isAvailable(Head(todo[r]))
       THEN Begin(r)
       ELSE Discard(r)

(* The PM2 or system call of execute() returns, or throws: result and      *)
(* status are set whatever the status has become meanwhile, and            *)
(* removeFromGraph() is awaited.                                           *)
Finish(r) ==
  LET c == Head(todo[r]) IN
  /\ at[r] = "executing"
  /\ \E final \in {"completed", "failed"} :
       status' = [status EXCEPT ![c] = final]
  /\ unsent' = unsent \cup {c}
  /\ ended' = [ended EXCEPT ![c] = @ + 1]
  /\ at' = [at EXCEPT ![r] = "removing"]
  /\ UNCHANGED <<req, list, hubStatus, hubList, sent, untold, word, expired,
                 alive, wake, executed, todo, begun, crashes>>

(* Bug: whatever is compared, it is equal.                                 *)
AnyId(d, c) == TRUE

(* commandLst[i]._server_id === this._server_id: also when both have none. *)
SameId(d, c) == d = c \/ (d \notin sent /\ c \notin sent)

(* The loop of removeFromGraph: the first of that id is spliced out.       *)
Removed(r) ==
  LET c == Head(todo[r]) IN
  /\ at[r] = "removing"
  /\ \/ /\ \A d \in ToSet(list) : ~SameId(d, c)
        /\ list' = list
     \/ \E i \in DOMAIN list :
          /\ SameId(list[i], c)
          /\ \A j \in 1..(i-1) : ~SameId(list[j], c)
          /\ list' = RemoveAt(list, i)
  /\ todo' = [todo EXCEPT ![r] = Tail(@)]
  /\ at' = [at EXCEPT ![r] = "next"]
  /\ UNCHANGED <<req, status, hubVars, expired, alive, wake, executed,
                 history>>

-----------------------------------------------------------------------------
(* The hub and the life of the agent's process.                            *)

(* The process sends its changes to the hub, later and in one batch; what  *)
(* is new gets its _server_id.                                             *)
Sync ==
  /\ alive
  /\ unsent # {} \/ hubList # list \o untold
  /\ hubStatus' = [c \in Cmds |-> IF c \in unsent THEN status[c] ELSE hubStatus[c]]
  /\ hubList' = list \o untold
  /\ sent' = sent \cup ToSet(list)
  /\ unsent' = {}
  /\ UNCHANGED <<req, status, list, untold, word, expired, agentVars, history>>

(* The agent's replicas are what the hub has.                              *)
FromHub ==
  /\ status' = hubStatus
  /\ list' = hubList
  /\ unsent' = {}
  /\ untold' = <<>>
  /\ word' = [c \in Cmds |-> IF word[c] = "hub" THEN "none" ELSE word[c]]

(* Start: the graph is loaded from the hub, registerVirtualMachine makes   *)
(* sure the list exists, and bind() calls back once by itself.             *)
Start ==
  /\ ~alive
  /\ alive' = TRUE
  /\ wake' = TRUE
  /\ FromHub
  /\ UNCHANGED <<req, hubStatus, hubList, sent, expired, executed, todo, at,
                 history>>

(* The process dies: what the hub did not get is gone, and so are the      *)
(* runs, commandExecuted and the promises of local callers.                *)
Crash ==
  /\ alive
  /\ crashes < MaxCrashes
  /\ crashes' = crashes + 1
  /\ alive' = FALSE
  /\ wake' = FALSE
  /\ executed' = {}
  /\ todo' = [r \in Runs |-> <<>>]
  /\ at' = [r \in Runs |-> "next"]
  /\ FromHub
  /\ req' = [c \in Cmds |->
               IF c \in Local /\ req[c] \in {"loading", "waiting", "timedout"}
               THEN "lost" ELSE req[c]]
  /\ UNCHANGED <<hubStatus, hubList, sent, expired, begun, ended>>

-----------------------------------------------------------------------------
Caller(c) == Create(c) \/ Push(c) \/ Expire(c) \/ TimerFires(c) \/ Answer(c)
Elsewhere(c) == Overtake(c) \/ SendTimeout(c) \/ TellTimeout(c)
Agent(r)  == Wake(r) \/ TakeNext(r) \/ Finish(r) \/ Removed(r)

Next == \/ \E c \in Cmds : Caller(c) \/ Elsewhere(c)
        \/ TellPush
        \/ \E r \in Runs : Agent(r)
        \/ Sync \/ Start \/ Crash

Spec == Init /\ [][Next]_vars

(* A caller's process: its clock runs, timers and callbacks of a live      *)
(* process come, an awaited load returns.  Nobody must request anything.   *)
CallerFairness ==
  \A c \in Cmds : WF_vars(Push(c) \/ Expire(c) \/ TimerFires(c) \/ Answer(c))

(* The agent's process: PM2 calls return, changes reach the hub, and pm2   *)
(* restarts the agent when it has died.                                    *)
AgentFairness ==
  /\ \A r \in Runs : WF_vars(TakeNext(r) \/ Finish(r) \/ Removed(r))
  /\ WF_vars(\E r \in Runs : Wake(r))
  /\ WF_vars(Sync) /\ WF_vars(Start)

FairSpec == Spec /\ CallerFairness

-----------------------------------------------------------------------------
(* The variables keep their types, and a run that holds no command is at   *)
(* the top of its loop.                                                    *)
TypeOK ==
  /\ req \in [Cmds -> Requests]
  /\ status \in [Cmds -> Statuses]
  /\ hubStatus \in [Cmds -> Statuses]
  /\ list \in Seq(Cmds)
  /\ hubList \in Seq(Cmds)
  /\ sent \in SUBSET Cmds
  /\ unsent \in SUBSET Cmds
  /\ untold \in Seq(Cmds)
  /\ word \in [Cmds -> Words]
  /\ expired \in SUBSET Cmds
  /\ alive \in BOOLEAN
  /\ wake \in BOOLEAN
  /\ executed \in SUBSET Cmds
  /\ todo \in [Runs -> Seq(Cmds)]
  /\ at \in [Runs -> Phases]
  /\ begun \in [Cmds -> Nat]
  /\ ended \in [Cmds -> Nat]
  /\ crashes \in 0..MaxCrashes
  /\ \A r \in Runs : todo[r] = <<>> => at[r] = "next"

(* However the runs of the lastCommand callback overlap, no command is     *)
(* being executed by two of them (SpinalCommand.execute, bindCommandList). *)
OneExecutor ==
  \A r, s \in Runs :
    /\ at[r] = "executing"
    /\ at[s] = "executing"
    /\ Head(todo[r]) = Head(todo[s])
    => r = s

(* No wake-up is lost inside the agent's process: a listed, still pending  *)
(* command of a local caller is in the snapshot of a run, or the callback  *)
(* that will take the next snapshot is on its way (bindCommandList).       *)
NoLostWakeup ==
  \A c \in Local :
    alive /\ c \in ToSet(list) /\ status[c] = "pending"
    => wake \/ \E r \in Runs : c \in ToSet(todo[r])

(* A command spliced out before the hub had seen it: the next removal      *)
(* meant for it takes whatever the hub has not seen either.                *)
RemovedUnseen(d) ==
  /\ req[d] \in {"waiting", "timedout", "resolved", "rejected"}
  /\ d \notin sent
  /\ d \notin ToSet(list)

(* removeFromGraph takes somebody else's command off the list in one case  *)
(* only.  A command that is waited for and was never begun is listed, or   *)
(* on its way from the hub, until its time is over, unless the hub has not *)
(* seen it and a second removal of another command the hub has not seen    *)
(* can have taken it.                                                      *)
NoSilentDrop ==
  \A c \in Cmds :
    /\ req[c] = "waiting"
    /\ begun[c] = 0
    /\ c \notin ToSet(list) \cup ToSet(untold)
    => \/ c \in expired
       \/ c \notin sent /\ \E d \in Cmds \ {c} : RemovedUnseen(d)

(* No agent, restarted or not, begins a command the hub already knows as   *)
(* begun, finished or timed out (isAvailable, the status written by        *)
(* execute), but one whose caller's clock is ahead, while the hub has not  *)
(* told the agent of its "timeout".                                        *)
HubKnowsNeverBegins ==
  [][\A c \in Cmds : hubStatus[c] # "pending" /\ begun'[c] # begun[c]
       => c \in Ahead /\ word[c] = "hub"]_vars

(* The protocol keeps the promise of CommandContract: one answer, resolved *)
(* only after an execution, and nothing executed after a rejection but     *)
(* what a caller with a clock ahead of the agent's asked for, across       *)
(* crashes of the agent (executeCommand, execute, isNotExpired).           *)
Contract == INSTANCE CommandContract WITH
  Late <- Ahead,
  answer <- [c \in Cmds |-> IF req[c] \in {"resolved", "rejected", "lost"}
                            THEN req[c] ELSE "open"]
ImplementsContract == Contract!Spec

(* A call of executeCommand is answered, or its process dies, whatever the *)
(* agent does or fails to do (the timer of executeCommand), but for a call *)
(* elsewhere whose "timeout" is overwritten by the agent's "in_progress"   *)
(* before the callback has seen it: the timer is spent, and only a final   *)
(* status answers that one.  A command is asked for once and an answer is  *)
(* final: it is enough that there is always a time when no call is open.   *)
EveryRequestAnswered ==
  []<>(\A c \in Cmds : req[c] \notin {"loading", "waiting", "timedout"})

(* If the agent runs and is restarted, a finished command leaves the list, *)
(* even when the agent dies between its final status and its removal       *)
(* (execute, bindCommandList): there is always a time without one.         *)
FinishedLeavesList ==
  AgentFairness =>
    []<>(\A c \in ToSet(list) : status[c] \notin {"completed", "failed"})
=============================================================================
