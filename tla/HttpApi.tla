------------------------------ MODULE HttpApi -------------------------------
(***************************************************************************)
(* The requests of the HTTP API, from Express's middleware through the     *)
(* controller's awaits to the answer, and the commands that some of them   *)
(* wait for: the command protocol by its contract, and the agent's bulk    *)
(* actions on PM2 call by call.                                            *)
(*                                                                         *)
(* An action is the code between two awaits.  What the graph holds is not  *)
(* modelled here: a look-up finds something, finds nothing or fails.       *)
(***************************************************************************)
EXTENDS ApiRoutes, BosGroups

CONSTANTS
  Reqs,         \* bound: the requests ever sent
  Wanted,       \* Wanted[r]: what r may ask for
  Keys,         \* the processes an action is asked for
  Lists,        \* the lists of processes a machine may have
  Late          \* the requests whose command an agent may begin too late

Request == [route : Nat, method : {"GET", "POST"}, path : Seq(STRING),
            token : BOOLEAN,    \* a valid bearer token comes with it
            json : BOOLEAN,     \* its body can be parsed
            args : {"fine", "refused", "range"}]

ASSUME ApiAssumption == Wanted \in [Reqs -> SUBSET Request] /\ Late \subseteq Reqs

(* A request built for a route has its method and a path that fits it.     *)
ASSUME BuiltAssumption ==
  \A r \in Reqs : \A w \in Wanted[r] :
    w.route # 0 => /\ w.route \in DOMAIN Routes
                   /\ Fits(Routes[w.route], w.method, w.path)

(* A machine's processes are nodes of the graph, each of them once.        *)
ASSUME ListsAssumption ==
  \A ps \in Lists : ps \in Seq(ToSet(ps)) /\ \A i, j \in DOMAIN ps : ps[i] = ps[j] => i = j

VARIABLES
  want,         \* want[r]: the request, empty until it is sent
  phase,        \* phase[r]: "idle", "sent", "working", "returned", "answered"
  handler,      \* handler[r]: the number of the route that got it
  todo,         \* todo[r]: what the operation has still to look up or await
  status,       \* status[r]: what setStatus left in r's controller, 0 for nothing
  body,         \* body[r]: what the operation has returned
  code,         \* code[r]: the HTTP status of the answer
  answer, begun, ended,   \* the command of r, see CommandContract
  run,          \* run[r]: where the execution of r's command is
  call,         \* call[r]: the calls it has made and how they ended
  result,       \* result[r]: executionResult, success by key
  connected     \* Pm2Service._isConnected

command == <<answer, begun, ended>>
agent == <<run, call, result, connected>>
vars == <<want, phase, handler, todo, status, body, code, command, agent>>

Contract == INSTANCE CommandContract WITH Cmds <- Reqs

Empty == <<>>
Body(kind) == [kind |-> kind, done |-> {}, failed |-> {}, groups |-> <<>>, list |-> <<>>]
Data  == Body("data")
Error == Body("error")

Init == /\ want = [r \in Reqs |-> Empty]
        /\ phase = [r \in Reqs |-> "idle"]
        /\ handler = [r \in Reqs |-> 0]
        /\ todo = [r \in Reqs |-> <<>>]
        /\ status = [r \in Reqs |-> 0]
        /\ body = [r \in Reqs |-> Error]
        /\ code = [r \in Reqs |-> 0]
        /\ Contract!Init
        /\ run = [r \in Reqs |-> "none"]
        /\ call = [r \in Reqs |-> Empty]
        /\ result = [r \in Reqs |-> Empty]
        /\ connected = FALSE

-----------------------------------------------------------------------------
(* What each operation looks up or awaits, in its order.                   *)
MachinePlans == [swagger |-> <<>>, getHealth |-> <<>>, getAllVirtualMachines |-> <<"machines">>,
                 getVirtualMachine |-> <<"vm">>, getSystemMetrics |-> <<"vm">>,
                 clearCache |-> <<"vm", "command">>]
ListPlans == [op \in {"getApps", "getClassifiedApps", "getAppsByBosName", "getAppsMetrics",
                      "getAppsStatusSummary"} |-> <<"vm", "list">>]
AppPlans == [getAppByKey |-> <<"vm", "process">>, getAppMetricsByKey |-> <<"vm", "process">>,
             getAppLogsByKey |-> <<"vm", "process", "logs">>]
ActionPlans == [op \in {"start", "stop", "restart", "reload", "delete"} |-> <<"vm", "command">>]
ValuePlans  == [pm2Value |-> <<"vm", "process", "endpoint", "content">>,
                vmValue |-> <<"vm", "endpoint", "content">>]
SeriesPlans == [pm2TimeSeries |-> <<"range", "vm", "process", "endpoint", "content">>,
                vmTimeSeries |-> <<"range", "vm", "endpoint", "content">>]
Pm2MaxDayPlan == [pm2MaxDay |-> <<"range", "vm", "process", "name", "endpoint", "content">>]
VmMaxDayPlan  == [vmMaxDay |-> <<"range", "vm", "name", "endpoint", "content">>]
LoginPlan     == [login |-> <<"login">>]

EndpointPlans == ValuePlans @@ SeriesPlans @@ Pm2MaxDayPlan @@ VmMaxDayPlan
Plans == MachinePlans @@ ListPlans @@ AppPlans @@ ActionPlans @@ EndpointPlans @@ LoginPlan

Op(r) == Routes[handler[r]].op
Stage(r) == Head(todo[r])
Working(r) == phase[r] = "working"

(* The endpoint a request that sets a limit is about.                      *)
Figure(r) ==
  LET word == WordAt(Routes[handler[r]], ":endpoint", want[r].path)
  IN IF Op(r) = "pm2MaxDay" THEN Pm2FigureOf(word) ELSE VmFigureOf(word)

(* Bug: one controller serves all requests.                                *)
OneController(r) == CHOOSE q \in Reqs : TRUE

(* Each request gets a controller of its own.                              *)
Controller(r) == r

(* The operation returns, after setStatus(s) unless s is 0.                *)
Return(r, s, b) ==
  /\ phase' = [phase EXCEPT ![r] = "returned"]
  /\ body' = [body EXCEPT ![r] = b]
  /\ status' = IF s = 0 THEN status ELSE [status EXCEPT ![Controller(r)] = s]
  /\ todo' = [todo EXCEPT ![r] = <<>>]

-----------------------------------------------------------------------------
Send(r) == /\ phase[r] = "idle"
           /\ \E w \in Wanted[r] : want' = [want EXCEPT ![r] = w]
           /\ phase' = [phase EXCEPT ![r] = "sent"]
           /\ UNCHANGED <<handler, todo, status, body, code, command, agent>>

(* The status of a request that never gets to an operation, 0 for others:  *)
(* the body's parser, the check of the token, the routes and the           *)
(* validation of the arguments come in this order (runExpressServer).      *)
Refusal(w, i) ==
  IF ~w.json THEN 500
  ELSE IF ~w.token /\ ~Public(w.method, w.path) THEN 401
  ELSE IF i = 0 THEN 404
  ELSE IF Routes[i].args /\ w.args = "refused" THEN 400
  ELSE 0

Receive(r) ==
  LET i == Dispatch(want[r].method, want[r].path)
      refusal == Refusal(want[r], i)
  IN /\ phase[r] = "sent"
     /\ \/ /\ refusal # 0
           /\ phase' = [phase EXCEPT ![r] = "answered"]
           /\ code' = [code EXCEPT ![r] = refusal]
           /\ UNCHANGED <<handler, todo, body>>
        \/ /\ refusal = 0
           /\ handler' = [handler EXCEPT ![r] = i]
           /\ todo' = [todo EXCEPT ![r] = Plans[Routes[i].op]]
           /\ phase' = [phase EXCEPT ![r] = IF todo'[r] = <<>> THEN "returned" ELSE "working"]
           /\ body' = [body EXCEPT ![r] = IF todo'[r] = <<>> THEN Data ELSE @]
           /\ UNCHANGED code
     /\ UNCHANGED <<want, status, command, agent>>

(* apiHandler goes on when the operation's promise has been resolved, with *)
(* the status that the controller has by then; what has been sent is gone. *)
Answers(r) ==
  /\ phase[r] = "returned"
  /\ phase' = [phase EXCEPT ![r] = "answered"]
  /\ code' = [code EXCEPT ![r] =
       IF status[Controller(r)] = 0 THEN 200 ELSE status[Controller(r)]]
  /\ body' = [body EXCEPT ![r].groups = <<>>, ![r].list = <<>>]
  /\ UNCHANGED <<want, handler, todo, status, command, agent>>

-----------------------------------------------------------------------------
(* The look-ups.                                                           *)
OkStatus(op) == IF op \in DOMAIN (EndpointPlans @@ LoginPlan) THEN 0 ELSE 200

(* Groups have no "key", so no BOS is ever found by its name.              *)
NamesBos(r) == Op(r) = "getAppsByBosName" /\ Stage(r) = "list"

Known(r) == CASE Stage(r) = "range" -> want[r].args # "range"
              [] Stage(r) = "name"  -> Figure(r) # "none"
              [] OTHER              -> ~NamesBos(r)

Finds(r) ==
  /\ Stage(r) # "command"
  /\ Known(r)
  /\ IF Len(todo[r]) > 1
       THEN todo' = [todo EXCEPT ![r] = Tail(@)] /\ UNCHANGED <<phase, status, body>>
       ELSE \/ Op(r) # "getClassifiedApps" /\ Return(r, OkStatus(Op(r)), Data)
            \/ /\ Op(r) = "getClassifiedApps"
               /\ \E ps \in Lists : Return(r, 200, [Data EXCEPT !.groups = Classify(ps), !.list = ps])

(* The status when nothing is found.  Most operations throw when there is  *)
(* no machine, the actions after they have set 404, and catch it as 500.   *)
MissingStatus(r) ==
  CASE Stage(r) = "vm" /\ Op(r) \in {"clearCache"} \cup DOMAIN EndpointPlans -> 404
    [] Stage(r) \in {"process", "logs", "endpoint"} -> 404
    [] Stage(r) \in {"range", "name"} -> 400
    [] Stage(r) = "login" -> 401
    [] OTHER -> 500

Misses(r) ==
  /\ \/ Stage(r) \in {"vm", "process", "logs", "endpoint", "login"}
     \/ ~Known(r)
  /\ Return(r, MissingStatus(r), Error)

(* Every operation catches what its look-ups throw; getPm2ProcessLogsByKey *)
(* and updateEndpointMaxDay do so themselves, and what login throws goes   *)
(* to the error handler.                                                   *)
Throws(r) ==
  /\ Stage(r) \in {"machines", "vm", "list", "process", "endpoint", "content", "login"}
  /\ Stage(r) = "content" => Op(r) \notin DOMAIN (Pm2MaxDayPlan @@ VmMaxDayPlan)
  /\ Return(r, 500, Error)

LooksUp(r) ==
  /\ Working(r)
  /\ Finds(r) \/ Misses(r) \/ Throws(r)
  /\ UNCHANGED <<want, handler, code, command, agent>>

-----------------------------------------------------------------------------
(* A command, from its caller's side and from the agent's.                 *)
Waits(r) == Working(r) /\ Stage(r) = "command"

(* partitionResults                                                        *)
Partition(results) ==
  [Data EXCEPT !.done = {k \in DOMAIN results : results[k]},
               !.failed = {k \in DOMAIN results : ~results[k]}]

Resolved(r) ==
  /\ Waits(r)
  /\ Contract!Resolve(r)
  /\ Return(r, 200, Partition(result[r]))
  /\ UNCHANGED <<want, handler, code, agent>>

(* Bug: the timer stands still while the command is executed.              *)
RejectedUnlessBegun(r) ==
  /\ Waits(r) /\ begun[r] = 0
  /\ Contract!Reject(r)
  /\ Return(r, 400, Error)
  /\ UNCHANGED <<want, handler, code, agent>>

(* The timer, or the command could not be put on the list.                 *)
Rejected(r) ==
  /\ Waits(r)
  /\ Contract!Reject(r)
  /\ Return(r, 400, Error)
  /\ UNCHANGED <<want, handler, code, agent>>

Agent(r) == UNCHANGED <<want, phase, handler, todo, status, body, code>>

(* SpinalCommand.execute, while the caller waits or, for one in Late, when *)
(* it has given up.  Bound: one execution of each command.                 *)
Begins(r) ==
  /\ Waits(r) \/ answer[r] = "rejected"
  /\ begun[r] = 0
  /\ Contract!Begin(r)
  /\ IF Op(r) = "clearCache"
       THEN run' = [run EXCEPT ![r] = "syncing"] /\ call' = [call EXCEPT ![r] = [sync |-> "out"]]
       ELSE run' = [run EXCEPT ![r] = "connecting"] /\ UNCHANGED call
  /\ UNCHANGED <<result, connected>> /\ Agent(r)

(* All calls are made at once; a connection, once made, counts as kept.    *)
Connects(r) ==
  /\ run[r] = "connecting"
  /\ run' = [run EXCEPT ![r] = "calling"]
  /\ call' = [call EXCEPT ![r] = [k \in Keys |-> "out"]]
  /\ connected' = TRUE
  /\ UNCHANGED <<result, command>> /\ Agent(r)

(* PM2 or the system answers, perhaps long after the results are out.      *)
CallEnds(r) ==
  /\ \E k \in DOMAIN call[r], end \in {"done", "refused"} :
       call[r][k] = "out" /\ call' = [call EXCEPT ![r][k] = end]
  /\ UNCHANGED <<run, result, connected, command>> /\ Agent(r)

(* clearLinuxPageCache: sysctl after sync.                                 *)
Clears(r) ==
  /\ run[r] = "syncing"
  /\ call[r].sync = "done"
  /\ run' = [run EXCEPT ![r] = "clearing"]
  /\ call' = [call EXCEPT ![r] = [sync |-> "done", sysctl |-> "out"]]
  /\ UNCHANGED <<result, connected, command>> /\ Agent(r)

(* executionResult and then the final status are set.                      *)
Ends(r, keys, success) ==
  /\ Contract!End(r)
  /\ run' = [run EXCEPT ![r] = "ended"]
  /\ result' = [result EXCEPT ![r] = [k \in keys |-> success]]
  /\ UNCHANGED <<call, connected>> /\ Agent(r)

(* Bug: the promises of the calls are not awaited.                         *)
BulkUnawaited(r) ==
  \/ run[r] = "connecting" /\ ~connected /\ Ends(r, Keys, FALSE)
  \/ run[r] = "calling" /\ Ends(r, Keys, TRUE)

(* _executePm2BulkAction: when PM2 cannot be connected to, or as soon as   *)
(* one call is refused, all keys are reported as failed.                   *)
Bulk(r) ==
  \/ run[r] = "connecting" /\ ~connected /\ Ends(r, Keys, FALSE)
  \/ /\ run[r] = "calling"
     /\ \A k \in Keys : call[r][k] = "done"
     /\ Ends(r, Keys, TRUE)
  \/ /\ run[r] = "calling"
     /\ \E k \in Keys : call[r][k] = "refused"
     /\ Ends(r, Keys, FALSE)

(* executeAdminAction: what execFile throws makes the command fail.        *)
Cleared(r) ==
  \/ run[r] = "clearing" /\ call[r].sysctl = "done" /\ Ends(r, {"sysctl"}, TRUE)
  \/ /\ run[r] \in {"syncing", "clearing"}
     /\ \E k \in DOMAIN call[r] : call[r][k] = "refused"
     /\ Ends(r, {"sysctl"}, FALSE)

Executes(r) == Begins(r) \/ Connects(r) \/ CallEnds(r) \/ Clears(r) \/ Bulk(r) \/ Cleared(r)

Serves(r) == Receive(r) \/ LooksUp(r) \/ Resolved(r) \/ Rejected(r) \/ Answers(r)

Next == \E r \in Reqs : Send(r) \/ Serves(r) \/ Executes(r)

Spec == Init /\ [][Next]_vars

(* The hub answers a look-up or it fails, timers fire and continuations    *)
(* run, so that what is in progress goes on.  No agent need ever take a    *)
(* command up.                                                             *)
FairSpec == Spec /\ WF_vars(\E r \in Reqs : Serves(r))

-----------------------------------------------------------------------------
(* The variables keep their types: requests are those that were wanted,    *)
(* handlers are routes, and the statuses are the API's.                    *)
TypeOK ==
  /\ DOMAIN want = Reqs
  /\ \A r \in Reqs : want[r] = Empty \/ want[r] \in Wanted[r]
  /\ phase \in [Reqs -> {"idle", "sent", "working", "returned", "answered"}]
  /\ handler \in [Reqs -> {0} \cup 1..Len(Routes)]
  /\ status \in [Reqs -> {0, 200, 400, 401, 404, 500}]
  /\ code \in [Reqs -> {0, 200, 400, 401, 404, 500}]
  /\ Contract!TypeOK
  /\ run \in [Reqs -> {"none", "connecting", "calling", "syncing", "clearing", "ended"}]
  /\ connected \in BOOLEAN

(* ServerExpress.ts, SpinalApiMiddleware.ts: what is asked for is what is  *)
(* done: a request built for a route, with words that stand for nothing    *)
(* else in the table, gets to the operation of that route, whatever other  *)
(* routes its path fits, and only with a token unless the route is public. *)
RightOperation ==
  \A r \in Reqs :
    want[r] # Empty /\ handler[r] # 0 =>
      /\ want[r].token \/ Op(r) \in {"swagger", "getHealth", "login"}
      /\ LET built == Routes[want[r].route]
             words == {want[r].path[i] : i \in {j \in DOMAIN built.path : built.path[j] \in Params}}
         IN want[r].route # 0 /\ words \cap Reserved = {}
              => Routes[handler[r]] = built

(* A caller tells by the status whether it got what it asked for (the      *)
(* responses of the controllers): 200 goes with data and nothing else      *)
(* does, however the awaits of two requests interleave.                    *)
StatusFitsAnswer ==
  \A r \in Reqs : phase[r] = "answered" => (code[r] = 200 <=> body[r].kind = "data")

(* partitionResults of _executePm2BulkAction: a process that is reported   *)
(* as started, stopped and so on has been, and every one is reported.      *)
ReportedIsDone ==
  \A r \in Reqs :
    begun[r] # 0 /\ body[r].kind = "data" =>
      /\ \A k \in body[r].done : call[r][k] = "done"
      /\ body[r].done \cup body[r].failed = IF Op(r) = "clearCache" THEN {"sysctl"} ELSE Keys

(* getPm2ProcessClassifiedByBos answers with the groups of the definition, *)
(* in whatever order the processes come.                                   *)
GroupsAreBos ==
  \A r \in Reqs :
    body[r].list # <<>> => AreBos(body[r].groups, ToSet(body[r].list))

(* Every request is answered, also when no agent executes its command: of  *)
(* the finitely many, there is always a time when none is in progress.  A  *)
(* timer that has fired is taken to be heard: the contract knows nothing   *)
(* of the "timeout" that an agent overwrites, see CommandQueue.            *)
RequestsAreAnswered == []<>(\A r \in Reqs : phase[r] \in {"idle", "answered"})
=============================================================================
