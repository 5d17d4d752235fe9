# spinal-agent-monitoring: TLA+ models and proofs

The agent runs on a virtual machine beside PM2. It keeps a picture of the machine and of PM2's processes in a graph that lives in a SpinalHub, executes commands that others put into that graph, pushes metrics to a Zabbix server, follows the processes' logs, and serves an HTTP API; a host application may serve the same API and a WebSocket hub for several machines (`lib/index.ts`). The code is under `src/src`; references below are relative to it.

Contents: [the system](#the-system) · [the modules](#the-modules) · [what the runs show](#what-the-runs-show) · [what is proved](#what-is-proved) · [findings](#findings) · [abstractions and assumptions](#abstractions-and-assumptions) · [what is not modelled](#what-is-not-modelled) · [plan](#plan)

To check: `tlc -config <run>.cfg MC<Module>.tla` for a run, `tlapm <Module>Proofs.tla` for the proofs.

## The system

One Node.js process: JavaScript runs to the next `await` without being interrupted, so what can interleave are the stretches between awaits, the callbacks of the hub's models, the events of PM2's bus, timers, and the end of the process. Around it are PM2 (its list of processes and its bus, over two different sockets), the hub (a store of models that the agent holds a replica of; changes go there in batches, later), files, a Zabbix server, and clients.

| Component | State | Operations | Talks to | What makes it correct |
|---|---|---|---|---|
| Command protocol (`GraphService.executeCommand`, `SpinalCommand`, `bindCommandList`) | list `pm2_commands`, `lastCommand`, a status per command, `commandExecuted` in memory, the caller's timer | request, push, wake, execute, discard, remove, time out | callers in this process or elsewhere, hub, PM2 | one execution at a time, no lost wake-up, one answer, nothing executed after a rejection (unless the caller's clock is ahead of the agent's), nobody else's command removed, a finished command leaves the list |
| Process graph (`GraphService.registerVirtualMachine`, `handlePm2Event`, `_syncPm2Processes`) | a node per process, debounced handlers | register, add, rename, remove, update | PM2's list and bus, hub | one node per process, of the right name; none for a process that is gone |
| PM2 log watchers (`Pm2Service.watchPm2Logs`) | map of watchers, sync timer, callback | watch, stop, debounced sync | PM2's list and bus, file system | the map holds live watchers only, none leaks, the logs of running processes are watched |
| PM2 log copy (`_createLogWatcher`, `updatePm2LogFileContent`, `initializeOrRetrievePm2LogsNodes`) | a watcher in the making, a content under way per change, the log nodes of a process | read the file, then watch it, read again at a change, find or make the log node, upload; a request for the copy makes the node too | log file, hub, HTTP API | the last content reaches the node that readers find, and stays there when handlings do not overlap |
| Zabbix sender (`ZabbixSenderService`) | interval, queue, `isFlushing` | start, stop, push, flush | Zabbix server, PM2 | one flusher, order, nothing stuck, every interval can be stopped |
| Start-up, users and tokens (`index.ts`, `ConfigFileService`, `UserService`, `AuthController`, `SpinalApiMiddleware`) | graph and users in the hub, `.env`, `.admin.log`, secret | load or make the graph, find or make secret and administrator, log in, check a token | hub, files, clients | one administrator whose password is on file, tokens and passwords that outlive restarts, a start-up that ends |
| Periodic metrics update (`startPeriodicMetricsUpdate`) | next time | one update after the other | system overview, PM2, endpoints | updates do not overlap, and endpoints end up showing their figures |
| Endpoints (`EndpointService`, `networkService`) | endpoints and time series below a node | update or create, limit | registration, periodic update, event handlers, clients | one endpoint per name, a limit for every series |
| WebSocket hub (`webSocketMiddleware`) | clients per type, started senders, log streams and file watchers | subscribe, send at intervals, hand on PM2's events, stream a log | clients, PM2, log file | no event comes twice, every subscriber gets what it asked for, who follows a log gets all its lines |
| HTTP controllers (`MonitoringController`, `EndpointController`, `AuthController`) | a status per request | look up, command, answer | graph, callers' side of the command protocol | the status fits the answer, and every request gets one |
| Routes and middleware (`routes.ts`, `ServerExpress.ts`, `SpinalApiMiddleware.ts`) | none | parse, check the token, find the route, validate | clients, controllers | what was asked for is what is done |
| PM2 bulk actions (`Pm2Service._executePm2BulkAction`) | connection to PM2, results of a command | start, stop, restart, reload, delete | PM2, command protocol | what is reported as done was done, and every process is reported |
| BOS classification (`getPm2ProcessClassifiedByBos`) | none | grouping in one pass | controllers | the groups partition the processes, in whatever order they come |
| System overview (`SystemOverviewService`) | page cache of the machine | read figures, clear the cache | operating system, command protocol | the cache counts as cleared when both steps have succeeded |

The hard behaviours are: overlapping runs of one callback (commands, log syncs, event handlers, pushes), snapshots that are used after an await, wake-ups that come as one, timers that race with answers, answers of PM2 that overtake its events, requests that meet at their awaits, calls that go on after their result is out, streams that read a file while it grows, and processes that die between two writes. `PROJECT.json` lists each under "hazards", with its line and the properties that cover it.

## The modules

| Component | Contract | Model | Instances | Proofs |
|---|---|---|---|---|
| Command protocol | `CommandContract` | `CommandQueue` | `MCCommandQueue` | `CommandQueueProofs` |
| Zabbix sender | `LossyFifo` | `ZabbixSender` | `MCZabbixSender` | `ZabbixSenderProofs` |
| PM2 log watchers | | `LogWatchers` | `MCLogWatchers` | `LogWatchersProofs` |
| Process graph | | `ProcessGraph` | `MCProcessGraph` | `ProcessGraphProofs` |
| Periodic update, endpoints | | `EndpointStore` | `MCEndpointStore` | `EndpointStoreProofs` |
| Start-up, users, tokens | | `AdminAccess` | `MCAdminAccess` | `AdminAccessProofs` |
| HTTP API, bulk actions, BOS classification | `CommandContract` | `ApiRoutes`, `BosGroups`, `HttpApi` | `MCHttpApi` | `HttpApiProofs` |
| WebSocket hub, PM2 log copy | | `LogMirror`, `WebSocketHub` | `MCWebSocketHub` | `WebSocketHubProofs` |

An action is the code between two awaits, or the body of one callback. `PROJECT.json` "map" gives the lines of every definition. The definitions marked `Bug:` belong to no specification: each is a definition of the module with a plausible mistake in it, kept to show that the properties notice it.

**CommandQueue.** There are three kinds of replica: the agent's (`status`, `list`), which callers in its process (`Local`) share, the hub's (`hubStatus`, `hubList`), and that of each caller elsewhere (`View`). `Create`, `Push`, `TimerFires` and `Answer` are the four pieces of `executeCommand` (the constructor, the loaded list, the timer, the status callback), `req[c]` is which of them comes next. A push elsewhere is `untold` until the hub tells the agent (`TellPush`). A timer sets "timeout" where it runs (`SetTimeout`): elsewhere in the caller's replica, which sends it to the hub (`SendTimeout`), which tells the agent (`TellTimeout`), and `word[c]` is how far it has got; what the agent did may replace it on the way (`Overtake`). Where a caller's clock is ahead of the agent's (`Ahead`), its timer may fire before the agent counts the command as expired.

`Wake` is the callback of `lastCommand`, which takes a snapshot into `todo[r]`; `TakeNext` is one turn of its loop, up to the PM2 call (`Begin`) or the removal (`Discard`); `Finish` sets the final status; `Removed` is `removeFromGraph`, which compares server ids (`SameId`): two commands that the hub has not seen (not in `sent`) have none and count as the same. `Sync` sends the agent's changes to the hub, `Crash` and `Start` lose `commandExecuted` and take the hub's copy. *CommandContract* is the promise without list, runs, replicas and timers; of the commands in its `Late` an execution may begin after the rejection, and `CommandQueue` implements it with `Late <- Ahead`.

**ZabbixSender.** A push goes through `BeginPush` (metrics read, PM2 asked), `Built` (queued, and flushing begun if `isFlushing` is free) and `SendOk` or `SendFails`, which go on with the queue or end the flush. `StartPeriodicPush` reads `intervalHandle` before its await, `StartReturns` sets the interval after it; `Tick` is the interval, `StopPeriodicPush` clears it. *LossyFifo* is the promise of the queue: the head is accepted or lost, and no other.

**LogWatchers.** `BusEvent` and `TimerFires` are the debounce, `Answers` is PM2's list (an error counts as an empty list), `Proceed` the loop of `_syncPm2LogWatchers` up to its next await, `Creates` and `WatchThrows` what comes after it (the initial read and what is handed on by it are the matter of `LogMirror`), `Prune` the closing of unwanted watchers. `StopWatchingPm2Logs` may cross a sync. `overlapped` remembers that two syncs met, and `Calms` is the point after which no call fails: the properties say what holds until the one and after the other.

**LogMirror.** A content is the number of changes the log has seen. A sync makes the watcher in two steps (`Starts`, `InitialRead` or `InitialFails`, then `Watches`): the file is read and its content handed on, and only after the await is `fs.watch` called, so that a change between the two is told to nobody. `Change` is a notification of `fs.watch` (which may stand for several changes), `ReadEnds` the read of the whole file, `Looks`, `Makes` and `Adds` are `initializeOrRetrievePm2LogsNodes` with its awaits: the process's log nodes are looked up, the file is read once more for a new node, and the node is added. `Uploaded` writes the content into the node that was found or made. `CopyRequested` is `GET .../logs`, which makes the node as well. Handlings overlap in any way. One may give up without an upload (`GivesUp`: its read or upload fails and is only logged, or the process has no node); one whose look-up or new node fails ends the agent (`AgentDies`), since nobody handles what the callback rejects, and the restarted one makes its watcher anew. `missed` remembers the newest content that was not told or was given up, `overlapped` that two handlings have met: the properties are about the rest.

**WebSocketHub** extends `LogMirror`, since a client that streams a log and the agent that copies it read one file. `subscribed` is `clientsClassifiedByType`, `started` the three flags. `AskMetrics`, `AskEvents`, `AskLog` and `AskPushes` are the branches of `treatClientMessage`; `Launch` is the connection to PM2's bus, `Event` and `Handled` are the callback with its look-up and what is sent after it; `due[e]` remembers who was subscribed when the bus told `e`. `Found` opens a stream of the file, `ReadsOn` and `ReadsAll` are its progress, `Poll` is `fs.watchFile`, which opens another stream for every difference (`ReadsTail`), from the end of the request's first one. `Dies` is an exception that ends the host.

**ProcessGraph.** PM2 makes, restarts, reconfigures and deletes processes and publishes events while the agent listens. `Starts` to `Listens` are the registration, which walks the list like a handler does and then removes what is not listed. `Deliver`, `Answers`, `Arrives` are `subscribeToPm2EventStream`, which asks PM2 to describe a process only for `process:event`; `Latest` and `Fires` are the debounce; `Looks`, `Removes`, `Adds`, `Updates` are `handlePm2Event` with its awaits. `Throws` is the exception nobody catches.

**EndpointStore.** A figure is what one endpoint shows; `endpoints[f]` counts the endpoints made for it, of which only the first is ever found again. The main flow is a writer, and so is each handler of an event; `pass[w][f]` is where a writer is with a figure: its parent's children are being read, a node is being added, a model updated, or (registration only) the limit of the series set. `Lists`, `MachineDone` and `RoundDone` are the registration and, after it, each turn of `startPeriodicMetricsUpdate`; `Handles` is `updateOrCreatePm2Process` for an event; `Finds`, `Adds`, `Updates` and `LimitsIt` are the stretches between the awaits of `updateOrCreateEndpoint` and `_updateMaxDayIfInit`. The status of a process goes by way of its node's `info`, which rounds do not write. `Fails` is a registration that `main` catches; a round or a handler that throws ends Node.js, since `main` does not await the loop and nobody handles its rejection, and so is a case of `Dies`.

**AdminAccess.** `phase` is where `main` is: `Start` reads the environment, `Load` and `Stored` get the graph, `ReadSecret` and `PersistSecret` the secret (the file is emptied, then filled), `GetUsers`, `CheckAdmin`, `WritePassword` and `AdminStored` the administrator, and then the server is up and `Login` works. `Crash` may come anywhere; `StepFails` is a refused graph or an unwritable file, which `main` catches: the process lives on without a server until the operator restarts it. `Repair` and `RemoveFile` are the operator's.

**ApiRoutes** is the table of `routes.ts` in its order, with what Express makes of it (`Dispatch`: the first route that fits), and `Public`. **BosGroups** is the one pass over the processes as a recursive function of how many have been placed (`Classify`), beside a definition of the groups (`AreBos`) that does not know of any order: processes of one name, or without a name and behind one connection.

**HttpApi.** `phase[r]` is where a request is: `Receive` is Express with its middlewares up to the operation, `handler[r]` the route that got it, `todo[r]` what the operation has still to look up or await (`Plans`, one per operation, in the code's order). `LooksUp` is one of these awaits, which finds something, finds nothing (`Misses`) or fails (`Throws`), each with the status the operation sets and the one that a later catch sets instead; `Answers` is tsoa's handler, which takes the status from the controller after the operation's promise is resolved. A request for a command waits for it as a caller (`Resolved`, `Rejected`), and `Begins` to `Ends` are the agent's side. `answer`, `begun` and `ended` are the variables of `CommandContract`, whose actions are used as they are: `HttpApi` takes the contract for granted, and that the protocol keeps it is `CommandQueue`'s theorem `Refinement`. The requests in `Late` are those whose command an agent may begin after they were answered. `Connects`, `CallEnds` and `Bulk` are `_executePm2BulkAction`, call by call; `Clears` and `Cleared` are `executeAdminAction`.

## What the runs show

| Run | Instance | Shows |
|---|---|---|
| `CommandQueue_calls` | two callers in the agent's process with two overlapping runs; one there and one elsewhere with a crash; or one elsewhere whose clock is ahead, with two runs and a crash; 513 thousand states | `OneExecutor`, `NoLostWakeup`, `NoSilentDrop` and `HubKnowsNeverBegins` with the exceptions they name, the module implements `CommandContract`, `EveryRequestAnswered` with the callers' fairness alone, `FinishedLeavesList` with the agent's as well |
| `ZabbixSender_agent` | one caller that starts and stops, three overlapping pushes, four batches, two intervals; 11 thousand states | `OneFlusher`, `IdleQueueMeansFailure`, `NoOrphanInterval`, the order of `LossyFifo`, and `QueuedIsSent` |
| `ZabbixSender_retries` | one caller, sends that fail | finding 1 |
| `LogWatchers_syncs` | two logs, two syncs that may overlap, failures until they end, watching that stops and starts; 170 thousand states | `MapIsAlive`, `NoLeak`, `CalmStaysWatched`, `CalmIsClosed` |
| `LogWatchers_overlap` | two overlapping syncs, as in the agent | finding 2 |
| `ProcessGraph_safety` | two processes, one of them slow; crashes, failures; 2.4 million states | `OneNodePerProcess`, `RemovalFindsNode` for the other process |
| `ProcessGraph_events` | one process with two names, crashes, answers in order; 25 thousand states | `LivingHasNode`, `DeletedLeavesGraph`, `RestartForgets` |
| `ProcessGraph_overtaken` | answers that events overtake | finding 3 |
| `EndpointStore_rounds` | a figure of the machine, a status of a process, two values, one handler beside the main flow, failures and ends of the agent until they cease; 611 thousand states | `OneMachineEndpoint`, `RegisteredLimited`, `RegisteredNotDoubled`, `ValuesSettle` |
| `AdminAccess_restarts` | three crashes anywhere, failing steps, three passwords, two secrets; 1 016 states | `OneAdmin`, `PasswordIsAdmins`, `TokensStayValid`, `LoginsStayValid`, `FailsForAReason`, `ComesUp` |
| `HttpApi_requests` | a request for anything (every route, words that are figures and words that are not, a process named like a route, refused arguments, no token, broken JSON, a route that does not exist) beside one that starts processes or reads one; two keys, lists of up to three processes of five kinds; 211 thousand states | `RightOperation`, `StatusFitsAnswer`, `ReportedIsDone`, `GroupsAreBos`, `RequestsAreAnswered` |
| `WebSocketHub_clients` | two clients that subscribe and leave, two events, or two requests for a log that grows three times, or the agent's mirror of it, with two overlapping handlings, one request for the copy and one death; 357 thousand states | `EventOnce`, `MessagesArrive`, `LogReachesSubscriber`, `LogIsMirrored` |

The type invariants are not run: TLAPS proves each module's `TypeOK` for all values of the constants, and so also `ChosenIsKept`. Each property of a passing run is violated when the definition that `PROJECT.json` "mutants" names is replaced by its `Bug:`.

**Why the bounds are enough.** Two commands are the least for one to be removed while, or instead of, the other; callers are in the agent's process, elsewhere, or elsewhere with a clock ahead, and which of them ask, how many runs may be in progress and whether a crash may come is a `plan` of the behaviour: two runs are the least that overlap, and a plan with one run loses no liveness, since an agent that goes on always ends it; one crash gives a restarted agent with what its predecessor left (the safety theorems hold for any number of all of these). Three pushes let one flush, one build and one begin; four batches let the queue grow beyond one. Two syncs and two logs let a sync prune what the other makes; one watcher more than a log needs lets a log have two. Two processes let a slow one disturb another; `SlowKeepsName` gives the slow one a single name, since renaming is exercised by the other. One handler and the main flow are the least that meet; a figure of the machine and one of a process are the two kinds of parent, and a status is the figure with the longer way; any number of ends of the agent is allowed. Three ends of the process let a start-up be cut, its successor be cut elsewhere, and a serving agent be restarted. Two requests meet at any of their awaits, and a third would meet each of them the same way; three processes are the least for which the order of a list could matter to its groups. Two clients are one that makes the sender start and one that comes while it does; two requests for a log give two streams and two watchers; three changes of it fall before, during and after a stream. Two handlings of a log overlap in every way at which a content can be overtaken or a node doubled, and a slot that is free again serves the next change; one request for the copy is enough, since a later one finds the node; one death gives a new watcher with what the first one left. What cannot disturb each other is not mixed: `uses` chooses, per behaviour, events beside metrics, both metrics beside pushes, a streamed log, or a copied one. The theorems hold for any of these numbers. Deadlock is not checked where the system may rest: all commands settled and no more crashes allowed, all requests answered, a log nobody writes, or a host that died.

**Fairness.** Callers: their timers fire, awaited loads return, callbacks of a live process come. The agent: Node.js runs what is ready, PM2 and the hub answer, changes are sent, pm2 starts a process that died. Zabbix: intervals fire while they live, a send ends (the socket has a timeout). Logs and processes: events arrive, the debounce fires, that is, a second without events of the process comes now and then. Endpoints: Node.js runs what is ready, the hub and PM2 answer, the pause between rounds ends; no handler need come. The start-up: as the agent; the operator need not do anything, which is why `ComesUp` also accepts a start-up that failed. HTTP: the hub answers a look-up or it fails, timers fire, continuations run; no agent need ever take a command up, and PM2 need not answer. WebSocket: PM2 answers, intervals and polls fire, streams read; the agent's handlings go on, and no failure need come. Nobody is ever forced to request, change or delete anything, and no crash is forced.

`ZabbixSender_agent` has the one caller the agent has. With two callers both can find no interval and set one, and the first is out of `stopPeriodicPush`'s reach; nothing in the code promises otherwise, so it is a remark here and the theorem `NoIntervalIsLost` names its assumption.

## What is proved

All theorems hold for every value of the constants that the modules' named assumptions allow. `CommandAssumption`, `SenderAssumption`, `WatchersAssumption`, `GraphAssumption`, `EndpointAssumption`, `AccessAssumption`, `ApiAssumption`, `HubAssumption` and `MirrorAssumption` say that model values are distinct (`None` is no process, no name and no event), that some sets are parts of others, and that bounds are numbers. Two say what the inputs are: `BuiltAssumption`, that a request said to be built for a route has its method and fits its path (that is what "built for" means; requests built for no route are free), and `ListsAssumption`, that a machine's processes are distinct (each is a node of the graph, and the list has each node once).

A theorem is of the form `Spec => []P`, `Spec => [][A]_vars`, or a refinement `Spec => Other!Spec`, shown by an invariant that every action keeps. Every safety property of the passing runs has one. Liveness is out of the prover's reach, but most of what makes it true is not: an action property or invariant that says that what has to happen is never lost on its way, and is there when nothing is on its way any more. Below these are called *cores*; with the fairness that the run assumes, TLC checks the rest.

**CommandQueueProofs.** `TypeCorrect`, `AlwaysOneExecutor`, `NeverLosesWakeup`, `HubIsBelieved`, `NothingIsDropped`, `NothingBegunStays`, `Refinement`. `OneExecutor` is not inductive: that a run executes a command must have marked it (`Marked`), and a marked command must no longer be pending, so that no other run begins it; after a crash, `DeadIsClean` says nothing is left of either. `HubBehind` makes the hub's word binding for an agent, also a restarted one: of what is pending for the agent the hub knows no more than a "timeout" it has not told the agent of (`Said`: only callers elsewhere say it). Then a command that the hub has as begun, finished or timed out is begun only if it has expired for its caller and not for the agent, which is the exception that `HubIsBelieved` makes.

`Refinement` needs three more parts: `Counted` (an execution ends at most as often as it began), `FinalIsEarned` (a final status, in whichever replica, comes from an execution, so a resolved caller was served) and `RejectedIsOver` (what timed out has expired, unless its caller's clock is ahead, so nothing begins it). `ListedOnce` is what makes a wake-up enough: a command is on the list once, or on its way there.

`removeFromGraph` takes the first entry whose id is equal, and ids that are both undefined are equal. `RemovedTakes` says what it takes: the command in hand, or, when that is not listed any more and the hub has not seen it, another one that the hub has not seen. That the command in hand is never passed over for an earlier one needs `InOrder`: of commands the hub has not seen, what is listed first comes first in every snapshot. `NothingIsDropped` follows: a command is *over* when its caller has an answer, it has begun, or its time has expired; `DropInv` says that whatever is no longer pending, marked, or being removed is over (`MarksOver`), and that what is waited for and listed nowhere is over or was `Taken` by a second removal of another unseen command (`UnlistedOver`). The code does drop such a command; the theorem says that this is the only way.

`NothingBegunStays` is the core of `FinishedLeavesList`: an agent at rest (no wake-up and no run in progress) has nothing of its own callers on the list, nothing it or a predecessor has begun, and nothing final. `Attended` says that a live agent owes itself a wake-up or a run for whatever is its own, begun or final; `Untouched`, that a command nobody has pushed yet is in no snapshot; `Seen`, what the hub has seen, and that what it has not seen dies with the process that asked for it.

**ZabbixSenderProofs.** `TypeCorrect`, `AlwaysOneFlusher`, `WaitsOnlyAfterFailure`, `FirstInFirstOut` for any number of callers; `NoIntervalIsLost` for at most one. The invariant is the three properties and `BuiltIsNew`, that a batch being built is in no queue, which the refinement needs to put it behind the others once.

**LogWatchersProofs.** `TypeCorrect` and `MapStaysAlive` for any number of overlapping syncs; `NeverLeaks` up to the first overlap, with the strengthening that at most one sync is in progress and that the log it is creating is in no map yet. `SyncsAreExact` is the core of `CalmStaysWatched` and `CalmIsClosed`: the end of a sync leaves one live watcher for each process it was told of and none for others, whatever syncs that failed half-way left before; it needs that the logs a sync has passed are in the map (`PassedAreWatched`), and holds until syncs overlap and in an agent that never stops watching.

**ProcessGraphProofs.** `TypeCorrect`, `AlwaysOneNode`, `RemovalNeverThrows` for any set of processes of which any subset is slow. Whoever adds a node must know that the process has none (`AddingHasNone`), which rests on there being one handler for it (`OneHandlerEach`), on the registration having finished before handlers begin (`PrunesAlone`), and on a handler about to remove a node holding the only one (`HoldsOwn`).

`RegistrationIsExact` is the core of `RestartForgets`: at the moment an agent begins to listen, its graph is PM2's list, one node of the right name for each process and none for others; while it prunes, what it keeps is the list's and no listed process loses its node (`Pruning`). `EventsReachGraph` is the core of `LivingHasNode` and `DeletedLeavesGraph`: from an event of a process on, or from a registration that had it as it is, PM2's latest word of it is the last of its events on the bus (`BusTells`), or is asked for (`Asking`), or waits for its debounce, is in the handler, or is in the graph (`Handled`), while no answer that is out of date is left (`Heard`). When nothing of the process is on its way the graph agrees with PM2. Both are for processes whose handlers do not overlap; `EventsReachGraph` also for answers in order and calls that do not fail, without which finding 3 and a lost event refute it.

**EndpointStoreProofs.** `TypeCorrect`, `AlwaysOneMachineEndpoint`, `AlwaysLimited`, `NeverDoubled`, `ChosenStays` for any figures, processes, values and number of handlers. That types are kept already needs `KnownRun` and `Informing` (what a round hands on is known, though a node's `info` is empty after a restart). `MachineAlone`: no handler has a pass for a figure of the machine, and the main flow adds only where there is none, in the hub as well. `FoundExist`: what is updated or limited is there, and only the registration limits. `CoveredLast`: of the parents the registration has begun, each figure is either still in its hands or has an endpoint with a limit, and once it has ended nobody is adding one of these; so no later pass ever finds them missing.

`FiguresArrive` is the core of `ValuesSettle`. `Settling`: nobody works for the figure with an older value (`Current`), and its endpoint shows it or somebody is on the way to write it (`Reached`). A round that begins when no handler holds an older value makes it so, and it stays so as long as the figure stays, the agent lives and the process has a node, whatever rounds and handlers do; when they rest, the endpoint shows the figure. Who adds an endpoint beside one that another has added does not count as writing it (`Writes`), since that one is never found again.

**AdminAccessProofs.** `TypeCorrect`, `AlwaysOneAdmin`, `PasswordOnFile`, `TokensSurvive`, `LoginsSurvive`, `NeverFailsOnRemains`. `HubBehind` says the hub has no administrator the agent does not know and that one is made only in a graph that has none; `FileFirst` that the replica's administrator is the one of the file, already before the hub has it, and that only what the hub has was ever let in; `SecretSaved` that tokens are signed with the secret of `.env` alone and that `.env` is torn only while nothing has been signed.

**HttpApiProofs.** `TypeCorrect`, `StatusesFit`, `ReportsAreTrue`, `RequestsGoRight`, `GroupsAreRight`, `CallersCanBeTold` for any number of requests, any processes, lists and wishes. A status that is set belongs to a result (`StatusInv`: a request that works has set none, one that has returned has set 200 or none exactly if it has data), which needs that each request has a controller of its own. `ReportInv` follows a command: what has begun is still waited for, over or given up, a call that has been made for a key is out or ended, and a result says "done" only of keys whose calls are done. That a handler is a route of the table takes the least number principle (`LeastNatural`, from well-foundedness), since `Dispatch` chooses the first that fits.

`RequestsGoRight` goes through the table itself, 43 routes (41 of `routes.ts` and two of the API's description), whose rows are stated as lemmas by method, length and last segments. `NoneHidden`: of two routes of one method and length, the earlier has somewhere a word that the later has not, so that a path whose parameters are no words of the table fits no earlier route than its own (`BuiltIsFirst`). `HandlerInv` adds that a handler is the first route that fits and that a token is only missing where none is asked for.

`GroupsAreRight` is about a recursive function over lists of any length. That the function exists is shown from well-foundedness (`GroupsExist`: its graph on `0..n` exists for every `n`, by the least counterexample), and the same principle carries `Placed` along the list: after `n` processes the groups hold the first `n`, each once, each group has the keys of its first process and only processes of one BOS, groups differ in their first processes, and a group has a connection when one of them has. Each of these is kept by a process that joins a group (`JoinsGroup`) or makes its own (`OwnGroup`).

`CallersCanBeTold` is the core of `RequestsAreAnswered`: whoever waits for a command has no answer yet, so that its timer can end the wait.

**WebSocketHubProofs.** `NoEventTwice` for any clients, requests and events: one connection to the bus is asked for, by whoever sets the flag, so `launching + listeners <= 1`, and an event's look-ups and deliveries together are never more than its listeners. `MirrorTypes` is about the log copy: whatever waits for its upload was read after a change (`Written`: who reads for a change, reads a file that has been written) and has a log node to go to, however handlings that look for it and make it meet. `MirrorInHub`: every step of the hub is one of the mirror or leaves it alone, so that what holds of the mirror alone holds in the hub.

`NoLineIsMissed` is the core of `LogReachesSubscriber`: when all streams have come to their end and the watcher has seen the file's last change, every client that follows the log has all its lines. `LogInv` gives each of them a stream that it has all lines of so far, and that still reads, or whose tail from there is being read, or will be when the watcher looks again, unless there is nothing to read (`Follows`). `NoEventIsMissed` is the core of `MessagesArrive` for events: who asked for them has one connection to the bus, there or under way, and an event whose look-ups have ended has reached each client once that was subscribed when the bus told it and is not gone (`DueInv`).

Two theorems are the core of `LogIsMirrored`. `NoContentIsLost`, of its first half: what is written last, at any time but between the initial read and `fs.watch`, is carried by a read still to begin, a change still to be told, a read or a handling that holds it, across deaths of the agent, until the graph shows it; it is lost only by a read or an upload that fails or a process without a node, or to a second log node. `ContentIsKept`, of the second: as long as no two handlings have overlapped there is at most one log node, and the last content is carried, shown or missed. Its invariant `AloneInv` says that there is one handling at a time, that who makes a node finds none beside it, and that an older content in a handling is followed by a change still to be told, or the newest was missed; so an older upload is never the last.

Only model-checked: the liveness properties themselves, which need fairness and with it ENABLED. The core of `QueuedIsSent` is `WaitsOnlyAfterFailure`; `EveryRequestAnswered` and `ComesUp` have none, since there nothing can be lost on the way: the caller's timer, and the next step of `main`, have only to come.

## Findings

1. **Buffered retries** (`ZabbixSender_retries`). `README.md`: "The sender performs buffered retries with exponential backoff when pushes fail." `flushQueue` takes a batch off the queue before it sends it and puts it back nowhere; `retryHandle` is never set.
2. **A running process is left unwatched** (`LogWatchers_overlap`). Two syncs overlap; the older one closes, at its end, the watcher the newer one has made for a process that started in between, and nothing makes it again until the next event.
3. **A deleted process keeps its node** (`ProcessGraph_overtaken`). The description of a process is awaited before a `process:event` is handed on; a deletion that arrives meanwhile is replaced in the debounce by the older state. `RestartForgets` shows that the next start of the agent repairs it.

Remarks that no run is spent on:

- Commands: while the hub has not seen them, two commands of callers in the agent's process have the same id, which is none, and a second removal of the one takes the other off the list, unexecuted, until its time is over (`SpinalCommand.ts:78`; it takes two overlapping runs within one batch of the hub). A caller elsewhere whose clock is ahead of the agent's may be told of a timeout and have its command executed afterwards. When the agent's "in_progress" replaces such a caller's "timeout" before its callback, the call is open until a final status comes, and for ever if the agent dies: the timer is spent.
- Endpoints: a process that starts after the registration may get two endpoints of one name, when its handler meets a round, and only the first is updated from then on; its series get no limit until the agent starts again, and that start writes the default over limits that clients have chosen. `updateEndpointMaxDay` swallows what it throws.
- Logs: a line that is written between the initial read and `fs.watch` (`Pm2Service.ts:163-167`) is not copied until the log changes again. Two changes of a log, or a change and a request for its copy, may both find no log node and both make one; what went to the second is not found again. Uploads of one log end in any order, so an older content may be the one that stays. `LastContentIsSent` and `LastContentStays` say what is left. A look-up that fails in the log callback is a rejection that nobody handles, and ends the agent (`index.ts:162-170`).
- Zabbix: `isCorrectlyConfigured` looks at `ZABBIX_ENABLED` alone, whereas `README.md` says the sender is not started without `ZABBIX_SERVER_HOST`; `startPeriodicPush` is called without the callback that would tell of a push, and `sendZabbixPushEvent` has no caller, so that subscribers of pushes get nothing.
- HTTP: `/apps/by-bos-name` never answers 200, although its response is declared, since groups have no `key` to be found by (`MonitoringController.ts:164`); the `GET /zabbix/discovery` of `README.md` is only a comment in the code; an action on an unknown machine sets 404, throws, and is answered with 500; a process that is named like a word of a route can only be asked for by its number.
- Bulk actions: the processes that were started are reported as failed when another one failed; the reverse does not happen.
- WebSocket: an event of a process that is gone when it is looked up ends the host (`formatProcess(null)` in a promise nobody handles); clients that disconnect stay on the lists, which grow with every reconnection (`webSocketMiddleware.ts:154`); lines of a log are sent again at every change, to all its clients, and those of one stream may come before older ones of another.

## Abstractions and assumptions

- The hub is a register of the agent's changes: `Sync` takes them over in one batch at any time, and a crash loses those that were not taken. A server id means that the hub knows the model. The hub merges what is done to one list, a push and a splice each; if it took whole lists, pushes that meet would overwrite one another, which is not modelled. A push elsewhere and its way to the hub are one step, and the hub tells the agent of a caller's changes in their order. Loading a list that was loaded before cannot fail.
- A change of a bound model is told later, and several changes may be told as one.
- The outcome of a PM2 call of a command is "completed" or "failed"; what PM2 does is outside.
- PM2 gives every process a `pm_id` and tells a deletion by `process:delete`. PM2's failing list is an empty list, as in `getAllPm2Processes`.
- Two nodes of one process look the same to `getPm2ProcessesNodesAsObj`; the registration sees at least one of nodes that agree in `pm_id` and name.
- Of the endpoints of one figure, value and limit are those of the first, as far as this agent set them; the figures of one parent are handled one by one, beside each other. A limit that could not be written is "refused". The points of the series are left out, and in `EndpointStore` no process is renamed or deleted.
- A push whose system metrics cannot be read leaves the sender's state as it was.
- Passwords and generated secrets are new each time; salt and hash stand for the password, a signature for the secret. `.env` holds the hub's settings, and nobody edits it or the users' context while the agent starts. One agent works on one configuration graph (the default path has the host's name in it).
- `HttpApi`: a timer that fires and the rejection it leads to are one step. Look-ups find, miss or fail, and what the graph holds is other modules'. The process that serves the API does not crash; a command is executed once at most, by one agent; a connection to PM2 counts as kept once made. That clearing the cache is refused stands also for a machine that is not Linux. A valid token is a Boolean; conversions of arguments are "fine", "refused", or dates that are no range. `ApiRoutes` has the routes of `routes.ts` and the two paths of the API's description; what Swagger's own handler serves below the second, and `HEAD`, are left out of `Public` and `Routes`.
- `LogMirror`: one log, which only grows, and one watcher of it (several are `LogWatchers`' matter; it is closed only with the agent here). The look-up of the process's node and of its log nodes is one step, and the upload is taken by the hub in one step; an upload under way when the agent dies is either done before or lost, and a log node that was added is in the hub by then. An upload to a node that the hub does not know yet may fail.
- `WebSocketHub`: one log, whose streams read at once what there is. The watcher's first look at the file is asked for before the first chunk is read and has come when the stream is at its end. One `launchBus` per listening; metrics that are collected and those that come after them are not told apart. A message that is not valid is answered with an error and changes nothing. Copying by the agent occurs in behaviours of its own (`uses` with "mirror").
- What a handler does to a node's data, endpoints and logs is left out of `ProcessGraph`; the registration, the listeners and Zabbix are left out of `AdminAccess`.

## What is not modelled

- The figures that the system overview reads, and the metrics and payload made of them: they keep no state.
- The conversion of arguments and the description of the API (`swagger.json`): generated by tsoa.
- `resurrectProcesses` and the reboot of `SystemOverviewService`, which no command and no route reaches.
- The points of the time series, the attributes of an endpoint, and processes whose node is replaced while endpoints are written.
- `registerMonitoringAgent` of `lib/index.ts` beyond the API and the hub it serves: its commands are those of the callers elsewhere in `CommandQueue`; it initializes no users.
- The Zabbix wire format and the discovery payload.

## Plan

Done: the command protocol, the Zabbix sender, the log watchers, the log copy with its nodes, the process graph, the periodic update and the endpoints, start-up and access, the HTTP API with bulk actions and BOS classification, and the WebSocket hub. Left, in this order:

1. `EndpointStore`, continued: the order and number of a series' points (a late writer adds an older value later), replaced nodes, and values written to the node of another process (`GraphService.ts:217`).
2. `Agent`: start-up, registration, listeners and loops composed over one crash action.
3. Proofs: what a queued batch waits for, position by position, for `QueuedIsSent`; the composed `Agent` as an implementation of its parts.
