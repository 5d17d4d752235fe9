--------------------------- MODULE HttpApiProofs -----------------------------
(***************************************************************************)
(* Proofs about HttpApi, for any requests, processes and lists: a request  *)
(* gets to the operation it was built for, a status fits what comes with   *)
(* it, what is reported as done has been done, and the groups of a list    *)
(* are those of the definition.                                            *)
(***************************************************************************)
EXTENDS HttpApi, WellFoundedInduction, TLAPS

Phases == {"idle", "sent", "working", "returned", "answered"}
Fields == {"kind", "done", "failed", "groups", "list"}

(* A controller has no status and a request no data before its operation   *)
(* returns; then they fit, and the answer is made of them.                 *)
StatusInv ==
  /\ phase \in [Reqs -> Phases]
  /\ DOMAIN status = Reqs /\ DOMAIN code = Reqs /\ DOMAIN body = Reqs
  /\ \A r \in Reqs : DOMAIN body[r] = Fields
  /\ \A r \in Reqs :
       phase[r] \in {"idle", "sent", "working"} => status[r] = 0 /\ body[r].kind = "error"
  /\ \A r \in Reqs :
       phase[r] = "returned" => (status[r] \in {0, 200} <=> body[r].kind = "data")
  /\ StatusFitsAnswer

-----------------------------------------------------------------------------
(* Types.                                                                  *)
Codes == {0, 200, 400, 401, 404, 500}
Places == {"none", "connecting", "calling", "syncing", "clearing", "ended"}
Handlers == {0} \cup 1..Len(Routes)

LEMMA StatusesAreCodes ==
  /\ \A op : OkStatus(op) \in Codes
  /\ \A r : MissingStatus(r) \in Codes
  /\ \A w, i : Refusal(w, i) \in Codes
  BY SMT DEF OkStatus, MissingStatus, Refusal, Codes

LEMMA LeastNatural ==
  ASSUME NEW T, T \subseteq Nat, T # {}
  PROVE  \E x \in T : \A y \in T : x <= y
<1> DEFINE R == {ij \in Nat \X Nat : ij[1] < ij[2]}
<1>1. R = OpToRel(<, Nat)
  BY DEF OpToRel
<1>2. IsWellFoundedOn(R, Nat)
  BY <1>1, NatLessThanWellFounded, Zenon
<1> HIDE DEF R
<1>3. \E x \in T : \A y \in T : ~(<<y, x>> \in R)
  BY <1>2, WFMin, Zenon
<1>4. \A x, y \in T : ~(<<y, x>> \in R) => x <= y
  BY SMT DEF R
<1>5. QED
  BY <1>3, <1>4

(* The first route that fits is one of the table.                          *)
LEMMA DispatchIsHandler ==
  ASSUME NEW method, NEW path PROVE Dispatch(method, path) \in Handlers
<1> DEFINE T == {i \in 1..Len(Routes) : Fits(Routes[i], method, path)}
<1>1. Dispatch(method, path) = IF T # {} THEN Min(T) ELSE 0
  BY DEF Dispatch, SelectInSeq
<1>2. T # {} => Min(T) \in T
  <2>1. T \subseteq Nat
    BY SMT
  <2> HIDE DEF T
  <2>2. T # {} => \E x \in T : \A y \in T : x <= y
    BY <2>1, LeastNatural
  <2>3. QED
    BY <2>2 DEF Min
<1>3. QED
  BY <1>1, <1>2 DEF Handlers

(* The parts of TypeOK by whose steps they are about: the requests' and    *)
(* the agent's.                                                            *)
RequestTypes ==
  /\ DOMAIN want = Reqs
  /\ \A r \in Reqs : want[r] = Empty \/ want[r] \in Wanted[r]
  /\ phase \in [Reqs -> Phases]
  /\ handler \in [Reqs -> Handlers]
  /\ status \in [Reqs -> Codes]
  /\ code \in [Reqs -> Codes]

AgentTypes ==
  /\ Contract!TypeOK
  /\ run \in [Reqs -> Places]
  /\ connected \in BOOLEAN

LEMMA TypeParts == TypeOK <=> RequestTypes /\ AgentTypes
  BY DEF TypeOK, RequestTypes, AgentTypes, Phases, Handlers, Codes, Places

LEMMA ReturnTypes ==
  ASSUME RequestTypes, NEW r \in Reqs, NEW s \in Codes, NEW b, Return(r, s, b),
         UNCHANGED <<want, handler, code>>
  PROVE  RequestTypes'
<1>1. /\ phase' = [phase EXCEPT ![r] = "returned"]
      /\ status' = status \/ status' = [status EXCEPT ![r] = s]
      /\ want' = want /\ handler' = handler /\ code' = code
  BY DEF Return, Controller
<1>2. phase' \in [Reqs -> Phases]
  BY <1>1 DEF RequestTypes, Phases
<1>3. status' \in [Reqs -> Codes]
  BY <1>1 DEF RequestTypes
<1>4. QED
  BY <1>1, <1>2, <1>3 DEF RequestTypes

LEMMA RequestTypesStep == ASSUME RequestTypes, [Next]_vars PROVE RequestTypes'
<1>1. ASSUME NEW r \in Reqs, Send(r) PROVE RequestTypes'
  <2>1. PICK w \in Wanted[r] : want' = [want EXCEPT ![r] = w]
    BY <1>1 DEF Send
  <2>2. /\ DOMAIN want' = Reqs
        /\ \A q \in Reqs : want'[q] = Empty \/ want'[q] \in Wanted[q]
    BY <2>1 DEF RequestTypes
  <2>3. phase' \in [Reqs -> Phases]
    BY <1>1 DEF Send, RequestTypes, Phases
  <2>4. QED
    BY <1>1, <2>2, <2>3 DEF Send, RequestTypes
<1>2. ASSUME NEW r \in Reqs, Receive(r) PROVE RequestTypes'
  <2> DEFINE i == Dispatch(want[r].method, want[r].path)
             refusal == Refusal(want[r], i)
  <2>1. i \in Handlers /\ refusal \in Codes
    BY DispatchIsHandler, StatusesAreCodes
  <2>2. /\ UNCHANGED <<want, status>>
        /\ \/ /\ phase' = [phase EXCEPT ![r] = "answered"]
              /\ code' = [code EXCEPT ![r] = refusal] /\ handler' = handler
           \/ /\ handler' = [handler EXCEPT ![r] = i] /\ code' = code
              /\ phase' = [phase EXCEPT ![r] = IF todo'[r] = <<>> THEN "returned" ELSE "working"]
    BY <1>2 DEF Receive
  <2> HIDE DEF i, refusal
  <2>3. phase' \in [Reqs -> Phases]
    BY <2>2 DEF RequestTypes, Phases
  <2>4. handler' \in [Reqs -> Handlers] /\ code' \in [Reqs -> Codes]
    BY <2>1, <2>2 DEF RequestTypes
  <2>5. QED
    BY <2>2, <2>3, <2>4 DEF RequestTypes
<1>3. ASSUME NEW r \in Reqs, LooksUp(r) PROVE RequestTypes'
  <2>1. UNCHANGED <<want, handler, code>>
    BY <1>3 DEF LooksUp
  <2>2. CASE Finds(r)
    <3>1. CASE UNCHANGED <<phase, status, body>>
      BY <2>1, <3>1 DEF RequestTypes
    <3>2. CASE Return(r, OkStatus(Op(r)), Data)
      BY <2>1, <3>2, ReturnTypes, StatusesAreCodes
    <3>3. ASSUME NEW b, Return(r, 200, b) PROVE RequestTypes'
      <4>1. 200 \in Codes
        BY DEF Codes
      <4>2. QED
        BY <2>1, <3>3, <4>1, ReturnTypes
    <3>4. QED
      BY <2>2, <3>1, <3>2, <3>3 DEF Finds
  <2>3. CASE Misses(r)
    BY <2>1, <2>3, ReturnTypes, StatusesAreCodes DEF Misses
  <2>4. CASE Throws(r)
    <3>1. 500 \in Codes
      BY DEF Codes
    <3>2. QED
      BY <2>1, <2>4, <3>1, ReturnTypes DEF Throws
  <2>5. QED
    BY <1>3, <2>2, <2>3, <2>4 DEF LooksUp
<1>4. ASSUME NEW r \in Reqs, Resolved(r) \/ Rejected(r) PROVE RequestTypes'
  <2>1. 200 \in Codes /\ 400 \in Codes
    BY DEF Codes
  <2>2. QED
    BY <1>4, <2>1, ReturnTypes DEF Resolved, Rejected
<1>5. ASSUME NEW r \in Reqs, Answers(r) PROVE RequestTypes'
  <2>1. /\ UNCHANGED <<want, handler, status>>
        /\ phase' = [phase EXCEPT ![r] = "answered"]
        /\ code' = [code EXCEPT ![r] = IF status[r] = 0 THEN 200 ELSE status[r]]
    BY <1>5 DEF Answers, Controller
  <2>2. phase' \in [Reqs -> Phases] /\ code' \in [Reqs -> Codes]
    BY <2>1 DEF RequestTypes, Phases, Codes
  <2>3. QED
    BY <2>1, <2>2 DEF RequestTypes
<1>6. ASSUME NEW r \in Reqs, Executes(r) PROVE RequestTypes'
  BY <1>6 DEF Executes, Begins, Connects, CallEnds, Clears, Bulk, Cleared, Ends, Agent, RequestTypes
<1>7. CASE UNCHANGED vars
  BY <1>7 DEF vars, RequestTypes
<1>8. QED
  BY <1>1, <1>2, <1>3, <1>4, <1>5, <1>6, <1>7 DEF Next, Serves

LEMMA AgentTypesStep == ASSUME AgentTypes, [Next]_vars PROVE AgentTypes'
<1> USE DEF AgentTypes, Places, Contract!TypeOK, Contract!Answers
<1>1. ASSUME NEW r \in Reqs, Send(r) \/ Receive(r) \/ LooksUp(r) \/ Answers(r)
      PROVE  AgentTypes'
  BY <1>1 DEF Send, Receive, LooksUp, Answers, command, agent
<1>2. ASSUME NEW r \in Reqs, Resolved(r) \/ Rejected(r) PROVE AgentTypes'
  BY <1>2 DEF Resolved, Rejected, agent, Contract!Resolve, Contract!Reject, Contract!Settle
<1>3. ASSUME NEW r \in Reqs, Begins(r) PROVE AgentTypes'
  <2>1. \E place \in Places : run' = [run EXCEPT ![r] = place]
    BY <1>3 DEF Begins
  <2>2. Contract!Begin(r) /\ UNCHANGED connected
    BY <1>3 DEF Begins
  <2>3. QED
    BY <2>1, <2>2 DEF Contract!Begin
<1>4. ASSUME NEW r \in Reqs, Connects(r) \/ CallEnds(r) \/ Clears(r) PROVE AgentTypes'
  BY <1>4 DEF Connects, CallEnds, Clears, command
<1>5. ASSUME NEW r \in Reqs, Bulk(r) \/ Cleared(r) PROVE AgentTypes'
  <2>1. Contract!End(r) /\ run' = [run EXCEPT ![r] = "ended"] /\ UNCHANGED connected
    BY <1>5 DEF Bulk, Cleared, Ends
  <2>2. QED
    BY <2>1 DEF Contract!End
<1>6. CASE UNCHANGED vars
  BY <1>6 DEF vars, command, agent
<1>7. QED
  BY <1>1, <1>2, <1>3, <1>4, <1>5, <1>6 DEF Next, Serves, Executes

(* The variables keep their types, whatever is requested: a request is     *)
(* handled by a route of the table, and answered with one of six statuses. *)
THEOREM TypeCorrect == Spec => []TypeOK
<1>1. Init => RequestTypes /\ AgentTypes
  <2> SUFFICES ASSUME Init PROVE RequestTypes /\ AgentTypes
    OBVIOUS
  <2>1. connected \in BOOLEAN
    BY Zenon DEF Init
  <2>2. Contract!TypeOK
    BY DEF Init, Contract!Init, Contract!TypeOK, Contract!Answers
  <2>3. run \in [Reqs -> Places] /\ phase \in [Reqs -> Phases]
    BY DEF Init, Places, Phases
  <2>4. /\ handler \in [Reqs -> Handlers]
        /\ status \in [Reqs -> Codes] /\ code \in [Reqs -> Codes]
    BY DEF Init, Handlers, Codes
  <2>5. QED
    BY <2>1, <2>2, <2>3, <2>4 DEF Init, RequestTypes, AgentTypes
<1>2. RequestTypes /\ AgentTypes /\ [Next]_vars => (RequestTypes /\ AgentTypes)'
  BY RequestTypesStep, AgentTypesStep
<1>3. QED
  BY <1>1, <1>2, TypeParts, PTL DEF Spec

-----------------------------------------------------------------------------
(* The table of the routes.  Routes of one method and length differ in one *)
(* of their last two segments, and there the first has a word.             *)
Row(i, method, n, before, last) ==
  /\ Routes[i].method = method
  /\ Len(Routes[i].path) = n /\ DOMAIN Routes[i].path = 1..n
  /\ Routes[i].path[n - 1] = before
  /\ Routes[i].path[n] = last

LEMMA TableLength == Len(Routes) = 43 /\ DOMAIN Routes = 1..43
  BY SMTT(60) DEF Routes, SwaggerRoutes, MachineRoutes, AppListRoutes, AppRoutes, ActionRoutes,
             LoadRoutes, HeapRoutes, StateRoutes, Pm2MaxDayRoute, VmFigureRoutes, VmMaxDayRoute,
             LoginRoute, Pm2Figure, VmFigure, Action, App, Vm, Pm2Endpoint, VmEndpoint, Of,
             Get, GetChecked, Post, PostChecked, Route

LEMMA PublicOps ==
  /\ Routes[1].op = "swagger" /\ Routes[2].op = "swagger"
  /\ Routes[3].op = "getHealth" /\ Routes[43].op = "login"
  BY SMTT(60) DEF Routes, SwaggerRoutes, MachineRoutes, AppListRoutes, AppRoutes, ActionRoutes,
             LoadRoutes, HeapRoutes, StateRoutes, Pm2MaxDayRoute, VmFigureRoutes, VmMaxDayRoute,
             LoginRoute, Pm2Figure, VmFigure, Action, App, Vm, Pm2Endpoint, VmEndpoint, Of,
             Get, GetChecked, Post, PostChecked, Route

LEMMA MachineRows ==
  /\ Row(1, "GET", 2, "monitoring", "swagger.json")
  /\ Row(2, "GET", 2, "monitoring", "api-docs")
  /\ Row(3, "GET", 2, "monitoring", "health")
  /\ Row(4, "POST", 4, "cache", "clear")
  /\ Row(5, "GET", 2, "monitoring", "all_vms")
  /\ Row(6, "GET", 2, "monitoring", ":vmKey")
  /\ Row(7, "GET", 3, ":vmKey", "system")
<1> USE DEF Row, Routes, SwaggerRoutes, MachineRoutes, AppListRoutes, AppRoutes, ActionRoutes,
             LoadRoutes, HeapRoutes, StateRoutes, Pm2MaxDayRoute, VmFigureRoutes, VmMaxDayRoute,
             LoginRoute, Pm2Figure, VmFigure, Action, App, Vm, Pm2Endpoint, VmEndpoint, Of,
             Get, GetChecked, Post, PostChecked, Route
<1>1. Row(1, "GET", 2, "monitoring", "swagger.json")
  BY SMTT(30)
<1>2. Row(2, "GET", 2, "monitoring", "api-docs")
  BY SMTT(30)
<1>3. Row(3, "GET", 2, "monitoring", "health")
  BY SMTT(30)
<1>4. Row(4, "POST", 4, "cache", "clear")
  BY SMTT(30)
<1>5. Row(5, "GET", 2, "monitoring", "all_vms")
  BY SMTT(30)
<1>6. Row(6, "GET", 2, "monitoring", ":vmKey")
  BY SMTT(30)
<1>7. Row(7, "GET", 3, ":vmKey", "system")
  BY SMTT(30)
<1> HIDE DEF Row, Routes, SwaggerRoutes, MachineRoutes, AppListRoutes, AppRoutes, ActionRoutes,
             LoadRoutes, HeapRoutes, StateRoutes, Pm2MaxDayRoute, VmFigureRoutes, VmMaxDayRoute,
             LoginRoute, Pm2Figure, VmFigure, Action, App, Vm, Pm2Endpoint, VmEndpoint, Of,
             Get, GetChecked, Post, PostChecked, Route
<1>8. QED
  BY <1>1, <1>2, <1>3, <1>4, <1>5, <1>6, <1>7

LEMMA AppRows ==
  /\ Row(8, "GET", 3, ":vmKey", "apps")
  /\ Row(9, "GET", 4, "apps", "classified")
  /\ Row(10, "GET", 4, "apps", "by-bos-name")
  /\ Row(11, "GET", 4, "apps", "metrics")
  /\ Row(12, "GET", 5, "status", "summary")
  /\ Row(13, "GET", 4, "apps", ":key")
  /\ Row(14, "GET", 5, ":key", "metrics")
  /\ Row(15, "GET", 5, ":key", "logs")
<1> USE DEF Row, Routes, SwaggerRoutes, MachineRoutes, AppListRoutes, AppRoutes, ActionRoutes,
             LoadRoutes, HeapRoutes, StateRoutes, Pm2MaxDayRoute, VmFigureRoutes, VmMaxDayRoute,
             LoginRoute, Pm2Figure, VmFigure, Action, App, Vm, Pm2Endpoint, VmEndpoint, Of,
             Get, GetChecked, Post, PostChecked, Route
<1>1. Row(8, "GET", 3, ":vmKey", "apps")
  BY SMTT(30)
<1>2. Row(9, "GET", 4, "apps", "classified")
  BY SMTT(30)
<1>3. Row(10, "GET", 4, "apps", "by-bos-name")
  BY SMTT(30)
<1>4. Row(11, "GET", 4, "apps", "metrics")
  BY SMTT(30)
<1>5. Row(12, "GET", 5, "status", "summary")
  BY SMTT(30)
<1>6. Row(13, "GET", 4, "apps", ":key")
  BY SMTT(30)
<1>7. Row(14, "GET", 5, ":key", "metrics")
  BY SMTT(30)
<1>8. Row(15, "GET", 5, ":key", "logs")
  BY SMTT(30)
<1> HIDE DEF Row, Routes, SwaggerRoutes, MachineRoutes, AppListRoutes, AppRoutes, ActionRoutes,
             LoadRoutes, HeapRoutes, StateRoutes, Pm2MaxDayRoute, VmFigureRoutes, VmMaxDayRoute,
             LoginRoute, Pm2Figure, VmFigure, Action, App, Vm, Pm2Endpoint, VmEndpoint, Of,
             Get, GetChecked, Post, PostChecked, Route
<1>9. QED
  BY <1>1, <1>2, <1>3, <1>4, <1>5, <1>6, <1>7, <1>8

LEMMA ActionRows ==
  /\ Row(16, "POST", 4, "apps", "start")
  /\ Row(17, "POST", 4, "apps", "stop")
  /\ Row(18, "POST", 4, "apps", "restart")
  /\ Row(19, "POST", 4, "apps", "reload")
  /\ Row(20, "POST", 4, "apps", "delete")
<1> USE DEF Row, Routes, SwaggerRoutes, MachineRoutes, AppListRoutes, AppRoutes, ActionRoutes,
             LoadRoutes, HeapRoutes, StateRoutes, Pm2MaxDayRoute, VmFigureRoutes, VmMaxDayRoute,
             LoginRoute, Pm2Figure, VmFigure, Action, App, Vm, Pm2Endpoint, VmEndpoint, Of,
             Get, GetChecked, Post, PostChecked, Route
<1>1. Row(16, "POST", 4, "apps", "start")
  BY SMTT(30)
<1>2. Row(17, "POST", 4, "apps", "stop")
  BY SMTT(30)
<1>3. Row(18, "POST", 4, "apps", "restart")
  BY SMTT(30)
<1>4. Row(19, "POST", 4, "apps", "reload")
  BY SMTT(30)
<1>5. Row(20, "POST", 4, "apps", "delete")
  BY SMTT(30)
<1> HIDE DEF Row, Routes, SwaggerRoutes, MachineRoutes, AppListRoutes, AppRoutes, ActionRoutes,
             LoadRoutes, HeapRoutes, StateRoutes, Pm2MaxDayRoute, VmFigureRoutes, VmMaxDayRoute,
             LoginRoute, Pm2Figure, VmFigure, Action, App, Vm, Pm2Endpoint, VmEndpoint, Of,
             Get, GetChecked, Post, PostChecked, Route
<1>6. QED
  BY <1>1, <1>2, <1>3, <1>4, <1>5

LEMMA Pm2Rows ==
  /\ Row(21, "GET", 7, "ram", "value")
  /\ Row(22, "GET", 7, "ram", "timeseries")
  /\ Row(23, "GET", 7, "cpu", "value")
  /\ Row(24, "GET", 7, "cpu", "timeseries")
  /\ Row(25, "GET", 7, "heap_size", "value")
  /\ Row(26, "GET", 7, "heap_size", "timeseries")
  /\ Row(27, "GET", 7, "heap_usage", "value")
  /\ Row(28, "GET", 7, "heap_usage", "timeseries")
  /\ Row(29, "GET", 7, "heap_used_size", "value")
  /\ Row(30, "GET", 7, "heap_used_size", "timeseries")
  /\ Row(31, "GET", 7, "reboot", "value")
  /\ Row(32, "GET", 7, "reboot", "timeseries")
  /\ Row(33, "GET", 7, "errored", "value")
  /\ Row(34, "GET", 7, "errored", "timeseries")
<1> USE DEF Row, Routes, SwaggerRoutes, MachineRoutes, AppListRoutes, AppRoutes, ActionRoutes,
             LoadRoutes, HeapRoutes, StateRoutes, Pm2MaxDayRoute, VmFigureRoutes, VmMaxDayRoute,
             LoginRoute, Pm2Figure, VmFigure, Action, App, Vm, Pm2Endpoint, VmEndpoint, Of,
             Get, GetChecked, Post, PostChecked, Route
<1>1. Row(21, "GET", 7, "ram", "value")
  BY SMTT(30)
<1>2. Row(22, "GET", 7, "ram", "timeseries")
  BY SMTT(30)
<1>3. Row(23, "GET", 7, "cpu", "value")
  BY SMTT(30)
<1>4. Row(24, "GET", 7, "cpu", "timeseries")
  BY SMTT(30)
<1>5. Row(25, "GET", 7, "heap_size", "value")
  BY SMTT(30)
<1>6. Row(26, "GET", 7, "heap_size", "timeseries")
  BY SMTT(30)
<1>7. Row(27, "GET", 7, "heap_usage", "value")
  BY SMTT(30)
<1>8. Row(28, "GET", 7, "heap_usage", "timeseries")
  BY SMTT(30)
<1>9. Row(29, "GET", 7, "heap_used_size", "value")
  BY SMTT(30)
<1>10. Row(30, "GET", 7, "heap_used_size", "timeseries")
  BY SMTT(30)
<1>11. Row(31, "GET", 7, "reboot", "value")
  BY SMTT(30)
<1>12. Row(32, "GET", 7, "reboot", "timeseries")
  BY SMTT(30)
<1>13. Row(33, "GET", 7, "errored", "value")
  BY SMTT(30)
<1>14. Row(34, "GET", 7, "errored", "timeseries")
  BY SMTT(30)
<1> HIDE DEF Row, Routes, SwaggerRoutes, MachineRoutes, AppListRoutes, AppRoutes, ActionRoutes,
             LoadRoutes, HeapRoutes, StateRoutes, Pm2MaxDayRoute, VmFigureRoutes, VmMaxDayRoute,
             LoginRoute, Pm2Figure, VmFigure, Action, App, Vm, Pm2Endpoint, VmEndpoint, Of,
             Get, GetChecked, Post, PostChecked, Route
<1>15. QED
  BY <1>1, <1>2, <1>3, <1>4, <1>5, <1>6, <1>7, <1>8, <1>9, <1>10,
     <1>11, <1>12, <1>13, <1>14

LEMMA VmRows ==
  /\ Row(36, "GET", 6, "cpu_usage", "value")
  /\ Row(37, "GET", 6, "cpu_usage", "timeseries")
  /\ Row(38, "GET", 6, "ram_usage", "value")
  /\ Row(39, "GET", 6, "ram_usage", "timeseries")
  /\ Row(40, "GET", 6, "disk_usage", "value")
  /\ Row(41, "GET", 6, "disk_usage", "timeseries")
<1> USE DEF Row, Routes, SwaggerRoutes, MachineRoutes, AppListRoutes, AppRoutes, ActionRoutes,
             LoadRoutes, HeapRoutes, StateRoutes, Pm2MaxDayRoute, VmFigureRoutes, VmMaxDayRoute,
             LoginRoute, Pm2Figure, VmFigure, Action, App, Vm, Pm2Endpoint, VmEndpoint, Of,
             Get, GetChecked, Post, PostChecked, Route
<1>1. Row(36, "GET", 6, "cpu_usage", "value")
  BY SMTT(30)
<1>2. Row(37, "GET", 6, "cpu_usage", "timeseries")
  BY SMTT(30)
<1>3. Row(38, "GET", 6, "ram_usage", "value")
  BY SMTT(30)
<1>4. Row(39, "GET", 6, "ram_usage", "timeseries")
  BY SMTT(30)
<1>5. Row(40, "GET", 6, "disk_usage", "value")
  BY SMTT(30)
<1>6. Row(41, "GET", 6, "disk_usage", "timeseries")
  BY SMTT(30)
<1> HIDE DEF Row, Routes, SwaggerRoutes, MachineRoutes, AppListRoutes, AppRoutes, ActionRoutes,
             LoadRoutes, HeapRoutes, StateRoutes, Pm2MaxDayRoute, VmFigureRoutes, VmMaxDayRoute,
             LoginRoute, Pm2Figure, VmFigure, Action, App, Vm, Pm2Endpoint, VmEndpoint, Of,
             Get, GetChecked, Post, PostChecked, Route
<1>7. QED
  BY <1>1, <1>2, <1>3, <1>4, <1>5, <1>6

LEMMA OtherRows ==
  /\ Row(35, "POST", 8, "timeseries", "maxDay")
  /\ Row(42, "POST", 7, "timeseries", "maxDay")
  /\ Row(43, "POST", 2, "auth", "login")
<1> USE DEF Row, Routes, SwaggerRoutes, MachineRoutes, AppListRoutes, AppRoutes, ActionRoutes,
             LoadRoutes, HeapRoutes, StateRoutes, Pm2MaxDayRoute, VmFigureRoutes, VmMaxDayRoute,
             LoginRoute, Pm2Figure, VmFigure, Action, App, Vm, Pm2Endpoint, VmEndpoint, Of,
             Get, GetChecked, Post, PostChecked, Route
<1>1. Row(35, "POST", 8, "timeseries", "maxDay")
  BY SMTT(30)
<1>2. Row(42, "POST", 7, "timeseries", "maxDay")
  BY SMTT(30)
<1>3. Row(43, "POST", 2, "auth", "login")
  BY SMTT(30)
<1> HIDE DEF Row, Routes, SwaggerRoutes, MachineRoutes, AppListRoutes, AppRoutes, ActionRoutes,
             LoadRoutes, HeapRoutes, StateRoutes, Pm2MaxDayRoute, VmFigureRoutes, VmMaxDayRoute,
             LoginRoute, Pm2Figure, VmFigure, Action, App, Vm, Pm2Endpoint, VmEndpoint, Of,
             Get, GetChecked, Post, PostChecked, Route
<1>4. QED
  BY <1>1, <1>2, <1>3

(* The routes by method and number of segments.                            *)
Group(method, n) ==
  CASE method = "GET" /\ n = 2  -> {1, 2, 3, 5, 6}
    [] method = "GET" /\ n = 3  -> {7, 8}
    [] method = "GET" /\ n = 4  -> {9, 10, 11, 13}
    [] method = "GET" /\ n = 5  -> {12, 14, 15}
    [] method = "GET" /\ n = 6  -> 36..41
    [] method = "GET" /\ n = 7  -> 21..34
    [] method = "POST" /\ n = 4 -> {4} \cup 16..20
    [] method = "POST" /\ n = 2 -> {43}
    [] method = "POST" /\ n = 7 -> {42}
    [] method = "POST" /\ n = 8 -> {35}
    [] OTHER                    -> {}

LEMMA Groups ==
  ASSUME NEW k \in 1..43 PROVE k \in Group(Routes[k].method, Len(Routes[k].path))
<1>1. CASE k \in 1..7
  BY <1>1, MachineRows DEF Row, Group
<1>2. CASE k \in 8..15
  BY <1>2, AppRows DEF Row, Group
<1>3. CASE k \in 16..20
  BY <1>3, ActionRows DEF Row, Group
<1>4. CASE k \in 21..34
  BY <1>4, Pm2Rows DEF Row, Group
<1>5. CASE k \in 36..41
  BY <1>5, VmRows DEF Row, Group
<1>6. CASE k \in {35, 42, 43}
  BY <1>6, OtherRows DEF Row, Group
<1>7. QED
  BY <1>1, <1>2, <1>3, <1>4, <1>5, <1>6

(* The segments of a path are counted from one.                            *)
LEMMA Segments ==
  ASSUME NEW i \in 1..43
  PROVE  DOMAIN Routes[i].path = 1..Len(Routes[i].path)
<1>1. CASE i \in 1..7
  BY <1>1, MachineRows DEF Row
<1>2. CASE i \in 8..15
  BY <1>2, AppRows DEF Row
<1>3. CASE i \in 16..20
  BY <1>3, ActionRows DEF Row
<1>4. CASE i \in 21..34
  BY <1>4, Pm2Rows DEF Row
<1>5. CASE i \in 36..41
  BY <1>5, VmRows DEF Row
<1>6. CASE i \in {35, 42, 43}
  BY <1>6, OtherRows DEF Row
<1>7. QED
  BY <1>1, <1>2, <1>3, <1>4, <1>5, <1>6

(* Route i does not fit every path that is built for route j.              *)
Apart(i, j) ==
  \E k \in DOMAIN Routes[i].path : Routes[i].path[k] \notin Params \cup {Routes[j].path[k]}

LEMMA Pm2RowsApart == \A i, j \in 21..34 : i < j => Apart(i, j)
  BY Pm2Rows, SMTT(60) DEF Apart, Row, Params

(* No route hides a later one.                                             *)
LEMMA NoneHidden ==
  ASSUME NEW i \in 1..43, NEW j \in 1..43, i < j,
         Routes[i].method = Routes[j].method, Len(Routes[i].path) = Len(Routes[j].path)
  PROVE  Apart(i, j)
<1> DEFINE method == Routes[i].method
           n == Len(Routes[i].path)
<1>1. i \in Group(method, n) /\ j \in Group(method, n)
  BY Groups
<1>2. DOMAIN Routes[i].path = 1..n
  BY Segments
<1> HIDE DEF method, n
<1>3. CASE method = "GET" /\ n = 2
  <2>1. i \in {1, 2, 3, 5, 6} /\ j \in {1, 2, 3, 5, 6}
    BY <1>1, <1>3 DEF Group
  <2>2. \E k \in {1, 2} : Routes[i].path[k] \notin Params \cup {Routes[j].path[k]}
    BY <2>1, MachineRows, SMTT(60) DEF Row, Params
  <2>3. {1, 2} \subseteq DOMAIN Routes[i].path
    BY <1>2, <1>3
  <2>4. QED
    BY <2>2, <2>3, Zenon DEF Apart
<1>4. CASE method = "GET" /\ n = 3
  <2>1. i \in {7, 8} /\ j \in {7, 8}
    BY <1>1, <1>4 DEF Group
  <2>2. \E k \in {2, 3} : Routes[i].path[k] \notin Params \cup {Routes[j].path[k]}
    BY <2>1, MachineRows, AppRows, SMTT(60) DEF Row, Params
  <2>3. {2, 3} \subseteq DOMAIN Routes[i].path
    BY <1>2, <1>4
  <2>4. QED
    BY <2>2, <2>3, Zenon DEF Apart
<1>5. CASE method = "GET" /\ n = 4
  <2>1. i \in {9, 10, 11, 13} /\ j \in {9, 10, 11, 13}
    BY <1>1, <1>5 DEF Group
  <2>2. \E k \in {3, 4} : Routes[i].path[k] \notin Params \cup {Routes[j].path[k]}
    BY <2>1, AppRows, SMTT(60) DEF Row, Params
  <2>3. {3, 4} \subseteq DOMAIN Routes[i].path
    BY <1>2, <1>5
  <2>4. QED
    BY <2>2, <2>3, Zenon DEF Apart
<1>6. CASE method = "GET" /\ n = 5
  <2>1. i \in {12, 14, 15} /\ j \in {12, 14, 15}
    BY <1>1, <1>6 DEF Group
  <2>2. \E k \in {4, 5} : Routes[i].path[k] \notin Params \cup {Routes[j].path[k]}
    BY <2>1, AppRows, SMTT(60) DEF Row, Params
  <2>3. {4, 5} \subseteq DOMAIN Routes[i].path
    BY <1>2, <1>6
  <2>4. QED
    BY <2>2, <2>3, Zenon DEF Apart
<1>7. CASE method = "GET" /\ n = 6
  <2>1. i \in 36..41 /\ j \in 36..41
    BY <1>1, <1>7 DEF Group
  <2>2. \E k \in {5, 6} : Routes[i].path[k] \notin Params \cup {Routes[j].path[k]}
    BY <2>1, VmRows, SMTT(60) DEF Row, Params
  <2>3. {5, 6} \subseteq DOMAIN Routes[i].path
    BY <1>2, <1>7
  <2>4. QED
    BY <2>2, <2>3, Zenon DEF Apart
<1>8. CASE method = "GET" /\ n = 7
  <2>1. i \in 21..34 /\ j \in 21..34
    BY <1>1, <1>8 DEF Group
  <2>2. QED
    BY <2>1, Pm2RowsApart, Zenon
<1>9. CASE method = "POST" /\ n = 4
  <2>1. i \in {4} \cup 16..20 /\ j \in {4} \cup 16..20
    BY <1>1, <1>9 DEF Group
  <2>2. \E k \in {3, 4} : Routes[i].path[k] \notin Params \cup {Routes[j].path[k]}
    BY <2>1, MachineRows, ActionRows, SMTT(60) DEF Row, Params
  <2>3. {3, 4} \subseteq DOMAIN Routes[i].path
    BY <1>2, <1>9
  <2>4. QED
    BY <2>2, <2>3, Zenon DEF Apart
<1>10. QED
  BY <1>1, <1>3, <1>4, <1>5, <1>6, <1>7, <1>8, <1>9 DEF Group

-----------------------------------------------------------------------------
(* A request gets to the first route that fits it.                         *)
LEMMA DispatchIsFirst ==
  ASSUME NEW method, NEW path
  PROVE  LET i == Dispatch(method, path) IN
           i # 0 => /\ i \in 1..43
                    /\ Fits(Routes[i], method, path)
                    /\ \A j \in 1..43 : Fits(Routes[j], method, path) => i <= j
<1> DEFINE T == {i \in 1..Len(Routes) : Fits(Routes[i], method, path)}
<1>1. Dispatch(method, path) = IF T # {} THEN Min(T) ELSE 0
  BY DEF Dispatch, SelectInSeq
<1>2. /\ T \subseteq Nat /\ T \subseteq 1..43
      /\ \A j \in 1..43 : Fits(Routes[j], method, path) => j \in T
  BY TableLength, SMT
<1>3. \A i \in T : Fits(Routes[i], method, path)
  OBVIOUS
<1> HIDE DEF T
<1>4. T # {} => Min(T) \in T /\ \A y \in T : Min(T) <= y
  BY <1>2, LeastNatural DEF Min
<1>5. QED
  BY <1>1, <1>2, <1>3, <1>4

(* Two routes that fit one path are of one shape.                          *)
LEMMA FitsShape ==
  ASSUME NEW i \in 1..43, NEW j \in 1..43, NEW method, NEW path,
         Fits(Routes[i], method, path), Fits(Routes[j], method, path)
  PROVE  Routes[i].method = Routes[j].method /\ Len(Routes[i].path) = Len(Routes[j].path)
  BY DEF Fits

(* The words of a route are reserved.                                      *)
LEMMA WordsAreReserved ==
  ASSUME NEW i \in 1..43, NEW k \in DOMAIN Routes[i].path, Routes[i].path[k] \notin Params
  PROVE  Routes[i].path[k] \in Reserved
<1>1. i \in DOMAIN Routes
  BY TableLength
<1>2. Routes[i].path[k] \in ToSet(Routes[i].path)
  BY DEF ToSet
<1>3. QED
  BY <1>1, <1>2, Zenon DEF Reserved

(* Where a path that is built for route j has no reserved word, the first  *)
(* route that fits it is j.                                                *)
LEMMA BuiltIsFirst ==
  ASSUME NEW j \in 1..43, NEW method, NEW path,
         DOMAIN path = 1..Len(path), Fits(Routes[j], method, path),
         NEW i \in 1..43, Fits(Routes[i], method, path),
         \A k \in DOMAIN Routes[j].path : Routes[j].path[k] \in Params => path[k] \notin Reserved
  PROVE  ~(i < j)
<1>1. SUFFICES ASSUME i < j PROVE FALSE
  OBVIOUS
<1>2. PICK k \in DOMAIN Routes[i].path : Routes[i].path[k] \notin Params \cup {Routes[j].path[k]}
  <2>1. Routes[i].method = Routes[j].method /\ Len(Routes[i].path) = Len(Routes[j].path)
    BY FitsShape
  <2>2. Apart(i, j)
    BY <1>1, <2>1, NoneHidden
  <2>3. QED
    BY <2>2 DEF Apart
<1>3. k \in DOMAIN path /\ k \in DOMAIN Routes[j].path
  BY <1>2, Segments, FitsShape DEF Fits
<1>4. Routes[i].path[k] = path[k] /\ Routes[j].path[k] \in Params \cup {path[k]}
  BY <1>2, <1>3 DEF Fits
<1>5. Routes[i].path[k] \in Reserved
  BY <1>2, WordsAreReserved
<1>6. QED
  BY <1>2, <1>3, <1>4, <1>5

(* The routes that are public are the first three and the login.           *)
LEMMA PublicRoutes ==
  ASSUME NEW method, NEW path, Public(method, path), NEW i \in 1..43,
         Fits(Routes[i], method, path),
         \A j \in 1..43 : Fits(Routes[j], method, path) => i <= j
  PROVE  Routes[i].op \in {"swagger", "getHealth", "login"}
<1>1. /\ Row(1, "GET", 2, "monitoring", "swagger.json")
      /\ Row(2, "GET", 2, "monitoring", "api-docs")
      /\ Row(3, "GET", 2, "monitoring", "health") /\ Row(43, "POST", 2, "auth", "login")
  BY MachineRows, OtherRows
<1>2. CASE method = "GET"
  <2>1. PICK word \in {"swagger.json", "api-docs", "health"} : path = <<"monitoring", word>>
    BY <1>2 DEF Public
  <2>2. PICK j \in {1, 2, 3} : Row(j, "GET", 2, "monitoring", word)
    BY <1>1, <2>1
  <2>3. Fits(Routes[j], method, path)
    <3>1. Len(path) = 2 /\ DOMAIN path = 1..2 /\ path[1] = "monitoring" /\ path[2] = word
      BY <2>1
    <3>2. /\ Routes[j].method = "GET" /\ Len(Routes[j].path) = 2
          /\ Routes[j].path[1] = "monitoring" /\ Routes[j].path[2] = word
      BY <2>2 DEF Row
    <3>3. QED
      BY <1>2, <3>1, <3>2 DEF Fits
  <2>4. i \in {1, 2, 3}
    BY <2>3
  <2>5. QED
    BY <2>4, PublicOps
<1>3. CASE method # "GET"
  <2>1. method = "POST" /\ Len(path) = 2
    BY <1>3 DEF Public
  <2>2. i \in Group("POST", 2)
    BY <2>1, Groups DEF Fits
  <2>3. i = 43
    BY <2>2 DEF Group
  <2>4. QED
    BY <2>3, PublicOps
<1>4. QED
  BY <1>2, <1>3

(* A request has a handler once it has been received: the first route that *)
(* fits it, and not without a token that the route asks for.               *)
HandlerInv ==
  /\ RequestTypes
  /\ \A r \in Reqs :
       /\ phase[r] \in {"idle", "sent"} => handler[r] = 0
       /\ phase[r] = "sent" => want[r] \in Wanted[r]
       /\ handler[r] # 0 =>
            /\ want[r] \in Wanted[r]
            /\ handler[r] = Dispatch(want[r].method, want[r].path)
            /\ want[r].token \/ Public(want[r].method, want[r].path)

LEMMA HandlerStart == Init => HandlerInv
<1> SUFFICES ASSUME Init PROVE HandlerInv
  OBVIOUS
<1>1. phase \in [Reqs -> Phases] /\ handler \in [Reqs -> Handlers]
  BY DEF Init, Phases, Handlers
<1>2. status \in [Reqs -> Codes] /\ code \in [Reqs -> Codes]
  BY DEF Init, Codes
<1>3. QED
  BY <1>1, <1>2 DEF Init, HandlerInv, RequestTypes

LEMMA HandlerStep == ASSUME HandlerInv, [Next]_vars PROVE HandlerInv'
<1>1. RequestTypes'
  BY RequestTypesStep DEF HandlerInv
<1>2. ASSUME NEW r \in Reqs, Send(r) PROVE HandlerInv'
  <2>1. PICK w \in Wanted[r] : want' = [want EXCEPT ![r] = w]
    BY <1>2 DEF Send
  <2>2. /\ phase[r] = "idle" /\ phase' = [phase EXCEPT ![r] = "sent"] /\ handler' = handler
    BY <1>2 DEF Send
  <2>3. QED
    BY <1>1, <2>1, <2>2 DEF HandlerInv, RequestTypes
<1>3. ASSUME NEW r \in Reqs, Receive(r) PROVE HandlerInv'
  <2> DEFINE i == Dispatch(want[r].method, want[r].path)
             refusal == Refusal(want[r], i)
  <2>1. /\ phase[r] = "sent" /\ want' = want
        /\ \/ phase' = [phase EXCEPT ![r] = "answered"] /\ handler' = handler
           \/ /\ refusal = 0 /\ handler' = [handler EXCEPT ![r] = i]
              /\ phase' = [phase EXCEPT ![r] = IF todo'[r] = <<>> THEN "returned" ELSE "working"]
    BY <1>3 DEF Receive
  <2>2. refusal = 0 => want[r].token \/ Public(want[r].method, want[r].path)
    BY DEF Refusal
  <2> HIDE DEF refusal
  <2>3. QED
    BY <1>1, <2>1, <2>2 DEF HandlerInv, RequestTypes
<1>4. ASSUME NEW r \in Reqs, LooksUp(r) \/ Resolved(r) \/ Rejected(r) PROVE HandlerInv'
  <2>1. phase[r] = "working" /\ want' = want /\ handler' = handler
    BY <1>4 DEF LooksUp, Resolved, Rejected, Waits, Working
  <2>2. phase' = phase \/ phase' = [phase EXCEPT ![r] = "returned"]
    BY <1>4 DEF LooksUp, Finds, Misses, Throws, Resolved, Rejected, Return
  <2>3. QED
    BY <1>1, <2>1, <2>2 DEF HandlerInv, RequestTypes
<1>5. ASSUME NEW r \in Reqs, Answers(r) PROVE HandlerInv'
  <2>1. /\ phase[r] = "returned" /\ phase' = [phase EXCEPT ![r] = "answered"]
        /\ want' = want /\ handler' = handler
    BY <1>5 DEF Answers
  <2>2. QED
    BY <1>1, <2>1 DEF HandlerInv, RequestTypes
<1>6. ASSUME NEW r \in Reqs, Executes(r) PROVE HandlerInv'
  <2>1. UNCHANGED <<want, phase, handler>>
    BY <1>6 DEF Executes, Begins, Connects, CallEnds, Clears, Bulk, Cleared, Ends, Agent
  <2>2. QED
    BY <1>1, <2>1 DEF HandlerInv
<1>7. CASE UNCHANGED vars
  BY <1>1, <1>7 DEF vars, HandlerInv
<1>8. QED
  BY <1>2, <1>3, <1>4, <1>5, <1>6, <1>7 DEF Next, Serves

(* RightOperation: what is asked for is what is done.  Whatever words a    *)
(* request has, it gets to the operation it was built for if none of them  *)
(* is a word of the table, and with no token only to a public one.         *)
THEOREM RequestsGoRight == Spec => []RightOperation
<1>1. HandlerInv => RightOperation
  <2> SUFFICES ASSUME HandlerInv, NEW r \in Reqs, want[r] # Empty, handler[r] # 0
               PROVE  /\ want[r].token \/ Op(r) \in {"swagger", "getHealth", "login"}
                      /\ LET built == Routes[want[r].route]
                             words == {want[r].path[i] :
                                         i \in {j \in DOMAIN built.path : built.path[j] \in Params}}
                         IN want[r].route # 0 /\ words \cap Reserved = {}
                              => Routes[handler[r]] = built
    BY Zenon DEF RightOperation
  <2> DEFINE w == want[r]
  <2>1. /\ w \in Wanted[r] /\ handler[r] = Dispatch(w.method, w.path)
        /\ w.token \/ Public(w.method, w.path)
    BY DEF HandlerInv
  <2>2. w \in Request
    BY <2>1, ApiAssumption
  <2>3. DOMAIN w.path = 1..Len(w.path)
    BY <2>2 DEF Request
  <2>4. /\ handler[r] \in 1..43 /\ Fits(Routes[handler[r]], w.method, w.path)
        /\ \A j \in 1..43 : Fits(Routes[j], w.method, w.path) => handler[r] <= j
    BY <2>1, DispatchIsFirst
  <2>5. w.token \/ Op(r) \in {"swagger", "getHealth", "login"}
    BY <2>1, <2>4, PublicRoutes DEF Op
  <2>6. ASSUME w.route # 0,
               {w.path[i] : i \in {j \in DOMAIN Routes[w.route].path :
                                     Routes[w.route].path[j] \in Params}} \cap Reserved = {}
        PROVE  handler[r] = w.route
    <3>1. w.route \in 1..43 /\ Fits(Routes[w.route], w.method, w.path)
      BY <2>1, <2>6, BuiltAssumption, TableLength
    <3>2. \A k \in DOMAIN Routes[w.route].path :
            Routes[w.route].path[k] \in Params => w.path[k] \notin Reserved
      BY <2>6, Zenon
    <3>3. ~(handler[r] < w.route)
      BY <2>3, <2>4, <3>1, <3>2, BuiltIsFirst
    <3>4. QED
      BY <2>4, <3>1, <3>3
  <2>7. QED
    BY <2>5, <2>6
<1>2. QED
  BY <1>1, HandlerStart, HandlerStep, PTL DEF Spec

-----------------------------------------------------------------------------
(* The bodies an operation may return.                                     *)
LEMMA Bodies ==
  /\ DOMAIN Data = Fields /\ Data.kind = "data"
  /\ DOMAIN Error = Fields /\ Error.kind = "error"
  BY SMT DEF Data, Error, Body, Fields

LEMMA GroupsBody ==
  ASSUME NEW gs, NEW ps, NEW b, b = [Data EXCEPT !.groups = gs, !.list = ps]
  PROVE  DOMAIN b = Fields /\ b.kind = "data"
  BY Bodies, SMT DEF Fields

LEMMA PartitionBody ==
  ASSUME NEW results
  PROVE  /\ DOMAIN Partition(results) = Fields
         /\ Partition(results).kind = "data"
         /\ Partition(results).done = {k \in DOMAIN results : results[k]}
         /\ Partition(results).failed = {k \in DOMAIN results : ~results[k]}
  BY Bodies, SMT DEF Partition, Fields

(* Only an operation's statuses go with its data.                          *)
LEMMA Statuses ==
  /\ \A op : OkStatus(op) \in {0, 200}
  /\ \A r : MissingStatus(r) \notin {0, 200}
  /\ \A w, i : Refusal(w, i) # 200
  BY SMT DEF OkStatus, MissingStatus, Refusal

(* An operation returns a status and a body that fit.                      *)
LEMMA ReturnStep ==
  ASSUME StatusInv, NEW r \in Reqs, NEW s, NEW b,
         phase[r] = "working", Return(r, s, b), UNCHANGED code,
         DOMAIN b = Fields, s \in {0, 200} <=> b.kind = "data"
  PROVE  StatusInv'
<1>1. /\ phase' = [phase EXCEPT ![r] = "returned"]
      /\ body' = [body EXCEPT ![r] = b]
      /\ status' = IF s = 0 THEN status ELSE [status EXCEPT ![r] = s]
      /\ code' = code
  BY DEF Return, Controller
<1>2. /\ phase' \in [Reqs -> Phases]
      /\ DOMAIN status' = Reqs /\ DOMAIN code' = Reqs /\ DOMAIN body' = Reqs
  BY <1>1, SMT DEF StatusInv, Phases
<1>3. /\ phase'[r] = "returned" /\ body'[r] = b /\ status'[r] = s
      /\ \A q \in Reqs : q # r => /\ phase'[q] = phase[q] /\ body'[q] = body[q]
                                  /\ status'[q] = status[q]
  BY <1>1, SMT DEF StatusInv
<1>4. QED
  BY <1>1, <1>2, <1>3, SMT DEF StatusInv, StatusFitsAnswer

(* What leaves the requests alone keeps the invariant.                     *)
LEMMA StatusAlone ==
  ASSUME StatusInv, UNCHANGED <<phase, status, body, code>> PROVE StatusInv'
  BY SMT DEF StatusInv, StatusFitsAnswer

LEMMA LookUpStep == ASSUME StatusInv, NEW r \in Reqs, LooksUp(r) PROVE StatusInv'
<1>1. phase[r] = "working" /\ UNCHANGED code
  BY DEF LooksUp, Working
<1>2. CASE Finds(r)
  <2>1. CASE UNCHANGED <<phase, status, body>>
    BY <1>1, <2>1, StatusAlone
  <2>2. CASE Return(r, OkStatus(Op(r)), Data)
    BY <1>1, <2>2, ReturnStep, Bodies, Statuses
  <2>3. ASSUME NEW ps \in Lists,
               Return(r, 200, [Data EXCEPT !.groups = Classify(ps), !.list = ps])
        PROVE  StatusInv'
    <3> DEFINE b == [Data EXCEPT !.groups = Classify(ps), !.list = ps]
    <3>1. DOMAIN b = Fields /\ b.kind = "data"
      BY GroupsBody
    <3> HIDE DEF b
    <3>2. Return(r, 200, b)
      BY <2>3 DEF b
    <3>3. QED
      BY <1>1, <3>1, <3>2, ReturnStep
  <2>4. QED
    BY <1>2, <2>1, <2>2, <2>3 DEF Finds
<1>3. CASE Misses(r)
  BY <1>1, <1>3, ReturnStep, Bodies, Statuses DEF Misses
<1>4. CASE Throws(r)
  BY <1>1, <1>4, ReturnStep, Bodies DEF Throws
<1>5. QED
  BY <1>2, <1>3, <1>4 DEF LooksUp

LEMMA CommandReturns ==
  ASSUME StatusInv, NEW r \in Reqs, Resolved(r) \/ Rejected(r) PROVE StatusInv'
<1>1. phase[r] = "working" /\ UNCHANGED code
  BY DEF Resolved, Rejected, Waits, Working
<1>2. CASE Resolved(r)
  <2>1. Return(r, 200, Partition(result[r]))
    BY <1>2 DEF Resolved
  <2>2. QED
    BY <1>1, <2>1, ReturnStep, PartitionBody
<1>3. CASE Rejected(r)
  BY <1>1, <1>3, ReturnStep, Bodies DEF Rejected
<1>4. QED
  BY <1>2, <1>3

LEMMA ReceiveStep == ASSUME StatusInv, NEW r \in Reqs, Receive(r) PROVE StatusInv'
<1>1. phase[r] = "sent" /\ status[r] = 0 /\ body[r].kind = "error" /\ UNCHANGED status
  BY SMT DEF Receive, StatusInv
<1>2. CASE \E s : s # 200 /\ phase' = [phase EXCEPT ![r] = "answered"]
                       /\ code' = [code EXCEPT ![r] = s] /\ UNCHANGED body
  BY <1>1, <1>2, SMT DEF StatusInv, StatusFitsAnswer, Phases
<1>3. CASE /\ phase' = [phase EXCEPT ![r] = "working"]
           /\ body' = [body EXCEPT ![r] = body[r]] /\ UNCHANGED code
  BY <1>1, <1>3, SMT DEF StatusInv, StatusFitsAnswer, Phases
<1>4. CASE /\ phase' = [phase EXCEPT ![r] = "returned"]
           /\ body' = [body EXCEPT ![r] = Data] /\ UNCHANGED code
  BY <1>1, <1>4, Bodies, SMT DEF StatusInv, StatusFitsAnswer, Phases
<1> DEFINE i == Dispatch(want[r].method, want[r].path)
           refusal == Refusal(want[r], i)
<1>5. refusal # 200
  BY Statuses
<1>6. \/ /\ phase' = [phase EXCEPT ![r] = "answered"]
         /\ code' = [code EXCEPT ![r] = refusal] /\ UNCHANGED body
      \/ /\ phase' = [phase EXCEPT ![r] = IF todo'[r] = <<>> THEN "returned" ELSE "working"]
         /\ body' = [body EXCEPT ![r] = IF todo'[r] = <<>> THEN Data ELSE body[r]]
         /\ UNCHANGED code
  BY Zenon DEF Receive
<1> HIDE DEF refusal
<1>7. QED
  <2>1. CASE todo'[r] = <<>>
    BY <1>2, <1>4, <1>5, <1>6, <2>1
  <2>2. CASE todo'[r] # <<>>
    BY <1>2, <1>3, <1>5, <1>6, <2>2
  <2>3. QED
    BY <2>1, <2>2

LEMMA AnswerStep == ASSUME StatusInv, NEW r \in Reqs, Answers(r) PROVE StatusInv'
<1>1. /\ phase[r] = "returned" /\ phase' = [phase EXCEPT ![r] = "answered"]
      /\ code' = [code EXCEPT ![r] = IF status[r] = 0 THEN 200 ELSE status[r]]
      /\ body' = [body EXCEPT ![r].groups = <<>>, ![r].list = <<>>]
      /\ UNCHANGED status
  BY DEF Answers, Controller
<1>2. /\ DOMAIN body' = Reqs
      /\ \A q \in Reqs : DOMAIN body'[q] = Fields /\ body'[q].kind = body[q].kind
  BY <1>1, SMT DEF StatusInv, Fields
<1>3. /\ phase' \in [Reqs -> Phases] /\ DOMAIN code' = Reqs
      /\ phase'[r] = "answered" /\ (code'[r] = 200 <=> status[r] \in {0, 200})
      /\ \A q \in Reqs : q # r => phase'[q] = phase[q] /\ code'[q] = code[q]
  BY <1>1, SMT DEF StatusInv, Phases
<1>4. QED
  BY <1>1, <1>2, <1>3, SMT DEF StatusInv, StatusFitsAnswer

LEMMA SendStep == ASSUME StatusInv, NEW r \in Reqs, Send(r) PROVE StatusInv'
  BY SMT DEF Send, StatusInv, StatusFitsAnswer, Phases

(* The agent's steps.                                                      *)
LEMMA ExecuteStep == ASSUME StatusInv, NEW r \in Reqs, Executes(r) PROVE StatusInv'
  BY StatusAlone DEF Executes, Begins, Connects, CallEnds, Clears, Bulk, Cleared, Ends, Agent

LEMMA StatusStep == ASSUME StatusInv, [Next]_vars PROVE StatusInv'
<1>1. ASSUME NEW r \in Reqs, Send(r) PROVE StatusInv'
  BY <1>1, SendStep
<1>2. ASSUME NEW r \in Reqs, Serves(r) PROVE StatusInv'
  BY <1>2, LookUpStep, CommandReturns, ReceiveStep, AnswerStep DEF Serves
<1>3. ASSUME NEW r \in Reqs, Executes(r) PROVE StatusInv'
  BY <1>3, ExecuteStep
<1>4. CASE UNCHANGED vars
  BY <1>4, StatusAlone DEF vars
<1>5. QED
  BY <1>1, <1>2, <1>3, <1>4 DEF Next

LEMMA StatusStart == Init => StatusInv
  BY Bodies, SMT DEF Init, StatusInv, StatusFitsAnswer, Phases

(* StatusFitsAnswer: however many requests interleave at their awaits, 200 *)
(* goes with data and nothing else does.                                   *)
THEOREM StatusesFit == Spec => []StatusFitsAnswer
<1>1. StatusInv => StatusFitsAnswer
  BY DEF StatusInv
<1>2. QED
  BY <1>1, StatusStart, StatusStep, PTL DEF Spec

-----------------------------------------------------------------------------
(* What r's command is about.                                              *)
Asked(r) == IF Op(r) = "clearCache" THEN {"sysctl"} ELSE Keys

IsDone(r, k) == k \in DOMAIN call[r] /\ call[r][k] = "done"

(* A command begins while it is waited for, or when its caller has been    *)
(* told otherwise; its run goes with its operation; its results are of the *)
(* calls; and what its request has returned is made of results.            *)
Begun(r) ==
  /\ begun[r] = 0 <=> run[r] = "none"
  /\ ended[r] > 0 => run[r] = "ended"
  /\ phase[r] \in {"idle", "sent"} => begun[r] = 0
  /\ phase[r] = "working" /\ begun[r] # 0 => Stage(r) = "command"

Told(r) ==
  answer[r] = "rejected" =>
    phase[r] \in {"returned", "answered"} /\ body[r].kind # "data"

Calling(r) ==
  /\ run[r] \in {"connecting", "calling"} => Op(r) # "clearCache"
  /\ run[r] \in {"syncing", "clearing"} => Op(r) = "clearCache"
  /\ run[r] = "calling" => DOMAIN call[r] = Keys
  /\ run[r] = "clearing" => "sysctl" \in DOMAIN call[r]

Executed(r) ==
  run[r] = "ended" =>
    \E success \in BOOLEAN : /\ result[r] = [k \in Asked(r) |-> success]
                             /\ success => \A k \in Asked(r) : IsDone(r, k)

Reported(r) ==
  begun[r] # 0 /\ body[r].kind = "data" =>
    /\ run[r] = "ended"
    /\ \A k \in body[r].done : IsDone(r, k)
    /\ body[r].done \cup body[r].failed = Asked(r)

RequestInv(r) == Begun(r) /\ Told(r) /\ Calling(r) /\ Executed(r) /\ Reported(r)

ReportTypes ==
  /\ DOMAIN handler = Reqs /\ DOMAIN todo = Reqs /\ DOMAIN run = Reqs
  /\ DOMAIN call = Reqs /\ DOMAIN result = Reqs /\ DOMAIN answer = Reqs
  /\ begun \in [Reqs -> Nat] /\ ended \in [Reqs -> Nat]

ReportInv == StatusInv /\ ReportTypes /\ \A r \in Reqs : RequestInv(r)

(* What the invariant says of q reads these.                               *)
About(q) == <<handler[q], phase[q], todo[q], body[q], answer[q], begun[q],
              ended[q], run[q], call[q], result[q]>>

LEMMA AboutKept ==
  ASSUME NEW q, RequestInv(q), UNCHANGED About(q) PROVE RequestInv(q)'
<1>1. /\ handler'[q] = handler[q] /\ phase'[q] = phase[q] /\ todo'[q] = todo[q]
      /\ body'[q] = body[q] /\ answer'[q] = answer[q]
      /\ begun'[q] = begun[q] /\ ended'[q] = ended[q]
      /\ run'[q] = run[q] /\ call'[q] = call[q] /\ result'[q] = result[q]
  BY DEF About
<1>2. Op(q)' = Op(q) /\ Stage(q)' = Stage(q) /\ Asked(q)' = Asked(q)
  BY <1>1 DEF Op, Stage, Asked
<1>3. \A k : IsDone(q, k)' <=> IsDone(q, k)
  BY <1>1 DEF IsDone
<1>4. QED
  BY <1>1, <1>2, <1>3, SMT DEF RequestInv, Begun, Told, Calling, Executed, Reported

(* A step is about one request.                                            *)
LEMMA OneRequest ==
  ASSUME ReportInv, StatusInv', ReportTypes', NEW r \in Reqs, RequestInv(r)',
         \A q \in Reqs : q # r => UNCHANGED About(q)
  PROVE  ReportInv'
  BY AboutKept DEF ReportInv

(* Partition tells apart what succeeded and what failed.                   *)
LEMMA PartitionOfAll ==
  ASSUME NEW S, NEW success \in BOOLEAN, NEW f, f = [k \in S |-> success]
  PROVE  /\ Partition(f).done = IF success THEN S ELSE {}
         /\ Partition(f).failed = IF success THEN {} ELSE S
<1>1. DOMAIN f = S /\ \A k \in S : f[k] <=> success
  BY Zenon
<1>2. /\ Partition(f).done = {k \in S : success}
      /\ Partition(f).failed = {k \in S : ~success}
  BY <1>1, SMT DEF Partition, Data, Body
<1>3. QED
  BY <1>2

(* The operation of r returns; data come from no command, or of its        *)
(* results.                                                                *)
LEMMA ReturnReported ==
  ASSUME ReportInv, NEW r \in Reqs, NEW s, NEW b,
         phase[r] = "working", Return(r, s, b),
         UNCHANGED <<handler, begun, ended, run, call, result>>,
         DOMAIN answer' = Reqs, \A q \in Reqs : q # r => answer'[q] = answer[q],
         answer'[r] = "rejected" => b.kind = "error",
         begun[r] = 0 \/ b.kind = "error" \/ (run[r] = "ended" /\ b = Partition(result[r]))
  PROVE  /\ ReportTypes' /\ RequestInv(r)'
         /\ \A q \in Reqs : q # r => UNCHANGED About(q)
<1>1. /\ phase' = [phase EXCEPT ![r] = "returned"]
      /\ body' = [body EXCEPT ![r] = b]
      /\ todo' = [todo EXCEPT ![r] = <<>>]
  BY DEF Return
<1>2. phase'[r] = "returned" /\ body'[r] = b /\ DOMAIN todo' = Reqs
  BY <1>1, SMT DEF ReportInv, ReportTypes, StatusInv
<1>3. ReportTypes'
  BY <1>2 DEF ReportInv, ReportTypes
<1>4. \A q \in Reqs : q # r => UNCHANGED About(q)
  BY <1>1, SMT DEF About, ReportInv, ReportTypes, StatusInv
<1>5. Asked(r)' = Asked(r) /\ \A k : IsDone(r, k)' <=> IsDone(r, k)
  BY DEF Asked, Op, IsDone
<1>6. Begun(r)' /\ Told(r)' /\ Calling(r)' /\ Executed(r)'
  BY <1>2, <1>5 DEF ReportInv, RequestInv, Begun, Told, Calling, Executed, Op
<1>7. Reported(r)'
  <2>1. CASE begun[r] = 0 \/ b.kind = "error"
    BY <1>2, <2>1 DEF Reported
  <2>2. CASE run[r] = "ended" /\ b = Partition(result[r])
    <3>1. PICK success \in BOOLEAN : /\ result[r] = [k \in Asked(r) |-> success]
                                     /\ success => \A k \in Asked(r) : IsDone(r, k)
      BY <2>2 DEF ReportInv, RequestInv, Executed
    <3>2. /\ b.done = IF success THEN Asked(r) ELSE {}
          /\ b.failed = IF success THEN {} ELSE Asked(r)
      BY <2>2, <3>1, PartitionOfAll
    <3>3. QED
      BY <1>2, <1>5, <2>2, <3>1, <3>2 DEF Reported
  <2>3. QED
    BY <2>1, <2>2
<1>8. QED
  BY <1>3, <1>4, <1>6, <1>7 DEF RequestInv

LEMMA LookUpReported == ASSUME ReportInv, NEW r \in Reqs, LooksUp(r) PROVE ReportInv'
<1>1. /\ phase[r] = "working" /\ StatusInv'
      /\ UNCHANGED <<handler, answer, begun, ended, run, call, result>>
  BY LookUpStep DEF LooksUp, Working, command, agent, ReportInv
<1>0. DOMAIN answer' = Reqs /\ answer'[r] # "rejected"
  BY <1>1 DEF ReportInv, ReportTypes, RequestInv, Told
<1>2. CASE Finds(r)
  <2>1. begun[r] = 0
    BY <1>1, <1>2 DEF Finds, ReportInv, RequestInv, Begun
  <2>2. CASE todo' = [todo EXCEPT ![r] = Tail(@)] /\ UNCHANGED <<phase, status, body>>
    <3>1. ReportTypes' /\ \A q \in Reqs : q # r => UNCHANGED About(q)
      BY <1>1, <2>2, SMT DEF About, ReportInv, ReportTypes
    <3>2. RequestInv(r)'
      <4>1. begun'[r] = 0 /\ run'[r] = "none" /\ ~(ended'[r] > 0)
        BY <1>1, <2>1 DEF ReportInv, RequestInv, Begun
      <4>2. QED
        BY <1>0, <4>1 DEF Told, RequestInv, Begun, Calling, Executed, Reported
    <3>3. QED
      BY <1>1, <3>1, <3>2, OneRequest
  <2>3. ASSUME NEW s, NEW b, Return(r, s, b) PROVE ReportInv'
    BY <1>0, <1>1, <2>1, <2>3, ReturnReported, OneRequest
  <2>4. QED
    BY <1>2, <2>2, <2>3 DEF Finds
<1>3. CASE Misses(r) \/ Throws(r)
  <2>1. PICK s : Return(r, s, Error)
    BY <1>3 DEF Misses, Throws
  <2>2. QED
    BY <1>0, <1>1, <2>1, Bodies, ReturnReported, OneRequest
<1>4. QED
  BY <1>2, <1>3 DEF LooksUp

LEMMA CommandReported ==
  ASSUME ReportInv, NEW r \in Reqs, Resolved(r) \/ Rejected(r) PROVE ReportInv'
<1>1. /\ phase[r] = "working" /\ StatusInv'
      /\ UNCHANGED <<handler, begun, ended, run, call, result>>
  BY CommandReturns DEF Resolved, Rejected, Waits, Working, agent, ReportInv,
     Contract!Resolve, Contract!Reject, Contract!Settle
<1>0. /\ DOMAIN answer' = Reqs /\ \A q \in Reqs : q # r => answer'[q] = answer[q]
      /\ Resolved(r) => answer'[r] = "resolved"
  BY SMT DEF Resolved, Rejected, Contract!Resolve, Contract!Reject, Contract!Settle,
             ReportInv, ReportTypes
<1>2. CASE Resolved(r)
  <2>1. Return(r, 200, Partition(result[r])) /\ ended[r] > 0
    BY <1>2 DEF Resolved, Contract!Resolve
  <2>2. run[r] = "ended"
    BY <2>1 DEF ReportInv, RequestInv, Begun
  <2>3. QED
    BY <1>0, <1>1, <1>2, <2>1, <2>2, ReturnReported, OneRequest
<1>3. CASE Rejected(r)
  <2>1. Return(r, 400, Error)
    BY <1>3 DEF Rejected
  <2>2. QED
    BY <1>0, <1>1, <2>1, Bodies, ReturnReported, OneRequest
<1>4. QED
  BY <1>2, <1>3

(* Nothing has begun for a request that is only sent, and what is answered *)
(* is what was returned.                                                   *)
LEMMA ReceiveReported == ASSUME ReportInv, NEW r \in Reqs, Receive(r) PROVE ReportInv'
<1>1. /\ StatusInv' /\ phase[r] = "sent"
      /\ UNCHANGED <<answer, begun, ended, run, call, result>>
  BY ReceiveStep DEF Receive, command, agent, ReportInv
<1>2. begun[r] = 0 /\ run[r] = "none" /\ ~(ended[r] > 0) /\ answer[r] # "rejected"
  BY <1>1 DEF ReportInv, RequestInv, Begun, Told
<1>3. ReportTypes' /\ \A q \in Reqs : q # r => UNCHANGED About(q)
  <2>1. CASE UNCHANGED <<handler, todo, body>> /\ phase' = [phase EXCEPT ![r] = "answered"]
    BY <1>1, <2>1, SMT DEF About, ReportInv, ReportTypes
  <2>2. ASSUME NEW i, NEW plan, NEW p, NEW b,
               handler' = [handler EXCEPT ![r] = i], todo' = [todo EXCEPT ![r] = plan],
               phase' = [phase EXCEPT ![r] = p], body' = [body EXCEPT ![r] = b]
        PROVE  ReportTypes' /\ \A q \in Reqs : q # r => UNCHANGED About(q)
    BY <1>1, <2>2, SMT DEF About, ReportInv, ReportTypes
  <2>3. QED
    BY <2>1, <2>2 DEF Receive
<1>4. RequestInv(r)'
  BY <1>1, <1>2 DEF RequestInv, Begun, Told, Calling, Executed, Reported
<1>5. QED
  BY <1>1, <1>3, <1>4, OneRequest

LEMMA SendReported == ASSUME ReportInv, NEW r \in Reqs, Send(r) PROVE ReportInv'
<1>1. /\ StatusInv' /\ phase[r] = "idle" /\ phase' = [phase EXCEPT ![r] = "sent"]
      /\ UNCHANGED <<handler, todo, body, answer, begun, ended, run, call, result>>
  BY SendStep DEF Send, command, agent, ReportInv
<1>2. begun[r] = 0 /\ run[r] = "none" /\ ~(ended[r] > 0) /\ answer[r] # "rejected"
  BY <1>1 DEF ReportInv, RequestInv, Begun, Told
<1>3. ReportTypes' /\ \A q \in Reqs : q # r => UNCHANGED About(q)
  BY <1>1, SMT DEF About, ReportInv, ReportTypes
<1>4. RequestInv(r)'
  BY <1>1, <1>2 DEF RequestInv, Begun, Told, Calling, Executed, Reported
<1>5. QED
  BY <1>1, <1>3, <1>4, OneRequest

LEMMA AnswerReported == ASSUME ReportInv, NEW r \in Reqs, Answers(r) PROVE ReportInv'
<1>1. /\ StatusInv' /\ phase[r] = "returned" /\ phase' = [phase EXCEPT ![r] = "answered"]
      /\ body' = [body EXCEPT ![r].groups = <<>>, ![r].list = <<>>]
      /\ UNCHANGED <<handler, todo, answer, begun, ended, run, call, result>>
  BY AnswerStep DEF Answers, command, agent, ReportInv
<1>2. /\ phase'[r] = "answered" /\ body'[r].kind = body[r].kind
      /\ body'[r].done = body[r].done /\ body'[r].failed = body[r].failed
      /\ \A q \in Reqs : q # r => phase'[q] = phase[q] /\ body'[q] = body[q]
  BY <1>1, SMT DEF ReportInv, StatusInv, Fields
<1>3. ReportTypes' /\ \A q \in Reqs : q # r => UNCHANGED About(q)
  BY <1>1, <1>2 DEF About, ReportInv, ReportTypes
<1>4. Asked(r)' = Asked(r) /\ \A k : IsDone(r, k)' <=> IsDone(r, k)
  BY <1>1 DEF Asked, Op, IsDone
<1>5. RequestInv(r)'
  <2>1. Begun(r)' /\ Told(r)' /\ Calling(r)' /\ Executed(r)'
    BY <1>1, <1>2, <1>4 DEF ReportInv, RequestInv, Begun, Told, Calling, Executed, Op
  <2>2. Reported(r)'
    BY <1>1, <1>2, <1>4 DEF ReportInv, RequestInv, Reported
  <2>3. QED
    BY <2>1, <2>2 DEF RequestInv
<1>6. QED
  BY <1>1, <1>3, <1>5, OneRequest

-----------------------------------------------------------------------------
(* What the agent does leaves the request itself alone.                    *)
LEMMA AgentReported ==
  ASSUME ReportInv, NEW r \in Reqs, Executes(r), ReportTypes', RequestInv(r)',
         \A q \in Reqs : q # r =>
           UNCHANGED <<begun[q], ended[q], run[q], call[q], result[q]>>
  PROVE  ReportInv'
<1>1. StatusInv'
  BY ExecuteStep DEF ReportInv
<1>2. UNCHANGED <<phase, handler, todo, body, answer>>
  BY DEF Executes, Begins, Connects, CallEnds, Clears, Bulk, Cleared, Ends, Agent, command,
         Contract!Begin, Contract!End
<1>3. \A q \in Reqs : q # r => UNCHANGED About(q)
  BY <1>2 DEF About
<1>4. QED
  BY <1>1, <1>3, OneRequest

LEMMA BeginsReported == ASSUME ReportInv, NEW r \in Reqs, Begins(r) PROVE ReportInv'
<1>1. /\ \/ phase[r] = "working" /\ Stage(r) = "command"
         \/ answer[r] = "rejected"
      /\ begun[r] = 0 /\ begun' = [begun EXCEPT ![r] = @ + 1]
      /\ UNCHANGED <<phase, handler, todo, body, answer, ended, result>>
  BY DEF Begins, Waits, Working, Contract!Begin, Agent
<1>0. /\ phase[r] \notin {"idle", "sent"} /\ body[r].kind # "data"
      /\ phase[r] = "working" => Stage(r) = "command"
  BY <1>1 DEF ReportInv, RequestInv, Told, StatusInv
<1>2. CASE /\ Op(r) = "clearCache" /\ run' = [run EXCEPT ![r] = "syncing"]
           /\ call' = [call EXCEPT ![r] = [sync |-> "out"]]
  <2>1. ReportTypes' /\ begun'[r] = 1 /\ run'[r] = "syncing"
    BY <1>1, <1>2, SMT DEF ReportInv, ReportTypes
  <2>2. \A q \in Reqs : q # r => UNCHANGED <<begun[q], ended[q], run[q], call[q], result[q]>>
    BY <1>1, <1>2, SMT DEF ReportInv, ReportTypes
  <2>3. ~(ended[r] > 0)
    BY <1>1 DEF ReportInv, RequestInv, Begun
  <2>4. RequestInv(r)'
    <3>1. Begun(r)'
      BY <1>0, <1>1, <2>1, <2>3 DEF Begun, Stage
    <3>2. Told(r)'
      BY <1>1 DEF ReportInv, RequestInv, Told
    <3>3. Calling(r)' /\ Executed(r)' /\ Reported(r)'
      BY <1>0, <1>1, <1>2, <2>1 DEF Calling, Executed, Reported, Op
    <3>4. QED
      BY <3>1, <3>2, <3>3 DEF RequestInv
  <2>5. QED
    BY <2>1, <2>2, <2>4, AgentReported DEF Executes
<1>3. CASE /\ Op(r) # "clearCache" /\ run' = [run EXCEPT ![r] = "connecting"]
           /\ UNCHANGED call
  <2>1. ReportTypes' /\ begun'[r] = 1 /\ run'[r] = "connecting"
    BY <1>1, <1>3, SMT DEF ReportInv, ReportTypes
  <2>2. \A q \in Reqs : q # r => UNCHANGED <<begun[q], ended[q], run[q], call[q], result[q]>>
    BY <1>1, <1>3, SMT DEF ReportInv, ReportTypes
  <2>3. ~(ended[r] > 0)
    BY <1>1 DEF ReportInv, RequestInv, Begun
  <2>4. RequestInv(r)'
    <3>1. Begun(r)'
      BY <1>0, <1>1, <2>1, <2>3 DEF Begun, Stage
    <3>2. Told(r)'
      BY <1>1 DEF ReportInv, RequestInv, Told
    <3>3. Calling(r)' /\ Executed(r)' /\ Reported(r)'
      BY <1>0, <1>1, <1>3, <2>1 DEF Calling, Executed, Reported, Op
    <3>4. QED
      BY <3>1, <3>2, <3>3 DEF RequestInv
  <2>5. QED
    BY <2>1, <2>2, <2>4, AgentReported DEF Executes
<1>4. QED
  BY <1>2, <1>3 DEF Begins

(* Before its results are out, a command's request has no data.            *)
LEMMA CallsReported ==
  ASSUME ReportInv, NEW r \in Reqs, Connects(r) \/ Clears(r) PROVE ReportInv'
<1>1. /\ run[r] \in {"connecting", "syncing"}
      /\ UNCHANGED <<phase, handler, todo, body, answer, begun, ended, result>>
  BY DEF Connects, Clears, command, Agent
<1>2. ~(ended[r] > 0) /\ begun[r] # 0 /\ body[r].kind # "data"
  BY <1>1 DEF ReportInv, RequestInv, Begun, Reported
<1>3. CASE Connects(r)
  <2>1. ReportTypes' /\ run'[r] = "calling" /\ DOMAIN call'[r] = Keys
    BY <1>1, <1>3, SMT DEF Connects, ReportInv, ReportTypes
  <2>2. \A q \in Reqs : q # r => UNCHANGED <<begun[q], ended[q], run[q], call[q], result[q]>>
    BY <1>1, <1>3, SMT DEF Connects, ReportInv, ReportTypes
  <2>3. RequestInv(r)'
    BY <1>1, <1>2, <1>3, <2>1
       DEF Connects, ReportInv, RequestInv, Begun, Told, Calling, Executed, Reported, Stage, Op
  <2>4. QED
    BY <1>3, <2>1, <2>2, <2>3, AgentReported DEF Executes
<1>4. CASE Clears(r)
  <2>1. ReportTypes' /\ run'[r] = "clearing"
    BY <1>1, <1>4, SMT DEF Clears, ReportInv, ReportTypes
  <2>2. \A q \in Reqs : q # r => UNCHANGED <<begun[q], ended[q], run[q], call[q], result[q]>>
    BY <1>1, <1>4, SMT DEF Clears, ReportInv, ReportTypes
  <2>3. "sysctl" \in DOMAIN call'[r]
    BY <1>4, SMT DEF Clears, ReportInv, ReportTypes
  <2>4. RequestInv(r)'
    BY <1>1, <1>2, <1>4, <2>1, <2>3
       DEF Clears, ReportInv, RequestInv, Begun, Told, Calling, Executed, Reported, Stage, Op
  <2>5. QED
    BY <1>4, <2>1, <2>2, <2>4, AgentReported DEF Executes
<1>5. QED
  BY <1>3, <1>4

(* A call that has ended stays as it ended.                                *)
LEMMA CallEndsReported ==
  ASSUME ReportInv, NEW r \in Reqs, CallEnds(r) PROVE ReportInv'
<1>1. UNCHANGED <<phase, handler, todo, body, answer, begun, ended, run, result>>
  BY DEF CallEnds, command, Agent
<1>2. PICK k \in DOMAIN call[r], end \in {"done", "refused"} :
        call[r][k] = "out" /\ call' = [call EXCEPT ![r][k] = end]
  BY DEF CallEnds
<1>3. /\ DOMAIN call' = Reqs /\ DOMAIN call'[r] = DOMAIN call[r]
      /\ \A j \in DOMAIN call[r] : call[r][j] = "done" => call'[r][j] = "done"
      /\ \A q \in Reqs : q # r => call'[q] = call[q]
  BY <1>2, SMT DEF ReportInv, ReportTypes
<1>4. ReportTypes'
  BY <1>1, <1>3 DEF ReportInv, ReportTypes
<1>5. Asked(r)' = Asked(r) /\ \A j : IsDone(r, j) => IsDone(r, j)'
  BY <1>1, <1>3 DEF Asked, Op, IsDone
<1>6. Begun(r)' /\ Told(r)' /\ Calling(r)'
  BY <1>1, <1>3 DEF ReportInv, RequestInv, Begun, Told, Calling, Stage, Op
<1>7. Executed(r)'
  BY <1>1, <1>5 DEF ReportInv, RequestInv, Executed
<1>8. Reported(r)'
  BY <1>1, <1>5 DEF ReportInv, RequestInv, Reported
<1>9. QED
  BY <1>1, <1>3, <1>4, <1>6, <1>7, <1>8, AgentReported DEF Executes, RequestInv

LEMMA EndsReported ==
  ASSUME ReportInv, NEW r \in Reqs, NEW success \in BOOLEAN, Ends(r, Asked(r), success),
         run[r] \in {"connecting", "calling", "syncing", "clearing"},
         success => \A k \in Asked(r) : IsDone(r, k),
         Bulk(r) \/ Cleared(r)
  PROVE  ReportInv'
<1>1. /\ ended' = [ended EXCEPT ![r] = @ + 1] /\ run' = [run EXCEPT ![r] = "ended"]
      /\ result' = [result EXCEPT ![r] = [k \in Asked(r) |-> success]]
      /\ UNCHANGED <<phase, handler, todo, body, answer, begun, call>>
  BY DEF Ends, Contract!End, Agent
<1>2. /\ ReportTypes' /\ run'[r] = "ended" /\ result'[r] = [k \in Asked(r) |-> success]
      /\ \A q \in Reqs : q # r => UNCHANGED <<begun[q], ended[q], run[q], call[q], result[q]>>
  BY <1>1, SMT DEF ReportInv, ReportTypes
<1>3. begun[r] # 0 /\ body[r].kind # "data"
  BY DEF ReportInv, RequestInv, Begun, Reported
<1>4. Asked(r)' = Asked(r) /\ \A k : IsDone(r, k)' <=> IsDone(r, k)
  BY <1>1 DEF Asked, Op, IsDone
<1>5. Begun(r)' /\ Told(r)' /\ Calling(r)' /\ Reported(r)'
  BY <1>1, <1>2, <1>3 DEF ReportInv, RequestInv, Begun, Told, Calling, Reported, Stage, Op
<1>6. Executed(r)'
  BY <1>2, <1>4 DEF Executed
<1>7. QED
  BY <1>2, <1>5, <1>6, AgentReported DEF Executes, RequestInv

(* All keys have succeeded when every call is done, and failed otherwise.  *)
LEMMA BulkReported == ASSUME ReportInv, NEW r \in Reqs, Bulk(r) PROVE ReportInv'
<1>1. /\ run[r] \in {"connecting", "calling"} /\ Asked(r) = Keys
      /\ run[r] = "calling" => DOMAIN call[r] = Keys
  BY DEF Bulk, ReportInv, RequestInv, Calling, Asked
<1>2. CASE Ends(r, Keys, FALSE)
  BY <1>1, <1>2, EndsReported
<1>3. CASE /\ run[r] = "calling" /\ \A k \in Keys : call[r][k] = "done"
           /\ Ends(r, Keys, TRUE)
  <2>1. \A k \in Asked(r) : IsDone(r, k)
    BY <1>1, <1>3 DEF IsDone
  <2>2. QED
    BY <1>1, <1>3, <2>1, EndsReported
<1>4. QED
  BY <1>2, <1>3 DEF Bulk

LEMMA ClearedReported == ASSUME ReportInv, NEW r \in Reqs, Cleared(r) PROVE ReportInv'
<1>1. /\ run[r] \in {"syncing", "clearing"} /\ Asked(r) = {"sysctl"}
      /\ run[r] = "clearing" => "sysctl" \in DOMAIN call[r]
  BY DEF Cleared, ReportInv, RequestInv, Calling, Asked
<1>2. CASE Ends(r, {"sysctl"}, FALSE)
  BY <1>1, <1>2, EndsReported
<1>3. CASE /\ run[r] = "clearing" /\ call[r].sysctl = "done"
           /\ Ends(r, {"sysctl"}, TRUE)
  <2>1. \A k \in Asked(r) : IsDone(r, k)
    BY <1>1, <1>3 DEF IsDone
  <2>2. QED
    BY <1>1, <1>3, <2>1, EndsReported
<1>4. QED
  BY <1>2, <1>3 DEF Cleared

LEMMA ReportStep == ASSUME ReportInv, [Next]_vars PROVE ReportInv'
<1>1. ASSUME NEW r \in Reqs, Send(r) PROVE ReportInv'
  BY <1>1, SendReported
<1>2. ASSUME NEW r \in Reqs, Serves(r) PROVE ReportInv'
  BY <1>2, ReceiveReported, LookUpReported, CommandReported, AnswerReported DEF Serves
<1>3. ASSUME NEW r \in Reqs, Executes(r) PROVE ReportInv'
  BY <1>3, BeginsReported, CallsReported, CallEndsReported, BulkReported, ClearedReported
     DEF Executes
<1>4. CASE UNCHANGED vars
  <2>1. UNCHANGED <<phase, handler, todo, status, body, code, answer, begun, ended, run, call, result>>
    BY <1>4 DEF vars, command, agent
  <2>2. StatusInv' /\ ReportTypes' /\ \A q \in Reqs : UNCHANGED About(q)
    BY <2>1, StatusAlone DEF ReportInv, ReportTypes, About
  <2>3. QED
    BY <2>2, AboutKept DEF ReportInv
<1>5. QED
  BY <1>1, <1>2, <1>3, <1>4 DEF Next

LEMMA ReportStart == Init => ReportInv
<1> SUFFICES ASSUME Init PROVE ReportInv
  OBVIOUS
<1>1. ReportTypes
  BY SMT DEF Init, ReportTypes, Contract!Init
<1>2. ASSUME NEW r \in Reqs
      PROVE  /\ phase[r] = "idle" /\ begun[r] = 0 /\ ended[r] = 0 /\ run[r] = "none"
             /\ answer[r] = "open"
  BY SMT DEF Init, Contract!Init
<1>3. ASSUME NEW r \in Reqs PROVE RequestInv(r)
  BY <1>2 DEF RequestInv, Begun, Told, Calling, Executed, Reported
<1>4. QED
  BY <1>1, <1>3, StatusStart DEF ReportInv

(* ReportedIsDone: what is reported as started, stopped and so on has been *)
(* done, whatever fails, and every process that was asked for is reported. *)
THEOREM ReportsAreTrue == Spec => []ReportedIsDone
<1>1. ReportInv => ReportedIsDone
  BY DEF ReportInv, RequestInv, Reported, ReportedIsDone, IsDone, Asked
<1>2. QED
  BY <1>1, ReportStart, ReportStep, PTL DEF Spec

-----------------------------------------------------------------------------
(* The groups of a list after its first n processes: that this function,   *)
(* which its own values define, exists is by the least n without one.      *)
GroupsOf(ps, groups, n) ==
  groups = [m \in 0..n |-> IF m = 0 THEN <<>> ELSE Place(groups[m - 1], ps[m])]

LEMMA GroupsExist ==
  ASSUME NEW ps, NEW N \in Nat PROVE \E groups : GroupsOf(ps, groups, N)
<1> DEFINE T == {n \in 0..N : ~\E groups : GroupsOf(ps, groups, n)}
<1>1. SUFFICES T = {}
  BY DEF T
<1>2. SUFFICES ASSUME T # {} PROVE FALSE
  OBVIOUS
<1>3. PICK n \in T : \A m \in T : n <= m
  <2>1. T \subseteq Nat
    OBVIOUS
  <2>2. QED
    BY <1>2, <2>1, LeastNatural
<1>4. n \in 0..N /\ ~\E groups : GroupsOf(ps, groups, n)
  OBVIOUS
<1>5. CASE n = 0
  <2> DEFINE groups == [m \in 0..0 |-> <<>>]
  <2>1. \A m \in 0..0 : m = 0
    OBVIOUS
  <2>2. groups = [m \in 0..0 |-> IF m = 0 THEN <<>> ELSE Place(groups[m - 1], ps[m])]
    BY <2>1
  <2> HIDE DEF groups
  <2>3. QED
    BY <1>4, <1>5, <2>2 DEF GroupsOf
<1>6. CASE n # 0
  <2>1. n - 1 \in 0..N /\ n - 1 \notin T
    BY <1>3, <1>4, <1>6
  <2>2. PICK f : GroupsOf(ps, f, n - 1)
    BY <2>1
  <2>3. \A m \in 0..(n - 1) : f[m] = IF m = 0 THEN <<>> ELSE Place(f[m - 1], ps[m])
    BY <2>2 DEF GroupsOf
  <2> DEFINE groups == [m \in 0..n |-> IF m = n THEN Place(f[n - 1], ps[n]) ELSE f[m]]
  <2>4. \A m \in 0..n : groups[m] = IF m = n THEN Place(f[n - 1], ps[n]) ELSE f[m]
    OBVIOUS
  <2>5. DOMAIN groups = 0..n /\ groups = [m \in 0..n |-> groups[m]]
    OBVIOUS
  <2> HIDE DEF groups
  <2>6. \A m \in 0..n : groups[m] = IF m = 0 THEN <<>> ELSE Place(groups[m - 1], ps[m])
    <3>1. TAKE m \in 0..n
    <3>2. CASE m = n
      BY <1>4, <1>6, <2>4, <3>2
    <3>3. CASE m # n
      BY <1>4, <2>3, <2>4, <3>3
    <3>4. QED
      BY <3>2, <3>3
  <2>7. groups = [m \in 0..n |-> IF m = 0 THEN <<>> ELSE Place(groups[m - 1], ps[m])]
    BY <2>5, <2>6
  <2>8. QED
    BY <1>4, <2>7 DEF GroupsOf
<1>7. QED
  BY <1>5, <1>6

LEMMA ClassifySteps ==
  ASSUME NEW ps, Len(ps) \in Nat
  PROVE  \E groups :
           /\ Classify(ps) = groups[Len(ps)]
           /\ groups[0] = <<>>
           /\ \A n \in 1..Len(ps) : groups[n] = Place(groups[n - 1], ps[n])
<1> DEFINE groups == CHOOSE groups : GroupsOf(ps, groups, Len(ps))
<1>1. GroupsOf(ps, groups, Len(ps))
  BY GroupsExist
<1>2. Classify(ps) = groups[Len(ps)]
  BY DEF Classify, GroupsOf
<1> HIDE DEF groups
<1>3. /\ groups[0] = <<>>
      /\ \A n \in 1..Len(ps) : groups[n] = Place(groups[n - 1], ps[n])
  BY <1>1 DEF GroupsOf
<1>4. QED
  BY <1>2, <1>3

(* To share a key is to be of one BOS.                                     *)
LEMMA KeysAreBos ==
  ASSUME NEW p, NEW q PROVE BosKeys(p) \cap BosKeys(q) # {} <=> SameBos(p, q)
<1>1. ASSUME NEW r, NEW x \in BosKeys(r)
      PROVE  x[2] = BosName(r) /\ IF x[1] = "" THEN BosName(r) # "" ELSE x[1] = r.conn
  <2>1. \/ BosName(r) # "" /\ x = <<"", BosName(r)>>
        \/ r.conn # "" /\ x = <<r.conn, BosName(r)>>
    BY <1>1, Zenon DEF BosKeys
  <2>2. ASSUME NEW c, x = <<c, BosName(r)>>, IF c = "" THEN BosName(r) # "" ELSE c = r.conn
        PROVE  x[2] = BosName(r) /\ IF x[1] = "" THEN BosName(r) # "" ELSE x[1] = r.conn
    <3>1. x[1] = c /\ x[2] = BosName(r)
      BY <2>2
    <3>2. QED
      BY <2>2, <3>1
  <2>3. QED
    BY <2>1, <2>2, Zenon
<1>2. ASSUME NEW x \in BosKeys(p) \cap BosKeys(q) PROVE SameBos(p, q)
  BY <1>1 DEF SameBos
<1>3. ASSUME SameBos(p, q) PROVE \E x : x \in BosKeys(p) /\ x \in BosKeys(q)
  <2>1. CASE BosName(p) # ""
    BY <1>3, <2>1 DEF BosKeys, SameBos
  <2>2. CASE BosName(p) = ""
    BY <1>3, <2>2 DEF BosKeys, SameBos
  <2>3. QED
    BY <2>1, <2>2
<1>4. QED
  BY <1>2, <1>3

LEMMA SameBosTransitive ==
  ASSUME NEW p, NEW q, SameBos(p, q)
  PROVE  SameBos(q, p) /\ \A s : SameBos(q, s) => SameBos(p, s)
  BY DEF SameBos

(* What a process is placed into: the group of a process of its BOS, or a  *)
(* group of its own when there is none.                                    *)
LEMMA PlaceCases ==
  ASSUME NEW groups, NEW p, Len(groups) \in Nat, DOMAIN groups = 1..Len(groups)
  PROVE  \/ /\ Place(groups, p) = Append(groups, NewGroup(p))
            /\ \A i \in DOMAIN groups : groups[i].keys \cap BosKeys(p) = {}
         \/ \E i \in DOMAIN groups :
              /\ Place(groups, p) = [groups EXCEPT ![i] = Joined(groups[i], p)]
              /\ groups[i].keys \cap BosKeys(p) # {}
<1> DEFINE T == {i \in 1..Len(groups) : groups[i].keys \cap BosKeys(p) # {}}
           i == IF T # {} THEN Min(T) ELSE 0
<1>1. Place(groups, p) = IF i = 0 THEN Append(groups, NewGroup(p))
                                  ELSE [groups EXCEPT ![i] = Joined(groups[i], p)]
  BY DEF Place, SelectInSeq
<1>2. T \subseteq Nat
  OBVIOUS
<1>3. \A k \in T : k \in DOMAIN groups /\ k # 0 /\ groups[k].keys \cap BosKeys(p) # {}
  OBVIOUS
<1>4. T = {} => \A k \in DOMAIN groups : groups[k].keys \cap BosKeys(p) = {}
  OBVIOUS
<1> HIDE DEF T
<1>5. T # {} => Min(T) \in T
  BY <1>2, LeastNatural DEF Min
<1>6. CASE T = {}
  BY <1>1, <1>4, <1>6
<1>7. CASE T # {}
  <2>1. i \in T
    BY <1>5, <1>7
  <2> HIDE DEF i
  <2>2. QED
    BY <1>1, <1>3, <2>1
<1>8. QED
  BY <1>6, <1>7

GroupsOn(P) == [keys : {BosKeys(p) : p \in P}, name : {BosName(p) : p \in P},
                conn : {p.conn : p \in P}, processes : Seq(P)]

(* The groups are those of the first n processes: a group has the keys of  *)
(* its first process, and no two groups have firsts of one BOS.            *)
Listed(groups, ps, n) ==
  /\ \A i \in DOMAIN groups : \A j \in DOMAIN groups[i].processes :
       \E m \in 1..n : groups[i].processes[j] = ps[m]
  /\ \A m \in 1..n : \E i \in DOMAIN groups :
       \E j \in DOMAIN groups[i].processes : groups[i].processes[j] = ps[m]

OncePlaced(groups) ==
  \A i, k \in DOMAIN groups :
    \A j \in DOMAIN groups[i].processes, l \in DOMAIN groups[k].processes :
      groups[i].processes[j] = groups[k].processes[l] => i = k /\ j = l

Keyed(groups) ==
  \A i \in DOMAIN groups :
    /\ 1 \in DOMAIN groups[i].processes
    /\ groups[i].keys = BosKeys(groups[i].processes[1])
    /\ \A j \in DOMAIN groups[i].processes :
         j = 1 \/ SameBos(groups[i].processes[1], groups[i].processes[j])

FirstsDiffer(groups) ==
  \A i, k \in DOMAIN groups :
    SameBos(groups[i].processes[1], groups[k].processes[1]) => i = k

ConnsFilled(groups) ==
  \A i \in DOMAIN groups :
    groups[i].conn = "" => \A j \in DOMAIN groups[i].processes : groups[i].processes[j].conn = ""

Placed(groups, ps, n) ==
  /\ groups \in Seq(GroupsOn(ToSet(ps)))
  /\ Listed(groups, ps, n) /\ OncePlaced(groups) /\ Keyed(groups)
  /\ FirstsDiffer(groups) /\ ConnsFilled(groups)

LEMMA AppendFacts ==
  ASSUME NEW S, NEW s \in Seq(S), NEW x \in S, NEW t, t = Append(s, x)
  PROVE  /\ t \in Seq(S) /\ DOMAIN t = 1..(Len(s) + 1) /\ DOMAIN s = 1..Len(s) /\ Len(s) \in Nat
         /\ \A i \in DOMAIN s : t[i] = s[i]
         /\ t[Len(s) + 1] = x
  OBVIOUS

LEMMA ExceptFacts ==
  ASSUME NEW S, NEW s \in Seq(S), NEW k \in DOMAIN s, NEW x \in S, NEW t, t = [s EXCEPT ![k] = x]
  PROVE  /\ t \in Seq(S) /\ DOMAIN t = DOMAIN s /\ t[k] = x
         /\ \A i \in DOMAIN s : i # k => t[i] = s[i]
  OBVIOUS

(* A process of no group's BOS gets a group of its own.                    *)
LEMMA OwnGroup ==
  ASSUME NEW ps, NEW n \in Nat, n + 1 \in DOMAIN ps,
         \A i, j \in DOMAIN ps : ps[i] = ps[j] => i = j, 1..n \subseteq DOMAIN ps,
         NEW groups, Placed(groups, ps, n),
         \A i \in DOMAIN groups : groups[i].keys \cap BosKeys(ps[n + 1]) = {}
  PROVE  Placed(Append(groups, NewGroup(ps[n + 1])), ps, n + 1)
<1> DEFINE p == ps[n + 1]
           new == Append(groups, NewGroup(p))
           P == ToSet(ps)
<1>1. p \in P
  BY DEF ToSet
<1>2. NewGroup(p) \in GroupsOn(P) /\ NewGroup(p).keys = BosKeys(p)
      /\ NewGroup(p).processes = <<p>> /\ NewGroup(p).conn = p.conn
  <2>1. <<p>> \in Seq(P)
    BY <1>1
  <2>2. QED
    BY <1>1, <2>1 DEF NewGroup, GroupsOn
<1>3. PICK last \in Nat : /\ DOMAIN groups = 1..last /\ DOMAIN new = 1..(last + 1)
                          /\ new \in Seq(GroupsOn(P))
                          /\ \A i \in DOMAIN groups : new[i] = groups[i]
                          /\ new[last + 1] = NewGroup(p)
  <2>1. groups \in Seq(GroupsOn(P))
    BY DEF Placed
  <2>2. /\ new \in Seq(GroupsOn(P)) /\ DOMAIN new = 1..(Len(groups) + 1)
        /\ DOMAIN groups = 1..Len(groups) /\ Len(groups) \in Nat
        /\ \A i \in DOMAIN groups : new[i] = groups[i]
        /\ new[Len(groups) + 1] = NewGroup(p)
    BY <1>2, <2>1, AppendFacts
  <2>3. QED
    BY <2>2
<1>4. \A m \in 1..n : ps[m] # p
  OBVIOUS
<1> HIDE DEF new, P, p
<1>5. DOMAIN <<p>> = 1..1 /\ <<p>>[1] = p
  OBVIOUS
<1>6. /\ \A i \in DOMAIN new : i \in DOMAIN groups \/ i = last + 1
      /\ last + 1 \in DOMAIN new /\ last + 1 \notin DOMAIN groups
      /\ DOMAIN groups \subseteq DOMAIN new
      /\ DOMAIN new[last + 1].processes = {1} /\ new[last + 1].processes[1] = p
      /\ new[last + 1].keys = BosKeys(p) /\ new[last + 1].conn = p.conn
  BY <1>2, <1>3, <1>5
<1>7. Listed(new, ps, n + 1)
  <2>1. Listed(groups, ps, n)
    BY DEF Placed
  <2>2. ASSUME NEW i \in DOMAIN new, NEW j \in DOMAIN new[i].processes
        PROVE  \E m \in 1..(n + 1) : new[i].processes[j] = ps[m]
    <3>1. CASE i \in DOMAIN groups
      <4>1. PICK m \in 1..n : groups[i].processes[j] = ps[m]
        BY <1>3, <2>1, <2>2, <3>1 DEF Listed
      <4>2. m \in 1..(n + 1)
        OBVIOUS
      <4>3. QED
        BY <1>3, <3>1, <4>1, <4>2
    <3>2. CASE i = last + 1
      <4>1. n + 1 \in 1..(n + 1)
        OBVIOUS
      <4>2. QED
        BY <1>6, <2>2, <3>2, <4>1 DEF p
    <3>3. QED
      BY <1>6, <3>1, <3>2
  <2>3. ASSUME NEW m \in 1..(n + 1)
        PROVE  \E i \in DOMAIN new : \E j \in DOMAIN new[i].processes :
                 new[i].processes[j] = ps[m]
    <3>1. CASE m \in 1..n
      BY <1>3, <1>6, <2>1, <3>1 DEF Listed
    <3>2. CASE m = n + 1
      BY <1>6, <3>2 DEF p
    <3>3. QED
      BY <3>1, <3>2
  <2>4. QED
    BY <2>2, <2>3 DEF Listed
<1>8. OncePlaced(new)
  <2>1. \A i \in DOMAIN groups : \A j \in DOMAIN groups[i].processes : groups[i].processes[j] # p
    <3>1. ASSUME NEW i \in DOMAIN groups, NEW j \in DOMAIN groups[i].processes
          PROVE  \E m \in 1..n : groups[i].processes[j] = ps[m]
      BY <3>1 DEF Placed, Listed
    <3>2. QED
      BY <1>4, <3>1
  <2>2. OncePlaced(groups)
    BY DEF Placed
  <2>3. ASSUME NEW i \in DOMAIN new, NEW j \in DOMAIN new[i].processes
        PROVE  \/ i = last + 1 /\ j = 1 /\ new[i].processes[j] = p
               \/ /\ i \in DOMAIN groups /\ j \in DOMAIN groups[i].processes
                  /\ new[i].processes[j] = groups[i].processes[j]
    BY <1>3, <1>6, <2>3
  <2>4. QED
    BY <2>1, <2>2, <2>3 DEF OncePlaced
<1>9. Keyed(new)
  BY <1>3, <1>6 DEF Placed, Keyed
<1>10. FirstsDiffer(new)
  <2>1. \A i \in DOMAIN groups : /\ ~SameBos(groups[i].processes[1], p)
                                 /\ ~SameBos(p, groups[i].processes[1])
    BY KeysAreBos, SameBosTransitive DEF Placed, Keyed, p
  <2>2. QED
    BY <1>3, <1>6, <2>1 DEF Placed, FirstsDiffer
<1>11. ConnsFilled(new)
  <2>1. ConnsFilled(groups)
    BY DEF Placed
  <2>2. ASSUME NEW i \in DOMAIN new, new[i].conn = "", NEW j \in DOMAIN new[i].processes
        PROVE  new[i].processes[j].conn = ""
    <3>1. CASE i \in DOMAIN groups
      BY <1>3, <2>1, <2>2, <3>1 DEF ConnsFilled
    <3>2. CASE i = last + 1
      <4>1. j = 1 /\ p.conn = ""
        BY <1>6, <2>2, <3>2
      <4>2. QED
        BY <1>6, <3>2, <4>1
    <3>3. QED
      BY <1>6, <3>1, <3>2
  <2>3. QED
    BY <2>2 DEF ConnsFilled
<1>12. QED
  BY <1>3, <1>7, <1>8, <1>9, <1>10, <1>11 DEF Placed, new, P, p

(* A process joins the group whose first process is of its BOS.            *)
LEMMA JoinsGroup ==
  ASSUME NEW ps, NEW n \in Nat, n + 1 \in DOMAIN ps,
         \A i, j \in DOMAIN ps : ps[i] = ps[j] => i = j, 1..n \subseteq DOMAIN ps,
         NEW groups, Placed(groups, ps, n),
         NEW k \in DOMAIN groups, groups[k].keys \cap BosKeys(ps[n + 1]) # {}
  PROVE  Placed([groups EXCEPT ![k] = Joined(groups[k], ps[n + 1])], ps, n + 1)
<1> DEFINE p == ps[n + 1]
           new == [groups EXCEPT ![k] = Joined(groups[k], p)]
           P == ToSet(ps)
<1>1. p \in P /\ groups \in Seq(GroupsOn(P)) /\ groups[k] \in GroupsOn(P)
  BY DEF ToSet, Placed
<1>2. /\ Joined(groups[k], p) \in GroupsOn(P)
      /\ Joined(groups[k], p).keys = groups[k].keys
      /\ Joined(groups[k], p).processes = Append(groups[k].processes, p)
      /\ Joined(groups[k], p).conn = IF groups[k].conn = "" THEN p.conn ELSE groups[k].conn
  <2>1. Append(groups[k].processes, p) \in Seq(P)
    BY <1>1 DEF GroupsOn
  <2>2. QED
    BY <1>1, <2>1 DEF Joined, GroupsOn
<1>3. /\ DOMAIN new = DOMAIN groups /\ new \in Seq(GroupsOn(P))
      /\ new[k] = Joined(groups[k], p)
      /\ \A i \in DOMAIN groups : i # k => new[i] = groups[i]
  <2> DEFINE x == Joined(groups[k], p)
  <2>1. new = [groups EXCEPT ![k] = x] /\ x \in GroupsOn(P)
    BY <1>2
  <2> HIDE DEF P, p, new, x
  <2>2. /\ DOMAIN new = DOMAIN groups /\ new \in Seq(GroupsOn(P)) /\ new[k] = x
        /\ \A i \in DOMAIN groups : i # k => new[i] = groups[i]
    BY <1>1, <2>1, ExceptFacts
  <2>3. QED
    BY <2>2 DEF x
<1>4. \A m \in 1..n : ps[m] # p
  OBVIOUS
<1> HIDE DEF new, P, p
<1>5. PICK last \in Nat : /\ DOMAIN groups[k].processes = 1..last
                          /\ DOMAIN new[k].processes = 1..(last + 1)
                          /\ \A j \in 1..last : new[k].processes[j] = groups[k].processes[j]
                          /\ new[k].processes[last + 1] = p
  <2> DEFINE s == groups[k].processes
             t == new[k].processes
  <2>1. s \in Seq(P) /\ t = Append(s, p)
    BY <1>1, <1>2, <1>3 DEF GroupsOn
  <2> HIDE DEF s, t
  <2>2. /\ DOMAIN t = 1..(Len(s) + 1) /\ DOMAIN s = 1..Len(s) /\ Len(s) \in Nat
        /\ \A j \in DOMAIN s : t[j] = s[j]
        /\ t[Len(s) + 1] = p
    BY <1>1, <2>1, AppendFacts
  <2>3. QED
    BY <2>2 DEF s, t
<1>6. ASSUME NEW i \in DOMAIN new, NEW j \in DOMAIN new[i].processes
      PROVE  \/ i = k /\ j = last + 1 /\ new[i].processes[j] = p
             \/ /\ j \in DOMAIN groups[i].processes
                /\ new[i].processes[j] = groups[i].processes[j]
  <2>1. CASE i = k
    BY <1>5, <1>6, <2>1
  <2>2. CASE i # k
    BY <1>3, <1>6, <2>2
  <2>3. QED
    BY <2>1, <2>2
<1>7. /\ last + 1 \in DOMAIN new[k].processes /\ last + 1 \notin DOMAIN groups[k].processes
      /\ \A i \in DOMAIN groups : \A j \in DOMAIN groups[i].processes :
           j \in DOMAIN new[i].processes /\ new[i].processes[j] = groups[i].processes[j]
  BY <1>3, <1>5
<1>8. ASSUME NEW i \in DOMAIN groups, NEW j \in DOMAIN groups[i].processes
      PROVE  \E m \in 1..n : groups[i].processes[j] = ps[m]
  BY <1>8 DEF Placed, Listed
<1>9. Listed(new, ps, n + 1)
  <2>1. ASSUME NEW i \in DOMAIN new, NEW j \in DOMAIN new[i].processes
        PROVE  \E m \in 1..(n + 1) : new[i].processes[j] = ps[m]
    <3>1. n + 1 \in 1..(n + 1) /\ 1..n \subseteq 1..(n + 1)
      OBVIOUS
    <3>2. CASE new[i].processes[j] = p
      BY <3>1, <3>2 DEF p
    <3>3. CASE j \in DOMAIN groups[i].processes /\ new[i].processes[j] = groups[i].processes[j]
      BY <1>3, <1>8, <3>1, <3>3
    <3>4. QED
      BY <1>6, <2>1, <3>2, <3>3
  <2>2. ASSUME NEW m \in 1..(n + 1)
        PROVE  \E i \in DOMAIN new : \E j \in DOMAIN new[i].processes :
                 new[i].processes[j] = ps[m]
    <3>1. CASE m \in 1..n
      BY <1>3, <1>7, <3>1 DEF Placed, Listed
    <3>2. CASE m = n + 1
      BY <1>3, <1>5, <1>7, <3>2 DEF p
    <3>3. QED
      BY <3>1, <3>2
  <2>3. QED
    BY <2>1, <2>2 DEF Listed
<1>10. OncePlaced(new)
  <2>1. \A i \in DOMAIN groups : \A j \in DOMAIN groups[i].processes : groups[i].processes[j] # p
    BY <1>4, <1>8
  <2>2. OncePlaced(groups)
    BY DEF Placed
  <2>3. QED
    BY <1>3, <1>6, <2>1, <2>2 DEF OncePlaced
<1>11. SameBos(groups[k].processes[1], p) /\ new[k].processes[1] = groups[k].processes[1]
  BY <1>7, KeysAreBos DEF Placed, Keyed, p
<1>12. Keyed(new)
  <2>1. Keyed(groups)
    BY DEF Placed
  <2>2. ASSUME NEW i \in DOMAIN new
        PROVE  /\ 1 \in DOMAIN new[i].processes
               /\ new[i].processes[1] = groups[i].processes[1]
               /\ new[i].keys = groups[i].keys
    <3>1. 1 \in DOMAIN groups[i].processes /\ i \in DOMAIN groups
      BY <1>3, <2>1, <2>2 DEF Keyed
    <3>2. new[i].keys = groups[i].keys
      BY <1>2, <1>3, <3>1
    <3>3. QED
      BY <1>7, <3>1, <3>2
  <2>3. ASSUME NEW i \in DOMAIN new, NEW j \in DOMAIN new[i].processes
        PROVE  j = 1 \/ SameBos(new[i].processes[1], new[i].processes[j])
    BY <1>3, <1>6, <1>11, <2>1, <2>2 DEF Keyed
  <2>4. QED
    BY <1>3, <2>1, <2>2, <2>3 DEF Keyed
<1>13. FirstsDiffer(new)
  BY <1>3, <1>7, <1>11 DEF Placed, Keyed, FirstsDiffer
<1>14. ConnsFilled(new)
  <2>1. \A i \in DOMAIN new : new[i].conn = "" => groups[i].conn = "" /\ (i = k => p.conn = "")
    BY <1>2, <1>3
  <2>2. ConnsFilled(groups)
    BY DEF Placed
  <2>3. ASSUME NEW i \in DOMAIN new, new[i].conn = "", NEW j \in DOMAIN new[i].processes
        PROVE  new[i].processes[j].conn = ""
    <3>1. groups[i].conn = "" /\ (i = k => p.conn = "") /\ i \in DOMAIN groups
      BY <1>3, <2>1, <2>3
    <3>2. \A l \in DOMAIN groups[i].processes : groups[i].processes[l].conn = ""
      BY <2>2, <3>1 DEF ConnsFilled
    <3>3. QED
      BY <1>6, <2>3, <3>1, <3>2
  <2>4. QED
    BY <2>3 DEF ConnsFilled
<1>15. QED
  BY <1>3, <1>9, <1>10, <1>12, <1>13, <1>14 DEF Placed, new, P, p

LEMMA ClassifyPlaces ==
  ASSUME NEW ps, ps \in Seq(ToSet(ps)), \A i, j \in DOMAIN ps : ps[i] = ps[j] => i = j
  PROVE  Placed(Classify(ps), ps, Len(ps))
<1>1. Len(ps) \in Nat /\ DOMAIN ps = 1..Len(ps)
  OBVIOUS
<1>2. PICK groups : /\ Classify(ps) = groups[Len(ps)]
                    /\ groups[0] = <<>>
                    /\ \A n \in 1..Len(ps) : groups[n] = Place(groups[n - 1], ps[n])
  BY <1>1, ClassifySteps
<1> DEFINE T == {n \in 0..Len(ps) : ~Placed(groups[n], ps, n)}
<1>3. SUFFICES ASSUME T # {} PROVE FALSE
  BY <1>1, <1>2
<1>4. PICK n \in T : \A m \in T : n <= m
  <2>1. T \subseteq Nat
    OBVIOUS
  <2>2. QED
    BY <1>3, <2>1, LeastNatural
<1>5. n \in 0..Len(ps) /\ ~Placed(groups[n], ps, n)
  OBVIOUS
<1>6. n # 0
  <2>1. <<>> \in Seq(GroupsOn(ToSet(ps))) /\ DOMAIN <<>> = {} /\ 1..0 = {}
    OBVIOUS
  <2>2. Placed(<<>>, ps, 0)
    BY <2>1 DEF Placed, Listed, OncePlaced, Keyed, FirstsDiffer, ConnsFilled
  <2>3. QED
    BY <1>2, <1>5, <2>2
<1>7. PICK k \in Nat : n = k + 1 /\ k \in 0..Len(ps)
  <2>1. n - 1 \in Nat /\ n = (n - 1) + 1 /\ n - 1 \in 0..Len(ps)
    BY <1>1, <1>5, <1>6
  <2>2. QED
    BY <2>1
<1>8. Placed(groups[k], ps, k)
  BY <1>4, <1>7
<1>9. groups[k + 1] = Place(groups[k], ps[k + 1])
  BY <1>1, <1>2, <1>5, <1>7
<1>10. k + 1 \in DOMAIN ps /\ 1..k \subseteq DOMAIN ps
  BY <1>1, <1>5, <1>7
<1>11. Len(groups[k]) \in Nat /\ DOMAIN groups[k] = 1..Len(groups[k])
  BY <1>8 DEF Placed
<1>12. Placed(Place(groups[k], ps[k + 1]), ps, k + 1)
  <2> DEFINE g == groups[k]
             p == ps[k + 1]
  <2>1. CASE /\ Place(g, p) = Append(g, NewGroup(p))
             /\ \A i \in DOMAIN g : g[i].keys \cap BosKeys(p) = {}
    <3>1. Placed(Append(g, NewGroup(p)), ps, k + 1)
      BY <1>8, <1>10, <2>1, OwnGroup, Zenon
    <3>2. QED
      BY <2>1, <3>1, Zenon
  <2>2. ASSUME NEW i \in DOMAIN g, Place(g, p) = [g EXCEPT ![i] = Joined(g[i], p)],
               g[i].keys \cap BosKeys(p) # {}
        PROVE  Placed(Place(g, p), ps, k + 1)
    <3>1. Placed([g EXCEPT ![i] = Joined(g[i], p)], ps, k + 1)
      BY <1>8, <1>10, <2>2, JoinsGroup, Zenon
    <3>2. QED
      BY <2>2, <3>1, Zenon
  <2>3. QED
    BY <1>11, <2>1, <2>2, PlaceCases
<1>13. QED
  BY <1>5, <1>7, <1>9, <1>12

(* Whatever the order of a list is, its groups are those of the            *)
(* definition.                                                             *)
LEMMA ClassifyIsRight ==
  ASSUME NEW ps, ps \in Seq(ToSet(ps)), \A i, j \in DOMAIN ps : ps[i] = ps[j] => i = j
  PROVE  AreBos(Classify(ps), ToSet(ps))
<1> DEFINE groups == Classify(ps)
<1>1. Placed(groups, ps, Len(ps)) /\ DOMAIN ps = 1..Len(ps)
  BY ClassifyPlaces
<1> HIDE DEF groups
<1>2. UNION {ToSet(groups[i].processes) : i \in DOMAIN groups} = ToSet(ps)
  <2>1. \A x : x \in ToSet(ps) <=> \E m \in 1..Len(ps) : x = ps[m]
    BY <1>1 DEF ToSet
  <2>2. \A i : \A x : x \in ToSet(groups[i].processes)
                        <=> \E j \in DOMAIN groups[i].processes : x = groups[i].processes[j]
    BY DEF ToSet
  <2>3. \A x : x \in UNION {ToSet(groups[i].processes) : i \in DOMAIN groups}
                 <=> \E i \in DOMAIN groups : x \in ToSet(groups[i].processes)
    OBVIOUS
  <2>4. Listed(groups, ps, Len(ps))
    BY <1>1 DEF Placed
  <2>5. \A x : (\E i \in DOMAIN groups : x \in ToSet(groups[i].processes)) <=> x \in ToSet(ps)
    <3>1. ASSUME NEW x, NEW i \in DOMAIN groups, x \in ToSet(groups[i].processes)
          PROVE  x \in ToSet(ps)
      <4>1. PICK j \in DOMAIN groups[i].processes : x = groups[i].processes[j]
        BY <2>2, <3>1
      <4>2. \E m \in 1..Len(ps) : x = ps[m]
        BY <2>4, <4>1, Zenon DEF Listed
      <4>3. QED
        BY <2>1, <4>2
    <3>2. ASSUME NEW x \in ToSet(ps) PROVE \E i \in DOMAIN groups : x \in ToSet(groups[i].processes)
      <4>1. PICK m \in 1..Len(ps) : x = ps[m]
        BY <2>1, <3>2
      <4>2. PICK i \in DOMAIN groups :
              \E j \in DOMAIN groups[i].processes : groups[i].processes[j] = ps[m]
        BY <2>4, <4>1, Zenon DEF Listed
      <4>3. x \in ToSet(groups[i].processes)
        BY <2>2, <4>1, <4>2
      <4>4. QED
        BY <4>3
    <3>3. QED
      BY <3>1, <3>2
  <2>6. QED
    BY <2>3, <2>5, Zenon
<1>3. OncePlaced(groups) /\ Keyed(groups) /\ FirstsDiffer(groups) /\ ConnsFilled(groups)
  BY <1>1 DEF Placed
<1>4. Parted(groups, ToSet(ps))
  BY <1>2, <1>3, Zenon DEF Parted, OncePlaced
<1>5. ASSUME NEW p \in ToSet(ps), NEW q \in ToSet(ps), p # q
      PROVE  SameBos(p, q) <=> \E i \in DOMAIN groups :
                                 Belongs(p, groups[i]) /\ Belongs(q, groups[i])
  <2>1. PICK i \in DOMAIN groups, k \in DOMAIN groups :
          Belongs(p, groups[i]) /\ Belongs(q, groups[k])
    BY <1>2, <1>5 DEF Belongs
  <2>2. ASSUME NEW s, NEW h \in DOMAIN groups, Belongs(s, groups[h])
        PROVE  s = groups[h].processes[1] \/ SameBos(groups[h].processes[1], s)
    BY <1>3, <2>2 DEF Belongs, ToSet, Keyed
  <2>3. ASSUME SameBos(p, q) PROVE i = k
    <3>1. SameBos(groups[i].processes[1], q)
      BY <2>1, <2>2, <2>3, SameBosTransitive
    <3>2. SameBos(groups[i].processes[1], groups[k].processes[1])
      BY <2>1, <2>2, <3>1, SameBosTransitive
    <3>3. QED
      BY <1>3, <3>2 DEF FirstsDiffer
  <2>4. ASSUME NEW h \in DOMAIN groups, Belongs(p, groups[h]), Belongs(q, groups[h])
        PROVE  SameBos(p, q)
    BY <1>5, <2>2, <2>4, SameBosTransitive
  <2>5. QED
    BY <2>1, <2>3, <2>4
<1>6. \A i \in DOMAIN groups :
        groups[i].conn = "" => \A p \in ToSet(groups[i].processes) : p.conn = ""
  BY <1>3 DEF ConnsFilled, ToSet
<1>7. QED
  BY <1>4, <1>5, <1>6 DEF AreBos, groups

(* A body holds groups only with the list they are made of.                *)
GroupsInv ==
  /\ DOMAIN body = Reqs
  /\ \A r \in Reqs :
       /\ DOMAIN body[r] = Fields
       /\ body[r].list # <<>> =>
            body[r].list \in Lists /\ body[r].groups = Classify(body[r].list)

LEMMA BodyLists ==
  /\ DOMAIN Data = Fields /\ Data.list = <<>>
  /\ DOMAIN Error = Fields /\ Error.list = <<>>
  /\ \A results : DOMAIN Partition(results) = Fields /\ Partition(results).list = <<>>
  /\ \A gs, ps : LET b == [Data EXCEPT !.groups = gs, !.list = ps] IN
                   DOMAIN b = Fields /\ b.groups = gs /\ b.list = ps
  BY SMT DEF Data, Error, Body, Fields, Partition

LEMMA GroupsReturned ==
  ASSUME GroupsInv, NEW r \in Reqs, NEW s, NEW b, Return(r, s, b), DOMAIN b = Fields,
         b.list # <<>> => b.list \in Lists /\ b.groups = Classify(b.list)
  PROVE  GroupsInv'
<1>1. body' = [body EXCEPT ![r] = b]
  BY DEF Return
<1>2. QED
  BY <1>1 DEF GroupsInv

LEMMA GroupsStep == ASSUME GroupsInv, [Next]_vars PROVE GroupsInv'
<1>1. ASSUME UNCHANGED body PROVE GroupsInv'
  BY <1>1 DEF GroupsInv
<1>2. ASSUME NEW r \in Reqs, Receive(r) PROVE GroupsInv'
  <2>1. body' = body \/ body' = [body EXCEPT ![r] = Data] \/ body' = [body EXCEPT ![r] = body[r]]
    BY <1>2 DEF Receive
  <2>2. QED
    BY <2>1, BodyLists DEF GroupsInv
<1>3. ASSUME NEW r \in Reqs, LooksUp(r) PROVE GroupsInv'
  <2>1. CASE Finds(r)
    <3>1. ASSUME NEW ps \in Lists,
                 Return(r, 200, [Data EXCEPT !.groups = Classify(ps), !.list = ps])
          PROVE  GroupsInv'
      <4> DEFINE b == [Data EXCEPT !.groups = Classify(ps), !.list = ps]
      <4>1. DOMAIN b = Fields /\ b.groups = Classify(ps) /\ b.list = ps
        BY BodyLists
      <4> HIDE DEF b
      <4>2. Return(r, 200, b)
        BY <3>1 DEF b
      <4>3. QED
        BY <4>1, <4>2, GroupsReturned
    <3>2. CASE Return(r, OkStatus(Op(r)), Data)
      BY <3>2, GroupsReturned, BodyLists
    <3>3. QED
      BY <1>1, <2>1, <3>1, <3>2 DEF Finds
  <2>2. CASE Misses(r) \/ Throws(r)
    BY <2>2, GroupsReturned, BodyLists DEF Misses, Throws
  <2>3. QED
    BY <1>3, <2>1, <2>2 DEF LooksUp
<1>4. ASSUME NEW r \in Reqs, Resolved(r) \/ Rejected(r) PROVE GroupsInv'
  BY <1>4, GroupsReturned, BodyLists DEF Resolved, Rejected
<1>5. ASSUME NEW r \in Reqs, Answers(r) PROVE GroupsInv'
  <2>1. body' = [body EXCEPT ![r].groups = <<>>, ![r].list = <<>>]
    BY <1>5 DEF Answers
  <2>2. DOMAIN body' = Reqs /\ DOMAIN body'[r] = Fields /\ body'[r].list = <<>>
    BY <2>1 DEF GroupsInv, Fields
  <2>3. \A q \in Reqs : q # r => body'[q] = body[q]
    BY <2>1 DEF GroupsInv
  <2>4. QED
    BY <2>2, <2>3 DEF GroupsInv
<1>6. ASSUME NEW r \in Reqs, Send(r) \/ Executes(r) PROVE GroupsInv'
  <2>1. UNCHANGED body
    BY <1>6 DEF Send, Executes, Begins, Connects, CallEnds, Clears, Bulk, Cleared, Ends, Agent
  <2>2. QED
    BY <1>1, <2>1
<1>7. CASE UNCHANGED vars
  BY <1>1, <1>7 DEF vars
<1>8. QED
  BY <1>2, <1>3, <1>4, <1>5, <1>6, <1>7 DEF Next, Serves

(* GroupsAreBos: whatever processes a machine has, and in whatever order   *)
(* they come, the answer is their groups by the definition.                *)
THEOREM GroupsAreRight == Spec => []GroupsAreBos
<1>1. Init => GroupsInv
  BY BodyLists DEF Init, GroupsInv
<1>2. GroupsInv => GroupsAreBos
  BY ClassifyIsRight, ListsAssumption DEF GroupsInv, GroupsAreBos
<1>3. QED
  BY <1>1, <1>2, GroupsStep, PTL DEF Spec

-----------------------------------------------------------------------------
(* Who has not been told yet can still be told.                            *)
Asking(r) == phase[r] \in {"idle", "sent", "working"} => answer[r] = "open"

AskingInv == /\ phase \in [Reqs -> Phases]
             /\ answer \in [Reqs -> Contract!Answers]
             /\ \A r \in Reqs : Asking(r)

LEMMA AskingStep == ASSUME AskingInv, [Next]_vars PROVE AskingInv'
<1> USE DEF AskingInv, Asking, Phases
<1>1. ASSUME NEW r \in Reqs, Send(r) \/ Receive(r) \/ Answers(r) PROVE AskingInv'
  BY <1>1 DEF Send, Receive, Answers, command
<1>2. ASSUME NEW r \in Reqs, LooksUp(r) PROVE AskingInv'
  <2>1. UNCHANGED answer /\ Working(r)
    BY <1>2 DEF LooksUp, command
  <2>2. phase' = phase \/ phase' = [phase EXCEPT ![r] = "returned"]
    BY <1>2 DEF LooksUp, Finds, Misses, Throws, Return
  <2>3. QED
    BY <2>1, <2>2
<1>3. ASSUME NEW r \in Reqs, Resolved(r) \/ Rejected(r) PROVE AskingInv'
  <2>1. phase' = [phase EXCEPT ![r] = "returned"]
    BY <1>3 DEF Resolved, Rejected, Return
  <2>2. \E a \in {"resolved", "rejected"} : answer' = [answer EXCEPT ![r] = a]
    BY <1>3 DEF Resolved, Rejected, Contract!Resolve, Contract!Reject, Contract!Settle
  <2>3. QED
    BY <2>1, <2>2 DEF Contract!Answers
<1>4. ASSUME NEW r \in Reqs, Executes(r) PROVE AskingInv'
  BY <1>4 DEF Executes, Begins, Connects, CallEnds, Clears, Bulk, Cleared, Ends, Agent, command,
              Contract!Begin, Contract!End
<1>5. CASE UNCHANGED vars
  BY <1>5 DEF vars, command
<1>6. QED
  BY <1>1, <1>2, <1>3, <1>4, <1>5 DEF Next, Serves

(* The timer of executeCommand always finds its caller waiting: a request  *)
(* that waits for a command has had no answer yet, whatever the agent is   *)
(* doing, so that it can be told at any time that its time is over.  With  *)
(* the fairness of FairSpec this is what makes RequestsAreAnswered hold.   *)
THEOREM CallersCanBeTold == Spec => [](\A r \in Reqs : Waits(r) => answer[r] = "open")
<1>1. Init => AskingInv
  BY DEF Init, AskingInv, Asking, Phases, Contract!Init, Contract!Answers
<1>2. AskingInv => \A r \in Reqs : Waits(r) => answer[r] = "open"
  BY DEF AskingInv, Asking, Waits, Working
<1>3. QED
  BY <1>1, <1>2, AskingStep, PTL DEF Spec
=============================================================================
