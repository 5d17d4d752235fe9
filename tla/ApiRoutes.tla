----------------------------- MODULE ApiRoutes ------------------------------
(***************************************************************************)
(* The routes of the HTTP API, in the order in which they are registered,  *)
(* and what Express makes of them: a request goes to the first route that  *)
(* fits its method and its path, even when a later one fits it better.     *)
(*                                                                         *)
(* A path is the sequence of its segments; a segment with a colon stands   *)
(* for any word.  A route's "args" tells whether tsoa may refuse what is   *)
(* in the query or the body; what it does to it otherwise is left out.     *)
(***************************************************************************)
EXTENDS Naturals, SequencesExt

Params == {":vmKey", ":key", ":pm2Key", ":endpoint"}

Route(method, path, op, args) ==
  [method |-> method, path |-> path, op |-> op, figure |-> "none", args |-> args]
Get(path, op)         == Route("GET", path, op, FALSE)
GetChecked(path, op)  == Route("GET", path, op, TRUE)
Post(path, op)        == Route("POST", path, op, FALSE)
PostChecked(path, op) == Route("POST", path, op, TRUE)

Vm(rest)  == <<"monitoring", ":vmKey">> \o rest
App(rest) == Vm(<<"apps", ":key">> \o rest)

SwaggerRoutes ==
  << Get(<<"monitoring", "swagger.json">>, "swagger"),
     Get(<<"monitoring", "api-docs">>, "swagger") >>

(* Bug: the route with a parameter comes before the one with a word.       *)
MachineRoutesUnsorted ==
  << Get(<<"monitoring", "health">>, "getHealth"),
     Post(Vm(<<"cache", "clear">>), "clearCache"),
     Get(Vm(<<>>), "getVirtualMachine"),
     Get(<<"monitoring", "all_vms">>, "getAllVirtualMachines"),
     Get(Vm(<<"system">>), "getSystemMetrics") >>

MachineRoutes ==
  << Get(<<"monitoring", "health">>, "getHealth"),
     Post(Vm(<<"cache", "clear">>), "clearCache"),
     Get(<<"monitoring", "all_vms">>, "getAllVirtualMachines"),
     Get(Vm(<<>>), "getVirtualMachine"),
     Get(Vm(<<"system">>), "getSystemMetrics") >>

AppListRoutes ==
  << GetChecked(Vm(<<"apps">>), "getApps"),
     Get(Vm(<<"apps", "classified">>), "getClassifiedApps"),
     GetChecked(Vm(<<"apps", "by-bos-name">>), "getAppsByBosName"),
     Get(Vm(<<"apps", "metrics">>), "getAppsMetrics"),
     Get(Vm(<<"apps", "status", "summary">>), "getAppsStatusSummary") >>

AppRoutes ==
  << Get(App(<<>>), "getAppByKey"),
     Get(App(<<"metrics">>), "getAppMetricsByKey"),
     GetChecked(App(<<"logs">>), "getAppLogsByKey") >>

Action(op) == PostChecked(Vm(<<"apps", op>>), op)

ActionRoutes ==
  << Action("start"), Action("stop"), Action("restart"), Action("reload"), Action("delete") >>

-----------------------------------------------------------------------------
(* The endpoints of a process and of a machine: value and time series of   *)
(* every figure, and the limit of the series.                              *)
Pm2Endpoint(rest) == <<"monitoring", "endpoints", ":vmKey", "pm2", ":pm2Key">> \o rest
VmEndpoint(rest)  == <<"monitoring", "endpoints", ":vmKey", "vm">> \o rest

Of(figure, route) == [route EXCEPT !.figure = figure]

Pm2Figure(f) ==
  << Of(f, Get(Pm2Endpoint(<<f, "value">>), "pm2Value")),
     Of(f, GetChecked(Pm2Endpoint(<<f, "timeseries">>), "pm2TimeSeries")) >>

VmFigure(f) ==
  << Of(f, Get(VmEndpoint(<<f, "value">>), "vmValue")),
     Of(f, GetChecked(VmEndpoint(<<f, "timeseries">>), "vmTimeSeries")) >>

LoadRoutes  == Pm2Figure("ram") \o Pm2Figure("cpu")
HeapRoutes  == Pm2Figure("heap_size") \o Pm2Figure("heap_usage") \o Pm2Figure("heap_used_size")
StateRoutes == Pm2Figure("reboot") \o Pm2Figure("errored")

Pm2MaxDayRoute ==
  << PostChecked(Pm2Endpoint(<<":endpoint", "timeseries", "maxDay">>), "pm2MaxDay") >>

VmFigureRoutes == VmFigure("cpu_usage") \o VmFigure("ram_usage") \o VmFigure("disk_usage")

VmMaxDayRoute ==
  << PostChecked(VmEndpoint(<<":endpoint", "timeseries", "maxDay">>), "vmMaxDay") >>

LoginRoute == << PostChecked(<<"auth", "login">>, "login") >>

Routes == SwaggerRoutes \o MachineRoutes \o AppListRoutes \o AppRoutes \o ActionRoutes
            \o LoadRoutes \o HeapRoutes \o StateRoutes \o Pm2MaxDayRoute
            \o VmFigureRoutes \o VmMaxDayRoute \o LoginRoute

(* The names an endpoint goes by in the requests that set its limit: none  *)
(* for a word that is no figure.                                           *)
Pm2FigureOf(word) ==
  LET figures == {LoadRoutes[i].figure : i \in DOMAIN LoadRoutes}
                   \cup {HeapRoutes[i].figure : i \in DOMAIN HeapRoutes}
                   \cup {StateRoutes[i].figure : i \in DOMAIN StateRoutes}
      long == [ram_history |-> "ram", cpu_history |-> "cpu", heap_size_history |-> "heap_size",
               heap_usage_history |-> "heap_usage", heap_used_size_history |-> "heap_used_size",
               reboot_history |-> "reboot", errored_history |-> "errored"]
  IN CASE word \in figures     -> word
       [] word \in DOMAIN long -> long[word]
       [] OTHER                -> "none"

VmFigureOf(word) ==
  CASE word \in {"ram", "ram_usage"}   -> "ram_usage"
    [] word \in {"cpu", "cpu_usage"}   -> "cpu_usage"
    [] word \in {"disk", "disk_usage"} -> "disk_usage"
    [] OTHER                           -> "none"

-----------------------------------------------------------------------------
Fits(route, method, path) ==
  /\ route.method = method
  /\ Len(route.path) = Len(path)
  /\ \A i \in DOMAIN path : route.path[i] \in Params \cup {path[i]}

(* The number of the route that gets the request, 0 when none does.        *)
Dispatch(method, path) == SelectInSeq(Routes, LAMBDA r : Fits(r, method, path))

(* The path of a request that is built for a route.                        *)
Fill(path, word) ==
  [i \in DOMAIN path |-> IF path[i] \in Params THEN word[path[i]] ELSE path[i]]

(* The word a request's path has for a parameter of its route.             *)
WordAt(route, param, path) ==
  path[CHOOSE i \in DOMAIN path : route.path[i] = param]

(* Words that stand for themselves in some route.                          *)
Reserved == (UNION {ToSet(Routes[i].path) : i \in DOMAIN Routes}) \ Params

(* checkMonitoringToken lets these pass without a token.                   *)
Public(method, path) ==
  \/ method = "GET" /\ path \in {<<"monitoring", "swagger.json">>,
                                 <<"monitoring", "api-docs">>,
                                 <<"monitoring", "health">>}
  \/ method = "POST" /\ path = <<"auth", "login">>
=============================================================================
