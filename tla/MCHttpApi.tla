----------------------------- MODULE MCHttpApi ------------------------------
(* HttpApi with two requests: one for anything the API offers, one for     *)
(* what interferes most, an action and a read.                             *)
EXTENDS HttpApi

CONSTANTS r1, r2

Words(endpoint, key) == (":vmKey" :> "vm1") @@ (":endpoint" :> endpoint)
                          @@ (":key" :> key) @@ (":pm2Key" :> key)
Ordinary == Words("ram", "p1")

Built(i, words, token, json, args) ==
  [route |-> i, method |-> Routes[i].method, path |-> Fill(Routes[i].path, words),
   token |-> token, json |-> json, args |-> args]

(* Also for figures that are none, and a process with the name of a route. *)
Fine == {Built(i, w, TRUE, TRUE, "fine") : i \in DOMAIN Routes,
           w \in {Words(e, k) : e \in {"ram", "cpu_history", "disk"}, k \in {"p1", "metrics"}}}

Odd == UNION {{Built(i, Ordinary, TRUE, TRUE, "refused"), Built(i, Ordinary, TRUE, TRUE, "range"),
               Built(i, Ordinary, FALSE, TRUE, "fine"), Built(i, Ordinary, TRUE, FALSE, "fine")} :
                i \in DOMAIN Routes}

(* The README names this route, which the code has only as a comment.      *)
Stray == [route |-> 0, method |-> "GET", path |-> <<"monitoring", "vm1", "zabbix", "discovery">>,
          token |-> TRUE, json |-> TRUE, args |-> "fine"]

AnyRequest == Fine \cup Odd \cup {Stray}

Rivals == {Built(i, Ordinary, TRUE, TRUE, "fine") :
             i \in {j \in DOMAIN Routes : Routes[j].op \in {"start", "getAppByKey"}}}

MCReqs == {r1, r2}
MCLate == {r2}
MCWanted == (r1 :> AnyRequest) @@ (r2 :> Rivals)

(* Processes with and without a name and a connection of their own.        *)
Kind(hub, path, conn) == [hub |-> hub, path |-> path, conn |-> conn]
Kinds == {Kind("a", "", "c"), Kind("absent", "a", ""), Kind("", "a", "c"),
          Kind("b", "a", "c"), Kind("absent", "", "")}

MCLists == {[i \in DOMAIN kinds |-> [id |-> i] @@ kinds[i]] :
              kinds \in UNION {[1..n -> Kinds] : n \in 0..3}}
=============================================================================
