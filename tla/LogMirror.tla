----------------------------- MODULE LogMirror ------------------------------
(***************************************************************************)
(* One log file on its way to the graph: making its watcher begins with a  *)
(* read of the file, every change that the watcher tells makes it read the *)
(* whole file again, and the callback of index.ts finds the process's log  *)
(* node, or makes one, and uploads what was read.  Nobody waits for        *)
(* anybody else: two handlings may both make a node, of which the first is *)
(* the one found from then on, and uploads end in any order.               *)
(*                                                                         *)
(* A content is the number of changes the file has seen.  The position the *)
(* watcher keeps is left out, as nothing is read from it.                  *)
(***************************************************************************)
EXTENDS Naturals, Sequences

CONSTANTS
  Reads,        \* bound: handlings at a time
  MaxChanges,   \* bound: changes of the file
  MaxRequests,  \* bound: requests for the copy while there is none
  MaxDeaths     \* bound: deaths of the agent

ASSUME MirrorAssumption ==
  MaxChanges \in Nat /\ MaxRequests \in Nat /\ MaxDeaths \in Nat

VARIABLES
  file,         \* the file's content
  watcher,      \* how far _createLogWatcher has got in this life of the agent
  changed,      \* fs.watch has a change to tell
  phase,        \* phase[r]: where the handling r is
  content,      \* content[r]: what r has read, 0 for a reader of the copy
  initial,      \* initial[r]: what r's new log node is made with
  node,         \* node[r]: the log node that r uploads to
  copies,       \* the process's log nodes in their order: what each holds
  missed,       \* the newest content not told, or given up (history)
  overlapped,   \* two handlings have been under way at a time (history)
  requests,     \* requests for the copy so far
  deaths        \* deaths of the agent so far

handlings == <<phase, content, initial, node>>
history   == <<missed, overlapped, requests, deaths>>
vars == <<file, watcher, changed, handlings, copies, history>>

Phases   == {"idle", "reading", "looking", "making", "adding", "uploading"}
Watchers == {"down",       \* no watcher is being made yet
             "reading",    \* the initial content is being read
             "ready",      \* it is read, fs.watch is still to be called
             "watching"}

Init == /\ file = 0
        /\ watcher = "down"
        /\ changed = FALSE
        /\ phase = [r \in Reads |-> "idle"]
        /\ content = [r \in Reads |-> 0]
        /\ initial = [r \in Reads |-> 0]
        /\ node = [r \in Reads |-> 0]
        /\ copies = <<>>
        /\ missed = 0
        /\ overlapped = FALSE
        /\ requests = 0
        /\ deaths = 0

(* The content n will not get to the graph by whoever had it.              *)
Misses(n) == missed' = IF n > missed THEN n ELSE missed

(* The process writes to its log.  A change before the initial read ends   *)
(* is read by it, one after fs.watch is told; one between the two is not.  *)
Writes == /\ file < MaxChanges
          /\ file' = file + 1
          /\ changed' = (changed \/ watcher = "watching")
          /\ IF watcher = "ready" THEN Misses(file') ELSE UNCHANGED missed
          /\ UNCHANGED <<watcher, handlings, copies, overlapped, requests, deaths>>

-----------------------------------------------------------------------------
(* The watcher.                                                            *)

(* A handling r begins, at place p.                                        *)
Begins(r, p) ==
  /\ phase[r] = "idle"
  /\ phase' = [phase EXCEPT ![r] = p]
  /\ overlapped' = (overlapped \/ \E q \in Reads : phase[q] # "idle")

(* A sync finds the log of a running process.                              *)
Starts == /\ watcher = "down"
          /\ watcher' = "reading"
          /\ UNCHANGED <<file, changed, handlings, copies, history>>

(* The initial read ends: its content, if there is any, is handed on.      *)
InitialRead ==
  /\ watcher = "reading"
  /\ watcher' = "ready"
  /\ \/ file = 0 /\ UNCHANGED <<phase, content, overlapped>>
     \/ \E r \in Reads : /\ file > 0
                         /\ Begins(r, "looking")
                         /\ content' = [content EXCEPT ![r] = file]
  /\ UNCHANGED <<file, changed, initial, node, copies, missed, requests, deaths>>

(* It fails: nothing is handed on.                                         *)
InitialFails ==
  /\ watcher = "reading"
  /\ watcher' = "ready"
  /\ Misses(file)
  /\ UNCHANGED <<file, changed, handlings, copies, overlapped, requests, deaths>>

(* fs.watch                                                                *)
Watches == /\ watcher = "ready"
           /\ watcher' = "watching"
           /\ UNCHANGED <<file, changed, handlings, copies, history>>

(* Bug: a change is ignored while another one is being handled.            *)
ChangeUnlessBusy(r) ==
  /\ changed
  /\ phase[r] = "idle"
  /\ changed' = FALSE
  /\ phase' = IF \A q \in Reads : phase[q] = "idle"
                THEN [phase EXCEPT ![r] = "reading"] ELSE phase
  /\ UNCHANGED <<file, watcher, content, initial, node, copies, history>>

(* fs.watch tells a change, or several at once: the file is read.          *)
Change(r) == /\ changed
             /\ changed' = FALSE
             /\ Begins(r, "reading")
             /\ UNCHANGED <<file, watcher, content, initial, node, copies,
                            missed, requests, deaths>>

-----------------------------------------------------------------------------
(* A handling.                                                             *)

(* The read ends and the callback begins its look-up of the log node.      *)
ReadEnds(r) == /\ phase[r] = "reading"
               /\ content' = [content EXCEPT ![r] = file]
               /\ phase' = [phase EXCEPT ![r] = "looking"]
               /\ UNCHANGED <<file, watcher, changed, initial, node, copies, history>>

(* A request for the copy in the graph looks for the log node as well; it  *)
(* changes something only when there is none.                              *)
CopyRequested(r) ==
  /\ copies = <<>>
  /\ requests < MaxRequests
  /\ requests' = requests + 1
  /\ Begins(r, "looking")
  /\ UNCHANGED <<file, watcher, changed, content, initial, node, copies,
                 missed, deaths>>

(* With its log node r goes on to the upload; a reader is done.            *)
GoesOn(r, i) ==
  IF content[r] = 0
    THEN phase' = [phase EXCEPT ![r] = "idle"] /\ UNCHANGED node
    ELSE phase' = [phase EXCEPT ![r] = "uploading"] /\ node' = [node EXCEPT ![r] = i]

(* The process's log nodes are there: the first of the right name is taken.*)
Looks(r) ==
  /\ phase[r] = "looking"
  /\ \/ copies # <<>> /\ GoesOn(r, 1)
     \/ copies = <<>> /\ phase' = [phase EXCEPT ![r] = "making"] /\ UNCHANGED node
  /\ UNCHANGED <<file, watcher, changed, content, initial, copies, history>>

(* The file is read once more, for the new log node, which is then added.  *)
Makes(r) ==
  /\ phase[r] = "making"
  /\ initial' = [initial EXCEPT ![r] = file]
  /\ phase' = [phase EXCEPT ![r] = "adding"]
  /\ UNCHANGED <<file, watcher, changed, content, node, copies, history>>

Adds(r) ==
  /\ phase[r] = "adding"
  /\ copies' = Append(copies, initial[r])
  /\ GoesOn(r, Len(copies'))
  /\ initial' = [initial EXCEPT ![r] = 0]
  /\ UNCHANGED <<file, watcher, changed, content, history>>

(* The hub takes the upload.                                               *)
Uploaded(r) == /\ phase[r] = "uploading"
               /\ copies' = [copies EXCEPT ![node[r]] = content[r]]
               /\ phase' = [phase EXCEPT ![r] = "idle"]
               /\ content' = [content EXCEPT ![r] = 0]
               /\ node' = [node EXCEPT ![r] = 0]
               /\ UNCHANGED <<file, watcher, changed, initial, history>>

(* A handling ends without its upload, and nothing is tried again: the     *)
(* read or the upload fails, the process has no node in the graph, or it   *)
(* is a request, which gets an error.                                      *)
GivesUp(r) ==
  /\ \/ phase[r] \in {"reading", "looking", "uploading"}
     \/ phase[r] \in {"making", "adding"} /\ content[r] = 0
  /\ phase' = [phase EXCEPT ![r] = "idle"]
  /\ content' = [content EXCEPT ![r] = 0]
  /\ initial' = [initial EXCEPT ![r] = 0]
  /\ node' = [node EXCEPT ![r] = 0]
  /\ Misses(IF phase[r] = "reading" THEN file ELSE content[r])
  /\ UNCHANGED <<file, watcher, changed, copies, overlapped, requests, deaths>>

(* The look-up of a log node, or making it, fails in the callback: nobody  *)
(* handles its rejection, Node.js ends, and pm2 starts the agent again.    *)
AgentDies ==
  /\ \E r \in Reads : phase[r] \in {"looking", "making", "adding"} /\ content[r] # 0
  /\ deaths < MaxDeaths
  /\ deaths' = deaths + 1
  /\ watcher' = "down"
  /\ changed' = FALSE
  /\ phase' = [r \in Reads |-> "idle"]
  /\ content' = [r \in Reads |-> 0]
  /\ initial' = [r \in Reads |-> 0]
  /\ node' = [r \in Reads |-> 0]
  /\ UNCHANGED <<file, copies, missed, overlapped, requests>>

Handles(r) == Change(r) \/ ReadEnds(r) \/ Looks(r) \/ Makes(r) \/ Adds(r) \/ Uploaded(r)

Goes  == Starts \/ InitialRead \/ Watches \/ \E r \in Reads : Handles(r)
Meets == InitialFails \/ AgentDies \/ \E r \in Reads : CopyRequested(r) \/ GivesUp(r)

Next == Writes \/ Goes \/ Meets

Spec == Init /\ [][Next]_vars

-----------------------------------------------------------------------------
(* The variables keep their types; a node holds what the file has had, and *)
(* what waits for its upload was read from the file after a change and has *)
(* a node to go to.                                                        *)
TypeOK ==
  /\ file \in 0..MaxChanges
  /\ watcher \in Watchers
  /\ changed \in BOOLEAN
  /\ phase \in [Reads -> Phases]
  /\ content \in [Reads -> 0..file] /\ initial \in [Reads -> 0..file]
  /\ node \in [Reads -> Nat]
  /\ copies \in Seq(0..file)
  /\ \A r \in Reads : IF phase[r] = "uploading"
                        THEN node[r] \in DOMAIN copies /\ content[r] # 0
                        ELSE node[r] = 0
  /\ missed \in 0..file
  /\ overlapped \in BOOLEAN
  /\ requests \in 0..MaxRequests
  /\ deaths \in 0..MaxDeaths

(* The graph shows n: readers look at the first log node.                  *)
Shows(n) == copies # <<>> /\ Head(copies) = n

(* The last content n of the file, written while whatever else is under    *)
(* way, gets to the graph: it is read at the start or told and read, and   *)
(* uploaded, also across the agent's deaths.  Excepted are a change in the *)
(* time between the initial read and fs.watch, which nobody is told of, a  *)
(* read or an upload of n that fails, and a second log node               *)
(* (_createLogWatcher, _emitAppendedLogContent, updatePm2LogFileContent).  *)
LastContentIsSent ==
  \A n \in 1..MaxChanges :
    <>[](file = n) => <>(Shows(n) \/ Len(copies) > 1 \/ n = missed)

(* And it stays there, on the only log node, when no two handlings have    *)
(* overlapped: neither an older upload nor a second log node comes later.  *)
LastContentStays ==
  \A n \in 1..MaxChanges :
    <>[](file = n) => <>[](\/ Shows(n) /\ Len(copies) = 1
                           \/ n = missed \/ overlapped)
=============================================================================
