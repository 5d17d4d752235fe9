--------------------------- MODULE CommandContract ---------------------------
(***************************************************************************)
(* What the command protocol promises to whoever asked for a command, with *)
(* no list, no runs, no timers: a request is answered at most once; it is  *)
(* resolved only after an execution of the command has ended; and once it  *)
(* has been rejected no execution of it begins, but for the commands that  *)
(* may come late.                                                          *)
(***************************************************************************)
EXTENDS Naturals

CONSTANTS Cmds,         \* the commands, one per call of executeCommand
          Late          \* those an agent may begin after their rejection

VARIABLES answer,       \* answer[c]: what the caller of executeCommand has got
          begun,        \* begun[c]: executions of c an agent has begun
          ended         \* ended[c]: executions of c that reached a final status

vars == <<answer, begun, ended>>

Answers == {"open", "resolved", "rejected", "lost"}

TypeOK == /\ answer \in [Cmds -> Answers]
          /\ begun \in [Cmds -> Nat]
          /\ ended \in [Cmds -> Nat]

Init == /\ answer = [c \in Cmds |-> "open"]
        /\ begun = [c \in Cmds |-> 0]
        /\ ended = [c \in Cmds |-> 0]

(* An agent begins c: after the caller was told it timed out, only if it   *)
(* is one that may come late.                                              *)
Begin(c) == /\ answer[c] = "rejected" => c \in Late
            /\ begun' = [begun EXCEPT ![c] = @ + 1]
            /\ UNCHANGED <<answer, ended>>

(* An execution that was begun reaches "completed" or "failed".            *)
End(c) == /\ ended[c] < begun[c]
          /\ ended' = [ended EXCEPT ![c] = @ + 1]
          /\ UNCHANGED <<answer, begun>>

Settle(c, a) == /\ answer[c] = "open"
                /\ answer' = [answer EXCEPT ![c] = a]
                /\ UNCHANGED <<begun, ended>>

Resolve(c) == ended[c] > 0 /\ Settle(c, "resolved")
Reject(c)  == Settle(c, "rejected")

(* The process that held the callers' promises is gone.                    *)
Lose == /\ \E lost \in SUBSET {c \in Cmds : answer[c] = "open"} :
             answer' = [c \in Cmds |-> IF c \in lost THEN "lost" ELSE answer[c]]
        /\ UNCHANGED <<begun, ended>>

Next == \/ \E c \in Cmds : Begin(c) \/ End(c) \/ Resolve(c) \/ Reject(c)
        \/ Lose

Spec == Init /\ [][Next]_vars
=============================================================================
