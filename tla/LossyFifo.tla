----------------------------- MODULE LossyFifo ------------------------------
(***************************************************************************)
(* What a sender promises of its buffer: batches are offered to the other  *)
(* side in the order they were put, each once; the one at the head is      *)
(* accepted or lost, and no other.                                         *)
(***************************************************************************)
EXTENDS Sequences

CONSTANT Batches

VARIABLES channel,      \* the batches on their way, oldest first
          accepted      \* what became of the last batch that left: was it accepted?

vars == <<channel, accepted>>

Init == channel = <<>> /\ accepted = TRUE

Put(b) == /\ \A i \in DOMAIN channel : channel[i] # b
          /\ channel' = Append(channel, b)
          /\ UNCHANGED accepted

Leave(ok) == /\ channel # <<>>
             /\ channel' = Tail(channel)
             /\ accepted' = ok

Next == (\E b \in Batches : Put(b)) \/ (\E ok \in BOOLEAN : Leave(ok))

Spec == Init /\ [][Next]_vars
=============================================================================
