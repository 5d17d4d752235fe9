--------------------------- MODULE MCZabbixSender ---------------------------
(* ZabbixSender on small sets: pushes that overlap, a queue of several     *)
(* batches.                                                                *)
EXTENDS ZabbixSender

CONSTANTS p1, p2, p3, b1, b2, b3, b4

MCPushes  == {p1, p2, p3}
MCBatches == {b1, b2, b3, b4}
SenderSymmetry == Permutations(MCPushes) \cup Permutations(MCBatches)
                    \cup Permutations(Handles)
=============================================================================
