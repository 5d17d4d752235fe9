--------------------------- MODULE MCProcessGraph ---------------------------
(* ProcessGraph on small sets of processes, names and nodes.               *)
EXTENDS ProcessGraph

CONSTANTS i1, i2, api, web, n1, n2, n3, a1, a2, h1, h2

MCAsks == {a1, a2}
MCHandlers == {h1, h2}
GraphSymmetry == Permutations(Nodes) \cup Permutations(Asks)
                   \cup Permutations(Handlers)

(* Bound: the slow processes keep one name.                                *)
SlowKeepsName == \A i \in Slow : pm2[i] # web
=============================================================================
