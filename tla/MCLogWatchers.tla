--------------------------- MODULE MCLogWatchers ----------------------------
(* LogWatchers on small sets of logs, syncs and watchers.                  *)
EXTENDS LogWatchers

CONSTANTS k1, k2, s1, s2, w1, w2, w3

MCKeys     == {k1, k2}
MCSyncs    == {s1, s2}
MCWatchers == {w1, w2, w3}
WatcherSymmetry == Permutations(MCKeys) \cup Permutations(MCSyncs)
                     \cup Permutations(MCWatchers)
=============================================================================
