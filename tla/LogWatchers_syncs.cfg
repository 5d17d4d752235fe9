\* Two overlapping syncs, failures until they end, watching stops and starts again.
SPECIFICATION FairSpec
CONSTANTS
  k1 = k1
  k2 = k2
  s1 = s1
  s2 = s2
  w1 = w1
  w2 = w2
  w3 = w3
  Keys <- MCKeys
  Syncs <- MCSyncs
  Watchers = {w1, w2}
  None = None
  Reused = TRUE
  CanFail = TRUE
INVARIANTS MapIsAlive NoLeak
PROPERTIES CalmStaysWatched CalmIsClosed
