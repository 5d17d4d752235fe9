\* The agent itself, two overlapping syncs: a running process is left without a watcher.
SPECIFICATION FairSpec
CONSTANTS
  k1 = k1
  k2 = k2
  s1 = s1
  s2 = s2
  w1 = w1
  w2 = w2
  w3 = w3
  Keys <- MCKeys
  Syncs <- MCSyncs
  Watchers <- MCWatchers
  None = None
  Reused = FALSE
  CanFail = FALSE
PROPERTIES HeardStaysWatched
