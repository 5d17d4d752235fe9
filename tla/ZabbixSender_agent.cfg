\* One caller, as in index.ts, who may stop and start again; sends may fail.
SPECIFICATION FairSpec
CONSTANTS
  p1 = p1
  p2 = p2
  p3 = p3
  b1 = b1
  b2 = b2
  b3 = b3
  b4 = b4
  Callers = {main}
  Pushes <- MCPushes
  Batches <- MCBatches
  Handles = {h1, h2}
  None = None
  Enabled = TRUE
INVARIANTS OneFlusher IdleQueueMeansFailure NoOrphanInterval
PROPERTIES ImplementsFifo QueuedIsSent
