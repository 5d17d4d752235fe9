\* README: buffered retries.
SPECIFICATION Spec
CONSTANTS
  p1 = p1
  p2 = p2
  p3 = p3
  b1 = b1
  b2 = b2
  b3 = b3
  b4 = b4
  Callers = {main}
  Pushes <- MCPushes
  Batches <- MCBatches
  Handles = {h1, h2}
  None = None
  Enabled = TRUE
PROPERTIES FailedPushIsBuffered
