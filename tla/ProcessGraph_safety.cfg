\* Two processes, one of them slow, crashes and failures.
SPECIFICATION Spec
CONSTANTS
  i1 = i1
  i2 = i2
  api = api
  web = web
  n1 = n1
  n2 = n2
  n3 = n3
  a1 = a1
  a2 = a2
  h1 = h1
  h2 = h2
  None = None
  Nodes = {n1, n2}
  Ids = {i1, i2}
  Names = {api, web}
  Asks = {a1}
  Handlers <- MCHandlers
  MaxBus = 1
  Reordered = FALSE
  Failures = TRUE
  Crashes = TRUE
  Slow = {i2}
SYMMETRY GraphSymmetry
CONSTRAINT SlowKeepsName
INVARIANTS OneNodePerProcess RemovalFindsNode
