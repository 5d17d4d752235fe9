\* An answer overtaken by the deletion.
SPECIFICATION FairSpec
CONSTANTS
  i1 = i1
  i2 = i2
  api = api
  web = web
  n1 = n1
  n2 = n2
  n3 = n3
  a1 = a1
  a2 = a2
  h1 = h1
  h2 = h2
  None = None
  Nodes = {n1, n2}
  Ids = {i1}
  Names = {api}
  Asks <- MCAsks
  Handlers = {h1}
  MaxBus = 2
  Reordered = TRUE
  Failures = FALSE
  Crashes = FALSE
  Slow = {}
PROPERTIES DeletedLeavesGraph
