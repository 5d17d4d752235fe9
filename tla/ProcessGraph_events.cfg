\* Answers in order: the graph follows the events, and restarts.
SPECIFICATION FairSpec
CONSTANTS
  i1 = i1
  i2 = i2
  api = api
  web = web
  n1 = n1
  n2 = n2
  n3 = n3
  a1 = a1
  a2 = a2
  h1 = h1
  h2 = h2
  None = None
  Nodes = {n1, n2}
  Ids = {i1}
  Names = {api, web}
  Asks = {a1}
  Handlers = {h1}
  MaxBus = 2
  Reordered = FALSE
  Failures = FALSE
  Crashes = TRUE
  Slow = {}
PROPERTIES LivingHasNode DeletedLeavesGraph RestartForgets
