\* Registration, rounds and one handler on a machine and one process; the agent dies anywhere.
SPECIFICATION FairSpec
CONSTANTS
  machine = machine
  p1 = p1
  Figures <- MCFigures
  Machine = machine
  Processes = {p1}
  Parent <- MCParent
  FromStatus <- MCFromStatus
  Values = {0, 1}
  Main = Main
  Handlers = {h1}
  None = None
  CanFail = TRUE
INVARIANTS OneMachineEndpoint RegisteredLimited
PROPERTIES RegisteredNotDoubled ValuesSettle
