\* Two commands, two overlapping runs or a crash: what must not happen, and under the callers'
\* fairness, and the agent's, what must.
SPECIFICATION MCSpec
CONSTANTS
  here = here
  more = more
  there = there
  late = late
  r1 = r1
  r2 = r2
  Cmds <- MCCmds
  Local <- MCLocal
  Ahead <- MCAhead
  Runs <- MCRuns
  MaxCrashes = 1
INVARIANTS OneExecutor NoLostWakeup NoSilentDrop
PROPERTIES HubKnowsNeverBegins ImplementsContract EveryRequestAnswered FinishedLeavesList
CHECK_DEADLOCK FALSE
