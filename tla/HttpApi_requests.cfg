\* Two requests at a time, one of them for any route: what they get, and that they get it.
SPECIFICATION FairSpec
CONSTANTS
  r1 = r1
  r2 = r2
  Reqs <- MCReqs
  Wanted <- MCWanted
  Keys = {"k1", "k2"}
  Lists <- MCLists
  Late <- MCLate
INVARIANTS RightOperation StatusFitsAnswer ReportedIsDone GroupsAreBos
PROPERTIES RequestsAreAnswered
\* All requests are answered and no call is out.
CHECK_DEADLOCK FALSE
