\* Two clients of a hub, two events, two requests for a log that is also mirrored.
SPECIFICATION FairHubSpec
CONSTANTS
  c1 = c1
  c2 = c2
  s1 = s1
  s2 = s2
  r1 = r1
  r2 = r2
  Clients <- MCClients
  Streams <- MCStreams
  Reads <- MCReads
  Uses <- MCUses
  MaxEvents = 2
  MaxChanges = 3
  MaxRequests = 1
  MaxDeaths = 1
INVARIANTS EventOnce
PROPERTIES MessagesArrive LogReachesSubscriber LogIsMirrored
\* The host may die, and everybody may have left.
CHECK_DEADLOCK FALSE
