SPECIFICATION FairSpec
CONSTANTS
  a = a
  b = b
  Devices = {a, b}
  InRange <- MCInRange
  NoMessage = NoMessage
  Backlog = 1
  MaxSends = 2
  MaxRuns <- MCMaxRuns
INVARIANTS WifiInv DiscoveredIsKnown
PROPERTIES ImplementsChannel IntactIsDelivered SentArrives
\* Processes end, and launches are bounded.
CHECK_DEADLOCK FALSE
