SPECIFICATION Spec
CONSTANTS
  a = a
  b = b
  c = c
  Devices = {a, b, c}
  InRange <- MCInRange
  Sizes = {150, 362}
  CHUNK_SIZE = 180
  Misreads <- MCMisreads
  Garbage = Garbage
  NoMessage = NoMessage
  MaxSends = 3
  MaxRuns <- MCMaxRuns
INVARIANTS BleInv
PROPERTIES ChannelUntilCut AckedIsDelivered WholeOrGarbage
\* Processes end, and launches are bounded.
CHECK_DEADLOCK FALSE
