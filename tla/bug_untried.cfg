SPECIFICATION Spec
CONSTANTS
  a = a
  b = b
  c = c
  Initiators = {a}
  Responders = {b, c}
  Identity <- MCIdentity
  Trust0 <- MCPaired
  Pairable <- MCNone
  Transports = {"wifi"}
  MaxRuns = 1
  MaxEphemerals = 2
INVARIANTS EveryPairedPeerTried
\* processes end when their loops do, and runs are bounded
CHECK_DEADLOCK FALSE
