SPECIFICATION Spec
CONSTANTS
  a = a
  b = b
  c = c
  Initiators = {a}
  Responders = {b}
  Identity <- MCIdentity
  Trust0 <- MCPaired
  Pairable <- MCNone
  Transports = {"ble"}
  MaxRuns = 1
  MaxEphemerals = 1
INVARIANTS ResponderKnowsItsPeers
\* processes end when their loops do, and runs are bounded
CHECK_DEADLOCK FALSE
