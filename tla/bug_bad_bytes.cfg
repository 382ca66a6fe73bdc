SPECIFICATION Spec
CONSTANTS
  a = a
  b = b
  c = c
  Initiators = {a}
  Responders = {b}
  Identity <- MCIdentity
  Trust0 <- MCPaired
  Pairable <- MCNone
  Transports = {"wifi"}
  MaxRuns = 2
  MaxEphemerals = 2
INVARIANTS ResponderSurvivesMessages
\* processes end when their loops do, and runs are bounded
CHECK_DEADLOCK FALSE
