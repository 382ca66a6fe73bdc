SPECIFICATION Spec
CONSTANTS
  a = a
  b = b
  c = c
  Initiators = {a, c}
  Responders = {b}
  Identity <- MCIdentityStale
  Trust0 <- MCWiped
  Pairable <- MCRepair
  Transports = {"wifi", "ble"}
  MaxRuns = 1
  MaxEphemerals = 2
INVARIANTS OnlyPairedPeersAnswered
PROPERTIES ImplementsTokenExchange
\* Processes end when their loops do, and launches are bounded.
CHECK_DEADLOCK FALSE
