SPECIFICATION Spec
CONSTANTS
  a = a
  b = b
  c = c
  Initiators = {a}
  Responders = {b}
  Identity <- MCIdentity
  Trust0 <- MCPaired
  Pairable <- MCNone
  Transports = {"wifi", "ble"}
  MaxRuns = 3
  MaxEphemerals = 3
INVARIANTS IInv ResponderAgreement TypeOK NoFalseAlarm
PROPERTIES NewKeyPerEncounter
\* Processes end when their loops do, and launches are bounded.
CHECK_DEADLOCK FALSE
