SPECIFICATION FairSpec
CONSTANTS
  a = a
  b = b
  c = c
  Initiators = {a}
  Responders = {b, c}
  Identity <- MCIdentity
  Trust0 <- MCPaired
  Pairable <- MCNone
  Transports = {"wifi", "ble"}
  MaxRuns = 1
  MaxEphemerals = 2
INVARIANTS InitiatorAgreement MeetingInv OnePairPerKey
PROPERTIES Termination WorkShrinks
\* Processes end when their loops do, and launches are bounded.
CHECK_DEADLOCK FALSE
