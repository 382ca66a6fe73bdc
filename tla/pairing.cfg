SPECIFICATION FairSpec
CONSTANTS
  a = a
  b = b
  c = c
  Displayers = {a}
  Scanners = {b, c}
  Bystanders = {a}
  Backlog = 2
  MaxLaunches <- MCLaunches
  MaxIdentities = 2
INVARIANTS PairingInv SafetyNumbersAgree HeldByItsIdentity
PROPERTIES FirstIsPaired FirstIsKept PlaysTokenExchange
\* Processes end when their work is done, and launches are bounded.
CHECK_DEADLOCK FALSE
