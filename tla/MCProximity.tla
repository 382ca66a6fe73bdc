----------------------------- MODULE MCProximity -----------------------------
(***************************************************************************)
(* Small instances of Proximity for TLC.                                   *)
(***************************************************************************)
EXTENDS ProximityProps, TLC

CONSTANTS a, b, c

MCDevices == Initiators \cup Responders

\* Every identity is the first one generated ...
MCIdentity == [d \in MCDevices |-> 1]
\* ... or that of c was generated anew after the others paired with it.
MCIdentityStale == [d \in MCDevices |-> IF d = c THEN 2 ELSE 1]

\* Everyone holds everyone's current key, except that initiators (responders)
\* do not pair among themselves.
MCPaired ==
  [d \in MCDevices |-> [p \in MCDevices |->
     IF (d \in Initiators) # (p \in Initiators) THEN 1 ELSE 0]]

\* c's state directory was deleted: c has a new identity and an empty trust
\* store, the others still hold c's old key, and c pairs with b again meanwhile.
MCWiped == [d \in MCDevices |-> [p \in MCDevices |-> IF d = c THEN 0 ELSE MCPaired[d][p]]]
MCRepair == {<<b, c>>, <<c, b>>}

MCNone == {}
=============================================================================
