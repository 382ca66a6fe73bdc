---------------------------- MODULE TokenExchange ----------------------------
(***************************************************************************)
(* What proximity encounters promise, without messages, transports,        *)
(* processes or failures: a token is learned only between two devices that *)
(* hold each other's current long-term key, under a session key used for   *)
(* one encounter, and an initiator learns the responder's token only after *)
(* the responder has learned the initiator's under the same key.           *)
(***************************************************************************)
CONSTANTS Initiators, Responders,
          Identity,     \* Identity[d]: which generation of long-term keys d holds
          Trust0,       \* the trust stores at the start
          Pairable,     \* the pairs <<d, p>> for which d may (re)save p
          Key           \* the session keys

Devices == Initiators \cup Responders

VARIABLES trust, received

MutualTrust(a, b) == trust[a][b] = Identity[b] /\ trust[b][a] = Identity[a]

Learned(d, k) == \E e \in received : e.by = d /\ e.key = k

Init == trust = Trust0 /\ received = {}

SavePeer(d, p) ==
  /\ <<d, p>> \in Pairable
  /\ trust' = [trust EXCEPT ![d][p] = Identity[p]]
  /\ UNCHANGED received

ResponderLearns(r, i, k) ==
  /\ MutualTrust(r, i)
  /\ ~Learned(r, k)
  /\ received' = received \cup {[by |-> r, with |-> i, key |-> k, token |-> i]}
  /\ UNCHANGED trust

InitiatorLearns(i, r, k) ==
  /\ MutualTrust(r, i)
  /\ [by |-> r, with |-> i, key |-> k, token |-> i] \in received
  /\ ~Learned(i, k)
  /\ received' = received \cup {[by |-> i, with |-> r, key |-> k, token |-> r]}
  /\ UNCHANGED trust

Next ==
  \/ \E d, p \in Devices : SavePeer(d, p)
  \/ \E r \in Responders, i \in Initiators, k \in Key :
       ResponderLearns(r, i, k) \/ InitiatorLearns(i, r, k)

Spec == Init /\ [][Next]_<<trust, received>>
=============================================================================
