----------------------------- MODULE PeerRecords -----------------------------
(***************************************************************************)
(* What a trust store promises: one record per peer, replaced as a whole,  *)
(* never lost, and every read returns the records of one moment.           *)
(***************************************************************************)
EXTENDS Integers

CONSTANTS Readers, Peers,
          Moments   \* when records may be made

VARIABLES
  store,   \* store[q]: when q's record was made, 0 if there is none
  seen     \* seen[r]: the records r read last

SavePeer(q, t) ==
  /\ t > store[q]
  /\ store' = [store EXCEPT ![q] = t]
  /\ UNCHANGED seen

Read(r) ==
  /\ seen' = [seen EXCEPT ![r] = store]
  /\ UNCHANGED store

Init ==
  /\ store = [q \in Peers |-> 0]
  /\ seen = [r \in Readers |-> [q \in Peers |-> 0]]

Next ==
  \/ \E q \in Peers, t \in Moments : SavePeer(q, t)
  \/ \E r \in Readers : Read(r)

Spec == Init /\ [][Next]_<<store, seen>>
=============================================================================
