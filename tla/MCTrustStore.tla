---------------------------- MODULE MCTrustStore ----------------------------
(***************************************************************************)
(* Small instances of TrustStore for TLC.                                  *)
(***************************************************************************)
EXTENDS TrustStoreProps, TLC

\* Inodes, peers and processes of one kind are interchangeable.
StoreSymmetry == Permutations(Inodes) \cup Permutations(Peers)
                   \cup Permutations(Savers) \cup Permutations(Readers)
=============================================================================
