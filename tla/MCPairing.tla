------------------------------ MODULE MCPairing ------------------------------
(***************************************************************************)
(* Small instances of Pairing for TLC.                                     *)
(***************************************************************************)
EXTENDS PairingProps

CONSTANTS a, b, c

\* The displayer is launched twice, each scanner once.
MCLaunches == [d \in {a, b, c} |-> IF d = a THEN 2 ELSE 1]
=============================================================================
