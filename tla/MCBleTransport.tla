--------------------------- MODULE MCBleTransport ---------------------------
(***************************************************************************)
(* A small instance of BleTransport for TLC: two centrals, one peripheral. *)
(***************************************************************************)
EXTENDS BleTransportProps

CONSTANTS a, b, c

MCInRange == {<<a, b>>, <<c, b>>}

\* The peripheral is launched again.
MCMaxRuns == [d \in Devices |-> IF d = b THEN 2 ELSE 1]

\* A header read out of the middle of a message: none of it, less than a
\* message, or more than will ever come.
MCMisreads == {0, 100, 2147483647}
=============================================================================
