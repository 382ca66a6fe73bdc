--------------------------- MODULE MCWifiTransport ---------------------------
(***************************************************************************)
(* A small instance of WifiTransport for TLC.                              *)
(***************************************************************************)
EXTENDS WifiTransportProps

CONSTANTS a, b

\* a sends to b.
MCInRange == {<<a, b>>}

\* The receiver is launched again.
MCMaxRuns == [d \in Devices |-> IF d = b THEN 2 ELSE 1]
=============================================================================
