------------------------------ MODULE MCGauges ------------------------------
(***************************************************************************)
(* Gauges, and with it MetricsBackend, for TLC.                            *)
(***************************************************************************)
EXTENDS Gauges
=============================================================================
