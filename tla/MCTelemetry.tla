------------------------------ MODULE MCTelemetry ------------------------------
(* A small instance of Telemetry: two PIDs, and one process more than fit, *)
(* so that PIDs are handed on.                                             *)
EXTENDS Telemetry

CONSTANTS p1, p2

MCPids == {p1, p2}
=============================================================================
