-------------------------- MODULE MCMonitorHealth ---------------------------
(* The monitor's health rules, model-checked with the bounds of the .cfg files. *)
EXTENDS MonitorHealth
=============================================================================
