-------------------------- MODULE MCMonitoredItem --------------------------
(* Instance of MonitoredItem for TLC.                                      *)
EXTENDS MonitoredItem
=============================================================================
