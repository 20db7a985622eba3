---------------------------- MODULE MCEventTimers ----------------------------
(* Small instances of the event timers. *)
EXTENDS EventTimers, TLC

CONSTANTS a, b, r, s, p, q
=============================================================================
