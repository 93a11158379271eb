------------------------------ MODULE MCTimers ------------------------------
(* Two timers: enough for one to set, clear or outlive the other, and for each *)
(* to set, clear or outlive itself.                                            *)
EXTENDS Timers
=============================================================================
