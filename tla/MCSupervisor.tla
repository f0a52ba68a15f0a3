---------------------------- MODULE MCSupervisor ----------------------------
(* Model checking of Supervisor over a few days.                           *)
EXTENDS Supervisor, TLC
=============================================================================
