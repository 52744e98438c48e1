------------------------------ MODULE MCTimers ------------------------------
(***************************************************************************)
(* Timers with a few timers of both kinds.                                 *)
(***************************************************************************)
EXTENDS Timers
==============================================================================
