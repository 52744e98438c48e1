----------------------------- MODULE MCIOServer -----------------------------
(***************************************************************************)
(* IOServer on small sets.  Every order of the workers in the pool is an   *)
(* initial state, and the liveness property forbids symmetry.              *)
(***************************************************************************)
EXTENDS IOServer
==============================================================================
