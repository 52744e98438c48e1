----------------------------- MODULE MCPollLoop -----------------------------
(***************************************************************************)
(* PollLoop on small sets.  Descriptors are numbers, updateAllEvents()     *)
(* goes through them in order; the liveness property forbids symmetry.     *)
(***************************************************************************)
EXTENDS PollLoop
==============================================================================
