------------------------------ MODULE MCWorkers ------------------------------
(***************************************************************************)
(* Workers on small sets.                                                  *)
(***************************************************************************)
EXTENDS Workers
==============================================================================
