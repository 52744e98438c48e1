----------------------------- MODULE MCThreads -----------------------------
(***************************************************************************)
(* Threads on small sets.  Threads and references are model values; the    *)
(* liveness properties forbid declaring them symmetric.                    *)
(***************************************************************************)
EXTENDS Threads
==============================================================================
