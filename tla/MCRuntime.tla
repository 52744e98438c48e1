------------------------------ MODULE MCRuntime ------------------------------
(***************************************************************************)
(* Runtime with four threads on pools of two stacks: two pools suffice,    *)
(* and a third could be mapped.  Nothing tells the threads apart, and the  *)
(* properties are invariants or about single steps.                        *)
(***************************************************************************)
EXTENDS Runtime

Symmetry == Permutations(Thread)
==============================================================================
