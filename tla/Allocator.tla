----------------------------- MODULE Allocator -----------------------------
(***************************************************************************)
(* What the stack manager promises: nobody is given a stack that is in     *)
(* use, and a new pool is mapped only when every stack is.                 *)
(***************************************************************************)
EXTENDS Integers

CONSTANT PoolSize

VARIABLES used,      \* the stacks that are given out
          capacity   \* number of stacks there are

Init == used = {} /\ capacity = 0

Acquire ==
    /\ capacity' = IF used = 1 .. capacity THEN capacity + PoolSize ELSE capacity
    /\ \E s \in (1 .. capacity') \ used : used' = used \cup {s}

Release == \E s \in used : used' = used \ {s} /\ UNCHANGED capacity

Next == Acquire \/ Release

Spec == Init /\ [][Next]_<<used, capacity>>
==============================================================================
