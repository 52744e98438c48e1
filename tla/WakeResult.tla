----------------------------- MODULE WakeResult -----------------------------
(***************************************************************************)
(* Threads with a history variable: what the call that released a thread   *)
(* passed for the result of its blocking.                                  *)
(***************************************************************************)
EXTENDS Threads

VARIABLE woken   \* per thread, the argument of the unblock() that released it

WInit == Init /\ woken = [t \in Thread |-> Null]

WNext ==
    /\ Next
    /\ woken' = [t \in Thread |->
                    IF blocker[t] \in Ref /\ blocker'[t] = Null
                    THEN result'[blocker[t]] ELSE woken[t]]

WSpec == WInit /\ [][WNext]_<<vars, woken>>

\* A thread that resumes in blockCurrent() returns the result it was
\* released with (BlockedThread.h:43-53, 62-65): a call of cancel() that found
\* nobody blocked, and said so, cancels nothing (ThreadedFDMixin.h:61-67).
\* unblock() stores its argument before it looks for a thread.
OutcomeIsWakeResult ==
    running \in Thread /\ at[running] \in refs
        => result[at[running]] = woken[running]
==============================================================================
