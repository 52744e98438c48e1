----------------------------- MODULE ReadyQueue -----------------------------
(***************************************************************************)
(* What the ready list promises: a queue of threads without repetitions,   *)
(* from which any thread can be withdrawn.                                 *)
(***************************************************************************)
EXTENDS Queues

CONSTANT Thread

VARIABLE queue

Init == queue = << >>

Put(t) == t \notin ToSet(queue) /\ queue' = Append(queue, t)

Take == queue # << >> /\ queue' = Tail(queue)

Withdraw(t) == queue' = Without(queue, t)

Next == Take \/ \E t \in Thread : Put(t) \/ Withdraw(t)

Spec == Init /\ [][Next]_queue
==============================================================================
