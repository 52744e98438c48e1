------------------------------ MODULE Executor ------------------------------
(***************************************************************************)
(* What IOServer promises: an operation given to execute() is performed    *)
(* exactly once before execute() returns true, not at all when it returns  *)
(* false, and at most Capacity operations are performed at the same time.  *)
(***************************************************************************)
EXTENDS Integers, FiniteSets

CONSTANTS Client, Capacity

VARIABLE request   \* of each client: where its operation is

In(p) == {c \in Client : request[c] = p}

Init == request = [c \in Client |-> "none"]

Move(c, from, to) == request[c] = from /\ request' = [request EXCEPT ![c] = to]

Ask(c) == Move(c, "none", "asked")

Begin(c) == Cardinality(In("performing")) < Capacity /\ Move(c, "asked", "performing")

Complete(c) == Move(c, "performing", "performed")

Answer(c) == Move(c, "performed", "none")

Refuse(c) == Move(c, "asked", "none")

Next == \E c \in Client : Ask(c) \/ Begin(c) \/ Complete(c) \/ Answer(c) \/ Refuse(c)

Spec == Init /\ [][Next]_request
==============================================================================
