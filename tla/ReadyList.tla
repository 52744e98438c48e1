------------------------------ MODULE ReadyList ------------------------------
(***************************************************************************)
(* The ready list as the code links it: Scheduler::readyFirst, readyLast   *)
(* and the members next and previous of each Thread, a ring while any      *)
(* thread is linked.  Thread::append() and Thread::remove() assign them.   *)
(***************************************************************************)
EXTENDS Queues

CONSTANTS Thread, Null

ASSUME ListAssumption == Null \notin Thread /\ IsFiniteSet(Thread)

VARIABLES first, last,    \* Scheduler::readyFirst, readyLast
          next, previous  \* Thread::next, Thread::previous

vars == <<first, last, next, previous>>

Init ==
    /\ first = Null /\ last = Null
    /\ next = [t \in Thread |-> Null]
    /\ previous = [t \in Thread |-> Null]

Linked(t) == next[t] # Null

\* Mutant: the ring is not closed at the new last thread.
AppendOpen(t) ==
    /\ next[t] = Null /\ previous[t] = Null
    /\ last' = t
    /\ IF last = Null
       THEN /\ first' = t
            /\ next' = [next EXCEPT ![t] = t]
            /\ previous' = [previous EXCEPT ![t] = t]
       ELSE /\ previous' = [previous EXCEPT ![t] = last]
            /\ next' = [next EXCEPT ![last] = t, ![t] = first]
            /\ UNCHANGED first

\* Mutant: the thread is linked in front of the ring instead of behind it.
LinkFirst(t) ==
    /\ next[t] = Null /\ previous[t] = Null
    /\ first' = t
    /\ IF last = Null
       THEN /\ last' = t
            /\ next' = [next EXCEPT ![t] = t]
            /\ previous' = [previous EXCEPT ![t] = t]
       ELSE /\ previous' = [previous EXCEPT ![t] = last, ![first] = t]
            /\ next' = [next EXCEPT ![last] = t, ![t] = first]
            /\ UNCHANGED last

\* append(first, last).  The guard is its assertion.
LinkLast(t) ==
    /\ next[t] = Null /\ previous[t] = Null
    /\ last' = t
    /\ IF last = Null
       THEN /\ first' = t
            /\ next' = [next EXCEPT ![t] = t]
            /\ previous' = [previous EXCEPT ![t] = t]
       ELSE /\ previous' = [previous EXCEPT ![t] = last, ![first] = t]
            /\ next' = [next EXCEPT ![last] = t, ![t] = first]
            /\ UNCHANGED first

\* remove(first, last): its four cases are the only thread, the first, the
\* last and one in the middle.
Unlink(t) ==
    /\ next[t] # Null /\ previous[t] # Null
    /\ \/ /\ first = t /\ last = t
          /\ first' = Null /\ last' = Null
          /\ next' = [next EXCEPT ![t] = Null]
          /\ previous' = [previous EXCEPT ![t] = Null]
       \/ /\ first = t /\ last # t
          /\ next' = [next EXCEPT ![last] = next[t], ![t] = Null]
          /\ previous' = [previous EXCEPT ![next[t]] = last, ![t] = Null]
          /\ first' = next[t]
          /\ UNCHANGED last
       \/ /\ first # t /\ last = t
          /\ previous' = [previous EXCEPT ![first] = previous[t], ![t] = Null]
          /\ next' = [next EXCEPT ![previous[t]] = first, ![t] = Null]
          /\ last' = previous[t]
          /\ UNCHANGED first
       \/ /\ first # t /\ last # t
          /\ next' = [next EXCEPT ![previous[t]] = next[t], ![t] = Null]
          /\ previous' = [previous EXCEPT ![next[t]] = previous[t], ![t] = Null]
          /\ UNCHANGED <<first, last>>

\* Scheduler::processReady() takes the first thread.
TakeFirst == first # Null /\ Unlink(first)

\* Scheduler::removeReady(), from ~Thread().
RemoveReady(t) == IF Linked(t) THEN Unlink(t) ELSE UNCHANGED vars

Next ==
    \/ \E t \in Thread : ~Linked(t) /\ LinkLast(t)
    \/ TakeFirst
    \/ \E t \in Thread : RemoveReady(t)

Spec == Init /\ [][Next]_vars

-----------------------------------------------------------------------------
(***************************************************************************)
(* The ring spells a sequence of threads.                                  *)
(***************************************************************************)

\* The position that follows i in a ring of n.
After(i, n) == IF i = n THEN 1 ELSE i + 1

Spells(s) ==
    /\ s \in Seq(Thread) /\ IsInjective(s)
    /\ IF s = << >> THEN first = Null /\ last = Null
                    ELSE first = s[1] /\ last = s[Len(s)]
    /\ \A i \in DOMAIN s :
           /\ next[s[i]] = s[After(i, Len(s))]
           /\ previous[s[After(i, Len(s))]] = s[i]
    /\ \A t \in Thread \ ToSet(s) : next[t] = Null /\ previous[t] = Null

\* The sequences that the ring can spell: no thread is in it twice.
Orders == UNION {[1 .. n -> Thread] : n \in 0 .. Cardinality(Thread)}

\* The members always form one closed ring, linked alike in both directions,
\* with nobody half linked: every traversal from readyFirst meets each ready
\* thread once.
IsRing == \E s \in Orders : Spells(s)

\* The sequence that the ring spells.
spelled == CHOOSE s \in Orders : Spells(s)

Queue == INSTANCE ReadyQueue WITH queue <- spelled

\* The pointer operations implement the queue that Threads works with.
QueueSpec == Queue!Spec
==============================================================================
