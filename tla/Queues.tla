------------------------------- MODULE Queues -------------------------------
(***************************************************************************)
(* Queues without repetitions, as the library's lists of threads are.      *)
(***************************************************************************)
EXTENDS Integers, Sequences, SequencesExt

\* The queue once x is unlinked, wherever it was, if it was linked at all.
Without(queue, x) ==
    LET Places == {i \in DOMAIN queue : queue[i] = x}
    IN  IF Places = {} THEN queue
                       ELSE RemoveAt(queue, CHOOSE i \in Places : TRUE)
==============================================================================
