---------------------------- MODULE StackManager ----------------------------
(***************************************************************************)
(* The stacks of threads.  A free stack holds in its topmost word the      *)
(* address of the next free one; a stack in use holds there the return     *)
(* address that the call of startThread() pushed.                          *)
(*                                                                         *)
(* Stacks are numbered in the order of allocation.  The operators are      *)
(* applied to the memory m: firstFreeStack, the topmost words and the      *)
(* number of pools that are mapped.                                        *)
(***************************************************************************)
EXTENDS Integers

CONSTANTS NoStack, StacksPerPool,
          MaxPools,   \* bound on the pools that mmap() provides
          Frame       \* what is pushed first on a stack

Stack == 1 .. StacksPerPool * MaxPools

ASSUME StacksAssumption ==
    /\ StacksPerPool \in Nat \ {0} /\ MaxPools \in Nat
    /\ NoStack \notin Stack /\ Frame \notin Stack \cup {NoStack}

Memory == [first : Stack \cup {NoStack},
           top : [Stack -> Stack \cup {NoStack, Frame}],
           pools : 0 .. MaxPools]

NoPool == [first |-> NoStack, top |-> [s \in Stack |-> NoStack], pools |-> 0]

\* The stacks of all pools that are mapped.
Mapped(m) == 1 .. StacksPerPool * m.pools

\* allocatePool(): the stacks of the pool are put in front of the list one
\* by one, so that the last of them is the first to be used.
AllocatePool(m) ==
    LET from == StacksPerPool * m.pools
        to == from + StacksPerPool
    IN  [first |-> to,
         top |-> [s \in Stack |-> IF s = from + 1 THEN m.first
                                  ELSE IF s \in from + 2 .. to THEN s - 1
                                  ELSE m.top[s]],
         pools |-> m.pools + 1]

\* acquireStack() maps a pool when the list is empty ...
Supplied(m) == IF m.first = NoStack THEN AllocatePool(m) ELSE m

\* ... and returns the first stack of the list,
AcquiredStack(m) == Supplied(m).first

\* which goes on at the stack whose address was in its topmost word.
Acquired(m) == LET n == Supplied(m) IN [n EXCEPT !.first = n.top[n.first]]

\* Mutant: the address of the first free stack is not stored.
ReleasedUnlinked(m, s) == [m EXCEPT !.first = s]

\* releaseStack()
Released(m, s) == [m EXCEPT !.top[s] = m.first, !.first = s]

\* What a traversal from firstFreeStack finds.
Free(m) ==
    LET at[n \in 0 .. StacksPerPool * MaxPools] ==
            IF n = 0 THEN m.first
            ELSE IF at[n - 1] \in Stack THEN m.top[at[n - 1]] ELSE at[n - 1]
    IN  {at[n] : n \in DOMAIN at} \cap Stack
==============================================================================
