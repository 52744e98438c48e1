------------------------------- MODULE Runtime -------------------------------
(***************************************************************************)
(* What happens under Threads: the ready list, the stacks and the saved    *)
(* contexts of the threads together, from the constructor of a thread to   *)
(* the moment it leaves its stack for the last time.                       *)
(*                                                                         *)
(* A step is one call of the library, except that a thread that gives the  *)
(* processor up does so in two: what it does before schedule(), and        *)
(* schedule().  In between it still stands on its stack, which it may have *)
(* released.                                                               *)
(***************************************************************************)
EXTENDS ReadyList, StackManager

VARIABLES
    mem,       \* the stack manager and the topmost words of the stacks
    stackTop,  \* Thread::stackTop; NoStack while the thread does not exist
    context,   \* Thread::context: the stack that saveContext() was called on
    current,   \* Thread::current
    sp,        \* the stack the processor is on; NoStack is that of main()
    blocked,   \* threads whose blocker is set
    over       \* joinable threads whose run() has returned

list == <<first, last, next, previous>>
runtimeVars == <<list, mem, stackTop, context, current, sp, blocked, over>>

Live == {t \in Thread : stackTop[t] # NoStack}

\* The thread that the processor executes.
OnStack(t) == sp # NoStack /\ stackTop[t] = sp

\* Whoever executes has not called schedule() yet.
Active == sp = NoStack \/ \E t \in Thread \ (blocked \cup over) : OnStack(t)

RuntimeTypeOK ==
    /\ mem \in Memory
    /\ stackTop \in [Thread -> Stack \cup {NoStack}]
    /\ context \in [Thread -> Stack \cup {NoStack}]
    /\ current \in Live \cup {Null}
    /\ sp \in Stack \cup {NoStack}
    /\ blocked \subseteq Live /\ over \subseteq Live

RuntimeInit ==
    /\ Init
    /\ mem = NoPool
    /\ stackTop = [t \in Thread |-> NoStack]
    /\ context = [t \in Thread |-> NoStack]
    /\ current = Null /\ sp = NoStack
    /\ blocked = {} /\ over = {}

-----------------------------------------------------------------------------
\* saveContext() and restoreContext(): rsp goes to the context and comes back.
SaveContext(t) == context' = [context EXCEPT ![t] = sp]

RestoreContext(t) == sp' = context[t]

\* The constructor of a thread: startThread() is called on the new stack,
\* saves the context there, appends the thread and goes back to the caller.
Create(t) ==
    /\ Active /\ t \notin Live
    /\ mem.first # NoStack \/ mem.pools < MaxPools
    /\ LET s == AcquiredStack(mem)
       IN  /\ mem' = [Acquired(mem) EXCEPT !.top[s] = Frame]
           /\ stackTop' = [stackTop EXCEPT ![t] = s]
           /\ context' = [context EXCEPT ![t] = s]
    /\ LinkLast(t)
    /\ UNCHANGED <<current, sp, blocked, over>>

\* block() up to schedule().  It takes Thread::current for its caller.
Block ==
    /\ Active /\ sp # NoStack
    /\ SaveContext(current)
    /\ blocked' = blocked \cup {current}
    /\ UNCHANGED <<list, mem, stackTop, current, sp, over>>

\* unblock() of a blocked thread, by a thread or by a handler of the loop.
Wake(t) ==
    /\ Active /\ t \in blocked
    /\ LinkLast(t)
    /\ blocked' = blocked \ {t}
    /\ UNCHANGED <<mem, stackTop, context, current, sp, over>>

\* Mutant: a thread that is deleted stays linked.
DestroyLinked(t) ==
    /\ mem' = Released(mem, stackTop[t])
    /\ stackTop' = [stackTop EXCEPT ![t] = NoStack]
    /\ blocked' = blocked \ {t} /\ over' = over \ {t}
    /\ current' = IF current = t THEN Null ELSE current
    /\ UNCHANGED <<list, context, sp>>

\* ~Thread()
Destroy(t) ==
    /\ RemoveReady(t)
    /\ mem' = Released(mem, stackTop[t])
    /\ stackTop' = [stackTop EXCEPT ![t] = NoStack]
    /\ blocked' = blocked \ {t} /\ over' = over \ {t}
    /\ current' = IF current = t THEN Null ELSE current
    /\ UNCHANGED <<context, sp>>

\* A thread is deleted by another, or by the host.
Delete(t) == Active /\ t \in Live /\ ~OnStack(t) /\ Destroy(t)

\* Mutant: the stack of a joinable thread is released as well.
EndJoinableReleases(t) ==
    /\ Active /\ OnStack(t)
    /\ over' = over \cup {t}
    /\ mem' = Released(mem, stackTop[t])
    /\ UNCHANGED <<list, blocked, stackTop, context, current, sp>>

\* startThread() after run() of a joinable thread: its joiner is released, if
\* one is blocked.
EndJoinable(t) ==
    /\ Active /\ OnStack(t)
    /\ over' = over \cup {t}
    /\ \/ UNCHANGED <<list, blocked>>
       \/ \E j \in Thread : j \in blocked /\ LinkLast(j) /\ blocked' = blocked \ {j}
    /\ UNCHANGED <<mem, stackTop, context, current, sp>>

\* The same for a detached thread, which deletes itself and with that gives
\* back the stack it stands on.
EndDetached(t) == Active /\ OnStack(t) /\ Destroy(t)

\* Mutant: Thread::current is only set by the first thread to run.
ProcessReadyOnce ==
    /\ TakeFirst
    /\ current' = IF current = Null THEN first ELSE current
    /\ RestoreContext(first)

\* processReady()
ProcessReady ==
    /\ TakeFirst
    /\ current' = first
    /\ RestoreContext(first)

\* schedule(): to the first ready thread, else back to the loop.
Schedule ==
    /\ ~Active
    /\ \/ ProcessReady
       \/ first = Null /\ sp' = NoStack /\ UNCHANGED <<list, current>>
    /\ UNCHANGED <<mem, stackTop, context, blocked, over>>

\* Scheduler::run() gives the processor away.
RunReady ==
    /\ sp = NoStack
    /\ ProcessReady
    /\ UNCHANGED <<mem, stackTop, context, blocked, over>>

RuntimeNext ==
    \/ \E t \in Thread : Create(t)
    \/ Block
    \/ \E t \in Thread : Wake(t)
    \/ \E t \in Thread : Delete(t)
    \/ \E t \in Thread : EndJoinable(t)
    \/ \E t \in Thread : EndDetached(t)
    \/ Schedule
    \/ RunReady

RuntimeSpec == RuntimeInit /\ [][RuntimeNext]_runtimeVars

-----------------------------------------------------------------------------
(***************************************************************************)
(* Properties.                                                             *)
(***************************************************************************)

\* No two threads have the same stack, none has a free one, and the context
\* of each is on its own: restoreContext() never lands in the frames of
\* another thread (StackManager.h:160, Thread.cc:67-84).
OwnStack ==
    /\ \A t, u \in Live : stackTop[t] = stackTop[u] => t = u
    /\ \A t \in Live : stackTop[t] \notin Free(mem) /\ context[t] = stackTop[t]

\* The processor stands on the stack of Thread::current.  The exception is a
\* thread that has deleted itself (Thread.cc:79): the stack that it stands on
\* is the next to be given out, and until it has left nobody takes it.
StandsOnOwnStack ==
    sp # NoStack =>
        \/ current # Null /\ stackTop[current] = sp
        \/ current = Null /\ mem.first = sp /\ ~Active

\* Whatever is in the ready list can be resumed: it exists, waits for nothing,
\* is not over and is not the thread that executes.
ReadyAreResumable ==
    \A t \in Thread : Linked(t) =>
        t \in Live \ (blocked \cup over) /\ ~OnStack(t)

Stacks == INSTANCE Allocator WITH
    PoolSize <- StacksPerPool,
    used <- Mapped(mem) \ Free(mem),
    capacity <- StacksPerPool * mem.pools

\* The links in the top words implement an allocator that never gives out a
\* stack in use, loses none, and maps a pool only when there is no other way.
AllocatorSpec == Stacks!Spec

-----------------------------------------------------------------------------
(***************************************************************************)
(* The life cycle that Threads implements is the one down here.  A thread  *)
(* that has left but not yet switched is where it is going to, and the     *)
(* first ready one has the processor already: nobody can come in between.  *)
(***************************************************************************)
HasProcessor(t) == IF Active THEN OnStack(t) ELSE t = first

phase ==
    [t \in Thread |->
        CASE t \notin Live    -> "absent"
          [] t \in over       -> "ended"
          [] t \in blocked    -> "blocked"
          [] HasProcessor(t)  -> "running"
          [] OTHER            -> "ready"]

Life == INSTANCE ThreadLife

\* Links, stacks and saved contexts give the processor to one thread at a
\* time, to each that is ready and to none that is not.
LifeSpec == Life!Spec
==============================================================================
