------------------------------- MODULE Threads -------------------------------
(***************************************************************************)
(* The cooperative threads of liblwt: Thread, BlockedThread and the part   *)
(* of Scheduler that switches between threads.                             *)
(*                                                                         *)
(* One context executes at a time: a thread, or the host, which is the     *)
(* application's main() and the loop of Scheduler::run() on the original   *)
(* stack.  A step of this module is one call of the library, up to the     *)
(* point where the calling context continues or another one is resumed.    *)
(* A joinable thread owns one BlockedThread, its `joiner'; that reference  *)
(* is denoted by the thread itself, so the references are Ref \cup Thread. *)
(***************************************************************************)
EXTENDS Integers, Sequences, SequencesExt, Queues

CONSTANTS Thread,   \* addresses of Thread objects
          Ref,      \* addresses of BlockedThread objects, joiners excepted
          Host,     \* main() and Scheduler::run()
          Null      \* the null pointer

ASSUME ContextsAreDistinct ==
    /\ Thread \cap Ref = {}
    /\ Host \notin Thread
    /\ Null \notin Thread \cup Ref

VARIABLES
    threads,   \* the Thread objects that exist
    joinable,  \* those constructed with joinable = true
    finished,  \* those whose `finished' member is true
    ended,     \* those whose run() has returned
    refs,      \* the BlockedThread objects that exist, joiners excepted
    ready,     \* the list readyFirst .. readyLast
    current,   \* Thread::current, left alone while the host executes
    running,   \* the context that executes
    host,      \* where the host is: in main(), in epoll_wait, in handlers
    blocker,   \* Thread::blocker
    waiter,    \* BlockedThread::thread
    result,    \* BlockedThread::result (join() ignores that of a joiner)
    at         \* the reference whose blockCurrent() a thread has entered
               \* and not yet returned from

vars == <<threads, joinable, finished, ended, refs, ready, current, running,
          host, blocker, waiter, result, at>>

Blocker == Ref \cup Thread

Results == {"UNBLOCKED", "CANCELLED"}

(***************************************************************************)
(* The references that exist: a joinable thread's joiner lives as long as  *)
(* the thread.                                                             *)
(***************************************************************************)
LiveBlockers == refs \cup joinable

-----------------------------------------------------------------------------
(***************************************************************************)
(* Pieces shared by the operations.                                        *)
(***************************************************************************)

\* The code of the application is executing: a thread outside
\* blockCurrent(), or the host outside epoll_wait().
CanCall ==
    IF running = Host THEN host \in {"main", "handlers"}
                      ELSE at[running] = Null

\* A thread, not the host, executes application code.
ThreadCanCall == running \in Thread /\ at[running] = Null

\* Mutant: the thread linked last is resumed first.
DispatchLast(queue, cur) ==
    IF queue = << >>
    THEN running' = Host /\ current' = cur /\ ready' = << >>
    ELSE running' = Last(queue) /\ current' = Last(queue) /\ ready' = Front(queue)

\* Scheduler::processReady() on a ready list with the given contents.  With
\* nothing ready, control goes on in Scheduler::run(), to the poll, and
\* Thread::current keeps its value.
Dispatch(queue, cur) ==
    IF queue = << >>
    THEN running' = Host /\ current' = cur /\ ready' = << >>
    ELSE running' = Head(queue) /\ current' = Head(queue) /\ ready' = Tail(queue)

\* BlockedThread::unblock on reference b: the thread that waits, if any, is
\* detached from it and is the one to append to the ready list.
Released(b) == IF waiter[b] = Null THEN << >> ELSE <<waiter[b]>>

\* Mutant: the blocker of Thread::current is cleared instead.
DetachCurrent(b) ==
    /\ waiter' = [waiter EXCEPT ![b] = Null]
    /\ blocker' = IF waiter[b] = Null \/ current = Null THEN blocker
                  ELSE [blocker EXCEPT ![current] = Null]

\* Mutant: the thread keeps its blocker.
DetachOneSide(b) ==
    /\ waiter' = [waiter EXCEPT ![b] = Null]
    /\ blocker' = blocker

Detach(b) ==
    /\ waiter' = [waiter EXCEPT ![b] = Null]
    /\ blocker' = IF waiter[b] = Null THEN blocker
                  ELSE [blocker EXCEPT ![waiter[b]] = Null]

\* Mutant: a thread that is deleted stays linked.
RemoveReadyNot(queue, t) == queue

\* Scheduler::removeReady(): unlink t if it is linked.
RemoveReady(queue, t) == Without(queue, t)

\* Mutant: deleting the joiner forgets the blocker of the thread in join().
DeleteKeepsWaiter(t) ==
    /\ threads' = threads \ {t}
    /\ joinable' = joinable \ {t}
    /\ finished' = finished \ {t}
    /\ ended' = ended \ {t}
    /\ blocker' = [blocker EXCEPT ![t] = Null]
    /\ waiter' = [b \in Blocker |->
                     IF b \in {t, blocker[t]} THEN Null ELSE waiter[b]]
    /\ at' = [at EXCEPT ![t] = Null]

\* Thread::~Thread(): thread t is gone, whatever list or reference held it,
\* and so is its joiner, which detaches a thread that is in join() on t.
\* The assertion at the head is left out: a program that it does not stop
\* behaves in this way, and the properties hold for it too.
Delete(t) ==
    /\ threads' = threads \ {t}
    /\ joinable' = joinable \ {t}
    /\ finished' = finished \ {t}
    /\ ended' = ended \ {t}
    /\ blocker' = [u \in Thread |->
                      IF u \in {t, waiter[t]} THEN Null ELSE blocker[u]]
    /\ waiter' = [b \in Blocker |->
                     IF b \in {t, blocker[t]} THEN Null ELSE waiter[b]]
    /\ at' = [at EXCEPT ![t] = Null]

-----------------------------------------------------------------------------
Init ==
    /\ threads = {} /\ joinable = {} /\ finished = {} /\ ended = {}
    /\ refs = {}
    /\ ready = << >>
    /\ current = Null
    /\ running = Host
    /\ host = "main"
    /\ blocker = [t \in Thread |-> Null]
    /\ waiter = [b \in Blocker |-> Null]
    /\ result = [b \in Ref |-> "UNBLOCKED"]
    /\ at = [t \in Thread |-> Null]

\* new Thread(isJoinable): the constructor enters the new stack, where
\* startThread() saves the context, links the thread and jumps back.
NewThread(t, isJoinable) ==
    /\ CanCall
    /\ t \notin threads
    /\ threads' = threads \cup {t}
    /\ joinable' = IF isJoinable THEN joinable \cup {t} ELSE joinable
    /\ ready' = Append(ready, t)
    /\ UNCHANGED <<finished, ended, refs, current, running, host, blocker,
                   waiter, result, at>>

\* new BlockedThread(): the constructor leaves `result' uninitialised.
NewRef(b) ==
    /\ CanCall
    /\ b \notin refs
    /\ refs' = refs \cup {b}
    /\ \E r \in Results : result' = [result EXCEPT ![b] = r]
    /\ UNCHANGED <<threads, joinable, finished, ended, ready, current,
                   running, host, blocker, waiter, at>>

\* blockCurrent() up to the context switch.  setThread() asserts that
\* nobody waits on the reference yet.
BlockOn(b) ==
    /\ waiter[b] = Null
    /\ blocker' = [blocker EXCEPT ![running] = b]
    /\ waiter' = [waiter EXCEPT ![b] = running]
    /\ at' = [at EXCEPT ![running] = b]
    /\ Dispatch(ready, current)
    /\ UNCHANGED <<threads, joinable, finished, ended, refs, host, result>>

Block(b) == ThreadCanCall /\ b \in refs /\ BlockOn(b)

\* join() on a joinable thread that is not finished.  On any other thread
\* it returns at once and changes nothing.
Join(t) ==
    /\ ThreadCanCall
    /\ t \in joinable \ finished
    /\ BlockOn(t)

\* The rest of blockCurrent(): the thread was resumed and reads `result'.
Awake ==
    /\ running \in Thread
    /\ at[running] # Null
    /\ at' = [at EXCEPT ![running] = Null]
    /\ UNCHANGED <<threads, joinable, finished, ended, refs, ready, current,
                   running, host, blocker, waiter, result>>

\* unblock(r), and cancel() with r = "CANCELLED".
Unblock(b, r) ==
    /\ CanCall
    /\ b \in refs
    /\ result' = [result EXCEPT ![b] = r]
    /\ Detach(b)
    /\ ready' = ready \o Released(b)
    /\ UNCHANGED <<threads, joinable, finished, ended, refs, current,
                   running, host, at>>

\* delete b: the destructor calls unblock().
DeleteRef(b) ==
    /\ CanCall
    /\ b \in refs
    /\ refs' = refs \ {b}
    /\ result' = [result EXCEPT ![b] = "UNBLOCKED"]
    /\ Detach(b)
    /\ ready' = ready \o Released(b)
    /\ UNCHANGED <<threads, joinable, finished, ended, current, running,
                   host, at>>

\* Mutant: the thread that ended goes back to the ready list.
ReturnJoinableReadied ==
    /\ ThreadCanCall
    /\ running \in joinable
    /\ ended' = ended \cup {running}
    /\ finished' = IF waiter[running] = Null THEN finished
                   ELSE finished \cup {running}
    /\ Detach(running)
    /\ Dispatch(Append(ready \o Released(running), running), current)
    /\ UNCHANGED <<threads, joinable, refs, host, result, at>>

\* run() of a joinable thread returns: a joiner that waits is released,
\* and only then is the thread marked finished.
ReturnJoinable ==
    /\ ThreadCanCall
    /\ running \in joinable
    /\ ended' = ended \cup {running}
    /\ finished' = IF waiter[running] = Null THEN finished
                   ELSE finished \cup {running}
    /\ Detach(running)
    /\ Dispatch(ready \o Released(running), current)
    /\ UNCHANGED <<threads, joinable, refs, host, result, at>>

\* run() of a detached thread returns: the thread deletes itself, then
\* schedules, still on the stack that its destructor released.
ReturnDetached ==
    /\ ThreadCanCall
    /\ running \notin joinable
    /\ Delete(running)
    /\ Dispatch(ready, Null)
    /\ UNCHANGED <<refs, host, result>>

\* delete t by another context.  The joiner's destructor releases a thread
\* that is in join() on t, which may be t itself; then t is unlinked.
Destroy(t) ==
    /\ CanCall
    /\ t \in threads \ {running}
    /\ Delete(t)
    /\ ready' = RemoveReady(ready \o Released(t), t)
    /\ current' = IF current = t THEN Null ELSE current
    /\ UNCHANGED <<refs, running, host, result>>

\* main() calls Scheduler::run(), which starts with processReady().
Run ==
    /\ running = Host /\ host = "main"
    /\ host' = "poll"
    /\ Dispatch(ready, current)
    /\ UNCHANGED <<threads, joinable, finished, ended, refs, blocker, waiter,
                   result, at>>

\* epoll_wait() returns.  The handlers of descriptors and timers run next,
\* on the host's stack; with no descriptor and no timer left, run() returns.
Poll ==
    /\ running = Host /\ host = "poll"
    /\ host' \in {"handlers", "main"}
    /\ UNCHANGED <<threads, joinable, finished, ended, refs, ready, current,
                   running, blocker, waiter, result, at>>

\* The handlers are done and run() goes round its loop.
HandlersDone ==
    /\ running = Host /\ host = "handlers"
    /\ host' = "poll"
    /\ Dispatch(ready, current)
    /\ UNCHANGED <<threads, joinable, finished, ended, refs, blocker, waiter,
                   result, at>>

Next ==
    \/ \E t \in Thread, isJoinable \in BOOLEAN : NewThread(t, isJoinable)
    \/ \E b \in Ref : NewRef(b)
    \/ \E b \in Ref : Block(b)
    \/ \E t \in Thread : Join(t)
    \/ Awake
    \/ \E b \in Ref, r \in Results : Unblock(b, r)
    \/ \E b \in Ref : DeleteRef(b)
    \/ ReturnJoinable
    \/ ReturnDetached
    \/ \E t \in Thread : Destroy(t)
    \/ Run
    \/ Poll
    \/ HandlersDone

Spec == Init /\ [][Next]_vars

\* The bodies of threads cooperate: each sooner or later blocks, joins or
\* returns.  Handlers return, main() calls run(), and a context that was
\* switched to executes.  Nothing is assumed of epoll_wait(), nor that
\* anybody unblocks or deletes anything.
Yield ==
    \/ \E b \in Ref : Block(b)
    \/ \E t \in Thread : Join(t)
    \/ ReturnJoinable
    \/ ReturnDetached

Fairness ==
    /\ WF_vars(Yield)
    /\ WF_vars(Awake)
    /\ WF_vars(HandlersDone)
    /\ WF_vars(Run)

FairSpec == Spec /\ Fairness

-----------------------------------------------------------------------------
(***************************************************************************)
(* Properties.                                                             *)
(***************************************************************************)

\* Every variable has its type, and no pointer kept by the library leads to
\* a destroyed object: every set and link is within the objects that exist.
TypeOK ==
    /\ threads \subseteq Thread
    /\ joinable \subseteq threads
    /\ finished \subseteq joinable \cap ended
    /\ ended \subseteq joinable
    /\ refs \subseteq Ref
    /\ ready \in Seq(threads)
    /\ current \in threads \cup {Null}
    /\ running \in threads \cup {Host}
    /\ host \in {"main", "poll", "handlers"}
    /\ blocker \in [Thread -> Blocker \cup {Null}]
    /\ waiter \in [Blocker -> threads \cup {Null}]
    /\ result \in [Ref -> Results]
    /\ at \in [Thread -> Blocker \cup {Null}]

\* Thread::blocker and BlockedThread::thread are inverse of each other
\* (BlockedThread.h:34-40: a thread blocks on one reference, a reference
\* holds one thread), and both ends exist: unblock(), the two destructors
\* and block() each update the two sides.
BlockInverse ==
    /\ \A t \in Thread, b \in Blocker : blocker[t] = b <=> waiter[b] = t
    /\ \A t \in Thread : blocker[t] # Null =>
           /\ t \in threads
           /\ blocker[t] \in LiveBlockers
           /\ blocker[t] = at[t]

Ready == ToSet(ready)

Blocked == {t \in Thread : blocker[t] # Null}

\* A thread that exists is in exactly one place: executing, linked once in
\* the ready list, blocked on a reference, or ended and waiting for its
\* deletion.  No call loses a thread or makes it runnable twice (append()
\* asserts the latter at Thread.cc:172).
OnePlace ==
    /\ IsInjective(ready)
    /\ threads = Ready \cup Blocked \cup ended \cup ({running} \ {Host})
    /\ Ready \cap Blocked = {}
    /\ (Ready \cup Blocked) \cap ended = {}
    /\ running \notin Ready \cup Blocked \cup ended

\* While a thread executes, Thread::current is that thread; block() and
\* join() act on Thread::current and so on the caller.
CurrentIsRunning == running \in Thread => current = running

\* The host waits in epoll_wait(), and Scheduler::run() returns, only when
\* no thread is ready: ~Scheduler() asserts an empty list, and a ready
\* thread would otherwise sleep until some descriptor had an event.
PollsOnlyWhenIdle == running = Host /\ host = "poll" => ready = << >>

\* A joiner goes on only after run() of the thread it joined has returned,
\* or when that thread, or itself, is deleted: no release, deletion or switch
\* of others lets it pass.  (In either case join() returns true; Thread.h:156-160
\* promises false in the second.)
JoinWaitsForEnd ==
    [][\A t, u \in Thread :
           blocker[t] = u /\ blocker'[t] # u =>
               u \in ended' \/ u \notin threads' \/ t \notin threads']_vars

Ahead(t, u) == \E i, j \in DOMAIN ready : i < j /\ ready[i] = t /\ ready[j] = u

\* The ready list is a queue: of two ready threads the one that became ready
\* later does not overtake the other, whatever is released, deleted or
\* dispatched meanwhile.
NoOvertaking ==
    [][\A t, u \in Thread : Ahead(t, u) =>
           /\ running' # u
           /\ t \in Ready' /\ u \in Ready' => Ahead(t, u)']_vars

\* A ready thread executes at last, unless somebody deletes it first.
ReadyRuns == \A t \in Thread : t \in Ready ~> running = t \/ t \notin threads

\* What Thread.h:108-111 and 192-195 say of `finished' and of joiners, in
\* effect: no thread stays in join() on a thread that has ended.
NoJoinerOfEnded == \A u \in ended : waiter[u] = Null

-----------------------------------------------------------------------------
(***************************************************************************)
(* A life cycle for each thread is what the library promises its users.    *)
(***************************************************************************)
phase ==
    [t \in Thread |->
        CASE t \notin threads -> "absent"
          [] t \in ended      -> "ended"
          [] t \in Blocked    -> "blocked"
          [] t = running      -> "running"
          [] OTHER            -> "ready"]

Life == INSTANCE ThreadLife

\* Every call of the library is a step of the life cycle, or none.
LifeSpec == Life!Spec
==============================================================================
