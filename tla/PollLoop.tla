------------------------------ MODULE PollLoop ------------------------------
(***************************************************************************)
(* The loop of Scheduler::run() around EPoll::wait(), with the descriptors *)
(* that threads block on: PolledFD and ThreadedFDMixin.                    *)
(*                                                                         *)
(* Threads run one at a time and the loop polls when none is ready (what   *)
(* Threads shows), so only which threads are ready matters here, not their *)
(* order.  The kernel makes descriptors readable or writable at any time.  *)
(***************************************************************************)
EXTENDS Integers, FiniteSets

CONSTANTS Thread, Null,
          NumFDs         \* PolledFD objects, numbered in order of address

FD == 1 .. NumFDs

Dir == {"IN", "OUT"}

ASSUME PollAssumption ==
    NumFDs \in Nat \ {0} /\ Null \notin Thread

VARIABLES
    objects,    \* PolledFD::instances
    open,       \* those with fd >= 0
    current,    \* PolledFD::currentEvents
    waiter,     \* readWaiter ("IN") and writeWaiter ("OUT") of each object
    sleeping,   \* threads blocked in Timer::sleep()
    ended,      \* threads that do nothing any more
    stage,      \* of the loop: threads run, in epoll_wait(), EPoll::processing,
                \* or run() has returned
    batch,      \* events reported for each object and still to be handled
    toDelete,   \* EPoll::fdsToDelete
    registered, \* kernel: the interest list of the epoll instance
    active      \* kernel: what each descriptor is ready for; "HUP" is an error

loopVars == <<stage, batch, toDelete>>
fdVars == <<objects, open, current, waiter, registered, active>>
vars == <<fdVars, sleeping, ended, loopVars>>

-----------------------------------------------------------------------------
Waiting == {waiter[f][d] : f \in FD, d \in Dir} \ {Null}

Ready == Thread \ (Waiting \cup sleeping \cup ended)

\* ThreadedFDMixin::updateEvents() computes requestedEvents anew.
Requested(f) == {d \in Dir : waiter[f][d] # Null}

\* A waiter that is unblocked is ready, which needs no other change here.
Unblocked(w, f, dirs) ==
    [w EXCEPT ![f] = [d \in Dir |-> IF d \in dirs THEN Null ELSE @[d]]]

TypeOK ==
    /\ objects \subseteq FD
    /\ open \subseteq objects
    /\ current \in [FD -> SUBSET Dir]
    /\ waiter \in [FD -> [Dir -> Thread \cup {Null}]]
    /\ sleeping \subseteq Thread
    /\ ended \subseteq Thread
    /\ stage \in {"threads", "waiting", "processing", "returned"}
    /\ batch \in [FD -> SUBSET (Dir \cup {"HUP"})]
    /\ toDelete \subseteq objects
    /\ registered \in [FD -> SUBSET Dir]
    /\ active \in [FD -> SUBSET (Dir \cup {"HUP"})]

Init ==
    /\ objects = {} /\ open = {}
    /\ current = [f \in FD |-> {}]
    /\ waiter = [f \in FD |-> [d \in Dir |-> Null]]
    /\ sleeping = {} /\ ended = {}
    /\ stage = "threads" /\ batch = [f \in FD |-> {}] /\ toDelete = {}
    /\ registered = [f \in FD |-> {}]
    /\ active = [f \in FD |-> {}]

-----------------------------------------------------------------------------
(***************************************************************************)
(* What a thread does while the loop is in processReady().                 *)
(***************************************************************************)

\* new ThreadedFD(fd), with a descriptor or with -1.
Open(f, hasFD) ==
    /\ stage = "threads" /\ Ready # {}
    /\ f \notin objects
    /\ objects' = objects \cup {f}
    /\ open' = IF hasFD THEN open \cup {f} ELSE open
    /\ UNCHANGED <<current, waiter, registered, active, sleeping, ended, loopVars>>

\* read() or write() that succeeds may exhaust what was there.
Transfer(f, d) ==
    /\ stage = "threads" /\ Ready # {}
    /\ f \in open /\ d \in active[f]
    /\ active' = [active EXCEPT ![f] = @ \ {d}]
    /\ UNCHANGED <<objects, open, current, waiter, registered, sleeping, ended, loopVars>>

\* read() or write() that would block: waitRead(), waitWrite().  Only one
\* thread may wait in each direction (setThread() asserts it).
WaitFor(t, f, d) ==
    /\ stage = "threads" /\ t \in Ready
    /\ f \in open /\ active[f] \cap {d, "HUP"} = {}
    /\ waiter[f][d] = Null
    /\ waiter' = [waiter EXCEPT ![f][d] = t]
    /\ UNCHANGED <<objects, open, current, registered, active, sleeping, ended, loopVars>>

\* cancelRead(), cancelWrite().
Cancel(f, d) ==
    /\ stage = "threads" /\ Ready # {}
    /\ f \in objects
    /\ waiter' = Unblocked(waiter, f, {d})
    /\ UNCHANGED <<objects, open, current, registered, active, sleeping, ended, loopVars>>

\* ThreadedSocket::shutdown(): the descriptor is ready from now on for what
\* can no longer happen, and its waiters are released.
Shutdown(f, dirs) ==
    /\ stage = "threads" /\ Ready # {}
    /\ f \in open
    /\ active' = [active EXCEPT ![f] =
                    @ \cup dirs \cup (IF dirs = Dir THEN {"HUP"} ELSE {})]
    /\ waiter' = Unblocked(waiter, f, dirs)
    /\ UNCHANGED <<objects, open, current, registered, sleeping, ended, loopVars>>

Sleep(t) ==
    /\ stage = "threads" /\ t \in Ready
    /\ sleeping' = sleeping \cup {t}
    /\ UNCHANGED <<fdVars, ended, loopVars>>

End(t) ==
    /\ stage = "threads" /\ t \in Ready
    /\ ended' = ended \cup {t}
    /\ UNCHANGED <<fdVars, sleeping, loopVars>>

\* ThreadedFDMixin::close(): the kernel forgets a closed descriptor;
\* currentEvents is not touched.
Close(f) ==
    /\ stage = "threads" /\ Ready # {}
    /\ f \in open
    /\ open' = open \ {f}
    /\ registered' = [registered EXCEPT ![f] = {}]
    /\ active' = [active EXCEPT ![f] = {}]
    /\ waiter' = Unblocked(waiter, f, Dir)
    /\ UNCHANGED <<objects, current, sleeping, ended, loopVars>>

\* clearFD(): as close(), but the threads that wait go on waiting, for the
\* descriptor that is to take the place of the old one.
ClearFD(f) ==
    /\ stage = "threads" /\ Ready # {}
    /\ f \in open
    /\ open' = open \ {f}
    /\ registered' = [registered EXCEPT ![f] = {}]
    /\ active' = [active EXCEPT ![f] = {}]
    /\ UNCHANGED <<objects, current, waiter, sleeping, ended, loopVars>>

\* Mutant: setFD() keeps currentEvents.
SetFDKeepsEvents(f) ==
    /\ stage = "threads" /\ Ready # {}
    /\ f \in objects \ open
    /\ open' = open \cup {f}
    /\ UNCHANGED <<objects, current, waiter, registered, active, sleeping, ended, loopVars>>

\* setFD() after clearFD() or close(), with a new descriptor.  With a negative
\* one it clears requestedEvents, which updateEvents() computes anew: the
\* object stays without a descriptor, and who waits goes on waiting.
SetFD(f) ==
    /\ stage = "threads" /\ Ready # {}
    /\ f \in objects \ open
    /\ open' = open \cup {f}
    /\ current' = [current EXCEPT ![f] = {}]
    /\ UNCHANGED <<objects, waiter, registered, active, sleeping, ended, loopVars>>

\* The destructors of a set of objects: waiters are unblocked, descriptors
\* leave the poll and are closed.
Delete(fs) ==
    /\ objects' = objects \ fs
    /\ open' = open \ fs
    /\ current' = [f \in FD |-> IF f \in fs THEN {} ELSE current[f]]
    /\ registered' = [f \in FD |-> IF f \in fs THEN {} ELSE registered[f]]
    /\ active' = [f \in FD |-> IF f \in fs THEN {} ELSE active[f]]
    /\ waiter' = [f \in FD |-> IF f \in fs THEN [d \in Dir |-> Null] ELSE waiter[f]]

\* EPoll::destroy() called by a thread.
Destroy(f) ==
    /\ stage = "threads" /\ Ready # {}
    /\ f \in objects
    /\ Delete({f})
    /\ UNCHANGED <<sleeping, ended, loopVars>>

-----------------------------------------------------------------------------
(***************************************************************************)
(* The loop.                                                               *)
(***************************************************************************)

\* epoll_ctl() fails on a closed descriptor, on adding one that is in the
\* interest list, and on modifying or removing one that is not.
CtlFails(f) ==
    \/ f \notin open
    \/ (current[f] = {}) # (registered[f] = {})

UpdateFails(f) == Requested(f) # current[f] /\ CtlFails(f)

\* updateAllEvents() goes through the objects in order and returns at the
\* first failure.
Updated == {f \in objects : \A g \in objects : g <= f => ~UpdateFails(g)}

\* The bits it has collected by then: those of the objects it updated and of
\* the one that failed.
EventMask ==
    UNION ({Requested(f) : f \in Updated} \cup
           {current[f] : f \in {g \in objects \ Updated :
                                  \A h \in objects : h < g => h \in Updated}})

\* The objects for which epoll_ctl() is called, and succeeds.
Changed == {f \in Updated : Requested(f) # current[f]}

\* Mutant: only what is not registered at all is registered.
UpdateAddsOnly ==
    LET New == {f \in Changed : current[f] = {}}
    IN  /\ current' = [f \in FD |-> IF f \in New THEN Requested(f) ELSE current[f]]
        /\ registered' = [f \in FD |-> IF f \in New THEN Requested(f) ELSE registered[f]]

UpdateAllEvents ==
    /\ current' = [f \in FD |-> IF f \in Changed THEN Requested(f) ELSE current[f]]
    /\ registered' = [f \in FD |-> IF f \in Changed THEN Requested(f) ELSE registered[f]]

\* Mutant: a pending timer does not keep the loop going.
HasEventsFDs == EventMask # {}

\* hadEvents in EPoll::wait(): some bit is set or there is a timeout.
HasEvents == EventMask # {} \/ sleeping # {}

\* EPoll::wait() up to epoll_wait(), or the end of run().  A failure of
\* updateAllEvents() is ignored.
Poll ==
    /\ stage = "threads" /\ Ready = {}
    /\ UpdateAllEvents
    /\ stage' = IF HasEvents THEN "waiting" ELSE "returned"
    /\ UNCHANGED <<objects, open, waiter, active, sleeping, ended, batch, toDelete>>

\* What epoll_wait() reports of f: errors always, once f is registered.
Reported(f) == IF registered[f] = {} THEN {}
               ELSE active[f] \cap (registered[f] \cup {"HUP"})

Pending == {f \in FD : batch[f] # {}}

\* epoll_wait() returns with events, or after the timeout without.
Wake ==
    /\ stage = "waiting"
    /\ batch' = [f \in FD |-> Reported(f)]
    /\ sleeping # {} \/ \E f \in FD : Reported(f) # {}
    /\ stage' = "processing"
    /\ UNCHANGED <<fdVars, sleeping, ended, toDelete>>

\* epoll_wait() is interrupted by a signal, while it has nothing to report.
Interrupt ==
    /\ stage = "waiting"
    /\ \A f \in FD : Reported(f) = {}
    /\ stage' = "processing"
    /\ UNCHANGED <<fdVars, sleeping, ended, batch, toDelete>>

\* Mutant: destroy() deletes at once although events are being processed.
HandlerDestroysNow(f) ==
    /\ stage = "processing" /\ Pending # {}
    /\ f \in objects
    /\ Delete({f})
    /\ UNCHANGED <<sleeping, ended, loopVars>>

\* A handler of some other kind of PolledFD calls EPoll::destroy().
HandlerDestroys(f) ==
    /\ stage = "processing" /\ Pending # {}
    /\ f \in objects
    /\ toDelete' = toDelete \cup {f}
    /\ UNCHANGED <<fdVars, sleeping, ended, stage, batch>>

\* Mutant: an error wakes only the reader.
WokenByReadHUP(f) ==
    {d \in Dir : d \in batch[f] \/ (d = "IN" /\ "HUP" \in batch[f])}

WokenBy(f) == {d \in Dir : batch[f] \cap {d, "HUP"} # {}}

\* handleEvents() on one object of the batch, unless it is to be deleted.
Handle(f) ==
    /\ stage = "processing" /\ f \in Pending
    /\ batch' = [batch EXCEPT ![f] = {}]
    /\ waiter' = IF f \in toDelete THEN waiter ELSE Unblocked(waiter, f, WokenBy(f))
    /\ UNCHANGED <<objects, open, current, registered, active, sleeping, ended,
                   stage, toDelete>>

\* All events are handled: the destroyed objects are deleted, the timers
\* that are due wake their threads, and the loop goes on.
Done ==
    /\ stage = "processing" /\ Pending = {}
    /\ Delete(toDelete)
    /\ toDelete' = {}
    /\ sleeping' \in SUBSET sleeping
    /\ stage' = "threads"
    /\ UNCHANGED <<ended, batch>>

\* The peer, the network, the kernel.
Activate(f, d) ==
    /\ f \in open /\ d \notin active[f]
    /\ active' = [active EXCEPT ![f] = @ \cup {d}]
    /\ UNCHANGED <<objects, open, current, waiter, registered, sleeping, ended, loopVars>>

Next ==
    \/ \E f \in FD, hasFD \in BOOLEAN : Open(f, hasFD)
    \/ \E f \in FD, d \in Dir : Transfer(f, d)
    \/ \E t \in Thread, f \in FD, d \in Dir : WaitFor(t, f, d)
    \/ \E f \in FD, d \in Dir : Cancel(f, d)
    \/ \E f \in FD, dirs \in SUBSET Dir \ {{}} : Shutdown(f, dirs)
    \/ \E t \in Thread : Sleep(t)
    \/ \E t \in Thread : End(t)
    \/ \E f \in FD : Close(f)
    \/ \E f \in FD : ClearFD(f)
    \/ \E f \in FD : SetFD(f)
    \/ \E f \in FD : Destroy(f)
    \/ Poll
    \/ Wake
    \/ Interrupt
    \/ \E f \in FD : HandlerDestroys(f)
    \/ \E f \in FD : Handle(f)
    \/ Done
    \/ \E f \in FD, d \in Dir \cup {"HUP"} : Activate(f, d)

Spec == Init /\ [][Next]_vars

\* The loop goes round: with no thread ready it polls, epoll_wait() returns
\* when it has something to report, and handlers return.  Nothing is assumed
\* of the threads.
Fairness ==
    /\ WF_vars(Poll)
    /\ WF_vars(Wake)
    /\ WF_vars(\E f \in FD : Handle(f))
    /\ WF_vars(Done)

FairSpec == Spec /\ Fairness

-----------------------------------------------------------------------------
(***************************************************************************)
(* Properties.                                                             *)
(***************************************************************************)

\* currentEvents of an open descriptor is what the kernel has registered, so
\* updateEvents() always picks the epoll_ctl() operation that succeeds.
MirrorsKernel == \A f \in open : current[f] = registered[f]

\* No event is handled on a deleted object: whoever is destroyed while events
\* are processed lives until the last one is handled.
HandledExist == Pending \cup toDelete \subseteq objects

\* f has no descriptor, but says that it is registered, or is waited for, so
\* that updateEvents() fails: it was closed while registered, or cleared and
\* not yet set.
Stale(f) == f \in objects \ open /\ Requested(f) # current[f]

\* While the program is in epoll_wait(), whatever a thread waits for is in
\* the interest list, so that the event it waits for cannot be missed, unless
\* updateAllEvents() stops at a stale descriptor (see WaitersRegistered).
WaitersRegisteredUnlessStale ==
    stage = "waiting" =>
        \A f \in open : (\A g \in FD : g < f => ~Stale(g))
                          => Requested(f) \subseteq registered[f]

\* The same without exception (PolledFD.h:56-59, "Update the event bits of
\* all polled FDs"), for a program in which nobody waits for a descriptor that
\* was cleared and not yet set.
WaitersRegistered ==
    stage = "waiting" /\ (\A g \in objects \ open : Requested(g) = {})
        => \A f \in open : Requested(f) \subseteq registered[f]

\* f was cleared before the one who waits for it was ever registered.
Orphaned(f) == Stale(f) /\ current[f] = {}

\* Scheduler::run() returns only when no thread waits for a descriptor that
\* is open or for a timer, even if the update of the events stops half-way:
\* what makes it stop sets a bit itself, unless it is an orphaned object.
ReturnsOnlyWhenDone ==
    stage = "returned" =>
        /\ sleeping = {}
        /\ (\A f \in FD : ~Orphaned(f)) => \A f \in open : Requested(f) = {}

Served(f, d) == waiter[f][d] = Null \/ active[f] \cap {d, "HUP"} = {}

\* Again and again no thread is ready.  The code guarantees it of no program:
\* Scheduler::run() polls when the ready list is empty (Scheduler.cc:41-53),
\* and threads that keep releasing each other keep it from ever being so.
LoopComesRound == []<>(Ready = {})

\* Provided that the threads let the loop come round, no thread waits for ever
\* on a descriptor that stays ready, unless there is a stale one.
ReadyFDWakes ==
    LoopComesRound =>
        \A f \in FD, d \in Dir :
            ~Served(f, d) ~> Served(f, d) \/ \E g \in FD : Stale(g)
==============================================================================
