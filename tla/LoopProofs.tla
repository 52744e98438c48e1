----------------------------- MODULE LoopProofs ------------------------------
(***************************************************************************)
(* The two halves of the loop of Scheduler::run(), for any number of       *)
(* threads, descriptors and timers: the invariants of PollLoop, and the    *)
(* order of the timers with the timeout that is computed from it.          *)
(***************************************************************************)
EXTENDS PollLoop, Timers, QueueTheorems

-----------------------------------------------------------------------------
(***************************************************************************)
(* The inductive invariant.                                                *)
(***************************************************************************)

\* The kernel knows nothing of a descriptor that is closed, and nothing at
\* all is left of an object that was destroyed.
ClosedForgotten ==
    \A f \in FD :
        /\ f \notin open => registered[f] = {} /\ active[f] = {}
        /\ f \notin objects => current[f] = {} /\ waiter[f] = [d \in Dir |-> Null]

\* Events are left to be handled, and objects to be deleted, only between
\* epoll_wait() and the end of the turn.
BatchIsProcessed == stage # "processing" => Pending = {} /\ toDelete = {}

Inv ==
    /\ TypeOK
    /\ ClosedForgotten
    /\ MirrorsKernel
    /\ BatchIsProcessed
    /\ HandledExist
    /\ WaitersRegisteredUnlessStale
    /\ ReturnsOnlyWhenDone

\* The part of it that does not depend on the stage.
Shape == TypeOK /\ ClosedForgotten /\ MirrorsKernel

LEMMA InvInit == Init => Inv
  BY PollAssumption DEF Init, Inv, TypeOK, ClosedForgotten, MirrorsKernel, BatchIsProcessed,
     HandledExist, WaitersRegisteredUnlessStale, ReturnsOnlyWhenDone, Pending, Dir, Requested

-----------------------------------------------------------------------------
(***************************************************************************)
(* While threads run nothing has to be shown but the shape.                *)
(***************************************************************************)

LEMMA WhileThreadsRun ==
    ASSUME Inv, stage = "threads", UNCHANGED loopVars, Shape'
    PROVE  Inv'
<1>1. Pending = {} /\ toDelete = {} /\ batch' = batch /\ toDelete' = toDelete /\ stage' = stage
  BY DEF Inv, BatchIsProcessed, loopVars
<1>2. Pending' = {}
  BY <1>1 DEF Pending
<1>3. BatchIsProcessed' /\ HandledExist'
  BY <1>1, <1>2 DEF BatchIsProcessed, HandledExist
<1>4. WaitersRegisteredUnlessStale' /\ ReturnsOnlyWhenDone'
  BY <1>1 DEF WaitersRegisteredUnlessStale, ReturnsOnlyWhenDone
<1> QED
  BY <1>3, <1>4 DEF Inv, Shape

LEMMA OpenKeeps ==
    ASSUME Inv, NEW f \in FD, NEW hasFD \in BOOLEAN, Open(f, hasFD) PROVE Inv'
<1>1. Shape'
  BY DEF Inv, Shape, TypeOK, ClosedForgotten, MirrorsKernel, Open, loopVars
<1> QED
  BY <1>1, WhileThreadsRun DEF Open

LEMMA TransferKeeps == ASSUME Inv, NEW f \in FD, NEW d \in Dir, Transfer(f, d) PROVE Inv'
<1>1. Shape'
  BY DEF Inv, Shape, TypeOK, ClosedForgotten, MirrorsKernel, Transfer, loopVars
<1> QED
  BY <1>1, WhileThreadsRun DEF Transfer

LEMMA WaitForKeeps ==
    ASSUME Inv, NEW t \in Thread, NEW f \in FD, NEW d \in Dir, WaitFor(t, f, d) PROVE Inv'
<1>1. Shape'
  BY DEF Inv, Shape, TypeOK, ClosedForgotten, MirrorsKernel, WaitFor, loopVars
<1> QED
  BY <1>1, WhileThreadsRun DEF WaitFor

LEMMA CancelKeeps == ASSUME Inv, NEW f \in FD, NEW d \in Dir, Cancel(f, d) PROVE Inv'
<1>1. Shape'
  BY DEF Inv, Shape, TypeOK, ClosedForgotten, MirrorsKernel, Cancel, Unblocked, loopVars
<1> QED
  BY <1>1, WhileThreadsRun DEF Cancel

LEMMA ShutdownKeeps ==
    ASSUME Inv, NEW f \in FD, NEW dirs \in SUBSET Dir, Shutdown(f, dirs) PROVE Inv'
<1>1. Shape'
  BY DEF Inv, Shape, TypeOK, ClosedForgotten, MirrorsKernel, Shutdown, Unblocked, loopVars
<1> QED
  BY <1>1, WhileThreadsRun DEF Shutdown

LEMMA SleepKeeps == ASSUME Inv, NEW t \in Thread, Sleep(t) PROVE Inv'
<1>1. Shape'
  BY DEF Inv, Shape, TypeOK, ClosedForgotten, MirrorsKernel, Sleep, fdVars, loopVars
<1> QED
  BY <1>1, WhileThreadsRun DEF Sleep

LEMMA EndKeeps == ASSUME Inv, NEW t \in Thread, End(t) PROVE Inv'
<1>1. Shape'
  BY DEF Inv, Shape, TypeOK, ClosedForgotten, MirrorsKernel, End, fdVars, loopVars
<1> QED
  BY <1>1, WhileThreadsRun DEF End

LEMMA CloseKeeps == ASSUME Inv, NEW f \in FD, Close(f) PROVE Inv'
<1>1. Shape'
  BY DEF Inv, Shape, TypeOK, ClosedForgotten, MirrorsKernel, Close, Unblocked, loopVars, Dir
<1> QED
  BY <1>1, WhileThreadsRun DEF Close

LEMMA ClearFDKeeps == ASSUME Inv, NEW f \in FD, ClearFD(f) PROVE Inv'
<1>1. Shape'
  BY DEF Inv, Shape, TypeOK, ClosedForgotten, MirrorsKernel, ClearFD, loopVars
<1> QED
  BY <1>1, WhileThreadsRun DEF ClearFD

LEMMA SetFDKeeps == ASSUME Inv, NEW f \in FD, SetFD(f) PROVE Inv'
<1>1. Shape'
  BY DEF Inv, Shape, TypeOK, ClosedForgotten, MirrorsKernel, SetFD, loopVars
<1> QED
  BY <1>1, WhileThreadsRun DEF SetFD

\* The destructors leave nothing behind.
LEMMA DeleteKeepsShape ==
    ASSUME Inv, NEW fs \in SUBSET FD, Delete(fs),
           toDelete' \subseteq objects', sleeping' \subseteq Thread, ended' \subseteq Thread,
           stage' \in {"threads", "waiting", "processing", "returned"}, batch' = batch
    PROVE  Shape'
BY DEF Inv, Shape, TypeOK, ClosedForgotten, MirrorsKernel, Delete

LEMMA DestroyKeeps == ASSUME Inv, NEW f \in FD, Destroy(f) PROVE Inv'
<1>1. toDelete = {}
  BY DEF Inv, BatchIsProcessed, Destroy
<1>2. Shape'
  BY <1>1, DeleteKeepsShape DEF Destroy, loopVars, Inv, TypeOK
<1> QED
  BY <1>2, WhileThreadsRun DEF Destroy

-----------------------------------------------------------------------------
(***************************************************************************)
(* The loop.                                                               *)
(***************************************************************************)

\* updateAllEvents() fails exactly at the objects that are stale.
LEMMA FailsWhereStale ==
    ASSUME Inv, NEW f \in objects
    PROVE  UpdateFails(f) <=> Stale(f)
<1>1. f \in FD
  BY DEF Inv, TypeOK
<1>2. CASE f \in open
  BY <1>1, <1>2 DEF Inv, MirrorsKernel, UpdateFails, CtlFails, Stale
<1>3. CASE f \notin open
  BY <1>3 DEF UpdateFails, CtlFails, Stale
<1> QED
  BY <1>2, <1>3

\* Where it fails at all there is a first object at which it does.
LEMMA FirstFailure ==
    ASSUME Inv, NEW f \in objects, UpdateFails(f)
    PROVE  \E g \in objects : UpdateFails(g) /\ \A h \in objects : h < g => h \in Updated
<1> DEFINE Failing == {g \in objects : UpdateFails(g)}
<1>1. objects \subseteq Nat
  BY DEF Inv, TypeOK, FD
<1>2. PICK g \in Failing : \A h \in Failing : ~ (h < g)
  <2>1. Failing # {} /\ Failing \in SUBSET Nat
    BY <1>1
  <2> HIDE DEF Failing
  <2> QED
    BY <2>1, LeastOf
<1>3. \A h \in Failing : ~ (h < g)
  BY <1>2
<1>4. ASSUME NEW h \in objects, h < g
      PROVE  h \in Updated
  <2>1. ASSUME NEW k \in objects, k <= h
        PROVE  ~UpdateFails(k)
    BY <1>1, <1>3, <1>4, <2>1
  <2> QED
    BY <2>1 DEF Updated
<1> QED
  BY <1>2, <1>4

\* An object in front of which, and at which, nothing is stale is updated.
LEMMA UpdatedUnlessStale ==
    ASSUME Inv, NEW f \in open, \A g \in FD : g < f => ~Stale(g)
    PROVE  f \in Updated
<1>1. f \in objects /\ f \in FD /\ ~Stale(f)
  BY DEF Inv, TypeOK, Stale
<1>2. ASSUME NEW g \in objects, g <= f
      PROVE  ~UpdateFails(g)
  <2>1. g \in FD /\ f \in Nat /\ g \in Nat
    BY <1>1 DEF Inv, TypeOK, FD
  <2>2. ~Stale(g)
    BY <1>1, <1>2, <2>1
  <2> QED
    BY <2>2, FailsWhereStale
<1> QED
  BY <1>1, <1>2 DEF Updated

\* After updateAllEvents() whatever is updated and open is registered as
\* requested, and what was stale is left as it was.
LEMMA PollUpdates ==
    ASSUME Inv, Poll
    PROVE  /\ Shape'
           /\ \A f \in Updated \cap open : registered'[f] = Requested(f)'
           /\ \A g \in FD : Stale(g) => Stale(g)' /\ current'[g] = current[g]
<1>1. \A f \in FD : Requested(f)' = Requested(f)
  BY DEF Poll, Requested
<1>2. Updated \subseteq FD /\ Updated \subseteq objects /\ Changed \subseteq Updated
  BY DEF Updated, Changed, Inv, TypeOK
<1>3. \A f \in FD : Requested(f) \in SUBSET Dir
  BY DEF Requested
<1>4. Changed \subseteq open
  <2>1. SUFFICES ASSUME NEW f \in Changed PROVE f \in open
    OBVIOUS
  <2>2. f <= f
    BY <1>2 DEF FD
  <2>3. ~UpdateFails(f)
    BY <2>2 DEF Changed, Updated
  <2> QED
    BY <2>3 DEF Changed, UpdateFails, CtlFails
<1>5. \A f \in Changed : registered'[f] = Requested(f) /\ current'[f] = Requested(f)
  BY <1>2 DEF Poll, UpdateAllEvents
<1>6. \A f \in FD \ Changed : registered'[f] = registered[f] /\ current'[f] = current[f]
  BY DEF Poll, UpdateAllEvents
<1>7. TypeOK'
  <2>1. current' \in [FD -> SUBSET Dir] /\ registered' \in [FD -> SUBSET Dir]
    BY <1>3 DEF Poll, UpdateAllEvents, Inv, TypeOK
  <2> QED
    BY <2>1 DEF Poll, Inv, TypeOK
<1>8. ClosedForgotten'
  BY <1>2, <1>4, <1>6 DEF Poll, Inv, ClosedForgotten
<1>9. MirrorsKernel'
  BY <1>5, <1>6 DEF Poll, Inv, MirrorsKernel, TypeOK
<1>10. ASSUME NEW f \in Updated \cap open
       PROVE  registered'[f] = Requested(f)
  <2>1. CASE f \in Changed
    BY <1>5, <2>1
  <2>2. CASE f \notin Changed
    BY <1>2, <1>6, <2>2 DEF Changed, Inv, MirrorsKernel
  <2> QED
    BY <2>1, <2>2
<1>11. ASSUME NEW g \in FD, Stale(g)
       PROVE  Stale(g)' /\ current'[g] = current[g]
  <2>1. g \notin Changed
    BY <1>4, <1>11 DEF Stale
  <2> QED
    BY <1>1, <1>6, <1>11, <2>1 DEF Stale, Poll
<1> QED
  BY <1>1, <1>2, <1>7, <1>8, <1>9, <1>10, <1>11 DEF Shape

\* Where no bit was collected, every object was updated and none requests
\* anything.
LEMMA NoBitsNoRequests ==
    ASSUME Inv, EventMask = {}, \A g \in FD : ~Orphaned(g)
    PROVE  \A f \in objects : Requested(f) = {}
<1>1. SUFFICES ASSUME NEW f \in objects
               PROVE  ~UpdateFails(f)
  <2>1. \A f \in objects : f \in Updated
    BY <1>1 DEF Updated
  <2> QED
    BY <2>1 DEF EventMask
<1>2. SUFFICES ASSUME UpdateFails(f)
               PROVE  FALSE
  OBVIOUS
<1>3. PICK g \in objects : UpdateFails(g) /\ \A h \in objects : h < g => h \in Updated
  BY <1>2, FirstFailure
<1>4. g \notin Updated
  <2>1. g <= g
    BY DEF Inv, TypeOK, FD
  <2> QED
    BY <1>3, <2>1 DEF Updated
<1>5. current[g] # {}
  BY <1>3, FailsWhereStale DEF Orphaned, Inv, TypeOK
<1>6. current[g] \subseteq EventMask
  BY <1>3, <1>4 DEF EventMask
<1> QED
  BY <1>5, <1>6

LEMMA PollKeeps == ASSUME Inv, Poll PROVE Inv'
<1>1. Shape' /\ \A f \in Updated \cap open : registered'[f] = Requested(f)'
  BY PollUpdates
<1>2. \A g \in FD : Stale(g) => Stale(g)' /\ current'[g] = current[g]
  BY PollUpdates
<1>3. Pending' = {} /\ toDelete' = {}
  BY DEF Inv, BatchIsProcessed, Poll, Pending
<1>4. BatchIsProcessed' /\ HandledExist'
  BY <1>3 DEF BatchIsProcessed, HandledExist
<1>5. WaitersRegisteredUnlessStale'
  <2>1. SUFFICES ASSUME NEW f \in open', \A g \in FD : g < f => ~Stale(g)'
                 PROVE  Requested(f)' \subseteq registered'[f]
    BY DEF WaitersRegisteredUnlessStale
  <2>2. f \in open /\ \A g \in FD : g < f => ~Stale(g)
    BY <1>2, <2>1 DEF Poll
  <2>3. f \in Updated
    BY <2>2, UpdatedUnlessStale
  <2> QED
    BY <1>1, <2>2, <2>3
<1>6. ReturnsOnlyWhenDone'
  <2>1. SUFFICES ASSUME stage' = "returned"
                 PROVE  /\ sleeping' = {}
                        /\ (\A g \in FD : ~Orphaned(g)') =>
                               \A f \in open' : Requested(f)' = {}
    BY DEF ReturnsOnlyWhenDone
  <2>2. EventMask = {} /\ sleeping = {}
    BY <2>1 DEF Poll, HasEvents
  <2>3. ASSUME \A g \in FD : ~Orphaned(g)'
        PROVE  \A f \in objects : Requested(f) = {}
    <3>1. \A g \in FD : ~Orphaned(g)
      BY <1>2, <2>3 DEF Orphaned
    <3> QED
      BY <2>2, <3>1, NoBitsNoRequests
  <2> QED
    BY <2>2, <2>3 DEF Poll, Requested, Inv, TypeOK
<1> QED
  BY <1>1, <1>4, <1>5, <1>6 DEF Shape, Inv

\* Nothing is reported of a descriptor that is closed.
LEMMA ReportedAreOpen ==
    ASSUME Inv, NEW f \in FD, Reported(f) # {}
    PROVE  f \in objects
BY DEF Inv, TypeOK, ClosedForgotten, Reported

LEMMA WakeKeeps == ASSUME Inv, Wake PROVE Inv'
<1>1. Shape'
  BY DEF Inv, Shape, TypeOK, ClosedForgotten, MirrorsKernel, Wake, fdVars, Reported
<1>2. Pending' \subseteq objects' /\ toDelete' \subseteq objects'
  BY ReportedAreOpen DEF Pending, Wake, fdVars, Inv, TypeOK
<1>3. stage' = "processing"
  BY DEF Wake
<1> QED
  BY <1>1, <1>2, <1>3 DEF Inv, Shape, BatchIsProcessed, HandledExist,
     WaitersRegisteredUnlessStale, ReturnsOnlyWhenDone

LEMMA InterruptKeeps == ASSUME Inv, Interrupt PROVE Inv'
<1>1. Shape'
  BY DEF Inv, Shape, TypeOK, ClosedForgotten, MirrorsKernel, Interrupt, fdVars
<1>2. Pending' = Pending /\ toDelete' = toDelete /\ objects' = objects
  BY DEF Pending, Interrupt, fdVars
<1>3. stage' = "processing"
  BY DEF Interrupt
<1> QED
  BY <1>1, <1>2, <1>3 DEF Inv, Shape, BatchIsProcessed, HandledExist,
     WaitersRegisteredUnlessStale, ReturnsOnlyWhenDone

LEMMA HandlerDestroysKeeps == ASSUME Inv, NEW f \in FD, HandlerDestroys(f) PROVE Inv'
<1>1. Shape'
  BY DEF Inv, Shape, TypeOK, ClosedForgotten, MirrorsKernel, HandlerDestroys, fdVars
<1>2. Pending' = Pending /\ toDelete' \subseteq objects' /\ objects' = objects
  BY DEF Pending, HandlerDestroys, fdVars, Inv, TypeOK
<1>3. stage' = "processing"
  BY DEF HandlerDestroys
<1> QED
  BY <1>1, <1>2, <1>3 DEF Inv, Shape, BatchIsProcessed, HandledExist,
     WaitersRegisteredUnlessStale, ReturnsOnlyWhenDone

LEMMA HandleKeeps == ASSUME Inv, NEW f \in FD, Handle(f) PROVE Inv'
<1>1. Shape'
  BY DEF Inv, Shape, TypeOK, ClosedForgotten, MirrorsKernel, Handle, Unblocked
<1>2. Pending' \subseteq Pending /\ toDelete' = toDelete /\ objects' = objects
  BY DEF Pending, Handle, Inv, TypeOK
<1>3. stage' = "processing"
  BY DEF Handle
<1> QED
  BY <1>1, <1>2, <1>3 DEF Inv, Shape, BatchIsProcessed, HandledExist,
     WaitersRegisteredUnlessStale, ReturnsOnlyWhenDone

LEMMA DoneKeeps == ASSUME Inv, Done PROVE Inv'
<1>1. Shape'
  BY DeleteKeepsShape DEF Done, Inv, TypeOK
<1>2. Pending' = {} /\ toDelete' = {} /\ stage' = "threads"
  BY DEF Pending, Done
<1> QED
  BY <1>1, <1>2 DEF Inv, Shape, BatchIsProcessed, HandledExist,
     WaitersRegisteredUnlessStale, ReturnsOnlyWhenDone

LEMMA ActivateKeeps ==
    ASSUME Inv, NEW f \in FD, NEW d \in Dir \cup {"HUP"}, Activate(f, d) PROVE Inv'
<1>1. Shape'
  BY DEF Inv, Shape, TypeOK, ClosedForgotten, MirrorsKernel, Activate, loopVars
<1>2. Pending' = Pending /\ UNCHANGED <<toDelete, objects, stage>>
  BY DEF Pending, Activate, loopVars
<1>3. WaitersRegisteredUnlessStale' /\ ReturnsOnlyWhenDone'
  BY DEF Inv, WaitersRegisteredUnlessStale, ReturnsOnlyWhenDone, Activate, loopVars,
     Requested, Stale, Orphaned
<1> QED
  BY <1>1, <1>2, <1>3 DEF Inv, Shape, BatchIsProcessed, HandledExist

LEMMA StutterKeeps == ASSUME Inv, UNCHANGED vars PROVE Inv'
<1>1. Shape'
  BY DEF Inv, Shape, TypeOK, ClosedForgotten, MirrorsKernel, vars, fdVars, loopVars
<1>2. BatchIsProcessed' /\ HandledExist'
  BY DEF Inv, BatchIsProcessed, HandledExist, Pending, vars, fdVars, loopVars
<1>3. WaitersRegisteredUnlessStale' /\ ReturnsOnlyWhenDone'
  BY DEF Inv, WaitersRegisteredUnlessStale, ReturnsOnlyWhenDone, vars, fdVars, loopVars,
     Requested, Stale, Orphaned
<1> QED
  BY <1>1, <1>2, <1>3 DEF Inv, Shape

LEMMA InvNext == Inv /\ [Next]_vars => Inv'
BY OpenKeeps, TransferKeeps, WaitForKeeps, CancelKeeps, ShutdownKeeps, SleepKeeps, EndKeeps,
   CloseKeeps, ClearFDKeeps, SetFDKeeps, DestroyKeeps, PollKeeps, WakeKeeps, InterruptKeeps,
   HandlerDestroysKeeps, HandleKeeps, DoneKeeps, ActivateKeeps, StutterKeeps DEF Next

LEMMA InvAlways == Spec => []Inv
  BY InvInit, InvNext, PTL DEF Spec

-----------------------------------------------------------------------------
(***************************************************************************)
(* The theorems.                                                           *)
(***************************************************************************)

\* The objects, the interest list, the batch and the waiters are what they
\* are declared to be, for any number of threads and descriptors.
THEOREM TypeCorrect == Spec => []TypeOK
<1>1. Inv => TypeOK
  BY DEF Inv
<1> QED
  BY <1>1, InvAlways, PTL

\* updateEvents() (PolledFD.cc:41) always picks the operation that succeeds
\* on an open descriptor.
THEOREM KernelIsMirrored == Spec => []MirrorsKernel
<1>1. Inv => MirrorsKernel
  BY DEF Inv
<1> QED
  BY <1>1, InvAlways, PTL

\* EPoll::handleEvents() is called for objects that exist (EPoll.cc:44).
THEOREM NoDeletedIsHandled == Spec => []HandledExist
<1>1. Inv => HandledExist
  BY DEF Inv
<1> QED
  BY <1>1, InvAlways, PTL

\* In epoll_wait() everything in front of the first stale object is
\* registered as its waiters request.
THEOREM NothingIsMissed == Spec => []WaitersRegisteredUnlessStale
<1>1. Inv => WaitersRegisteredUnlessStale
  BY DEF Inv
<1> QED
  BY <1>1, InvAlways, PTL

\* Scheduler::run() does not return on anybody who waits.
THEOREM NobodyIsLeft == Spec => []ReturnsOnlyWhenDone
<1>1. Inv => ReturnsOnlyWhenDone
  BY DEF Inv
<1> QED
  BY <1>1, InvAlways, PTL

-----------------------------------------------------------------------------
(***************************************************************************)
(* The timers stay in the order of their timeouts.                         *)
(***************************************************************************)

\* q is ordered by the time that f leaves.
Ordered(q, f) == \A i, j \in DOMAIN q : i < j => f[q[i]] <= f[q[j]]

\* The place for a timer that has d left.
IsPlace(q, d, n) ==
    /\ \A i \in 1 .. n - 1 : left[q[i]] <= d
    /\ \A i \in n .. Len(q) : left[q[i]] > d

LEMMA PlaceExists ==
    ASSUME TimersTypeOK, NEW q \in Seq(Timer), Ordered(q, left), NEW d \in Nat
    PROVE  \E n \in 1 .. Len(q) + 1 : IsPlace(q, d, n)
<1> DEFINE Later == {i \in 1 .. Len(q) : left[q[i]] > d}
<1>1. Len(q) \in Nat /\ DOMAIN q = 1 .. Len(q) /\ \A i \in 1 .. Len(q) : q[i] \in Timer
  BY LenProperties, ElementOfSeq
<1>2. \A i \in 1 .. Len(q) : left[q[i]] \in Nat
  BY <1>1, TimerAssumption DEF TimersTypeOK
<1>3. CASE Later = {}
  <2>1. \A i \in 1 .. Len(q) : left[q[i]] <= d
    BY <1>2, <1>3
  <2>2. Len(q) + 1 \in 1 .. Len(q) + 1 /\ Len(q) + 1 - 1 = Len(q) /\ Len(q) + 1 .. Len(q) = {}
    BY <1>1
  <2>3. IsPlace(q, d, Len(q) + 1)
    BY <2>1, <2>2 DEF IsPlace
  <2> QED
    BY <2>2, <2>3
<1>4. CASE Later # {}
  <2>1. PICK m \in Later : \A j \in Later : ~(j < m)
    <3>1. Later \in SUBSET Nat
      BY <1>1
    <3> HIDE DEF Later
    <3> QED
      BY <1>4, <3>1, LeastOf
  <2>2. m \in 1 .. Len(q) /\ m \in 1 .. Len(q) + 1 /\ left[q[m]] > d
    BY <1>1, <2>1
  <2>3. ASSUME NEW i \in 1 .. m - 1
        PROVE  left[q[i]] <= d
    <3>1. i \in 1 .. Len(q) /\ i < m
      BY <1>1, <2>2
    <3>2. i \notin Later
      BY <2>1, <3>1
    <3> QED
      BY <1>2, <3>1, <3>2
  <2>4. ASSUME NEW i \in m .. Len(q)
        PROVE  left[q[i]] > d
    <3>1. i \in 1 .. Len(q) /\ (i = m \/ m < i)
      BY <1>1, <2>2
    <3>2. left[q[m]] <= left[q[i]]
      BY <1>1, <1>2, <2>2, <3>1 DEF Ordered
    <3> QED
      BY <1>2, <2>2, <3>1, <3>2
  <2>5. IsPlace(q, d, m)
    BY <2>3, <2>4 DEF IsPlace
  <2> QED
    BY <2>2, <2>5
<1> QED
  BY <1>3, <1>4

\* r is q with x put behind its first n elements.
Puts(q, n, x, r) ==
    /\ Len(r) = Len(q) + 1
    /\ \A i \in 1 .. n : r[i] = q[i]
    /\ r[n + 1] = x
    /\ \A i \in n + 2 .. Len(q) + 1 : r[i] = q[i - 1]

\* multiset::insert() with the place settled.
LEMMA PutAt ==
    ASSUME NEW S, NEW q \in Seq(S), NEW x \in S, NEW n \in 0 .. Len(q),
           NEW r, r = InsertAt(q, n + 1, x)
    PROVE  r \in Seq(S) /\ Puts(q, n, x, r)
<1>1. PICK l \in Nat : l = Len(q) /\ n \in 0 .. l
  BY LenProperties
<1>2. \A i \in 1 .. l : q[i] \in S
  BY <1>1, ElementOfSeq
<1>2a. PICK m \in Int, o \in Int : m = n + 1 /\ o = 1
  BY <1>1
<1>2b. PICK a, b : a = SubSeq(q, o, n) /\ b = SubSeq(q, m, l)
  OBVIOUS
<1>3. m = n + 1 /\ o = 1 /\ a = SubSeq(q, o, n) /\ b = SubSeq(q, m, l)
  BY <1>2a, <1>2b
<1>4. a \in Seq(S) /\ Len(a) = n /\ \A i \in 1 .. n : a[i] = q[i]
  <2>1. \A i \in o .. n : q[i] \in S
    BY <1>1, <1>2, <1>3
  <2>2. /\ a \in Seq(S) /\ Len(a) = IF o <= n THEN n - o + 1 ELSE 0
        /\ \A i \in 1 .. n - o + 1 : a[i] = q[o + i - 1]
    BY <1>1, <1>3, <2>1, SubSeqProperties
  <2>3. \A i \in 1 .. n : i \in 1 .. n - o + 1 /\ o + i - 1 = i
    BY <1>1, <1>3
  <2>4. Len(a) = n
    BY <1>1, <1>3, <2>2
  <2> QED
    BY <2>2, <2>3, <2>4
<1>5. b \in Seq(S) /\ Len(b) = l - n /\ \A i \in 1 .. l - n : b[i] = q[n + i]
  <2>1. \A i \in m .. l : q[i] \in S
    BY <1>1, <1>2, <1>3
  <2>2. /\ b \in Seq(S) /\ Len(b) = IF m <= l THEN l - m + 1 ELSE 0
        /\ \A i \in 1 .. l - m + 1 : b[i] = q[m + i - 1]
    BY <1>1, <1>3, <2>1, SubSeqProperties
  <2>3. \A i \in 1 .. l - n : i \in 1 .. l - m + 1 /\ m + i - 1 = n + i
    BY <1>1, <1>3
  <2>4. Len(b) = l - n
    BY <1>1, <1>3, <2>2
  <2> QED
    BY <2>2, <2>3, <2>4
<1>6. PICK c : c = a \o <<x>>
  OBVIOUS
<1>7. <<x>> \in Seq(S) /\ Len(<<x>>) = 1 /\ <<x>>[1] = x
  OBVIOUS
<1>8. /\ c \in Seq(S) /\ Len(c) = n + 1 /\ c[n + 1] = x
      /\ \A i \in 1 .. n : c[i] = q[i]
  <2>1. /\ c \in Seq(S) /\ Len(c) = n + 1
        /\ \A i \in 1 .. n + 1 : c[i] = IF i <= n THEN a[i] ELSE <<x>>[i - n]
    BY <1>4, <1>6, <1>7, ConcatProperties
  <2>2. n + 1 \in 1 .. n + 1 /\ ~(n + 1 <= n) /\ n + 1 - n = 1
    BY <1>1
  <2>3. \A i \in 1 .. n : i \in 1 .. n + 1 /\ i <= n
    BY <1>1
  <2> QED
    BY <1>4, <1>7, <2>1, <2>2, <2>3
<1>9. r = c \o b
  <2>1. r = SubSeq(q, 1, (n + 1) - 1) \o <<x>> \o SubSeq(q, n + 1, Len(q))
    BY DEF InsertAt
  <2>2. (n + 1) - 1 = n
    BY <1>1
  <2>3. r = SubSeq(q, o, n) \o <<x>> \o SubSeq(q, m, l)
    BY <1>1, <1>3, <2>1, <2>2, Zenon
  <2> QED
    BY <1>3, <1>6, <2>3
<1>10. /\ r \in Seq(S) /\ Len(r) = l + 1
       /\ \A i \in 1 .. l + 1 : r[i] = IF i <= n + 1 THEN c[i] ELSE b[i - (n + 1)]
  <2>1. /\ r \in Seq(S) /\ Len(r) = Len(c) + Len(b)
        /\ \A i \in 1 .. Len(c) + Len(b) : r[i] = IF i <= Len(c) THEN c[i] ELSE b[i - Len(c)]
    <3>1. b \in Seq(S) /\ c \in Seq(S)
      BY <1>5, <1>8
    <3> QED
      BY <1>9, <3>1, ConcatProperties
  <2>2. Len(c) = n + 1 /\ Len(c) + Len(b) = l + 1
    BY <1>1, <1>5, <1>8
  <2> QED
    BY <2>1, <2>2
<1>11. \A i \in 1 .. n : r[i] = q[i]
  <2>1. \A i \in 1 .. n : i \in 1 .. l + 1 /\ i <= n + 1
    BY <1>1
  <2> QED
    BY <1>8, <1>10, <2>1
<1>12. r[n + 1] = x
  <2>1. n + 1 \in 1 .. l + 1 /\ n + 1 <= n + 1
    BY <1>1
  <2> QED
    BY <1>8, <1>10, <2>1
<1>13. ASSUME NEW i \in n + 2 .. l + 1
       PROVE  r[i] = q[i - 1]
  <2>1. /\ i \in 1 .. l + 1 /\ ~(i <= n + 1) /\ i - (n + 1) \in 1 .. l - n
        /\ n + (i - (n + 1)) = i - 1
    BY <1>1
  <2> QED
    BY <1>5, <1>10, <2>1
<1> QED
  BY <1>1, <1>10, <1>11, <1>12, <1>13 DEF Puts

LEMMA InsertedIs ==
    ASSUME TimersTypeOK, NEW q \in Seq(Timer), Ordered(q, left),
           NEW x \in Timer, NEW d \in Nat, NEW r, r = Inserted(q, x, d)
    PROVE  r \in Seq(Timer) /\ \E n \in 0 .. Len(q) : IsPlace(q, d, n + 1) /\ Puts(q, n, x, r)
<1>1. \E n \in 1 .. Len(q) + 1 : IsPlace(q, d, n)
  BY PlaceExists
<1>2. PICK place : place = CHOOSE n \in 1 .. Len(q) + 1 : IsPlace(q, d, n)
  OBVIOUS
<1>3. place \in 1 .. Len(q) + 1 /\ IsPlace(q, d, place)
  BY <1>1, <1>2
<1>4. r = InsertAt(q, place, x)
  BY <1>2, Zenon DEF Inserted, IsPlace
<1>5. PICK n \in 0 .. Len(q) : place = n + 1
  <2>1. place - 1 \in 0 .. Len(q) /\ place = place - 1 + 1
    BY <1>3, LenProperties
  <2> QED
    BY <2>1
<1>6. r = InsertAt(q, n + 1, x)
  BY <1>4, <1>5
<1>7. r \in Seq(Timer) /\ Puts(q, n, x, r)
  BY <1>6, PutAt
<1> QED
  BY <1>3, <1>5, <1>7

\* A timer that is set to d and inserted stands where it belongs.
LEMMA InsertedInOrder ==
    ASSUME TimersTypeOK, NEW q \in Seq(Timer), IsInjective(q), Ordered(q, left),
           NEW x \in Timer, x \notin ToSet(q), NEW d \in 0 .. MaxDelay,
           NEW r, r = Inserted(q, x, d), NEW f, f = [left EXCEPT ![x] = d]
    PROVE  /\ r \in Seq(Timer) /\ IsInjective(r) /\ ToSet(r) = ToSet(q) \cup {x}
           /\ f \in [Timer -> 0 .. MaxDelay] /\ Ordered(r, f)
<1>1. PICK l \in Nat : l = Len(q) /\ DOMAIN q = 1 .. l /\ \A i \in 1 .. l : q[i] \in Timer
  BY LenProperties, ElementOfSeq
<1>2. left \in [Timer -> 0 .. MaxDelay] /\ MaxDelay \in Nat /\ d \in Nat
  BY TimerAssumption DEF TimersTypeOK
<1>3. r \in Seq(Timer) /\ \E n \in 0 .. l : IsPlace(q, d, n + 1) /\ Puts(q, n, x, r)
  BY <1>1, <1>2, InsertedIs
<1>3a. PICK n \in 0 .. l : IsPlace(q, d, n + 1) /\ Puts(q, n, x, r)
  BY <1>3
<1>4. /\ r \in Seq(Timer) /\ Len(r) = l + 1
      /\ \A i \in 1 .. n : r[i] = q[i]
      /\ r[n + 1] = x
      /\ \A i \in n + 2 .. l + 1 : r[i] = q[i - 1]
  BY <1>1, <1>3, <1>3a DEF Puts
<1>5. DOMAIN r = 1 .. l + 1
  BY <1>4, LenProperties
\* Where an element of r comes from: a place of q, and the new one none.
<1> DEFINE from(i) == IF i <= n THEN i ELSE i - 1
<1>6. ASSUME NEW i \in 1 .. l + 1
      PROVE  i = n + 1 \/ (i # n + 1 /\ from(i) \in 1 .. l /\ r[i] = q[from(i)] /\ q[from(i)] # x)
  <2>1. CASE i <= n
    <3>1. i \in 1 .. n /\ i \in 1 .. l /\ i # n + 1
      BY <1>1, <2>1
    <3> QED
      BY <1>1, <1>4, <2>1, <3>1, MemberHasPlace
  <2>2. CASE i > n + 1
    <3>1. i \in n + 2 .. l + 1 /\ i - 1 \in 1 .. l /\ ~(i <= n) /\ i # n + 1
      BY <1>1, <2>2
    <3> QED
      BY <1>1, <1>4, <3>1, MemberHasPlace
  <2> QED
    BY <1>1, <2>1, <2>2
<1>7. IsInjective(r)
  <2>1. ASSUME NEW i \in 1 .. l + 1, NEW j \in 1 .. l + 1, r[i] = r[j]
        PROVE  i = j
    <3>1. CASE i = n + 1 \/ j = n + 1
      BY <1>4, <1>6, <2>1, <3>1
    <3>2. CASE i # n + 1 /\ j # n + 1
      <4>1. from(i) \in 1 .. l /\ from(j) \in 1 .. l /\ q[from(i)] = q[from(j)]
        BY <1>6, <2>1, <3>2
      <4>2. from(i) = from(j)
        BY <1>1, <4>1 DEF IsInjective
      <4> QED
        BY <1>1, <3>2, <4>2
    <3> QED
      BY <3>1, <3>2
  <2> QED
    BY <1>5, <2>1 DEF IsInjective
<1>8. ToSet(r) = ToSet(q) \cup {x}
  <2>1. ASSUME NEW i \in 1 .. l + 1
        PROVE  r[i] \in ToSet(q) \cup {x}
    BY <1>1, <1>4, <1>6, MemberHasPlace
  <2>2. ASSUME NEW i \in 1 .. l
        PROVE  q[i] \in ToSet(r)
    <3>1. CASE i <= n
      <4>1. i \in 1 .. n /\ i \in 1 .. l + 1
        BY <1>1, <3>1
      <4> QED
        BY <1>4, <4>1, MemberHasPlace
    <3>2. CASE ~(i <= n)
      <4>1. i + 1 \in n + 2 .. l + 1 /\ i + 1 - 1 = i /\ i + 1 \in 1 .. l + 1
        BY <1>1, <3>2
      <4>2. r[i + 1] = q[i]
        BY <1>4, <4>1
      <4> QED
        BY <1>4, <4>1, <4>2, MemberHasPlace
    <3> QED
      BY <3>1, <3>2
  <2>3. x \in ToSet(r)
    <3>1. n + 1 \in 1 .. l + 1
      BY <1>1
    <3> QED
      BY <1>4, <3>1, MemberHasPlace
  <2>4. ASSUME NEW y \in ToSet(r)
        PROVE  y \in ToSet(q) \cup {x}
    <3>1. PICK i \in 1 .. l + 1 : r[i] = y
      BY <1>4, MemberHasPlace
    <3> QED
      BY <2>1, <3>1
  <2>5. ASSUME NEW y \in ToSet(q)
        PROVE  y \in ToSet(r)
    <3>1. PICK i \in 1 .. l : q[i] = y
      BY <1>1, MemberHasPlace
    <3> QED
      BY <2>2, <3>1
  <2> QED
    BY <2>3, <2>4, <2>5
<1>9. f \in [Timer -> 0 .. MaxDelay] /\ f[x] = d /\ \A y \in Timer : y # x => f[y] = left[y]
  BY <1>2
<1>10. Ordered(r, f)
  <2>1. ASSUME NEW i \in 1 .. l + 1, NEW j \in 1 .. l + 1, i < j
        PROVE  f[r[i]] <= f[r[j]]
    <3>1. CASE i = n + 1
      <4>1. j # n + 1 /\ from(j) \in n + 1 .. l /\ r[j] = q[from(j)] /\ r[j] # x /\ r[j] \in Timer
        BY <1>1, <1>6, <2>1, <3>1
      <4>2. left[r[j]] > d
        BY <1>1, <1>3a, <4>1 DEF IsPlace
      <4>3. f[r[i]] = d /\ f[r[j]] = left[r[j]]
        BY <1>4, <1>9, <3>1, <4>1
      <4>4. left[r[j]] \in Nat
        BY <1>2, <4>1
      <4> QED
        BY <1>2, <4>2, <4>3, <4>4
    <3>2. CASE j = n + 1
      <4>1. i # n + 1 /\ from(i) \in 1 .. n /\ r[i] = q[from(i)] /\ r[i] # x /\ r[i] \in Timer
        BY <1>1, <1>6, <2>1, <3>2
      <4>2. left[r[i]] <= d
        BY <1>1, <1>3a, <4>1 DEF IsPlace
      <4>3. f[r[j]] = d /\ f[r[i]] = left[r[i]]
        BY <1>4, <1>9, <3>2, <4>1
      <4> QED
        BY <4>2, <4>3
    <3>3. CASE i # n + 1 /\ j # n + 1
      <4>1. /\ from(i) \in 1 .. l /\ r[i] = q[from(i)] /\ r[i] # x /\ r[i] \in Timer
            /\ from(j) \in 1 .. l /\ r[j] = q[from(j)] /\ r[j] # x /\ r[j] \in Timer
        BY <1>1, <1>6, <3>3
      <4>2. from(i) < from(j)
        BY <1>1, <2>1, <3>3
      <4>3. left[q[from(i)]] <= left[q[from(j)]]
        BY <1>1, <4>1, <4>2 DEF Ordered
      <4> QED
        BY <1>9, <4>1, <4>3
    <3> QED
      BY <3>1, <3>2, <3>3
  <2> QED
    BY <1>5, <2>1 DEF Ordered
<1> QED
  BY <1>4, <1>7, <1>8, <1>9, <1>10

LEMMA TailInOrder ==
    ASSUME NEW q \in Seq(Timer), q # << >>, NEW f, Ordered(q, f)
    PROVE  Ordered(Tail(q), f)
<1>1. /\ Tail(q) \in Seq(Timer) /\ Len(Tail(q)) = Len(q) - 1 /\ Len(q) \in Nat
      /\ \A i \in 1 .. Len(Tail(q)) : Tail(q)[i] = q[i + 1]
  BY HeadTailProperties, LenProperties
<1>2. DOMAIN q = 1 .. Len(q) /\ DOMAIN Tail(q) = 1 .. Len(Tail(q))
  BY <1>1, LenProperties
<1>3. ASSUME NEW i \in 1 .. Len(Tail(q)), NEW j \in 1 .. Len(Tail(q)), i < j
      PROVE  f[Tail(q)[i]] <= f[Tail(q)[j]]
  <2>1. i + 1 \in 1 .. Len(q) /\ j + 1 \in 1 .. Len(q) /\ i + 1 < j + 1
    BY <1>1, <1>3
  <2>2. f[q[i + 1]] <= f[q[j + 1]]
    BY <1>2, <2>1 DEF Ordered
  <2> QED
    BY <1>1, <2>2
<1> QED
  BY <1>2, <1>3 DEF Ordered

LEMMA WithoutInOrder ==
    ASSUME NEW q \in Seq(Timer), IsInjective(q), NEW x \in ToSet(q), NEW f, Ordered(q, f)
    PROVE  Ordered(Without(q, x), f)
<1>1. PICK k \in 1 .. Len(q) : q[k] = x
  BY MemberHasPlace
<1>2. PICK r : r = Without(q, q[k])
  OBVIOUS
<1>3. /\ r \in Seq(Timer) /\ Len(r) = Len(q) - 1 /\ Len(q) \in Nat
      /\ \A i \in 1 .. Len(q) - 1 : r[i] = IF i < k THEN q[i] ELSE q[i + 1]
  BY <1>2, RemovedAt, LenProperties
<1>4. DOMAIN q = 1 .. Len(q) /\ DOMAIN r = 1 .. Len(q) - 1
  BY <1>3, LenProperties
<1>5. ASSUME NEW i \in 1 .. Len(q) - 1, NEW j \in 1 .. Len(q) - 1, i < j
      PROVE  f[r[i]] <= f[r[j]]
  <2>1. PICK a \in 1 .. Len(q), b \in 1 .. Len(q) :
            a < b /\ a = (IF i < k THEN i ELSE i + 1) /\ b = (IF j < k THEN j ELSE j + 1)
    <3>1. /\ (IF i < k THEN i ELSE i + 1) \in 1 .. Len(q)
          /\ (IF j < k THEN j ELSE j + 1) \in 1 .. Len(q)
          /\ (IF i < k THEN i ELSE i + 1) < (IF j < k THEN j ELSE j + 1)
      BY <1>3, <1>5
    <3> QED
      BY <3>1
  <2>2. r[i] = q[a] /\ r[j] = q[b]
    BY <1>3, <2>1
  <2>3. f[q[a]] <= f[q[b]]
    BY <1>4, <2>1 DEF Ordered
  <2> QED
    BY <2>2, <2>3
<1> QED
  BY <1>1, <1>2, <1>4, <1>5 DEF Ordered

-----------------------------------------------------------------------------
(***************************************************************************)
(* The timeout that is computed.                                           *)
(***************************************************************************)

\* What does not fit is truncated, what fits is left alone.
LEMMA ToIntIs ==
    ASSUME NEW d \in Nat
    PROVE  /\ ToInt(d) \in -(IntMax + 1) .. IntMax
           /\ d <= IntMax => ToInt(d) = d
<1>1. PICK m \in Nat, b \in Nat : m = IntMax + 1 /\ b = 2 * m /\ m > 0
  <2>1. IntMax + 1 \in Nat /\ 2 * (IntMax + 1) \in Nat /\ IntMax + 1 > 0
    BY TimerAssumption
  <2> QED
    BY <2>1
<1>2. (d + m) % b \in 0 .. b - 1
  BY <1>1
<1>3. d + m < b => (d + m) % b = d + m
  BY <1>1
<1>4. ToInt(d) = ((d + m) % b) - m
  BY <1>1, TimerAssumption DEF ToInt
<1> QED
  BY <1>1, <1>2, <1>3, <1>4, TimerAssumption

\* epoll_wait() is given no more than is left for the earliest timer.
LEMMA TimeoutIs ==
    ASSUME TimersTypeOK
    PROVE  /\ Timeout \in Int /\ (Timeout >= 0 => Timeout \in 0 .. IntMax)
           /\ MaxDelay <= IntMax /\ timers # << >> =>
                  Timeout >= 0 /\ Timeout = left[Head(timers)]
<1>1. CASE timers = << >>
  <2>1. Timeout = -1
    BY <1>1 DEF Timeout
  <2> QED
    BY <1>1, <2>1
<1>2. CASE timers # << >>
  <2>1. timers \in Seq(Timer) /\ left \in [Timer -> 0 .. MaxDelay] /\ MaxDelay \in Nat /\ IntMax \in Nat
    BY TimerAssumption DEF TimersTypeOK
  <2>2. Head(timers) \in Timer
    BY <1>2, <2>1, HeadTailProperties
  <2>3. PICK d \in 0 .. MaxDelay : d = left[Head(timers)]
    BY <2>1, <2>2
  <2>4. Timeout = ToInt(d)
    BY <1>2, <2>3 DEF Timeout
  <2>5. d \in Nat /\ ToInt(d) \in -(IntMax + 1) .. IntMax /\ (d <= IntMax => ToInt(d) = d)
    BY <2>1, ToIntIs
  <2> QED
    BY <1>2, <2>1, <2>3, <2>4, <2>5
<1> QED
  BY <1>1, <1>2

-----------------------------------------------------------------------------
(***************************************************************************)
(* The steps.                                                              *)
(***************************************************************************)

\* The set of timers and their timeouts.
TimersInOrder ==
    /\ timers \in Seq(Timer) /\ IsInjective(timers)
    /\ left \in [Timer -> 0 .. MaxDelay]
    /\ Ordered(timers, left)

\* Where run() is.
LoopTypeOK ==
    /\ polled \in BOOLEAN
    /\ phase \in {"threads", "waiting", "firing", "ended"}
    /\ hadEvents \in BOOLEAN
    /\ waitLeft \in 0 .. IntMax \cup {Forever}

LEMMA TypeSplits == TimersTypeOK <=> TimersInOrder /\ LoopTypeOK
  BY DEF TimersTypeOK, TimersInOrder, LoopTypeOK, Ordered

LEMMA TypeKept ==
    ASSUME TimersInOrder', LoopTypeOK'
    PROVE  TimersTypeOK'
  BY DEF TimersTypeOK, TimersInOrder, LoopTypeOK, Ordered

LEMMA CreateKeeps ==
    ASSUME TimersTypeOK, NEW x \in Timer, NEW d \in 0 .. MaxDelay, Create(x, d)
    PROVE  TimersTypeOK'
<1>1. /\ timers' = Inserted(timers, x, d) /\ left' = [left EXCEPT ![x] = d]
      /\ x \notin ToSet(timers) /\ UNCHANGED <<polled, phase, hadEvents, waitLeft>>
  BY DEF Create
<1>2. timers \in Seq(Timer) /\ IsInjective(timers) /\ Ordered(timers, left)
  BY TypeSplits DEF TimersInOrder
<1>3. TimersInOrder'
  BY <1>1, <1>2, InsertedInOrder DEF TimersInOrder, Ordered
<1>4. LoopTypeOK'
  BY <1>1, TypeSplits DEF LoopTypeOK
<1> QED
  BY <1>3, <1>4, TypeKept

LEMMA CancelTimerKeeps ==
    ASSUME TimersTypeOK, NEW x \in Timer, CancelTimer(x)
    PROVE  TimersTypeOK'
<1>1. /\ timers' = Without(timers, x) /\ x \in ToSet(timers)
      /\ UNCHANGED <<left, polled, phase, hadEvents, waitLeft>>
  BY DEF CancelTimer
<1>2. /\ timers \in Seq(Timer) /\ IsInjective(timers) /\ Ordered(timers, left)
      /\ left \in [Timer -> 0 .. MaxDelay]
  BY TypeSplits DEF TimersInOrder
<1>3. /\ Without(timers, x) \in Seq(Timer) /\ IsInjective(Without(timers, x))
      /\ Ordered(Without(timers, x), left)
  BY <1>1, <1>2, Removed, WithoutInOrder
<1>4. TimersInOrder'
  BY <1>1, <1>2, <1>3 DEF TimersInOrder, Ordered
<1>5. LoopTypeOK'
  BY <1>1, TypeSplits DEF LoopTypeOK
<1> QED
  BY <1>4, <1>5, TypeKept

LEMMA StartWaitKeeps ==
    ASSUME TimersTypeOK, StartWait
    PROVE  TimersTypeOK'
<1>1. TimersInOrder'
  BY TypeSplits DEF StartWait, TimersInOrder, Ordered
<1>2. LoopTypeOK'
  <2>1. hadEvents' = (polled \/ Timeout >= 0) /\ polled' = polled
        /\ phase' = IF hadEvents' THEN "waiting" ELSE "firing"
    BY DEF StartWait
  <2>2. hadEvents' \in BOOLEAN
    BY <2>1
  <2>3. waitLeft' \in 0 .. IntMax \cup {Forever}
    BY TimeoutIs DEF StartWait
  <2> QED
    BY <2>1, <2>2, <2>3, TypeSplits DEF LoopTypeOK
<1> QED
  BY <1>1, <1>2, TypeKept

LEMMA TickKeeps ==
    ASSUME TimersTypeOK, Tick
    PROVE  TimersTypeOK'
<1>1. /\ left' = [x \in Timer |-> IF left[x] = 0 THEN 0 ELSE left[x] - 1]
      /\ UNCHANGED <<timers, polled, phase, hadEvents>>
  BY DEF Tick
<1>2. /\ timers \in Seq(Timer) /\ IsInjective(timers) /\ Ordered(timers, left)
      /\ left \in [Timer -> 0 .. MaxDelay] /\ MaxDelay \in Nat
  BY TypeSplits, TimerAssumption DEF TimersInOrder
<1>3. left' \in [Timer -> 0 .. MaxDelay]
  <2>1. \A x \in Timer : (IF left[x] = 0 THEN 0 ELSE left[x] - 1) \in 0 .. MaxDelay
    BY <1>2
  <2> QED
    BY <1>1, <2>1
\* What was in order is in order a millisecond later.
<1>4. Ordered(timers', left')
  <2>1. ASSUME NEW i \in DOMAIN timers, NEW j \in DOMAIN timers, i < j
        PROVE  left'[timers[i]] <= left'[timers[j]]
    <3>1. timers[i] \in Timer /\ timers[j] \in Timer
      BY <1>2, ElementOfSeq, LenProperties
    <3>2. PICK a \in Nat, b \in Nat : a = left[timers[i]] /\ b = left[timers[j]]
      BY <1>2, <3>1
    <3>3. a <= b
      BY <1>2, <2>1, <3>2 DEF Ordered
    <3>4. /\ left'[timers[i]] = IF a = 0 THEN 0 ELSE a - 1
          /\ left'[timers[j]] = IF b = 0 THEN 0 ELSE b - 1
      BY <1>1, <3>1, <3>2
    <3> QED
      BY <3>3, <3>4
  <2> QED
    BY <1>1, <2>1 DEF Ordered
<1>5. LoopTypeOK'
  <2>1. waitLeft \in 0 .. IntMax \cup {Forever} /\ IntMax \in Nat /\ Forever \notin Int
    BY TypeSplits, TimerAssumption DEF LoopTypeOK
  <2>2. waitLeft' \in 0 .. IntMax \cup {Forever}
    BY <2>1 DEF Tick
  <2> QED
    BY <1>1, <2>2, TypeSplits DEF LoopTypeOK
<1>6. TimersInOrder'
  BY <1>1, <1>2, <1>3, <1>4 DEF TimersInOrder, Ordered
<1> QED
  BY <1>5, <1>6, TypeKept

LEMMA FireKeeps ==
    ASSUME TimersTypeOK, Fire
    PROVE  TimersTypeOK'
<1>1. hadEvents' = TRUE /\ UNCHANGED <<polled, phase, waitLeft>> /\ timers # << >>
  BY DEF Fire, HasDue
<1>2. LoopTypeOK'
  BY <1>1, TypeSplits DEF LoopTypeOK
<1>3. /\ timers \in Seq(Timer) /\ IsInjective(timers) /\ Ordered(timers, left)
      /\ left \in [Timer -> 0 .. MaxDelay] /\ MaxDelay \in Nat /\ Tolerance \in Nat
  BY TypeSplits, TimerAssumption DEF TimersInOrder
<1>4. PICK x, q : x = Head(timers) /\ q = Tail(timers)
  OBVIOUS
<1>5. /\ x \in Timer /\ q \in Seq(Timer) /\ IsInjective(q) /\ Ordered(q, left)
      /\ x \notin ToSet(q)
  BY <1>1, <1>3, <1>4, Taken, HeadTailProperties, TailInOrder
<1>6. CASE timers' = q /\ left' = left
  <2>1. TimersInOrder'
    BY <1>3, <1>5, <1>6 DEF TimersInOrder, Ordered
  <2> QED
    BY <1>2, <2>1, TypeKept
<1>7. CASE \E d \in 0 .. MaxDelay :
               timers' = Inserted(q, x, d) /\ left' = [left EXCEPT ![x] = d]
  <2>1. PICK d \in 0 .. MaxDelay :
            timers' = Inserted(q, x, d) /\ left' = [left EXCEPT ![x] = d]
    BY <1>7
  <2>2. TimersInOrder'
    BY <1>5, <2>1, InsertedInOrder DEF TimersInOrder, Ordered
  <2> QED
    BY <1>2, <2>2, TypeKept
<1> QED
  BY <1>4, <1>6, <1>7 DEF Fire

\* What neither touches the timers nor their timeouts.
LEMMA LoopKeeps ==
    ASSUME TimersTypeOK, WaitEnds \/ FireDone \/ Run \/ Polled \/ UNCHANGED timersVars
    PROVE  TimersTypeOK'
<1>1. TimersInOrder'
  BY TypeSplits DEF TimersInOrder, Ordered, WaitEnds, FireDone, Run, Polled, timersVars
<1>2. LoopTypeOK'
  BY TypeSplits DEF LoopTypeOK, WaitEnds, FireDone, Run, Polled, timersVars
<1> QED
  BY <1>1, <1>2, TypeKept

\* The set of timers stays in order, without repetition, and no time leaves
\* its range, for any delays and any number of timers (Timer.h:118-121).
THEOREM TimersTypeCorrect == TimersSpec => []TimersTypeOK
<1>1. TimersInit => TimersTypeOK
  BY TimerAssumption DEF TimersInit, TimersTypeOK, IsInjective
<1>2. TimersTypeOK /\ [TimersNext]_timersVars => TimersTypeOK'
  BY CreateKeeps, CancelTimerKeeps, StartWaitKeeps, TickKeeps, FireKeeps, LoopKeeps
     DEF TimersNext, SleepFor, Add
<1> QED
  BY <1>1, <1>2, PTL DEF TimersSpec

-----------------------------------------------------------------------------
(***************************************************************************)
(* The theorems.                                                           *)
(***************************************************************************)

LEMMA WaitEndsInTimeKeeps ==
    ASSUME MaxDelay <= IntMax, TimersTypeOK, WaitEndsInTime, [TimersNext]_timersVars
    PROVE  WaitEndsInTime'
<1>1. CASE StartWait
  <2>1. Timeout \in Int /\ timers # << >> => Timeout >= 0 /\ Timeout = left[Head(timers)]
    BY TimeoutIs
  <2>2. timers' = timers /\ left' = left /\ waitLeft' = IF Timeout >= 0 THEN Timeout ELSE Forever
    BY <1>1 DEF StartWait
  <2> QED
    BY TimeoutIs, TimerAssumption, <2>2 DEF WaitEndsInTime
<1>2. CASE Tick
  <2>1. SUFFICES ASSUME phase = "waiting", timers # << >>
                 PROVE  waitLeft' # Forever /\ waitLeft' <= left'[Head(timers')]
    BY <1>2 DEF Tick, WaitEndsInTime
  <2>2. /\ timers' = timers /\ waitLeft # 0
        /\ left' = [x \in Timer |-> IF left[x] = 0 THEN 0 ELSE left[x] - 1]
    BY <1>2, <2>1 DEF Tick
  <2>3. Head(timers) \in Timer /\ left \in [Timer -> 0 .. MaxDelay]
        /\ waitLeft \in 0 .. IntMax \cup {Forever} /\ IntMax \in Nat /\ Forever \notin Int
        /\ MaxDelay \in Nat
    BY <2>1, HeadTailProperties, TimerAssumption DEF TimersTypeOK
  <2>4. waitLeft # Forever /\ waitLeft <= left[Head(timers)]
    BY <2>1 DEF WaitEndsInTime
  <2>5. PICK a \in Nat : a = left[Head(timers)]
    BY <2>3
  <2>6. left'[Head(timers)] = IF a = 0 THEN 0 ELSE a - 1
    BY <2>2, <2>3, <2>5
  <2>7. waitLeft \in Nat /\ waitLeft > 0 /\ waitLeft <= a
    BY <2>2, <2>3, <2>4, <2>5
  <2>8. waitLeft' = waitLeft - 1
    BY <1>2, <2>1, <2>4 DEF Tick
  <2> QED
    BY <2>2, <2>3, <2>6, <2>7, <2>8
<1>3. CASE UNCHANGED timersVars
  BY <1>3 DEF WaitEndsInTime, timersVars
\* The other steps are not made in epoll_wait(), or leave it.
<1>4. CASE \/ \E x \in Timer, d \in 0 .. MaxDelay : SleepFor(x, d) \/ Add(x, d)
           \/ \E x \in Timer : CancelTimer(x)
           \/ WaitEnds \/ Fire \/ FireDone \/ Run \/ Polled
  <2>1. phase' # "waiting"
    BY <1>4 DEF SleepFor, Add, Create, InUserCode, CancelTimer, WaitEnds, Fire, FireDone, Run, Polled
  <2> QED
    BY <2>1 DEF WaitEndsInTime
<1> QED
  BY <1>1, <1>2, <1>3, <1>4 DEF TimersNext

\* As long as the delays fit into an int, which the timeout of epoll_wait() is
\* (Scheduler.cc:46-50), it gives up before the earliest timer is overdue.
THEOREM GivesUpInTime ==
    ASSUME MaxDelay <= IntMax
    PROVE  TimersSpec => []WaitEndsInTime
<1>1. TimersInit => WaitEndsInTime
  BY DEF TimersInit, WaitEndsInTime
<1>2. TimersTypeOK /\ WaitEndsInTime /\ [TimersNext]_timersVars => WaitEndsInTime'
  BY WaitEndsInTimeKeeps
<1> QED
  BY <1>1, <1>2, TimersTypeCorrect, PTL DEF TimersSpec

\* Who is the first of an ordered sequence.
LEMMA HeadIsEarliest ==
    ASSUME TimersTypeOK, timers # << >>, NEW y \in ToSet(timers)
    PROVE  left[Head(timers)] <= left[y]
<1>1. timers \in Seq(Timer) /\ left \in [Timer -> 0 .. MaxDelay] /\ Ordered(timers, left)
  BY TypeSplits DEF TimersInOrder
<1>2. PICK j \in 1 .. Len(timers) : timers[j] = y
  BY <1>1, MemberHasPlace
<1>3. Head(timers) = timers[1] /\ DOMAIN timers = 1 .. Len(timers) /\ Len(timers) \in Nat
  BY <1>1, LenProperties
<1>4. CASE j = 1
  <2>1. left[y] \in 0 .. MaxDelay
    BY <1>1, <1>2, ElementOfSeq
  <2> QED
    BY <1>2, <1>3, <1>4, <2>1, TimerAssumption
<1>5. CASE j # 1
  <2>1. 1 \in DOMAIN timers /\ j \in DOMAIN timers /\ 1 < j
    BY <1>3, <1>5
  <2> QED
    BY <1>1, <1>2, <1>3, <2>1 DEF Ordered
<1> QED
  BY <1>4, <1>5

\* Nothing but handleTimeouts() takes a sleeper out of the set, and it takes
\* the first one, when it is due.
LEMMA OnlyFireWakes ==
    ASSUME TimersTypeOK, [TimersNext]_timersVars,
           NEW x \in Sleeper, x \in ToSet(timers), x \notin ToSet(timers')
    PROVE  /\ left[x] <= Tolerance
           /\ \A y \in ToSet(timers) : left[x] <= left[y]
<1>1. timers \in Seq(Timer) /\ IsInjective(timers) /\ Ordered(timers, left)
  BY TypeSplits DEF TimersInOrder
<1>2. timers # << >>
  BY <1>1, EmptyQueue
<1>3. ASSUME NEW z \in Timer, NEW d \in 0 .. MaxDelay, SleepFor(z, d) \/ Add(z, d)
      PROVE  FALSE
  <2>1. timers' = Inserted(timers, z, d) /\ z \notin ToSet(timers)
    BY <1>3 DEF SleepFor, Add, Create
  <2>2. ToSet(timers') = ToSet(timers) \cup {z}
    BY <1>1, <2>1, InsertedInOrder
  <2> QED
    BY <2>2
<1>4. ASSUME NEW z \in Timer, CancelTimer(z)
      PROVE  FALSE
  <2>1. timers' = Without(timers, z) /\ z \notin Sleeper
    BY <1>4 DEF CancelTimer
  <2>2. ToSet(timers') = ToSet(timers) \ {z}
    BY <1>1, <2>1, Removed
  <2> QED
    BY <2>1, <2>2
<1>5. ~(UNCHANGED timers)
  OBVIOUS
<1>6. CASE Fire
  <2>1. left[Head(timers)] <= Tolerance
    BY <1>2, <1>6 DEF Fire, HasDue, IsDue
  <2>2. ToSet(Tail(timers)) = ToSet(timers) \ {Head(timers)} /\ Tail(timers) \in Seq(Timer)
        /\ IsInjective(Tail(timers)) /\ Head(timers) \in Timer /\ Head(timers) \notin ToSet(Tail(timers))
        /\ Ordered(Tail(timers), left)
    BY <1>1, <1>2, Taken, HeadTailProperties, TailInOrder
  <2>3. CASE timers' = Tail(timers)
    <3>1. x = Head(timers)
      BY <2>2, <2>3
    <3> QED
      BY <1>2, <2>1, <3>1, HeadIsEarliest
  <2>4. CASE \E d \in 0 .. MaxDelay : timers' = Inserted(Tail(timers), Head(timers), d)
    <3>1. PICK d \in 0 .. MaxDelay : timers' = Inserted(Tail(timers), Head(timers), d)
      BY <2>4
    <3>2. ToSet(timers') = ToSet(Tail(timers)) \cup {Head(timers)}
      BY <2>2, <3>1, InsertedInOrder
    <3> QED
      BY <2>2, <3>2
  <2> QED
    BY <1>6, <2>3, <2>4 DEF Fire
<1>7. CASE \/ StartWait \/ Tick \/ WaitEnds \/ FireDone \/ Run \/ Polled
           \/ UNCHANGED timersVars
  BY <1>5, <1>7 DEF StartWait, Tick, WaitEnds, FireDone, Run, Polled, timersVars
<1> QED
  BY <1>3, <1>4, <1>6, <1>7 DEF TimersNext

\* No sleep ends more than the tolerance early, or before one that is due
\* earlier (Timer.cc:87-113).
THEOREM SleepsEndInOrder == TimersSpec => FiresInTime
<1>1. TimersTypeOK /\ [TimersNext]_timersVars =>
          [\A x \in Sleeper : x \in ToSet(timers) /\ x \notin ToSet(timers') =>
               /\ left[x] <= Tolerance
               /\ \A y \in ToSet(timers) : left[x] <= left[y]]_timersVars
  BY OnlyFireWakes
<1> QED
  BY <1>1, TimersTypeCorrect, PTL DEF TimersSpec, FiresInTime
==============================================================================
