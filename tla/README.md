# Formal models of liblwt

liblwt is a C++ library of light-weight threads: cooperative threads on stacks
of their own, a scheduler around `epoll_wait()`, timers, descriptors that block
a thread instead of the process, a pool of POSIX threads for operations that
must block the process, and buffered streams on top. This directory holds TLA+
models of it, the TLC configurations that check them, and proofs checked by
TLAPS. `PROJECT.json` says which definition models which lines of the source.

Paths below are relative to `src/src/lwt/`.

- [1 The system](#1-the-system)
- [2 The modules and the code](#2-the-modules-and-the-code)
- [3 What is checked](#3-what-is-checked)
- [4 What is proved](#4-what-is-proved)
- [5 Where the code and its comments disagree](#5-where-the-code-and-its-comments-disagree)
- [6 What is not modelled](#6-what-is-not-modelled)
- [7 Plan](#7-plan)

## 1 The system

### Components, state and operations

| component | files | state | operations |
|---|---|---|---|
| Threads | `Thread`, `BlockedThread.h` | per thread: `next`, `previous`, `finished`, `blocker`, `joiner`; `Thread::current`; per reference: `thread`, `result` | construct, `run()` returning, `join`, delete; `blockCurrent`, `unblock`, `cancel`, delete a reference |
| Scheduler | `Scheduler` | `readyFirst`, `readyLast`, the context of the loop | `run`, `processReady`, `schedule`, `appendReady`, `removeReady` |
| Context switch | `Context.S` | saved registers, the stack pointer among them | `saveContext`, `restoreContext` |
| Stack manager | `StackManager` | pools, list of free stacks kept in the stacks' top words | `acquire`, `release`, `allocatePool` |
| Timers | `Timer` | a multiset of timers by wall-clock timeout | construct, `cancel`, `getEarliest`, `handleTimeouts`, `sleep` |
| Polling | `EPoll`, `PolledFD` | objects, `requestedEvents` and `currentEvents` of each, `processing`, `fdsToDelete`; the kernel's interest list | `wait`, `destroy`, `updateAllEvents`, `handleEvents`, `setFD`, `close` |
| Blocking descriptors | `ThreadedFDMixin.h`, `ThreadedFD.h` | the reading and the writing waiter of each object | read, write, `cancelRead`, `cancelWrite`, close |
| Sockets | `Socket`, `ThreadedSocket` | nothing of their own: what the kernel has of the connection, and how far a call got | `listen`, `accept`, `connect`, `recv`, `send`, `sendAll`, `writeAll`, `shutdown`, `close` |
| I/O server | `IOServer` | `availableWorkers`, `waiters` | `execute`, `getWorker`, `putWorker`, `stop` |
| I/O server workers | `IOServer` | two pipes, a POSIX thread and its `errno` for each | construction, the loop, `perform`, destruction |
| Directory entries | `Dirent` | the result and error number of an operation, the stream | `openDir`, `readDir`, `closeDir` |
| Streams | `BufferedReader.h`, `BufferedWriter.h`, `DataReader.h`, `DataWriter.h` | buffer, `offset`, `size`, `valid` | read, write, flush, lengths, strings, integers |
| Others | `Log`, `util`, `test.cc` | a log level | formatting, single system calls, an example |

### How they interact

Everything except the workers of the I/O server executes on one processor
context at a time. A thread keeps the processor until it calls
`BlockedThread::blockCurrent()` (directly or through `join`, `sleep`, a read or
a write that would block, or `execute`) or its `run()` returns; then
`Scheduler::schedule()` switches to the first ready thread, or back to the loop
of `Scheduler::run()` on the original stack. The loop computes a timeout from
the earliest timer, brings the interest list of epoll up to date, waits, calls
`handleEvents()` of the descriptors and `handleTimeout()` of the timers (both of
which unblock threads) and goes round. A worker of the I/O server is a POSIX
thread; it shares no state with the rest but two pipes, whose ends on the
library's side are ordinary blocking descriptors.

### What is hard

- Between the *release* of a thread and its *resumption* any number of other
  calls are made: results are overwritten, workers are taken by somebody else,
  the reference or the object it waited on is destroyed.
- Threads can be deleted in any state: linked, blocked, ended, or queueing for
  a worker.
- What the library believes of the kernel (`currentEvents`) and what the kernel
  has must agree, while descriptors are closed, replaced and destroyed, in the
  middle of a batch of events too.
- Something ready must not be slept on: a ready thread while the loop polls, a
  due timer, a readable descriptor, an idle worker.
- Short reads and writes, and failures half-way through a piece.
- Several threads use one socket: one closes it, shuts it down or cancels a call
  while another is between its release and its resumption, and the error of a
  socket goes to whoever asks first.
- Free stacks are linked through the stacks themselves, and a thread that ends gives
  back the stack it still stands on.
- Pipes and POSIX threads that could not be created, signals, and `stop()` in
  the middle of an operation.

`PROJECT.json` lists these one by one under `hazards`, each at its line and with
the properties that watch it.

## 2 The modules and the code

| module | models | abstracted |
|---|---|---|
| `Threads` | `Thread`, `BlockedThread`, the switching of `Scheduler` | the ready list is a sequence, the stack of a thread is where it stands (`at`) |
| `ThreadLife` | the life cycle the library promises a user | |
| `WakeResult` | `Threads` with a history variable for `unblock()`'s argument | |
| `Queues` | removal from the middle of a list | |
| `ReadyList` | `Thread::append`, `Thread::remove`, pointer by pointer | the `Scheduler` that calls them |
| `ReadyQueue` | the queue that the ready list promises to be | |
| `StackManager` | the pools and the list of free stacks | sizes, guard pages |
| `Allocator` | what the stack manager promises | |
| `Runtime` | `ReadyList`, `StackManager` and the context switch together | references and joining: a thread is woken by somebody, a joiner is any blocked thread |
| `IOServer` | `execute`, `getWorker`, `putWorker`, `Worker`, `stop` | an operation is the client that waits for it |
| `Executor` | exactly-once execution with bounded parallelism | |
| `Workers` | `IOServer::Worker`, `ErrnoOperation`, `Dirent` | the pool: a call takes any free worker |
| `PollLoop` | `Scheduler::run`, `EPoll`, `PolledFD`, `ThreadedFDMixin` | ready threads are a set, timers are the set of sleeping threads, bytes are a readiness bit |
| `Timers` | `Timer`, the timeout of `Scheduler::run` | time is relative to now, descriptors are one bit |
| `Sockets` | `ThreadedSocket`, `Socket`, `ThreadedFDMixin` above a kernel with one connection | the loop is one step that releases a waiter, addresses, other options |
| `Streams` | `BufferedWriter`, `BufferedReader`, the `valid` flags of `DataWriter`, `DataReader` | the n-th byte written is n |
| `DataStreams` | the typed half of `DataWriter`, `DataReader` over `Streams` | a value is its type and length |
| `Lengths` | `writeLength`, `readLength` | |
| `QueueTheorems`, `...Proofs` | theorems and their proofs | |
| `MC...` | the modules that TLC is started on | |

A definition whose comment begins with *Mutant* is a plausible bug. It is used
by no specification; `PROJECT.json` pairs each with a property that notices it
when it replaces the definition it is a variant of.

### Threads

A step is one call of the library made by the context that executes, up to the
point where that context goes on or another is resumed: cooperative scheduling
makes each such call atomic. `running` is the context with the processor, a
thread or `Host`, which stands for `main()` and the loop; `host` says where the
host is. `Dispatch` is `processReady()`, taken at the end of every step that
gives the processor up. A joinable thread owns one `BlockedThread`, its joiner,
which the model denotes by the thread itself, so that `join(t)` is `BlockOn(t)`.
Every action that calls `unblock()`, directly or through a destructor, appends
the released thread in the same step. The assertion of `setThread` is a guard: a
program that violates it stops. The one at the head of `~Thread` is not: `Destroy`
may delete a thread that somebody joins, as `Thread.h:156-160` allows, and does then
what the destructor does in a build without assertions.
`result` is not initialised by the constructor, so `NewRef` chooses it.

### ReadyList and ReadyQueue

The four members `readyFirst`, `readyLast`, `next`, `previous` as functions, and
the assignments of `append()` and `remove()`, case by case. `Spells(s)` says
that the ring spells the sequence `s`; under the refinement mapping
`queue <- spelled` every pointer operation is the operation on sequences that
`Threads` uses, which is why `Threads` need not have pointers.

### StackManager, Allocator and Runtime

`StackManager` keeps the memory that matters as one record: `firstFreeStack`, the
topmost word of each stack, and the number of pools. A free stack has the address
of the next one in that word, a stack in use a return address (`Frame`).
`Free(m)` is what a traversal from `firstFreeStack` finds.

`Runtime` puts the layers below `Threads` together. `sp` is the stack the
processor is on and `context[t]` the one that `saveContext()` was called on, so
that a thread resumed on a wrong stack shows. A thread that gives the processor
up takes two steps: `Block`, `EndJoinable` or `EndDetached`, and then
`Schedule`. Between them it stands on its stack, which in `EndDetached` (`delete`
inside `startThread()`) is free already. `Active` is false in between, which is
the claim that `StandsOnOwnStack` is about: nothing is called there that could
acquire a stack. `block()` takes `Thread::current` for its caller, and so does
`Block`; nothing in the model makes that the thread that stands on `sp`.

`Runtime` implements the same `ThreadLife` as `Threads` does: `phase` maps links,
stacks and flags to the life cycle. The two steps of a switch are one step there. A
thread that has left but not yet switched has the phase it is going to, and the
first thread of the ready list runs already (`HasProcessor`), so `Schedule`
is a stutter. That is sound only because nothing else is called in between.

### IOServer and Executor

A client executes from where it was resumed to where it blocks in one step; the
steps of the workers interleave freely. `toWorker`, `performing` and
`fromWorker` are the three places an operation can be on its way. `Resume` goes
through the loop of `getWorker()` again, since another client may have taken the
worker between the release and the resumption, or the same client again, for there
is no bound on the number of calls. `DeleteClient` is a client that
is deleted while it waits: `~Thread()` clears its reference, and the reference
stays in the queue. `Stop` is enabled only while no operation is in progress
(section 6). The `Executor` that it implements knows neither workers nor queues.

### Workers

`IOServer` takes a worker for something that performs operations; `Workers` looks
inside. `Init` is the constructor: each of the two pipes and the thread may be
missing, since nobody looks at what `pipe()` and `pthread_create()` return.
`Reads`, `Performs` and `Ends` are the loop of the POSIX thread, with the end of
the pipe, a `read()` interrupted by a signal, and SIGPIPE. `errno` belongs to the
POSIX thread and is never cleared, as in the code, and the outcomes of an
operation are those of `opendir()`, `readdir()` and `closedir()`. `Stop` begins
`delete [] workers`, in which `DeleteWorker` is a destructor up to
`pthread_join()` and `Join` its return; the other workers go on meanwhile. A
client that was thrown out of `waitResult()` is `dangling`: its descriptors are
gone, and nothing is said of what it does next. `Workers` implements the same
`Executor` as `IOServer`: `request` is read off the pipe to the worker and what its
thread does.

### PollLoop

Threads open, wait for, cancel, shut down, close, replace and destroy
descriptors while some thread is ready. Replacing takes two calls, `ClearFD` and
`SetFD`, and anything may happen between them, a turn of the loop included; if
there is no new descriptor, the second is never made. Then `Poll` is the part of
`EPoll::wait()` before `epoll_wait()`, `Wake` and `Interrupt` its return, `Handle`
one call of `handleEvents()`, `HandlerDestroys` a handler that calls
`EPoll::destroy()`, and `Done` the rest of the turn: the deferred deletions and
the timers. `registered` and `active` are the kernel: the interest list, from
which closing removes a descriptor, and what each descriptor is ready for.
`Updated` is what `updateAllEvents()` gets to before an `epoll_ctl()` fails.

### Timers

`left[x]` is `timeout - currentTimeMillis()`, and 0 when overdue. `Create` is the
constructor, called by `SleepFor` for a thread that sleeps and by `Add` for a timer
of the application, in a thread or in a handler. `WaitEnds` is the return of
`epoll_wait()`, for an event, for a signal or because time is up. `Tick` is a
millisecond. `ToInt` is the conversion of the difference to the `int` that
`epoll_wait()` takes, with `IntMax` for the width. `Fire` is one turn of the loop
in `handleTimeouts()`, tolerance and reuse of the timer included, with any new timeout.

### Sockets

Three sockets in one process: a listener, one that connects to it and the one
that `accept()` returns. Each side of a socket has room for one waiter, so a
record per side is the thread in a call on it; the other threads act through
`Cancel`, `Shutdown` and `Close`. A call goes in one step from its beginning, its
resumption or the last round of `sendAll()` to the next point where it waits,
returns or goes round; `Idle` says that no other thread is in between, since one
light-weight thread runs at a time. The kernel does not wait: `Establish`,
`Refuse` and `Reset` come at any moment. What the system calls do to the
connection is modelled as far as the code looks at it: SO_ERROR that is cleared
by whoever reads it, disconnection by `shutdown()` of a connecting socket, the
reset of a connection that is not yet accepted when its listener is closed, and a
buffer of `Capacity` bytes. `Uses` says which calls a thread makes on which side.

### Streams, DataStreams and Lengths

A step goes to the next call of the socket, which is where the thread may block.
`CopyIn` and `CopyOut` are the inner loops of `write()` and `read()`. Bytes are
numbered, so that a loss, a repetition or a swap shows. `DataStreams` puts values
on top: a plan is the sequence of values that the two ends have agreed on,
`WriteSize` and `ReadSize` are the two lists of `sizeof()` that have to match, and
a string is a length byte and its bytes, in two calls. `Lengths` takes the loops
of `writeLength()` and `readLength()` one byte at a time.

## 3 What is checked

Every run that passes is exhaustive. Deadlock is checked where the system can never stop
(`threads`, `runtime`, `timers`); the others end by design: all calls have been
made, or `run()` has returned.

| run | instance | distinct states | question |
|---|---|---|---|
| `threads` | 3 threads, 2 references | 229 thousand | are links, places and `Thread::current` right after any sequence of calls, are ready threads run, and in order |
| `join_after_end` | 3 threads, 1 reference | violation | is nobody left in `join()` on an ended thread |
| `wake_result` | 2 threads, 1 reference | violation | does a thread get the result it was released with |
| `runtime` | 4 threads, 3 pools of 2 stacks, symmetry of the threads | 16 thousand | do the pointers form a ring that implements a queue, do the stacks implement an allocator, does every thread execute on its own stack, do they together implement the life cycle of threads |
| `io` | 5 clients, 2 workers | 49 thousand | do results reach their callers, exactly once, without a lost worker or a wake-up lost to more than a deleted client, and do calls return |
| `workers` | 2 clients, 2 workers, 2 errors, 2 calls each | 596 thousand | do calls tell whether and why they failed, does `stop()` return, does nothing outlive what it works on |
| `poll` | 2 threads, 2 descriptors | 94 thousand | is the interest list what the library believes, is no event handled on a deleted object, is every ready descriptor served while the loop comes round |
| `poll_stale` | the same | violation | is everything waited for registered |
| `timers` | 2 sleeping threads, 2 other timers, delays up to 4, tolerance 1 | 70 thousand | is `epoll_wait()` left in time, does every sleep end, not early and in order |
| `sockets` | a kernel buffer of 1 byte, 2 bytes to send, 2 resets, cancellations, shutdowns or closings | 101 thousand | is what the calls return true, do cancelled calls stay cancelled, do settled calls return |
| `streams` | 9 plans of values up to 16 bytes, 6 bytes in raw pieces, buffers of 3 and 2, socket of 2 | 19 thousand | is what is read what was written, value by value, does what was flushed arrive |
| `lengths` | lengths around 2^7 and 2^14 | violation | is the length read the one written |

### Why the bounds are enough

- `threads`: with three threads one can be executing while another is blocked
  and a third is ready; a joiner, the thread it joins and a thread that deletes
  either; two ready threads behind a running one, for the order. Two references
  make it possible to be released from one and to wait on the other. There is
  no bound on the number of calls: objects are created and deleted for ever.
- `runtime`: a ring of four shows each case of `remove()` and leaves one of three;
  the host and four threads need two pools, and the third is there to be mapped
  too early. No bound on the number of operations. The properties are invariants
  or about steps, and nothing tells the threads apart, so symmetry is sound.
- `io`: two workers can both be busy while three clients wait; a waiter can be
  released, overtaken by a newcomer or by the client that has just put the worker
  back, and queue again behind two others. There is no bound on the number of calls,
  so that it can be overtaken for ever; `EveryCallReturns` says under which premise it
  is not.
- `workers`: two workers can be destroyed one after the other, with the second
  performing while the first is joined; two errors, so that an old `errno` differs from a
  new one, and two calls, so that a worker has an old one.
- `poll`: one descriptor can be stale, closed or destroyed while a thread waits
  on the other; both directions of one descriptor can have a waiter; two events
  make a batch in which the first handler destroys the object of the second. With
  two threads one can already keep the ready list from ever being empty while the other
  waits, since nothing is assumed of threads; three (732 thousand states, five minutes)
  show the case of two that keep releasing each other, and the same properties hold.
- `timers`: equal and different timeouts, one within the tolerance of another,
  a timer that is overdue before the loop looks, a handler that moves its timer to where
  it is due again. Delays stand for tens of
  milliseconds, so the ratio to the tolerance is what counts. `IntMax` is
  the longest delay: longer ones are outside (section 6).
- `sockets`: with a buffer of one byte a call for two blocks half-way, and two
  events from outside can both happen between its release and its resumption.
  The connecting end has a reader of its own from before the connection on, who
  can take the error of `connect()`. The calls are the same at both ends, so the
  bytes go one way.
- `streams`: a piece longer than either buffer, a buffer larger than what the
  socket takes, pieces that end inside, at and beyond a buffer's end; each type
  once, strings at every place of a plan and empty ones.

### Properties

Each is stated in words at its definition. The ones that carry most:

- `Threads`: `OnePlace` (a thread is executing, ready once, blocked or ended, and
  only one of these), `BlockInverse` (the two ends of a blocking agree and
  exist), `TypeOK` (no pointer leads to a deleted object), `NoOvertaking`,
  `JoinWaitsForEnd`, `ReadyRuns`, and the refinement `LifeSpec`.
- `Runtime`: `IsRing` and the refinement `QueueSpec` for the list, `OwnStack` and the
  refinement `AllocatorSpec` for the stacks, `StandsOnOwnStack` for the switch, and
  the refinement `LifeSpec` for all of them together.
- `IOServer`: `OwnResult`, `NoWorkerLost`, `NoLostWakeup`, `EveryCallReturns`, and
  the refinement `ExecutorSpec`.
- `Workers`: `OperationOutlivesWork`, `AnswerIsTrue`, `FailureTellsWhy`,
  `CallsReturn`, `StopReturns`.
- `PollLoop`: `MirrorsKernel`, `HandledExist`, `WaitersRegisteredUnlessStale`,
  `ReturnsOnlyWhenDone`, `ReadyFDWakes`.
- `Timers`: `TimersTypeOK` (the timers are in the order of their timeouts, each
  once), `WaitEndsInTime`, `FiresInTime`, `SleepEnds`.
- `Sockets`: `ConnectTellsTruthUnlessTaken`, `CancelSticks`, `InOrder`, `AllOrFalse`, `CallsEnd`.
- `Streams`: `ReadsWhatWasWritten`, `FlushedArrives`; `DataStreams`: `InStep`.

Some are weakened by what the code does, and say so where they are defined:

- `JoinWaitsForEnd` lets a joiner go on when the thread it joined, or the joiner, is
  deleted; `join()` then returns true, not false (section 5).
- `NoLostWakeup` counts a client that was deleted as one that was woken, until the end:
  its reference stays in the queue (`IOServer.cc:296`) and swallows the wake-up of the
  next waiter (section 5). It allows no more than one such wake-up for each.
  `EveryCallReturns` excepts behaviours in which a waiting client is deleted.
- `EveryCallReturns` has the premise `CallsCease`: from some point on, nobody calls
  `execute()` anew. In the code a client that was woken may find the worker taken, also
  by the one that has just put it back, and then queues behind all others
  (`IOServer.cc:277-289`). If others go on calling, nothing prevents that from happening
  for ever, and the call never returns.
- `ReadyFDWakes` has the premise `LoopComesRound`: again and again no thread is ready.
  The loop polls only with an empty ready list (`Scheduler.cc:41-53`), so threads that
  keep releasing each other starve every thread that waits for a descriptor. That
  the ready list empties is left to the application.
- `WaitersRegisteredUnlessStale` and `ReadyFDWakes` hold as long as there is no stale
  object: one without a descriptor that claims to be registered, because it was closed
  (section 5), or that is waited for, because it was cleared and not yet set anew.
  `ReturnsOnlyWhenDone` holds with stale objects too, except those that were cleared before
  they were ever registered (`Orphaned`): they stop `updateAllEvents()` without
  setting a bit.
- `SleepEnds` has the premise `TurnsEnd`: threads that run block at last, and handlers do
  not keep `handleTimeouts()` in its loop by making timers that are due.
- `CallsReturn` excepts a worker whose loop has ended or was never started: a signal that
  interrupts its `read()` ends the loop (`IOServer.cc:200`), or `pthread_create()` failed
  (`IOServer.cc:153`); the pipe stays open, and the next client waits for ever.
- `ConnectTellsTruthUnlessTaken` excepts the case that `recv()` by another thread has
  taken the error of the connection attempt (`taken`): `connect()` then finds no error
  (`ThreadedSocket.cc:51`) and returns 0 although the connection was refused. Of this
  case it says nothing.

### Fairness

Fairness is assumed of what the operating system owes and of the steps the loop cannot
but take, and in `Threads` and `Streams` of what the application owes. Where a liveness
property needs more of an application than the code can ask for, it is a premise of the
property.

- `Threads`: the threads cooperate (each sooner or later blocks, joins or
  returns), `main()` calls `run()`, handlers return. Nothing is assumed of
  `epoll_wait()`, nor that anybody unblocks anybody.
- `IOServer`: a released client is resumed (`ReadyRuns` of `Threads`), a result wakes
  its reader (`ReadyFDWakes` of `PollLoop`, whose premise it inherits), operations return.
  Nothing is assumed of `stop()` or of deletions; that new calls cease is the premise
  `CallsCease`.
- `Workers`: operations return, workers read what is in their pipe, a result wakes its
  reader, and `delete []` goes on. Nothing is assumed of calls or of `stop()`.
- `PollLoop`: with no thread ready the loop polls; `epoll_wait()`
  returns when it has something to report; handlers return. Nothing is assumed
  of threads, of the peer, of signals or of timers; that threads let the loop come round is
  the premise `LoopComesRound`.
- `Timers`: `epoll_wait()` gives up when its time is up, and
  time does not stop (strong fairness of `Tick`: time passes in the stages where
  threads run or wait, and the loop comes back to those again and again). Nothing is
  assumed of threads and handlers; the premise is `TurnsEnd`.
- `Sockets`: an event that is there is reported (weak), a released thread runs
  (strong: it is disabled while another is in a call, again and again; the ready
  list is first-in first-out, `NoOvertaking` of `Threads`), and a call that
  has its answer returns. Nothing is assumed of the peer or of the network.
- `Streams`: a stream operation that can make progress makes it, and the reader
  keeps reading.

## 4 What is proved

Every invariant, every action property and every refinement that a passing run
checks, for any sets of threads, references, clients, workers and timers, any number of
descriptors, stacks and bytes, any delays and plans. The assumptions are those that the
modules state with their constants (`ContextsAreDistinct`, `ListAssumption`,
`StacksAssumption`, `ServerAssumption`, `WorkersAssumption`, `PollAssumption`,
`TimerAssumption`, `SocketsAssumption`, `StreamsAssumption`, `DataAssumption`:
distinct objects, positive sizes, room for the largest scalar in the longest piece, and finiteness where the code counts).
`GivesUpInTime` has one hypothesis more.

| module | theorem | property |
|---|---|---|
| `ThreadsProofs` | `TypeCorrect` | `TypeOK`: no pointer leads to a deleted object |
| | `BlockingIsMirrored` | `BlockInverse` |
| | `NoThreadIsLost` | `OnePlace` |
| | `CurrentIsTheCaller` | `CurrentIsRunning` * |
| | `WorkConserving` | `PollsOnlyWhenIdle` * |
| | `JoinIsSound` | `JoinWaitsForEnd` |
| | `ReadyInOrder` | `NoOvertaking` |
| | `KeepsLifeCycle` | `LifeSpec` |
| `RuntimeProofs` | `RingIsKept` | `IsRing` of the ready list alone |
| | `ImplementsQueue` | `QueueSpec` of the ready list alone |
| | `UsesReadyList` | the runtime is a behaviour of `ReadyList` * |
| | `ListStaysClosed`, `ListIsQueue` | `IsRing`, `QueueSpec` of the runtime |
| | `StacksAreOwned` | `OwnStack` |
| | `ProcessorIsWithCurrent` | `StandsOnOwnStack` |
| | `OnlyResumableAreReady` | `ReadyAreResumable` * |
| | `ImplementsAllocator` | `AllocatorSpec` |
| | `RuntimeKeepsLifeCycle` | `LifeSpec` of the runtime |
| `IOServerProofs` | `ResultIsOwn` | `OwnResult` |
| | `PoolIsComplete` | `NoWorkerLost` |
| | `WaitersAreQueued` | `WaitersQueued` * |
| | `WakeupsSuffice` | `NoLostWakeup` |
| | `ExecutesOnce` | `ExecutorSpec` |
| `WorkersProofs` | `OperationIsOutlived` | `OperationOutlivesWork` |
| | `AnswersAreTrue` | `AnswerIsTrue` |
| | `FailuresTellWhy` | `FailureTellsWhy` |
| | `WorkersOutliveThreads` | `WorkerOutlivesThread` * |
| | `KilledOnlyWhileStopping` | `KilledOnlyByStop` * |
| | `WorkersExecuteOnce` | `ExecutorSpec` of the workers * |
| `LoopProofs` | `KernelIsMirrored` | `MirrorsKernel` |
| | `NoDeletedIsHandled` | `HandledExist` |
| | `NothingIsMissed` | `WaitersRegisteredUnlessStale` |
| | `NobodyIsLeft` | `ReturnsOnlyWhenDone` |
| | `TimersTypeCorrect` | `TimersTypeOK` |
| | `GivesUpInTime` | `WaitEndsInTime`, for delays that fit an `int` |
| | `SleepsEndInOrder` | `FiresInTime` |
| `SocketsProofs` | `ConnectIsTruthful` | `ConnectTellsTruthUnlessTaken` |
| | `CancellationSticks` | `CancelSticks` |
| | `BytesInOrder` | `InOrder` |
| | `SendAllIsTruthful` | `AllOrFalse` |
| `StreamsProofs` | `DataTypeCorrect` | `DataTypeOK`: no buffer holds more than its size * |
| | `WhatWasWritten` | `ReadsWhatWasWritten` |
| | `EndsInStep` | `InStep` |
| | `ShortLengthsAreRead` | `RoundTrip`, for lengths below 128 * |
| | `LongLengthsAreSwapped` | what is read of a length from 128 to 16383 * |

Those with a star are proved and in no run that passes. The type invariants of `IOServer`,
`Workers`, `PollLoop`, `Runtime` and `Sockets` are proved in the same modules, and are
in no run either.

**Threads.** The inductive invariant is the conjunction of the first five properties.
None is inductive alone: that `unblock()` appends a thread that is not already
linked (`OnePlace`) needs that a blocked thread is in no other place, which is
`OnePlace`, and that a reference with a thread is that thread's blocker, which
is `BlockInverse`; that the ready list never holds a deleted thread (`TypeOK`)
needs `~Thread()` to find the thread in its one place; and `BlockInverse` needs
`TypeOK`. The proof has a lemma per action. What a queue becomes when an
element is appended, taken or removed from the middle is in `QueueTheorems`.
`JoinWaitsForEnd` is an action property and follows from the same invariant: the
joiner of a thread is no reference that anybody could unblock or delete, and
`BlockInverse` makes the thread whose `run()` returns, or that is deleted, the only one
that releases it.

`NoOvertaking` is about the ready list as an order: appending, taking the first and
removing from the middle keep which of two members comes first (`AppendedOrder`,
`TakenOrder` and `RemovedOrder` in `QueueTheorems`), and each action does these and no more.
For `LifeSpec` the invariant says that each thread has exactly one place, so
`phase`, a chain of cases, is in every state determined by the place (`Charted`).
A step is then described by who enters and who leaves a place, and a
switch by who is at the front: `Switches` turns that into the abstract `Switched`. The
abstract step of a thread that ends is made of three moves, the end, the release
of its joiner, and the switch, which may go to the joiner.

**ReadyList.** The invariant says that the links spell some sequence. `RingFacts`
unfolds that link by link, `RingFrom` puts it together again, and between them
`LinkLastSpells` and `UnlinkSpells` show that `append()` makes the ring spell the
sequence with one more at its end, and `remove()`, in each of its cases, the
sequence without the thread. For the refinement the sequence has to be the
one: two sequences that the same ring spells differ at a least place, and the
links before it lead to the same thread. That a sequence without repetitions is no
longer than the set of threads is large keeps it within `Orders`.

**Runtime.** Everything it does to the list is a step of `ReadyList`
(`UsesReadyList`), which carries `IsRing` and `QueueSpec` over. For the stacks the
invariant says that there is a chain of distinct free stacks from
`firstFreeStack` on (`Supply`), that what threads have is not in it, and that they
have each their own (`Apart`). What `Free` finds by traversal is that chain, which
takes the bound on its length: it is as far as the traversal goes. Acquiring takes the first
link, mapping a pool puts a chain where there was none, releasing puts one in front. Since `Block`
saves the context of `Thread::current`, `Apart` needs `StandsOnOwnStack`, and
that in turn needs that `processReady()` finds in the ready list only threads
with a context, `ReadyAreResumable`.

The refinement of `ThreadLife` needs one more invariant, `NoneLost`: a thread that
exists and neither waits nor is over is linked or executes. A thread that `Create`
or `Wake` failed to link would violate nothing else, as no other invariant says
that a ready thread is in the list. With it the phases are charted
as in `Threads`, and while nobody is active the first of the list is the one with the
processor: that it is the one that `processReady()` resumes is `ProcessReadyFacts`,
which takes `Apart` to know that the saved context leads to its stack and to no
other thread's.

**IOServer.** `OwnResult` speaks of the concatenation of what is in the two pipes
and at the worker; the invariant `Pool` says instead in which of the three places
the one operation is, from which `OwnResult` and `NoWorkerLost` follow.
`NoLostWakeup` compares the number of available workers with the number of clients that
a wake-up was addressed to (`Addressed`). `putWorker()` adds one to both, also when the
reference it takes from the queue belongs to a deleted client, since each has
only one there, which is `WaitersQueued`; `getWorker()` takes one worker, and at
most one client from the addressed; deleting a client takes none away, as it either has
its reference in the queue or was woken; and a client that finds no worker leaves none
behind it.
For `ExecutorSpec` the stage of an operation is read off the pipes of the worker that
its client holds (`InStage`), so the three places of `Pool` are three stages. That at
most as many are performed as there are workers is a count over a step: the clients that
are performed for before `Begin` hold other workers than the one that begins, so
`holds` is an injection of them into the workers without that one.

**Workers.** An operation is in the pipe to its worker until it is performed and in
the one from it afterwards (`InTransit`), so it is performed once and its
error is still its own when it arrives (`ErrorKept`), although `errno` is shared with
the operations before. `OwnWorker` keeps the operations of two clients apart.
`ThrownOut` ties the clients left in the air to the workers whose
destruction has begun, which is what `OperationOutlivesWork` excepts. For
`ExecutorSpec` the stage of an operation is read off `down` and `thread`, and the
room that `Begin` asks for is counted as in `IOServer`: the clients that are
performed for use each a worker other than the one that begins.

**PollLoop.** The kernel forgets a closed descriptor with its waiters and events
(`ClosedForgotten`), which together with `MirrorsKernel` leaves `current` wrong only
for those without a descriptor. `updateAllEvents()` fails exactly at the stale ones, and everything in front of the first of these is updated; the first
exists because descriptors are numbers. Events and deferred deletions exist only
within a batch (`BatchIsProcessed`), so destroying an object takes its
events with it or postpones its end.

**Timers.** The invariant is the type: the timers are a sequence without repetitions,
ordered by what is left of each. A place for a new timer exists because there is a least
later element, or none, and putting it there keeps the order (`PlaceExists`,
`Puts`); a millisecond takes one from all that are not overdue, which keeps it
as well. From the order, what the first has left bounds every other, which is
`FiresInTime`, and the timeout is what the first has left (`Timeout`), provided that
the conversion to `int` returns it unchanged: this is the hypothesis
`MaxDelay <= IntMax` of `GivesUpInTime`. Without it the property is false.

**Sockets.** A cancelled thread has its result still or will find the direction of the
socket shut down or the connection failed (`Over`), where no call waits again:
this is what makes `CancelSticks` inductive over the `shutdown()` and `close()`
that replace the result. A sender's position agrees with what the kernel
took (`Sends`). The error of a failed connection attempt stays to be found in SO_ERROR unless the
socket is closed or somebody took it (`ErrorIsKept`), and a thread in `connect()` is released
only when the handshake is over or there is such an error, for which `KernelOK` has to
know that a connecting socket cannot be shut down for writing.

**Streams.** The bytes on their way are in five places, one behind the other: what
the calls of the reader have got, its buffer, the socket, the buffer of the writer and the
piece it is writing. The invariant says that each of these begins where the one before it
ends (`Follows`, `WayOK`, `RestOK`), which is what a step that takes from one and gives
to the next keeps. It holds as long as the end concerned is valid: a failure leaves a gap,
and from there on the reader takes nothing (`ReaderOK`), so what it has been given
stays a prefix. On top of that `Standing` says where the reader will be when its
call returns, in terms of the plan: behind the values begun, or behind the length byte of
the string it is in. How long the beginning of a plan is (`BytesOf`) is a recursive function,
unfolded one value at a time. That the byte which holds a string's length has the value
that the plan says, follows from the number of the byte: `LengthIn` finds it in the plan. That one byte is
right for a length below 128 is `ShortLengthsAreRead`. Between 128 and 16383
`LongLengthsAreSwapped` says what `readLength()` returns, the two groups of seven bits
exchanged, which is the length only if the groups are equal: 129 is read
right, and the run `lengths` finds 128.

Only model-checked: liveness (`ReadyRuns`, `EveryCallReturns`, `CallsReturn`,
`StopReturns`, `ReadyFDWakes`, `SleepEnds`, `CallsEnd`, `FlushedArrives`), which is
beyond this prover, and what the four runs that end with a violation show.

## 5 Where the code and its comments disagree

The first four are runs that TLC ends with a counterexample.

1. **`join_after_end`** (`Thread.cc:74`). `startThread()` sets `finished` only when a
   joiner is blocked already. A thread that joins a joinable thread whose `run()`
   has returned blocks, and nobody is left to release it.
2. **`wake_result`** (`BlockedThread.h:157`). `unblock()` stores its argument before it
   looks for a thread. `cancel()` on a reference whose thread was released and has
   not resumed returns false, and the thread returns `CANCELLED` all the same.
3. **`poll_stale`** (`PolledFD.h:254`). `close()` leaves `currentEvents` alone. While the
   object lives, `updateAllEvents()` fails at it on every turn, and the
   descriptors behind it in the set are never registered.
4. **`lengths`** (`DataReader.h:301`). `writeLength()` writes the lowest seven bits first,
   `readLength()` takes the first bits for the highest: 128 is read as 1.

The others have no run of their own. They are what a property has as its exception, or
the bound of a run leaves out.

5. **`join()` after a deletion** (`Thread.cc:155`). `Thread.h:156-160` says that `join()` is
   not successful if the thread is deleted while it is being joined. The destructor
   asserts that nobody joins (`Thread.cc:127`); in a build without assertions it
   releases the joiner (`Thread.cc:129`), and `join()` returns true, as it returns
   nothing else from there. `Destroy` of `Threads` does this, and `JoinWaitsForEnd` names it.
6. **A wake-up that is lost** (`IOServer.cc:296-300`). `IOServer.h:165-168` says that
   `putWorker()` wakes the first waiter if there are any. The reference of a client that was
   deleted stays in the queue; when it is the first, nobody is woken, although others
   wait and a worker is available. `NoLostWakeup` allows one for each deleted client.
7. **A long sleep** (`Scheduler.cc:50`). `Timer.h:73-76` says that `sleep()` sleeps the given
   number of milliseconds. The time left is converted to `int`: beyond `INT_MAX`
   milliseconds, almost 25 days, it can become negative, and `epoll_wait()` waits
   without end or for too short. With `MaxDelay` above `IntMax` TLC finds
   `WaitEndsInTime` violated in three states; the run `timers` has delays that fit.

## 6 What is not modelled

Undefined behaviour that a legal-looking sequence of calls can reach is excluded
by a guard, and is listed among the hazards: what a client does that resumes after
`stop()` destroyed its descriptors; a client deleted while its operation is
performed (the operation lives on its stack); `pthread_join()` on the handle of a thread that
`pthread_create()` failed to create (`IOServer.cc:153`, `163`), so that `Stop` of `Workers` is
enabled only if all exist; reading `result` of a reference that was deleted under the
blocked thread (the callers that do it ignore the value, and `Awake` goes on
with any thread); the members of a destroyed `ThreadedFD`; `delete this` inside
`run()`. With assertions disabled, a worker without a pipe back is one more.

Left out as well:

- more than 16 events in one `epoll_wait()`: the rest is reported by the next one;
- `setRequestedEvents()` called by an application's own kind of `PolledFD`, and
  destructors that destroy other descriptors;
- delays beyond `INT_MAX` milliseconds in the run `timers` (section 5): `ToInt` of
  `Timers` models the truncation;
- SIGPIPE in a call of `send()`: `Sockets` takes the process for one that ignores it, and
  `send()` for one that returns -1, where with flags 0 the signal would end the
  process (`ThreadedSocket.cc:74`); `Workers` does model it, for the pipes;
- `setFD()` on an object that has a descriptor: it would lose the old one, which stays
  open and registered; `SetFD` follows `clearFD()` or `close()`;
- `readdir()` at the end of a directory that reports an old error number
  (`IOServer.cc:213-214`): `FailureTellsWhy` is about operations that set one;
- a wall clock that is set while timers are pending: what happens then depends
  only on the direction of the jump;
- two threads sharing one end of a stream, a `BufferedWriter` used after a failure
  without `DataWriter`, and what a value holds whose reading failed;
- addresses, and socket options other than SO_ERROR: inline functions that pass
  them to the kernel;
- registers other than the stack pointer, the sizes of stacks and their guard pages;
  a failing `mmap()` ends the program;
- `Log`, `util`, `test.cc`: formatting, single system calls, an example.

## 7 Plan

The order was: threads first, for everything stands on them; then the ready list
and the stacks under them; the I/O server, where real concurrency is; the loop;
timers; sockets; streams. Left, the most important first:

1. `Threads` itself as an abstraction of `Runtime`, with references and joining added
   there, so that the two, which now implement the same `ThreadLife`, are one
   stack of refinements.
2. A clock that can be set while timers are pending (section 6).
3. `Workers` inside `IOServer`: both implement `Executor`, each over an abstraction
   of the other.
