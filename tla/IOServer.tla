------------------------------ MODULE IOServer ------------------------------
(***************************************************************************)
(* The I/O server: cooperative threads, here the clients, give blocking    *)
(* operations to a fixed pool of POSIX threads, the workers.  A pointer to *)
(* the operation goes to the worker through one pipe and comes back        *)
(* through another.                                                        *)
(*                                                                         *)
(* A client executes from where it was resumed to where it blocks in one   *)
(* step; the workers interleave freely with the clients.  An operation is  *)
(* denoted by the client that waits for it, and the BlockedThread object   *)
(* of a waiting client by that client.                                     *)
(***************************************************************************)
EXTENDS Integers, Sequences, FiniteSets, SequencesExt

CONSTANTS Client,      \* threads that call execute()
          Worker,      \* elements of the array `workers'
          Null

ASSUME ServerAssumption ==
    /\ IsFiniteSet(Client) /\ IsFiniteSet(Worker)
    /\ Null \notin Client \cup Worker

VARIABLES
    available,  \* availableWorkers, a stack
    waiters,    \* the queue of references to waiting clients
    stopped,    \* workers = 0
    pc,         \* of a client: outside execute(), blocked in getWorker(),
                \* released but not resumed, in waitResult(), deleted
    holds,      \* the worker that execute() got for a client
    toWorker,   \* contents of the pipe to a worker
    performing, \* the operation a worker performs
    fromWorker  \* contents of the pipe from a worker

clientVars == <<available, waiters, stopped, pc, holds>>
vars == <<clientVars, toWorker, performing, fromWorker>>

TypeOK ==
    /\ available \in Seq(Worker)
    /\ waiters \in Seq(Client)
    /\ stopped \in BOOLEAN
    /\ pc \in [Client -> {"outside", "waiting", "woken", "executing", "deleted"}]
    /\ holds \in [Client -> Worker \cup {Null}]
    /\ toWorker \in [Worker -> Seq(Client)]
    /\ performing \in [Worker -> Client \cup {Null}]
    /\ fromWorker \in [Worker -> Seq(Client)]

Init ==
    /\ available \in {s \in [1 .. Cardinality(Worker) -> Worker] : IsInjective(s)}
    /\ waiters = << >>
    /\ stopped = FALSE
    /\ pc = [c \in Client |-> "outside"]
    /\ holds = [c \in Client |-> Null]
    /\ toWorker = [w \in Worker |-> << >>]
    /\ performing = [w \in Worker |-> Null]
    /\ fromWorker = [w \in Worker |-> << >>]

-----------------------------------------------------------------------------
(***************************************************************************)
(* Pieces of execute().                                                    *)
(***************************************************************************)

\* Mutant: the worker that is taken stays available.
StartOnShared(c) ==
    LET w == Last(available)
    IN  /\ holds' = [holds EXCEPT ![c] = w]
        /\ toWorker' = [toWorker EXCEPT ![w] = Append(@, c)]
        /\ pc' = [pc EXCEPT ![c] = "executing"]
        /\ UNCHANGED <<available, waiters>>

\* getWorker() with a worker available, and Worker::start(): the pointer is
\* written to the pipe, which is empty, and the client waits for the result.
StartOn(c) ==
    LET w == Last(available)
    IN  /\ available' = Front(available)
        /\ holds' = [holds EXCEPT ![c] = w]
        /\ toWorker' = [toWorker EXCEPT ![w] = Append(@, c)]
        /\ pc' = [pc EXCEPT ![c] = "executing"]
        /\ UNCHANGED waiters

\* getWorker() with none: a new reference at the end of the queue.
Wait(c) ==
    /\ waiters' = Append(waiters, c)
    /\ pc' = [pc EXCEPT ![c] = "waiting"]
    /\ UNCHANGED <<available, holds, toWorker>>

\* The loop of getWorker() as far as the client gets without blocking.
GetWorker(c) == IF available = << >> THEN Wait(c) ELSE StartOn(c)

\* Mutant: putWorker() wakes a waiter only when no other worker is left.
PutWorkerIfFirst(c) ==
    /\ available' = Append(available, holds[c])
    /\ IF waiters = << >> \/ available # << >>
       THEN pc' = [pc EXCEPT ![c] = "outside"] /\ UNCHANGED waiters
       ELSE /\ pc' = [pc EXCEPT ![c] = "outside", ![Head(waiters)] = "woken"]
            /\ waiters' = Tail(waiters)

\* Mutant: the worker is meant for the waiter and not put back.
PutWorkerHandOver(c) ==
    IF waiters = << >>
    THEN /\ available' = Append(available, holds[c])
         /\ pc' = [pc EXCEPT ![c] = "outside"]
         /\ UNCHANGED waiters
    ELSE /\ pc' = [pc EXCEPT ![c] = "outside",
                            ![Head(waiters)] = IF @ = "waiting" THEN "woken" ELSE @]
         /\ waiters' = Tail(waiters)
         /\ UNCHANGED available

\* putWorker(): deleting the first reference unblocks the thread that waits
\* on it, if that thread still exists.
PutWorker(c) ==
    /\ available' = Append(available, holds[c])
    /\ IF waiters = << >>
       THEN pc' = [pc EXCEPT ![c] = "outside"] /\ UNCHANGED waiters
       ELSE /\ pc' = [pc EXCEPT ![c] = "outside",
                                ![Head(waiters)] =
                                    IF @ = "waiting" THEN "woken" ELSE @]
            /\ waiters' = Tail(waiters)

-----------------------------------------------------------------------------
\* execute(operation) is called.  A call with canBlock = false that finds no
\* worker, and any call after stop(), returns false and changes nothing.
Execute(c) ==
    /\ pc[c] = "outside" /\ ~stopped
    /\ GetWorker(c)
    /\ UNCHANGED <<stopped, performing, fromWorker>>

\* A client that was released resumes in the loop of getWorker().  Another
\* may have taken the worker meanwhile, the one that put it back included:
\* then the client queues again, behind all others.
Resume(c) ==
    /\ pc[c] = "woken" /\ ~stopped
    /\ GetWorker(c)
    /\ UNCHANGED <<stopped, performing, fromWorker>>

\* The same after stop(): getWorker() returns 0 and execute() false.
ResumeStopped(c) ==
    /\ pc[c] = "woken" /\ stopped
    /\ pc' = [pc EXCEPT ![c] = "outside"]
    /\ UNCHANGED <<available, waiters, stopped, holds, toWorker,
                   performing, fromWorker>>

\* waitResult() has a result to read; execute() puts the worker back and
\* returns true.
Finish(c) ==
    /\ pc[c] = "executing"
    /\ fromWorker[holds[c]] # << >>
    /\ fromWorker' = [fromWorker EXCEPT ![holds[c]] = Tail(@)]
    /\ holds' = [holds EXCEPT ![c] = Null]
    /\ PutWorker(c)
    /\ UNCHANGED <<stopped, toWorker, performing>>

\* The worker's loop in Worker::run(): read() returns an operation ...
WorkerReads(w) ==
    /\ performing[w] = Null /\ toWorker[w] # << >>
    /\ performing' = [performing EXCEPT ![w] = Head(toWorker[w])]
    /\ toWorker' = [toWorker EXCEPT ![w] = Tail(@)]
    /\ UNCHANGED <<clientVars, fromWorker>>

\* Mutant: the operation is written back and performed again.
WorkerWritesAgain(w) ==
    /\ performing[w] # Null /\ fromWorker[w] = << >>
    /\ fromWorker' = [fromWorker EXCEPT ![w] = Append(@, performing[w])]
    /\ UNCHANGED <<clientVars, toWorker, performing>>

\* ... which is performed and written back.
WorkerWrites(w) ==
    /\ performing[w] # Null
    /\ fromWorker' = [fromWorker EXCEPT ![w] = Append(@, performing[w])]
    /\ performing' = [performing EXCEPT ![w] = Null]
    /\ UNCHANGED <<clientVars, toWorker>>

\* stop(): the workers' pipes are closed and the threads joined, the waiting
\* clients released.  Only while no operation is in progress: a client in
\* waitResult() would go on with a deleted worker.
Stop ==
    /\ ~stopped
    /\ \A c \in Client : pc[c] # "executing"
    /\ stopped' = TRUE
    /\ available' = << >>
    /\ waiters' = << >>
    /\ pc' = [c \in Client |-> IF pc[c] = "waiting" THEN "woken" ELSE pc[c]]
    /\ UNCHANGED <<holds, toWorker, performing, fromWorker>>

\* A client is deleted while it waits for a worker, or before it resumes.
\* ~Thread() clears the reference, which stays in the queue.
DeleteClient(c) ==
    /\ pc[c] \in {"waiting", "woken"}
    /\ pc' = [pc EXCEPT ![c] = "deleted"]
    /\ UNCHANGED <<available, waiters, stopped, holds, toWorker,
                   performing, fromWorker>>

ClientStep(c) == Execute(c) \/ Resume(c) \/ ResumeStopped(c) \/ Finish(c)

Next ==
    \/ \E c \in Client : Execute(c)
    \/ \E c \in Client : Resume(c)
    \/ \E c \in Client : ResumeStopped(c)
    \/ \E c \in Client : Finish(c)
    \/ \E w \in Worker : WorkerReads(w)
    \/ \E w \in Worker : WorkerWrites(w)
    \/ Stop
    \/ \E c \in Client : DeleteClient(c)

Spec == Init /\ [][Next]_vars

\* A client that is ready is resumed (Threads!ReadyRuns), a result wakes its
\* reader, and operations return.
Fairness ==
    /\ \A c \in Client : WF_vars(Resume(c)) /\ WF_vars(ResumeStopped(c)) /\ WF_vars(Finish(c))
    /\ \A w \in Worker : WF_vars(WorkerReads(w)) /\ WF_vars(WorkerWrites(w))

FairSpec == Spec /\ Fairness

-----------------------------------------------------------------------------
(***************************************************************************)
(* Properties.                                                             *)
(***************************************************************************)

\* What is under way with worker w, from the pipe to it to the pipe back.
InTransit(w) ==
    toWorker[w] \o (IF performing[w] = Null THEN << >> ELSE <<performing[w]>>)
                \o fromWorker[w]

\* A worker is available or held by one client, never both and never by
\* two, and exactly the holder's operation is in transit: what waitResult()
\* reads is the operation that start() wrote (the assertion IOServer.cc:191).
OwnResult ==
    /\ IsInjective(available)
    /\ \A w \in ToSet(available) : InTransit(w) = << >>
    /\ \A c \in Client : pc[c] = "executing" =>
           /\ holds[c] \notin ToSet(available)
           /\ InTransit(holds[c]) = <<c>>
    /\ \A c, d \in Client :
           holds[c] = holds[d] /\ holds[c] # Null => c = d
    /\ \A c \in Client : pc[c] # "executing" => holds[c] = Null

SomeDeleted == \E c \in Client : pc[c] = "deleted"

\* Those to whom a wake-up went that no one has answered by taking a worker:
\* clients released and not yet resumed, clients deleted after their release,
\* and deleted ones whose dead reference putWorker() took from the queue.
Addressed ==
    {c \in Client : \/ pc[c] = "woken"
                    \/ pc[c] = "deleted" /\ c \notin ToSet(waiters)}

\* A wake-up is lost only to a client that is deleted, and only one to each:
\* while clients wait in the queue, no more workers are available than
\* clients are addressed.  (IOServer.h:164-169 promises that an available
\* worker wakes a waiter; one that meets a dead reference wakes nobody.)
NoLostWakeup ==
    waiters # << >> => Len(available) <= Cardinality(Addressed)

\* While the server runs, a waiting client has exactly one reference in the
\* queue; nobody waits on a stopped server.
WaitersQueued ==
    /\ \A c \in Client : pc[c] = "waiting" => c \in ToSet(waiters)
    /\ IsInjective(waiters)
    /\ \A c \in ToSet(waiters) : pc[c] \in {"waiting", "deleted"}
    /\ stopped => waiters = << >>

\* No worker disappears from the pool while it runs: the ones available and
\* the ones held are all.
NoWorkerLost ==
    ~stopped => ToSet(available) \cup ({holds[c] : c \in Client} \ {Null}) = Worker

\* From some point on, no client calls execute() anew.
CallsCease == <>[][\A c \in Client : ~Execute(c)]_vars

\* Each call of execute() returns, unless a waiting client is deleted, and
\* provided that new calls cease.  While others go on calling, nothing keeps
\* them from taking each worker before the client that was woken for it
\* resumes (IOServer.cc:279), and it may wait for ever.
EveryCallReturns ==
    CallsCease =>
        \A c \in Client : pc[c] # "outside" ~> pc[c] = "outside" \/ SomeDeleted

request ==
    [c \in Client |->
        IF pc[c] \in {"outside", "deleted"} THEN "none"
        ELSE IF pc[c] # "executing" \/ toWorker[holds[c]] # << >> THEN "asked"
        ELSE IF performing[holds[c]] # Null THEN "performing"
        ELSE "performed"]

Exec == INSTANCE Executor WITH Capacity <- Cardinality(Worker)

\* The pool of workers implements exactly-once execution.
ExecutorSpec == Exec!Spec
==============================================================================
