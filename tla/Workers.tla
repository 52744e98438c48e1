------------------------------- MODULE Workers -------------------------------
(***************************************************************************)
(* The inside of a worker of the I/O server: two pipes, a POSIX thread and *)
(* its errno, from the construction of the server to stop(), and the       *)
(* directory operations that are performed there.  Which client gets which *)
(* worker is the subject of IOServer; here a call takes any free worker.   *)
(*                                                                         *)
(* Lightweight threads, which all belong to one POSIX thread, do not run   *)
(* while stop() waits in pthread_join(); the workers do.                   *)
(***************************************************************************)
EXTENDS Integers, FiniteSets

CONSTANTS Client, Worker, Null,
          Error,     \* values of errno; 0 is none
          MaxCalls   \* bound on the calls of one client

ASSUME WorkersAssumption ==
    /\ Null \notin Client \cup Worker /\ 0 \notin Error
    /\ IsFiniteSet(Worker)
    /\ MaxCalls \in Nat

VARIABLES
    piped,       \* which of its two pipes a worker has; pipe() may fail
    created,     \* pthread_create() succeeded
    thread,      \* what the POSIX thread of a worker does
    errno,       \* errno of that thread
    down, up,    \* the operation in the pipe to and from a worker
    server,      \* running, stopping (in `delete [] workers'), stopped
    undeleted,   \* workers that delete [] has still to destroy
    joining,     \* the one whose thread pthread_join() waits for
    process,     \* runs, killed by SIGPIPE, stopped by an assertion
    pc,          \* of a client: outside execute(), in waitResult(), or
                 \* released from a descriptor that was destroyed
    uses,        \* the worker that performs a client's operation
    op,          \* its operation: ErrnoOperation with OpenDir, ReadDir, CloseDir
    own,         \* history: the error that its function reported
    performed,   \* history: how often the operation was performed
    calls, streamOpen,
    answer       \* what the last call of a client returned

clientVars == <<pc, uses, calls, streamOpen, answer>>
operationVars == <<op, own, performed>>
serverVars == <<server, undeleted, joining>>
vars == <<piped, created, thread, errno, down, up, serverVars, process,
          clientVars, operationVars>>

Kind == {"opendir", "readdir", "closedir"}

\* The constructors set the result to 0 or -1 and errorNumber to 0.
NewOperation(k) == [kind |-> k, result |-> "failure", errorNumber |-> 0]

NoAnswer == [executed |-> FALSE, result |-> "failure", errno |-> 0]

Outcome == {"success", "failure"}

TypeOK ==
    /\ piped \in [Worker -> SUBSET {"down", "up"}]
    /\ created \in [Worker -> BOOLEAN]
    /\ thread \in [Worker -> {"reading", "performing", "ended"}]
    /\ errno \in [Worker -> Error \cup {0}]
    /\ down \in [Worker -> Client \cup {Null}] /\ up \in [Worker -> Client \cup {Null}]
    /\ server \in {"running", "stopping", "stopped"}
    /\ undeleted \subseteq Worker /\ joining \in Worker \cup {Null}
    /\ process \in {"runs", "killed", "aborted"}
    /\ pc \in [Client -> {"outside", "executing", "dangling"}]
    /\ uses \in [Client -> Worker \cup {Null}]
    /\ \A c \in Client : uses[c] = Null <=> pc[c] = "outside"
    /\ op \in [Client -> [kind : Kind, result : Outcome, errorNumber : Error \cup {0}]]
    /\ own \in [Client -> Error \cup {0}] /\ performed \in [Client -> 0 .. 1]
    /\ calls \in [Client -> 0 .. MaxCalls] /\ streamOpen \in [Client -> BOOLEAN]
    /\ answer \in [Client -> [executed : BOOLEAN, result : Outcome, errno : Error \cup {0}]]

\* Worker(), one after the other: each pipe may be missing, and the result of
\* pthread_create() is not looked at.
Init ==
    /\ piped \in [Worker -> SUBSET {"down", "up"}]
    /\ created \in [Worker -> BOOLEAN]
    /\ thread = [w \in Worker |-> IF created[w] THEN "reading" ELSE "ended"]
    /\ errno = [w \in Worker |-> 0]
    /\ down = [w \in Worker |-> Null] /\ up = [w \in Worker |-> Null]
    /\ server = "running" /\ undeleted = Worker /\ joining = Null
    /\ process = "runs"
    /\ pc = [c \in Client |-> "outside"] /\ uses = [c \in Client |-> Null]
    /\ op = [c \in Client |-> NewOperation("opendir")]
    /\ own = [c \in Client |-> 0] /\ performed = [c \in Client |-> 0]
    /\ calls = [c \in Client |-> 0] /\ streamOpen = [c \in Client |-> FALSE]
    /\ answer = [c \in Client |-> NoAnswer]

-----------------------------------------------------------------------------
(***************************************************************************)
(* Clients.                                                                *)
(***************************************************************************)

\* Lightweight threads run.
Cooperating == process = "runs" /\ server # "stopping"

\* Mutant: execute() does not look at what start() returns.
RefusedUnseen(c) ==
    /\ answer' = [answer EXCEPT ![c] = [NoAnswer EXCEPT !.executed = TRUE]]
    /\ UNCHANGED <<pc, uses, streamOpen, process, down>>

\* execute() returned false: call() returns 0 or -1 and leaves errno alone.
Refused(c) ==
    /\ answer' = [answer EXCEPT ![c] = NoAnswer]
    /\ UNCHANGED <<pc, uses, streamOpen, process, down>>

\* Worker::execute() up to the point where it blocks.  Without a pipe to the
\* worker start() fails.  Without one from it waitResult() returns 0, and the
\* assertion stops the program.
ExecuteOn(c, w) ==
    IF "down" \notin piped[w] THEN Refused(c)
    ELSE /\ down' = [down EXCEPT ![w] = c]
         /\ pc' = [pc EXCEPT ![c] = "executing"]
         /\ uses' = [uses EXCEPT ![c] = w]
         /\ process' = IF "up" \in piped[w] THEN process ELSE "aborted"
         /\ UNCHANGED <<streamOpen, answer>>

Call(c, k) ==
    /\ Cooperating /\ pc[c] = "outside"
    /\ calls[c] < MaxCalls /\ calls' = [calls EXCEPT ![c] = @ + 1]
    /\ op' = [op EXCEPT ![c] = NewOperation(k)]
    /\ own' = [own EXCEPT ![c] = 0] /\ performed' = [performed EXCEPT ![c] = 0]
    /\ \/ server = "stopped" /\ Refused(c)
       \/ server = "running" /\ \E w \in Worker \ {uses[d] : d \in Client} : ExecuteOn(c, w)
    /\ UNCHANGED <<piped, created, thread, errno, up, serverVars>>

OpenDir(c) == ~streamOpen[c] /\ Call(c, "opendir")
ReadDir(c) == streamOpen[c] /\ Call(c, "readdir")
CloseDir(c) == streamOpen[c] /\ Call(c, "closedir")

\* Mutant: execute() does not wait for the result.
ResultReadNot(c) == TRUE

\* waitResult() reads the operation.
ResultRead(c) == up[uses[c]] = c

\* waitResult() has read the operation, execute() returns true, and call()
\* sets errno to the error number of the operation.
Finish(c) ==
    /\ Cooperating /\ pc[c] = "executing"
    /\ ResultRead(c)
    /\ up' = [up EXCEPT ![uses[c]] = Null]
    /\ pc' = [pc EXCEPT ![c] = "outside"] /\ uses' = [uses EXCEPT ![c] = Null]
    /\ answer' = [answer EXCEPT ![c] = [executed |-> TRUE, result |-> op[c].result,
                                        errno |-> op[c].errorNumber]]
    /\ streamOpen' = [streamOpen EXCEPT ![c] =
           CASE op[c].kind = "opendir" -> op[c].result = "success"
             [] op[c].kind = "readdir" -> @
             [] op[c].kind = "closedir" -> FALSE]
    /\ UNCHANGED <<piped, created, thread, errno, down, serverVars, process, calls,
                   operationVars>>

-----------------------------------------------------------------------------
(***************************************************************************)
(* Workers: run().                                                         *)
(***************************************************************************)

Reading(w) == process = "runs" /\ thread[w] = "reading"

\* read() returns an operation.
Reads(w) ==
    /\ Reading(w) /\ down[w] # Null
    /\ thread' = [thread EXCEPT ![w] = "performing"]
    /\ UNCHANGED <<piped, created, errno, down, up, serverVars, process, clientVars,
                   operationVars>>

\* ~Worker() of w was called: the pipes to it and from it are closed.
Closed(w) == w = joining \/ w \notin undeleted

\* Mutant: the thread goes on reading at the end of the pipe.
EndsNever(w) ==
    /\ Reading(w) /\ down[w] = Null
    /\ "down" \notin piped[w]
    /\ thread' = [thread EXCEPT ![w] = "ended"]
    /\ UNCHANGED <<piped, created, errno, down, up, serverVars, process, clientVars,
                   operationVars>>

\* read() finds the end of the pipe, or there is none.
Ends(w) ==
    /\ Reading(w) /\ down[w] = Null
    /\ Closed(w) \/ "down" \notin piped[w]
    /\ thread' = [thread EXCEPT ![w] = "ended"]
    /\ UNCHANGED <<piped, created, errno, down, up, serverVars, process, clientVars,
                   operationVars>>

\* read() is interrupted by a signal.
Interrupted(w) ==
    /\ Reading(w) /\ down[w] = Null
    /\ thread' = [thread EXCEPT ![w] = "ended"]
    /\ UNCHANGED <<piped, created, errno, down, up, serverVars, process, clientVars,
                   operationVars>>

\* What opendir(), readdir() and closedir() may do: the end of a directory is
\* a null result without an error.
OpenDirOutcomes == {<<"success", 0>>} \cup ({"failure"} \X Error)
ReadDirOutcomes == {<<"success", 0>>, <<"failure", 0>>} \cup ({"failure"} \X Error)
CloseDirOutcomes == {<<"success", 0>>} \cup ({"failure"} \X Error)

Outcomes(k) == CASE k = "opendir" -> OpenDirOutcomes
                 [] k = "readdir" -> ReadDirOutcomes
                 [] k = "closedir" -> CloseDirOutcomes

\* Mutant: the error number is taken before the function is called.
PerformBefore(w, outcome) ==
    LET c == down[w]
    IN  /\ errno' = [errno EXCEPT ![w] = IF outcome[2] = 0 THEN @ ELSE outcome[2]]
        /\ op' = [op EXCEPT ![c] = [@ EXCEPT !.result = outcome[1], !.errorNumber = errno[w]]]
        /\ own' = [own EXCEPT ![c] = outcome[2]]
        /\ performed' = [performed EXCEPT ![c] = @ + 1]

\* ErrnoOperation::perform(): a function that succeeds leaves errno as it was.
Perform(w, outcome) ==
    LET c == down[w]
    IN  /\ errno' = [errno EXCEPT ![w] = IF outcome[2] = 0 THEN @ ELSE outcome[2]]
        /\ op' = [op EXCEPT ![c] = [@ EXCEPT !.result = outcome[1], !.errorNumber = errno'[w]]]
        /\ own' = [own EXCEPT ![c] = outcome[2]]
        /\ performed' = [performed EXCEPT ![c] = @ + 1]

\* Mutant: an operation that failed is not written back.
WriteBackSuccess(w) ==
    IF Closed(w)
    THEN /\ thread' = [thread EXCEPT ![w] = "ended"]
         /\ process' \in {"runs", "killed"}
         /\ UNCHANGED up
    ELSE /\ thread' = [thread EXCEPT ![w] = "reading"]
         /\ up' = [up EXCEPT ![w] = IF own'[down[w]] = 0 THEN down[w] ELSE @]
         /\ UNCHANGED process

\* The operation is written back.  If ~Worker() has closed the other end,
\* SIGPIPE kills the process or, when ignored, write() fails.
WriteBack(w) ==
    IF Closed(w)
    THEN /\ thread' = [thread EXCEPT ![w] = "ended"]
         /\ process' \in {"runs", "killed"}
         /\ UNCHANGED up
    ELSE /\ thread' = [thread EXCEPT ![w] = "reading"]
         /\ up' = [up EXCEPT ![w] = down[w]]
         /\ UNCHANGED process

\* The operation is performed and written back.
Performs(w) ==
    /\ process = "runs" /\ thread[w] = "performing"
    /\ \E outcome \in Outcomes(op[down[w]].kind) : Perform(w, outcome)
    /\ down' = [down EXCEPT ![w] = Null]
    /\ WriteBack(w)
    /\ UNCHANGED <<piped, created, serverVars, clientVars>>

-----------------------------------------------------------------------------
(***************************************************************************)
(* stop().                                                                 *)
(***************************************************************************)

\* stop(), called for a server all of whose POSIX threads exist.  ~Worker()
\* calls pthread_join() whether or not pthread_create() has set `thread'; after
\* one that failed it joins an indeterminate handle, which is undefined, and
\* no model is made of a server that is stopped then.
Stop ==
    /\ Cooperating /\ server = "running"
    /\ \A w \in Worker : created[w]
    /\ server' = "stopping"
    /\ UNCHANGED <<piped, created, thread, errno, down, up, undeleted, joining,
                   process, clientVars, operationVars>>

\* ~Worker() up to pthread_join(): the pipe to the worker is closed, and the
\* descriptors are destroyed under the client that waits for them.
DeleteWorker(w) ==
    /\ process = "runs" /\ server = "stopping"
    /\ joining = Null /\ w \in undeleted
    /\ joining' = w
    /\ pc' = [c \in Client |-> IF uses[c] = w THEN "dangling" ELSE pc[c]]
    /\ up' = [up EXCEPT ![w] = Null]
    /\ UNCHANGED <<piped, created, thread, errno, down, server, undeleted, process,
                   uses, calls, streamOpen, answer, operationVars>>

\* pthread_join() returns; after the last worker stop() returns.
Join ==
    /\ process = "runs" /\ joining # Null /\ thread[joining] = "ended"
    /\ undeleted' = undeleted \ {joining}
    /\ joining' = Null
    /\ server' = IF undeleted' = {} THEN "stopped" ELSE server
    /\ UNCHANGED <<piped, created, thread, errno, down, up, process, clientVars,
                   operationVars>>

Next ==
    \/ \E c \in Client : OpenDir(c)
    \/ \E c \in Client : ReadDir(c)
    \/ \E c \in Client : CloseDir(c)
    \/ \E c \in Client : Finish(c)
    \/ \E w \in Worker : Reads(w)
    \/ \E w \in Worker : Ends(w)
    \/ \E w \in Worker : Interrupted(w)
    \/ \E w \in Worker : Performs(w)
    \/ Stop
    \/ \E w \in Worker : DeleteWorker(w)
    \/ Join

Spec == Init /\ [][Next]_vars

\* Operations return, a result wakes its reader, and delete [] goes on.
Fairness ==
    /\ \A c \in Client : WF_vars(Finish(c))
    /\ \A w \in Worker : WF_vars(Reads(w)) /\ WF_vars(Ends(w)) /\ WF_vars(Performs(w))
    /\ WF_vars(\E w \in Worker : DeleteWorker(w))
    /\ WF_vars(Join)

FairSpec == Spec /\ Fairness

-----------------------------------------------------------------------------
(***************************************************************************)
(* Properties.                                                             *)
(***************************************************************************)

\* The operation is an object on the client's stack: a worker has it only
\* while its client is in execute() (Dirent.cc:33-34), or was thrown out of it
\* by stop() (IOServer.cc:261).
OperationOutlivesWork ==
    \A w \in Worker, c \in Client : c \in {down[w], up[w]} =>
        uses[c] = w /\ (pc[c] = "dangling" => Closed(w))

\* A call says that its operation was executed if and only if it was performed,
\* and then once, whichever pipe is missing and whoever is interrupted.
AnswerIsTrue ==
    \A c \in Client : pc[c] = "outside" =>
        performed[c] = IF answer[c].executed THEN 1 ELSE 0

\* The errno that a failed call leaves is the error of its own operation
\* (IOServer.h:66, Dirent.cc:35), although workers perform operations of
\* different clients one after the other.
FailureTellsWhy ==
    \A c \in Client :
        pc[c] = "outside" /\ answer[c].executed /\ own[c] # 0
            => answer[c].result = "failure" /\ answer[c].errno = own[c]

\* No POSIX thread runs on a deleted Worker: when ~Worker() returns, the
\* thread that was given `this' has ended.
WorkerOutlivesThread ==
    \A w \in Worker : thread[w] # "ended" => w \in undeleted

\* Every operation that a client waits for comes back, unless the worker's
\* loop has been ended by a signal or was never started, or the program stops.
CallsReturn ==
    \A c \in Client :
        pc[c] = "executing" ~>
            \/ pc[c] # "executing"
            \/ thread[uses[c]] = "ended"
            \/ process # "runs"

\* stop() returns, whatever the workers are doing when it is called.
StopReturns == server = "stopping" ~> server = "stopped" \/ process # "runs"

\* The process is killed only by a stop() with an operation in progress, which
\* closes the pipe that the result is to be written to.
KilledOnlyByStop ==
    process = "killed" => \E c \in Client : pc[c] = "dangling" /\ uses[c] = joining

\* Where the operation of a client is, read off the pipe to its worker and what
\* the worker's thread does.
request ==
    [c \in Client |->
        IF uses[c] = Null THEN "none"
        ELSE IF down[uses[c]] # c THEN "performed"
        ELSE IF thread[uses[c]] = "performing" THEN "performing"
        ELSE "asked"]

Exec == INSTANCE Executor WITH Capacity <- Cardinality(Worker)

\* Whatever is missing, interrupted or being destroyed, the workers never do
\* anything but execute each operation once.
ExecutorSpec == Exec!Spec
==============================================================================
