---------------------------- MODULE WorkersProofs ----------------------------
(***************************************************************************)
(* The invariants of Workers for any number of clients and workers, and    *)
(* any set of errors, and that what goes on inside implements the Executor *)
(* that the pool of workers implements.                                    *)
(***************************************************************************)
EXTENDS Workers, FiniteSetTheorems, TLAPS

-----------------------------------------------------------------------------
(***************************************************************************)
(* The inductive invariant.                                                *)
(***************************************************************************)

\* An operation is in the pipe of the worker that its client uses: in the one
\* before it is performed, in the other afterwards.
InTransit ==
    /\ \A w \in Worker : thread[w] = "performing" => down[w] # Null
    /\ \A w \in Worker, c \in Client :
           /\ down[w] = c => uses[c] = w /\ performed[c] = 0
           /\ up[w] = c => uses[c] = w /\ performed[c] = 1

\* No two clients use the same worker.
OwnWorker == \A c, d \in Client : uses[c] # Null /\ uses[c] = uses[d] => c = d

\* Exactly the clients of workers whose destruction has begun were thrown out.
ThrownOut ==
    /\ server = "running" => undeleted = Worker /\ joining = Null
    /\ \A c \in Client : uses[c] # Null => (pc[c] = "dangling" <=> Closed(uses[c]))

\* The number in an operation is that of its own failure.
ErrorKept ==
    \A c \in Client : performed[c] = 1 /\ own[c] # 0 =>
        op[c].result = "failure" /\ op[c].errorNumber = own[c]

Inv ==
    /\ TypeOK
    /\ InTransit
    /\ OwnWorker
    /\ ThrownOut
    /\ ErrorKept
    /\ AnswerIsTrue
    /\ FailureTellsWhy
    /\ WorkerOutlivesThread
    /\ KilledOnlyByStop

LEMMA InvInit == Init => Inv
<1> SUFFICES ASSUME Init
             PROVE  Inv
  OBVIOUS
<1>1. TypeOK
  BY WorkersAssumption DEF Init, TypeOK, NewOperation, NoAnswer, Kind, Outcome
<1>2. InTransit /\ OwnWorker /\ ThrownOut /\ ErrorKept
  BY WorkersAssumption DEF Init, InTransit, OwnWorker, ThrownOut, ErrorKept
<1>3. AnswerIsTrue /\ FailureTellsWhy /\ WorkerOutlivesThread /\ KilledOnlyByStop
  BY DEF Init, AnswerIsTrue, FailureTellsWhy, WorkerOutlivesThread, KilledOnlyByStop, NoAnswer
<1> QED
  BY <1>1, <1>2, <1>3 DEF Inv

-----------------------------------------------------------------------------
(***************************************************************************)
(* Clients.                                                                *)
(***************************************************************************)

\* A call that is refused.
LEMMA RefusedKeeps ==
    ASSUME Inv, NEW c \in Client, NEW k \in Kind, Call(c, k), Refused(c)
    PROVE  Inv'
<1> USE WorkersAssumption DEF Call, Refused, serverVars
<1>1. TypeOK'
  BY DEF Inv, TypeOK, NewOperation, NoAnswer, Kind, Outcome
<1>2. InTransit'
  BY DEF Inv, TypeOK, InTransit
<1>3. OwnWorker' /\ ThrownOut'
  BY DEF Inv, OwnWorker, ThrownOut, Closed
<1>4. ErrorKept'
  BY DEF Inv, TypeOK, ErrorKept
<1>5. AnswerIsTrue'
  BY DEF Inv, TypeOK, AnswerIsTrue, NoAnswer
<1>6. FailureTellsWhy'
  BY DEF Inv, TypeOK, FailureTellsWhy, NoAnswer
<1>7. WorkerOutlivesThread' /\ KilledOnlyByStop'
  BY DEF Inv, WorkerOutlivesThread, KilledOnlyByStop
<1> QED
  BY <1>1, <1>2, <1>3, <1>4, <1>5, <1>6, <1>7 DEF Inv

\* A call that has started its operation on a worker nobody uses.
LEMMA StartedKeeps ==
    ASSUME Inv, NEW c \in Client, NEW k \in Kind, Call(c, k), server = "running",
           NEW w \in Worker \ {uses[d] : d \in Client}, "down" \in piped[w], ExecuteOn(c, w)
    PROVE  Inv'
<1> USE WorkersAssumption
<1>1. /\ w \in Worker /\ \A d \in Client : uses[d] # w
      /\ process = "runs" /\ pc[c] = "outside" /\ uses[c] = Null
  BY DEF Call, Cooperating, Inv, TypeOK
<1>2. /\ op' = [op EXCEPT ![c] = NewOperation(k)]
      /\ own' = [own EXCEPT ![c] = 0]
      /\ performed' = [performed EXCEPT ![c] = 0]
      /\ calls[c] < MaxCalls /\ calls' = [calls EXCEPT ![c] = @ + 1]
      /\ UNCHANGED <<piped, created, thread, errno, up, server, undeleted, joining>>
  BY DEF Call, serverVars
<1>3. /\ down' = [down EXCEPT ![w] = c]
      /\ pc' = [pc EXCEPT ![c] = "executing"]
      /\ uses' = [uses EXCEPT ![c] = w]
      /\ process' \in {"runs", "aborted"}
      /\ UNCHANGED <<streamOpen, answer>>
  BY <1>1 DEF ExecuteOn
<1>4. TypeOK'
  <2>1. NewOperation(k) \in [kind : Kind, result : Outcome, errorNumber : Error \cup {0}]
    BY DEF NewOperation, Outcome
  <2>2. \A d \in Client : uses'[d] = Null <=> pc'[d] = "outside"
    BY <1>1, <1>3 DEF Inv, TypeOK
  <2> QED
    BY <1>1, <1>2, <1>3, <2>1, <2>2 DEF Inv, TypeOK
<1>5. InTransit'
  <2>1. \A x \in Worker : down[x] # c /\ up[x] # c
    BY <1>1 DEF Inv, InTransit
  <2>2. down[w] \notin Client /\ up[w] \notin Client
    BY <1>1 DEF Inv, InTransit
  <2>3. ASSUME NEW x \in Worker, NEW d \in Client, down'[x] = d
        PROVE  uses'[d] = x /\ performed'[d] = 0
    BY <1>1, <1>2, <1>3, <2>1, <2>2, <2>3 DEF Inv, TypeOK, InTransit
  <2>4. ASSUME NEW x \in Worker, NEW d \in Client, up'[x] = d
        PROVE  uses'[d] = x /\ performed'[d] = 1
    BY <1>1, <1>2, <1>3, <2>1, <2>2, <2>4 DEF Inv, TypeOK, InTransit
  <2>5. \A x \in Worker : thread'[x] = "performing" => down'[x] # Null
    BY <1>2, <1>3 DEF Inv, TypeOK, InTransit
  <2> QED
    BY <2>3, <2>4, <2>5 DEF InTransit
<1>6. OwnWorker'
  BY <1>1, <1>3 DEF Inv, TypeOK, OwnWorker
<1>7. ThrownOut'
  BY <1>1, <1>2, <1>3 DEF Inv, TypeOK, ThrownOut, Closed
<1>8. ErrorKept'
  BY <1>2 DEF Inv, TypeOK, ErrorKept
<1>9. AnswerIsTrue'
  BY <1>2, <1>3 DEF Inv, TypeOK, AnswerIsTrue
<1>10. FailureTellsWhy'
  BY <1>2, <1>3 DEF Inv, TypeOK, FailureTellsWhy
<1>11. WorkerOutlivesThread' /\ KilledOnlyByStop'
  BY <1>2, <1>3 DEF Inv, WorkerOutlivesThread, KilledOnlyByStop
<1> QED
  BY <1>4, <1>5, <1>6, <1>7, <1>8, <1>9, <1>10, <1>11 DEF Inv

LEMMA CallKeeps == ASSUME Inv, NEW c \in Client, NEW k \in Kind, Call(c, k) PROVE Inv'
<1>1. CASE Refused(c)
  BY <1>1, RefusedKeeps
<1>2. CASE ~Refused(c)
  <2>1. PICK w \in Worker \ {uses[d] : d \in Client} : server = "running" /\ ExecuteOn(c, w)
    BY <1>2 DEF Call
  <2>2. "down" \in piped[w]
    BY <1>2, <2>1 DEF ExecuteOn
  <2> QED
    BY <2>1, <2>2, StartedKeeps
<1> QED
  BY <1>1, <1>2

LEMMA FinishKeeps == ASSUME Inv, NEW c \in Client, Finish(c) PROVE Inv'
<1> USE WorkersAssumption DEF Finish, ResultRead, serverVars, operationVars
<1>1. uses[c] \in Worker /\ up[uses[c]] = c /\ performed[c] = 1
  BY DEF Inv, TypeOK, InTransit
<1>2. TypeOK'
  <2>1. answer' \in [Client -> [executed : BOOLEAN, result : Outcome, errno : Error \cup {0}]]
    <3>1. op[c].result \in Outcome /\ op[c].errorNumber \in Error \cup {0}
      BY DEF Inv, TypeOK
    <3> QED
      BY <3>1 DEF Inv, TypeOK
  <2>2. streamOpen' \in [Client -> BOOLEAN]
    <3>1. op[c].kind \in {"opendir", "readdir", "closedir"}
      BY DEF Inv, TypeOK, Kind
    <3> QED
      BY <3>1 DEF Inv, TypeOK
  <2>3. \A d \in Client : uses'[d] = Null <=> pc'[d] = "outside"
    BY DEF Inv, TypeOK
  <2> QED
    BY <1>1, <2>1, <2>2, <2>3 DEF Inv, TypeOK
<1>3. InTransit'
  <2>1. \A w \in Worker : down[w] # c
    BY <1>1 DEF Inv, InTransit
  <2> QED
    BY <1>1, <2>1 DEF Inv, TypeOK, InTransit
<1>4. OwnWorker' /\ ThrownOut'
  BY <1>1 DEF Inv, TypeOK, OwnWorker, ThrownOut, Closed
<1>5. ErrorKept'
  BY DEF Inv, ErrorKept
<1>6. AnswerIsTrue' /\ FailureTellsWhy'
  BY <1>1 DEF Inv, TypeOK, AnswerIsTrue, FailureTellsWhy, ErrorKept
<1>7. WorkerOutlivesThread' /\ KilledOnlyByStop'
  BY DEF Inv, TypeOK, WorkerOutlivesThread, KilledOnlyByStop, Cooperating
<1> QED
  BY <1>2, <1>3, <1>4, <1>5, <1>6, <1>7 DEF Inv

-----------------------------------------------------------------------------
(***************************************************************************)
(* Workers.                                                                *)
(***************************************************************************)

\* Steps that change nothing but what some threads do.
LEMMA ThreadsOnly ==
    ASSUME Inv, thread' \in [Worker -> {"reading", "performing", "ended"}],
           UNCHANGED <<piped, created, errno, down, up, serverVars, process, clientVars,
                       operationVars>>,
           \A w \in Worker : thread'[w] = "performing" => down[w] # Null,
           \A w \in Worker : thread[w] = "ended" => thread'[w] = "ended"
    PROVE  Inv'
<1> USE DEF serverVars, clientVars, operationVars
<1>1. TypeOK'
  BY DEF Inv, TypeOK
<1>2. InTransit' /\ OwnWorker' /\ ErrorKept'
  BY DEF Inv, InTransit, OwnWorker, ErrorKept
<1>3. ThrownOut'
  BY DEF Inv, ThrownOut, Closed
<1>4. AnswerIsTrue' /\ FailureTellsWhy' /\ KilledOnlyByStop'
  BY DEF Inv, AnswerIsTrue, FailureTellsWhy, KilledOnlyByStop
<1>5. WorkerOutlivesThread'
  BY DEF Inv, WorkerOutlivesThread
<1> QED
  BY <1>1, <1>2, <1>3, <1>4, <1>5 DEF Inv

LEMMA ReadsKeeps == ASSUME Inv, NEW w \in Worker, Reads(w) PROVE Inv'
BY ThreadsOnly DEF Reads, Reading, Inv, TypeOK, InTransit

LEMMA EndsKeeps == ASSUME Inv, NEW w \in Worker, Ends(w) PROVE Inv'
BY ThreadsOnly DEF Ends, Reading, Inv, TypeOK, InTransit

LEMMA InterruptedKeeps == ASSUME Inv, NEW w \in Worker, Interrupted(w) PROVE Inv'
BY ThreadsOnly DEF Interrupted, Reading, Inv, TypeOK, InTransit

\* What a function of dirent.h reports.
LEMMA OutcomeFacts ==
    ASSUME NEW k \in Kind, NEW outcome \in Outcomes(k)
    PROVE  /\ outcome[1] \in Outcome /\ outcome[2] \in Error \cup {0}
           /\ outcome[2] # 0 => outcome[1] = "failure"
<1>1. CASE k = "opendir"
  BY <1>1 DEF Outcomes, OpenDirOutcomes, Outcome
<1>2. CASE k = "readdir"
  BY <1>2 DEF Outcomes, ReadDirOutcomes, Outcome
<1>3. CASE k = "closedir"
  BY <1>3 DEF Outcomes, CloseDirOutcomes, Outcome
<1> QED
  BY <1>1, <1>2, <1>3 DEF Kind

LEMMA PerformsKeeps == ASSUME Inv, NEW w \in Worker, Performs(w) PROVE Inv'
<1> USE WorkersAssumption
<1> DEFINE c == down[w]
<1>1. /\ c \in Client /\ uses[c] = w /\ performed[c] = 0 /\ up[w] # c
      /\ thread[w] = "performing" /\ process = "runs" /\ pc[c] # "outside"
      /\ w \in undeleted
  <2>1. c \in Client
    BY DEF Performs, Inv, TypeOK, InTransit
  <2> QED
    BY <2>1 DEF Performs, Inv, TypeOK, InTransit, WorkerOutlivesThread
<1>2. PICK outcome \in Outcomes(op[c].kind) : Perform(w, outcome)
  BY DEF Performs
<1>3. /\ outcome[1] \in Outcome /\ outcome[2] \in Error \cup {0}
      /\ outcome[2] # 0 => outcome[1] = "failure"
  <2>1. op[c].kind \in Kind
    BY <1>1 DEF Inv, TypeOK
  <2> QED
    BY <2>1, OutcomeFacts
<1>4. /\ errno' = [errno EXCEPT ![w] = IF outcome[2] = 0 THEN @ ELSE outcome[2]]
      /\ op' = [op EXCEPT ![c] = [@ EXCEPT !.result = outcome[1], !.errorNumber = errno'[w]]]
      /\ own' = [own EXCEPT ![c] = outcome[2]]
      /\ performed' = [performed EXCEPT ![c] = 1]
  BY <1>1, <1>2 DEF Perform
<1>5. /\ down' = [down EXCEPT ![w] = Null]
      /\ thread' \in [Worker -> {"reading", "performing", "ended"}]
      /\ thread' \in {[thread EXCEPT ![w] = "reading"], [thread EXCEPT ![w] = "ended"]}
      /\ up' \in {up, [up EXCEPT ![w] = c]}
      /\ process' \in {"runs", "killed"}
      /\ process' = "killed" => Closed(w)
      /\ UNCHANGED <<piped, created, serverVars, clientVars>>
  BY <1>1 DEF Performs, WriteBack, Inv, TypeOK
<1> HIDE DEF c
<1> USE DEF serverVars, clientVars
<1>6. errno'[w] \in Error \cup {0} /\ errno' \in [Worker -> Error \cup {0}]
  BY <1>3, <1>4 DEF Inv, TypeOK
<1>7. /\ op' \in [Client -> [kind : Kind, result : Outcome, errorNumber : Error \cup {0}]]
      /\ op'[c].result = outcome[1] /\ op'[c].errorNumber = errno'[w]
      /\ \A d \in Client : d # c => op'[d] = op[d]
  <2> DEFINE Operation == [kind : Kind, result : Outcome, errorNumber : Error \cup {0}]
  <2>1. op \in [Client -> Operation] /\ op[c] \in Operation
    BY <1>1 DEF Inv, TypeOK
  <2> DEFINE r == [op[c] EXCEPT !.result = outcome[1], !.errorNumber = errno'[w]]
  <2>2. r \in Operation /\ r.result = outcome[1] /\ r.errorNumber = errno'[w]
    BY <1>3, <1>6, <2>1
  <2>3. op' = [op EXCEPT ![c] = r]
    BY <1>1, <1>4, <2>1
  <2> HIDE DEF Operation, r
  <2>4. op' \in [Client -> Operation] /\ op'[c] = r /\ \A d \in Client : d # c => op'[d] = op[d]
    BY <1>1, <2>1, <2>2, <2>3
  <2> QED
    BY <2>2, <2>4 DEF Operation
<1>8. TypeOK'
  <2>1. own' \in [Client -> Error \cup {0}] /\ performed' \in [Client -> 0 .. 1]
    BY <1>1, <1>3, <1>4 DEF Inv, TypeOK
  <2>2. down' \in [Worker -> Client \cup {Null}] /\ up' \in [Worker -> Client \cup {Null}]
    <3>1. down \in [Worker -> Client \cup {Null}] /\ up \in [Worker -> Client \cup {Null}]
      BY DEF Inv, TypeOK
    <3> QED
      BY <1>1, <1>5, <3>1
  <2> QED
    BY <1>5, <1>6, <1>7, <2>1, <2>2 DEF Inv, TypeOK
<1>9. InTransit'
  <2>1. \A x \in Worker : thread'[x] = "performing" => down'[x] # Null
    BY <1>5 DEF Inv, TypeOK, InTransit
  <2>2. ASSUME NEW x \in Worker, NEW d \in Client, down'[x] = d
        PROVE  uses'[d] = x /\ performed'[d] = 0
    BY <1>1, <1>4, <1>5, <2>2 DEF Inv, TypeOK, InTransit
  <2>3. ASSUME NEW x \in Worker, NEW d \in Client, up'[x] = d
        PROVE  uses'[d] = x /\ performed'[d] = 1
    BY <1>1, <1>4, <1>5, <2>3 DEF Inv, TypeOK, InTransit
  <2> QED
    BY <2>1, <2>2, <2>3 DEF InTransit
<1>10. OwnWorker' /\ ThrownOut'
  BY <1>5 DEF Inv, OwnWorker, ThrownOut, Closed
<1>11. ErrorKept'
  BY <1>1, <1>3, <1>4, <1>7 DEF Inv, TypeOK, ErrorKept
<1>12. AnswerIsTrue' /\ FailureTellsWhy'
  BY <1>1, <1>4, <1>5 DEF Inv, TypeOK, AnswerIsTrue, FailureTellsWhy
<1>13. WorkerOutlivesThread'
  BY <1>1, <1>5 DEF Inv, TypeOK, WorkerOutlivesThread
<1>14. KilledOnlyByStop'
  <2>1. SUFFICES ASSUME process' = "killed"
                 PROVE  pc[c] = "dangling" /\ uses[c] = joining
    BY <1>1, <1>5 DEF KilledOnlyByStop
  <2>2. Closed(w) /\ w = joining
    BY <1>1, <1>5, <2>1 DEF Closed
  <2> QED
    BY <1>1, <2>2 DEF Inv, ThrownOut
<1> QED
  BY <1>8, <1>9, <1>10, <1>11, <1>12, <1>13, <1>14 DEF Inv

-----------------------------------------------------------------------------
(***************************************************************************)
(* stop().                                                                 *)
(***************************************************************************)

LEMMA StopKeeps == ASSUME Inv, Stop PROVE Inv'
<1> USE DEF Stop, clientVars, operationVars
<1>1. TypeOK'
  BY DEF Inv, TypeOK
<1>2. InTransit' /\ OwnWorker' /\ ErrorKept'
  BY DEF Inv, InTransit, OwnWorker, ErrorKept
<1>3. ThrownOut'
  BY DEF Inv, ThrownOut, Closed
<1>4. AnswerIsTrue' /\ FailureTellsWhy' /\ KilledOnlyByStop'
  BY DEF Inv, AnswerIsTrue, FailureTellsWhy, KilledOnlyByStop
<1>5. WorkerOutlivesThread'
  BY DEF Inv, WorkerOutlivesThread
<1> QED
  BY <1>1, <1>2, <1>3, <1>4, <1>5 DEF Inv

LEMMA DeleteWorkerKeeps == ASSUME Inv, NEW w \in Worker, DeleteWorker(w) PROVE Inv'
<1> USE WorkersAssumption DEF DeleteWorker, operationVars
<1>1. TypeOK'
  <2>1. pc' \in [Client -> {"outside", "executing", "dangling"}]
    BY DEF Inv, TypeOK
  <2>2. \A c \in Client : uses'[c] = Null <=> pc'[c] = "outside"
    BY DEF Inv, TypeOK
  <2> QED
    BY <2>1, <2>2 DEF Inv, TypeOK
<1>2. InTransit' /\ OwnWorker' /\ ErrorKept'
  BY DEF Inv, TypeOK, InTransit, OwnWorker, ErrorKept
<1>3. ThrownOut'
  BY DEF Inv, TypeOK, ThrownOut, Closed
<1>4. AnswerIsTrue' /\ FailureTellsWhy' /\ KilledOnlyByStop'
  BY DEF Inv, TypeOK, AnswerIsTrue, FailureTellsWhy, KilledOnlyByStop
<1>5. WorkerOutlivesThread'
  BY DEF Inv, WorkerOutlivesThread
<1> QED
  BY <1>1, <1>2, <1>3, <1>4, <1>5 DEF Inv

LEMMA JoinKeeps == ASSUME Inv, Join PROVE Inv'
<1> USE WorkersAssumption DEF Join, clientVars, operationVars
<1>1. TypeOK'
  BY DEF Inv, TypeOK
<1>2. InTransit' /\ OwnWorker' /\ ErrorKept'
  BY DEF Inv, InTransit, OwnWorker, ErrorKept
<1>3. ThrownOut'
  <2>1. server # "running" /\ server' # "running"
    BY DEF Inv, ThrownOut
  <2>2. \A w \in Worker : Closed(w)' <=> Closed(w)
    BY DEF Closed
  <2> QED
    BY <2>1, <2>2 DEF Inv, TypeOK, ThrownOut
<1>4. AnswerIsTrue' /\ FailureTellsWhy' /\ KilledOnlyByStop'
  BY DEF Inv, AnswerIsTrue, FailureTellsWhy, KilledOnlyByStop
<1>5. WorkerOutlivesThread'
  BY DEF Inv, WorkerOutlivesThread
<1> QED
  BY <1>1, <1>2, <1>3, <1>4, <1>5 DEF Inv

-----------------------------------------------------------------------------
LEMMA InvNext == Inv /\ [Next]_vars => Inv'
<1> SUFFICES ASSUME Inv, [Next]_vars
             PROVE  Inv'
  OBVIOUS
<1>1. ASSUME NEW c \in Client, OpenDir(c) \/ ReadDir(c) \/ CloseDir(c)
      PROVE  Inv'
  BY <1>1, CallKeeps DEF OpenDir, ReadDir, CloseDir, Kind
<1>2. CASE UNCHANGED vars
  BY <1>2, ThreadsOnly DEF vars, Inv, TypeOK, InTransit
<1> QED
  BY <1>1, <1>2, FinishKeeps, ReadsKeeps, EndsKeeps, InterruptedKeeps, PerformsKeeps,
     StopKeeps, DeleteWorkerKeeps, JoinKeeps DEF Next

LEMMA InvAlways == Spec => []Inv
  BY InvInit, InvNext, PTL DEF Spec

\* An operation in a pipe belongs to a client that has not gone on.
LEMMA TransitOutlived == Inv => OperationOutlivesWork
  BY WorkersAssumption DEF Inv, TypeOK, InTransit, ThrownOut, OperationOutlivesWork

-----------------------------------------------------------------------------
(***************************************************************************)
(* The theorems.                                                           *)
(***************************************************************************)

\* Pipes, threads and answers are what they are declared to be, and a client
\* uses a worker exactly while it is in execute().
THEOREM TypeCorrect == Spec => []TypeOK
<1>1. Inv => TypeOK
  BY DEF Inv
<1> QED
  BY <1>1, InvAlways, PTL

\* No worker has an operation whose client left execute() with its stack
\* frame (Dirent.cc:33-34), except by stop().
THEOREM OperationIsOutlived == Spec => []OperationOutlivesWork
  BY TransitOutlived, InvAlways, PTL

\* execute() returns true if and only if its operation was performed, once
\* (IOServer.cc:224-232).
THEOREM AnswersAreTrue == Spec => []AnswerIsTrue
<1>1. Inv => AnswerIsTrue
  BY DEF Inv
<1> QED
  BY <1>1, InvAlways, PTL

\* The errno of a failed call is that of its own function (IOServer.cc:211-215).
THEOREM FailuresTellWhy == Spec => []FailureTellsWhy
<1>1. Inv => FailureTellsWhy
  BY DEF Inv
<1> QED
  BY <1>1, InvAlways, PTL

\* pthread_join() in ~Worker() (IOServer.cc:163) is waited for in any order
\* of signals, ends of pipes and operations.
THEOREM WorkersOutliveThreads == Spec => []WorkerOutlivesThread
<1>1. Inv => WorkerOutlivesThread
  BY DEF Inv
<1> QED
  BY <1>1, InvAlways, PTL

\* SIGPIPE comes only from a stop() that threw a client out (IOServer.cc:261).
THEOREM KilledOnlyWhileStopping == Spec => []KilledOnlyByStop
<1>1. Inv => KilledOnlyByStop
  BY DEF Inv
<1> QED
  BY <1>1, InvAlways, PTL

-----------------------------------------------------------------------------
(***************************************************************************)
(* The inside of the workers implements Executor.                          *)
(***************************************************************************)

\* A client whose worker does nothing for it keeps its stage.
LEMMA StageKept ==
    ASSUME NEW c \in Client, uses'[c] = uses[c],
           uses[c] # Null => /\ down'[uses[c]] = c <=> down[uses[c]] = c
                             /\ thread'[uses[c]] = "performing" /\ down[uses[c]] = c
                                  <=> thread[uses[c]] = "performing" /\ down[uses[c]] = c
    PROVE  request'[c] = request[c]
  BY DEF request

\* One client moves, or none does.
LEMMA OneMoves ==
    ASSUME NEW c \in Client, NEW from, NEW to, request[c] = from, request'[c] = to,
           \A d \in Client \ {c} : request'[d] = request[d]
    PROVE  Exec!Move(c, from, to)
<1>1. /\ request = [d \in Client |-> request[d]]
      /\ request' = [d \in Client |-> request'[d]]
  BY DEF request
<1> HIDE DEF request
<1>2. request' = [request EXCEPT ![c] = to]
  BY <1>1
<1> QED
  BY <1>2 DEF Exec!Move

LEMMA NoneMoves ==
    ASSUME \A d \in Client : request'[d] = request[d]
    PROVE  request' = request
<1>1. /\ request = [d \in Client |-> request[d]]
      /\ request' = [d \in Client |-> request'[d]]
  BY DEF request
<1> QED
  BY <1>1

\* Who has an operation performed uses a worker that performs, and no other
\* client uses it: while a worker reads there is room for one more.
LEMMA RoomToBegin ==
    ASSUME Inv, NEW w \in Worker, thread[w] = "reading"
    PROVE  Cardinality(Exec!In("performing")) < Cardinality(Worker)
<1> DEFINE P == Exec!In("performing")
           h == [c \in P |-> uses[c]]
<1>1. ASSUME NEW c \in P
      PROVE  c \in Client /\ uses[c] \in Worker \ {w}
  <2>1. c \in Client /\ request[c] = "performing"
    BY DEF Exec!In
  <2>2. uses[c] # Null /\ thread[uses[c]] = "performing"
    BY <2>1 DEF request
  <2> QED
    BY <2>1, <2>2 DEF Inv, TypeOK
<1> HIDE DEF P
<1>2. h \in [P -> Worker \ {w}]
  BY <1>1
<1>3. IsInjective(h)
  BY <1>1, WorkersAssumption DEF IsInjective, Inv, OwnWorker
<1>4. h \in Injection(P, Worker \ {w})
  BY <1>2, <1>3 DEF Injection
<1>5. /\ IsFiniteSet(Worker \ {w}) /\ IsFiniteSet(Worker)
      /\ Cardinality(Worker \ {w}) = Cardinality(Worker) - 1
  BY WorkersAssumption, FS_RemoveElement
<1>6. IsFiniteSet(P) /\ Cardinality(P) <= Cardinality(Worker \ {w})
  BY <1>4, <1>5, FS_Injection
<1>7. Cardinality(P) \in Nat /\ Cardinality(Worker) \in Nat
  BY <1>5, <1>6, FS_CardinalityType
<1>8. Cardinality(P) < Cardinality(Worker)
  BY <1>5, <1>6, <1>7
<1> QED
  BY <1>8 DEF P

\* A call that is started asks, and one that is refused does nothing.
LEMMA CallAsks ==
    ASSUME Inv, NEW c \in Client, NEW k \in Kind, Call(c, k)
    PROVE  Exec!Next \/ request' = request
<1>1. CASE UNCHANGED <<uses, down>>
  BY <1>1 DEF Call, request
<1>2. CASE ~UNCHANGED <<uses, down>>
  <2>1. PICK w \in Worker \ {uses[d] : d \in Client} : "down" \in piped[w] /\ ExecuteOn(c, w)
    BY <1>2 DEF Call, Refused, ExecuteOn
  <2>2. /\ uses[c] = Null /\ w \in Worker /\ \A d \in Client : uses[d] # w
        /\ thread' = thread
    BY <2>1 DEF Call, Inv, TypeOK
  <2>3. down' = [down EXCEPT ![w] = c] /\ uses' = [uses EXCEPT ![c] = w]
    BY <2>1 DEF ExecuteOn
  <2>4. thread[w] # "performing"
    BY <2>2 DEF Inv, TypeOK, InTransit
  <2>5. /\ down'[w] = c /\ \A v \in Worker \ {w} : down'[v] = down[v]
        /\ uses'[c] = w /\ \A d \in Client \ {c} : uses'[d] = uses[d]
    BY <2>2, <2>3 DEF Inv, TypeOK
  <2>6. request[c] = "none" /\ request'[c] = "asked"
    BY <2>2, <2>4, <2>5, WorkersAssumption DEF request
  <2>7. \A d \in Client \ {c} : request'[d] = request[d]
    <3>1. \A d \in Client : uses[d] # Null => uses[d] \in Worker \ {w}
      BY <2>2 DEF Inv, TypeOK
    <3> QED
      BY <2>2, <2>5, <3>1, StageKept
  <2>8. Exec!Ask(c)
    BY <2>6, <2>7, OneMoves DEF Exec!Ask
  <2> QED
    BY <2>8 DEF Exec!Next
<1> QED
  BY <1>1, <1>2

\* What waitResult() reads has been performed.
LEMMA FinishAnswers ==
    ASSUME Inv, NEW c \in Client, Finish(c)
    PROVE  Exec!Next
<1>1. /\ pc[c] = "executing" /\ up[uses[c]] = c
      /\ uses' = [uses EXCEPT ![c] = Null] /\ UNCHANGED <<down, thread>>
  BY DEF Finish, ResultRead
<1>2. uses[c] \in Worker /\ uses[c] # Null /\ down[uses[c]] # c
  BY <1>1, WorkersAssumption DEF Inv, TypeOK, InTransit
<1>3. uses'[c] = Null /\ \A d \in Client \ {c} : uses'[d] = uses[d]
  BY <1>1 DEF Inv, TypeOK
<1>4. request[c] = "performed" /\ request'[c] = "none"
  BY <1>2, <1>3 DEF request
<1>5. \A d \in Client \ {c} : request'[d] = request[d]
  BY <1>1, <1>3, StageKept
<1> QED
  BY <1>4, <1>5, OneMoves DEF Exec!Answer, Exec!Next

LEMMA ReadsBegins ==
    ASSUME Inv, NEW w \in Worker, Reads(w)
    PROVE  Exec!Next
<1> DEFINE c == down[w]
<1>1. /\ thread[w] = "reading" /\ c # Null
      /\ thread' = [thread EXCEPT ![w] = "performing"] /\ UNCHANGED <<uses, down>>
  BY DEF Reads, Reading, clientVars
<1>2. c \in Client /\ uses[c] = w /\ w # Null
  BY <1>1, WorkersAssumption DEF Inv, TypeOK, InTransit
<1>3. thread'[w] = "performing" /\ \A v \in Worker \ {w} : thread'[v] = thread[v]
  BY <1>1 DEF Inv, TypeOK
<1>4. request[c] = "asked" /\ request'[c] = "performing"
  BY <1>1, <1>2, <1>3 DEF request
<1>5. \A d \in Client \ {c} : request'[d] = request[d]
  <2>1. \A d \in Client \ {c} : uses[d] # Null => uses[d] \in Worker \ {w}
    BY <1>2 DEF Inv, TypeOK, OwnWorker
  <2> QED
    BY <1>1, <1>3, <2>1, StageKept
<1>6. Exec!Begin(c)
  <2>1. Exec!Move(c, "asked", "performing")
    BY <1>2, <1>4, <1>5, OneMoves
  <2>2. Cardinality(Exec!In("performing")) < Cardinality(Worker)
    BY <1>1, RoomToBegin
  <2>3. Exec!Cardinality(Exec!In("performing")) = Cardinality(Exec!In("performing"))
    BY DEF Exec!Cardinality, Cardinality
  <2> QED
    BY <2>1, <2>2, <2>3 DEF Exec!Begin
<1> QED
  BY <1>2, <1>6 DEF Exec!Next

LEMMA PerformsCompletes ==
    ASSUME Inv, NEW w \in Worker, Performs(w)
    PROVE  Exec!Next
<1> DEFINE c == down[w]
<1>1. /\ thread[w] = "performing" /\ c # Null
      /\ down' = [down EXCEPT ![w] = Null] /\ uses' = uses
      /\ thread' \in {[thread EXCEPT ![w] = "reading"], [thread EXCEPT ![w] = "ended"]}
  BY DEF Performs, WriteBack, clientVars, Inv, InTransit
<1>2. c \in Client /\ uses[c] = w /\ w # Null
  BY <1>1, WorkersAssumption DEF Inv, TypeOK, InTransit
<1>3. /\ down'[w] = Null
      /\ \A v \in Worker \ {w} : down'[v] = down[v] /\ thread'[v] = thread[v]
  BY <1>1 DEF Inv, TypeOK
<1>4. request[c] = "performing"
  BY <1>1, <1>2 DEF request
<1> HIDE DEF c
<1>5. request'[c] = "performed"
  BY <1>1, <1>2, <1>3, WorkersAssumption DEF request
<1>6. \A d \in Client \ {c} : request'[d] = request[d]
  <2>1. \A d \in Client \ {c} : uses[d] # Null => uses[d] \in Worker \ {w}
    BY <1>2 DEF Inv, TypeOK, OwnWorker
  <2> QED
    BY <1>1, <1>3, <2>1, StageKept
<1> QED
  BY <1>2, <1>4, <1>5, <1>6, OneMoves DEF Exec!Complete, Exec!Next

\* A thread that ends has no operation.
LEMMA EndStutters ==
    ASSUME Inv, NEW w \in Worker, Ends(w) \/ Interrupted(w)
    PROVE  request' = request
<1>1. /\ thread[w] = "reading" /\ down[w] = Null
      /\ thread' = [thread EXCEPT ![w] = "ended"] /\ UNCHANGED <<uses, down>>
  BY DEF Ends, Interrupted, Reading, clientVars
<1>2. \A v \in Worker \ {w} : thread'[v] = thread[v]
  BY <1>1 DEF Inv, TypeOK
<1>3. ASSUME NEW d \in Client
      PROVE  request'[d] = request[d]
  <2>1. CASE uses[d] = w
    BY <1>1, <2>1, StageKept, WorkersAssumption
  <2>2. CASE uses[d] # w
    <3>1. uses[d] # Null => uses[d] \in Worker \ {w}
      BY <2>2 DEF Inv, TypeOK
    <3> QED
      BY <1>1, <1>2, <3>1, StageKept
  <2> QED
    BY <2>1, <2>2
<1> QED
  BY <1>3, NoneMoves

LEMMA StepExecutes == Inv /\ [Next]_vars => [Exec!Next]_request
<1> SUFFICES ASSUME Inv, [Next]_vars
             PROVE  Exec!Next \/ request' = request
  OBVIOUS
<1>1. ASSUME NEW c \in Client, OpenDir(c) \/ ReadDir(c) \/ CloseDir(c)
      PROVE  Exec!Next \/ request' = request
  BY <1>1, CallAsks DEF OpenDir, ReadDir, CloseDir, Kind
<1>2. ASSUME Stop \/ (\E w \in Worker : DeleteWorker(w)) \/ Join \/ UNCHANGED vars
      PROVE  request' = request
  BY <1>2 DEF Stop, DeleteWorker, Join, vars, clientVars, request
<1> QED
  BY <1>1, <1>2, FinishAnswers, ReadsBegins, PerformsCompletes, EndStutters DEF Next

\* What goes on inside the workers is what IOServer takes it for: an operation
\* is performed once, by one worker, and after it was asked for, with missing
\* pipes, threads that were not created, signals and stop() (IOServer.cc:158-255).
THEOREM WorkersExecuteOnce == Spec => ExecutorSpec
<1>1. Init => Exec!Init
  BY DEF Init, request, Exec!Init
<1>2. Spec => Exec!Init /\ [][Exec!Next]_request
  BY <1>1, InvAlways, StepExecutes, PTL DEF Spec
<1> QED
  BY <1>2 DEF ExecutorSpec, Exec!Spec
==============================================================================
