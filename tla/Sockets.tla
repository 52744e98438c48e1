------------------------------- MODULE Sockets -------------------------------
(***************************************************************************)
(* Threaded sockets: a listener, a socket that connects to it and the one  *)
(* that accept() returns for the connection.  A socket has one waiter for  *)
(* reading and one for writing, so one thread may be in a call of either   *)
(* kind; other threads cancel the calls, shut the socket down or close it. *)
(*                                                                         *)
(* Both ends are in one process, in which one lightweight thread runs at a *)
(* time, from the beginning of a call, or from its resumption, until it    *)
(* blocks or has its answer; only the kernel does not wait for it.  How    *)
(* the loop finds out which waiter to release is the subject of PollLoop,  *)
(* and here one step of the kernel.                                        *)
(***************************************************************************)
EXTENDS Integers, Sequences

CONSTANTS Capacity,  \* bytes that the kernel takes for one direction
          MaxHanded, \* bound on the bytes that one end sends
          MaxEnds,   \* bound on resets, cancellations, shutdowns and closings
          Uses       \* the calls that a thread uses a side of a socket for

End == {"active", "passive"}
Socket == End \cup {"listener"}
Peer(s) == IF s = "active" THEN "passive" ELSE "active"

Side == {"read", "write"}
Waiter == (Socket \X Side) \ {<<"listener", "write">>}

\* sendAll stands for writeAll() too, and getError for connect() after its wait.
Receiving == {"recv", "read"}
Sending == {"send", "write", "sendAll"}
Call == Receiving \cup Sending \cup {"accept", "connect", "getError"}

ASSUME SocketsAssumption ==
    /\ {Capacity, MaxHanded} \subseteq Nat \ {0} /\ MaxEnds \in Nat
    /\ Uses \in [Waiter -> SUBSET Call]

Used == {w \in Waiter : Uses[w] # {}}

VARIABLES
    conn,     \* the connection: none, connecting, established, failed
    queued,   \* it waits in the backlog of the listener
    fd,       \* of a socket: unborn, open, closed
    shut,     \* the directions in which it is shut down
    reset,    \* the connection was reset, as this end sees it
    soError,  \* its SO_ERROR is set
    wire,     \* the bytes on the way to it, by their numbers
    handed,   \* how many bytes the kernel took from it
    got,      \* how many bytes were read from it
    thread,   \* the thread that uses the read or write side of a socket
    taken,    \* history: recv() took the error of a connect() in progress
    ends      \* the number of resets, cancellations, shutdowns and closings

connVars == <<conn, queued, fd, shut, reset, soError, wire, handed, got, taken>>
kernelVars == <<connVars, ends>>
vars == <<kernelVars, thread>>

\* value is what the call returned; data and len are the pointer and the
\* length of sendAll(), size the length it began with, and first the number of
\* bytes handed over before; cancel tells whether cancel() was called since the
\* call began, and returned true.  The result that unblock() stores is read by
\* a ready thread only.
Thread == [call : Call, at : {"out", "running", "blocked", "ready", "returned"},
           value : -1 .. MaxHanded,
           result : {"UNBLOCKED", "CANCELLED"}, cancel : {"no", "late", "yes"},
           first : 0 .. MaxHanded, size : 0 .. MaxHanded,
           data : 0 .. MaxHanded, len : 0 .. MaxHanded]

NewThread == [call |-> "recv", at |-> "out", value |-> -1, result |-> "UNBLOCKED",
              cancel |-> "no", first |-> 0, size |-> 0, data |-> 0, len |-> 0]

TypeOK ==
    /\ conn \in {"none", "connecting", "established", "failed"}
    /\ queued \in BOOLEAN /\ taken \in BOOLEAN /\ ends \in 0 .. MaxEnds
    /\ fd \in [Socket -> {"unborn", "open", "closed"}]
    /\ shut \in [Socket -> SUBSET Side]
    /\ reset \in [End -> BOOLEAN] /\ soError \in [End -> BOOLEAN]
    /\ wire \in [End -> Seq(1 .. MaxHanded)]
    /\ \A s \in End : Len(wire[s]) <= Capacity
    /\ handed \in [End -> 0 .. MaxHanded] /\ got \in [End -> 0 .. MaxHanded]
    /\ thread \in [Used -> Thread]

Init ==
    /\ conn = "none" /\ ends = 0 /\ queued = FALSE /\ taken = FALSE
    /\ fd = [s \in Socket |-> IF s = "active" THEN "open" ELSE "unborn"]
    /\ shut = [s \in Socket |-> {}]
    /\ reset = [s \in End |-> FALSE] /\ soError = [s \in End |-> FALSE]
    /\ wire = [s \in End |-> << >>]
    /\ handed = [s \in End |-> 0] /\ got = [s \in End |-> 0]
    /\ thread = [w \in Used |-> NewThread]

-----------------------------------------------------------------------------
(***************************************************************************)
(* The kernel.                                                             *)
(***************************************************************************)

Listening == fd["listener"] = "open" /\ "read" \notin shut["listener"]

Dead(s) == reset[s] \/ (s = "active" /\ conn = "failed")

\* The other end will send no more.
Fin(s) == conn = "established" /\ "write" \in shut[Peer(s)]

Ends == ends < MaxEnds /\ ends' = ends + 1

Establish ==
    /\ conn = "connecting" /\ Listening
    /\ conn' = "established" /\ queued' = TRUE
    /\ UNCHANGED <<fd, shut, reset, soError, wire, handed, got, taken, ends, thread>>

\* Refused, timed out, unreachable.
Refuse ==
    /\ conn = "connecting"
    /\ conn' = "failed" /\ soError' = [soError EXCEPT !["active"] = TRUE]
    /\ UNCHANGED <<queued, fd, shut, reset, wire, handed, got, taken, ends, thread>>

Reset(s) ==
    /\ conn = "established" /\ ~reset[s] /\ Ends
    /\ reset' = [reset EXCEPT ![s] = TRUE]
    /\ soError' = [soError EXCEPT ![s] = TRUE]
    /\ UNCHANGED <<conn, queued, fd, shut, wire, handed, got, taken, thread>>

\* epoll_wait() has an event that its waiter is released for.
Ready(w) ==
    LET s == w[1]
    IN  /\ fd[s] = "open"
        /\ \/ w[2] \in shut[s]
           \/ s = "listener" /\ queued
           \/ s \in End /\ (soError[s] \/ Dead(s))
           \/ s \in End /\ w[2] = "read" /\ (wire[s] # << >> \/ Fin(s))
           \/ s \in End /\ w[2] = "write" /\ conn = "established"
                        /\ Len(wire[Peer(s)]) < Capacity

-----------------------------------------------------------------------------
(***************************************************************************)
(* Blocking and releasing.                                                 *)
(***************************************************************************)

\* No thread is in the code of a call.
Idle == \A w \in Used : thread[w].at \notin {"running", "returned"}

Blocks(w, th) == thread' = [thread EXCEPT ![w] = [th EXCEPT !.at = "blocked"]]

Returns(w, th, v) ==
    thread' = [thread EXCEPT ![w] =
        [th EXCEPT !.at = "returned", !.value = v, !.result = "UNBLOCKED"]]

\* The thread has its answer and goes on.
Leave(w) ==
    /\ thread[w].at = "returned"
    /\ thread' = [thread EXCEPT ![w] = NewThread]
    /\ UNCHANGED kernelVars

\* The thread after unblock(): the result is stored in any case.
Unblocked(th, result) ==
    IF th.at \in {"blocked", "ready"} THEN [th EXCEPT !.at = "ready", !.result = result]
    ELSE th

\* Mutant: handleEvents() releases readers only.
EventRead(w) ==
    /\ thread[w].at = "blocked" /\ Ready(w) /\ w[2] = "read"
    /\ thread' = [thread EXCEPT ![w] = Unblocked(@, "UNBLOCKED")]
    /\ UNCHANGED kernelVars

\* handleEvents(): an event of its direction, an error or a hang-up releases
\* a waiter.
Event(w) ==
    /\ thread[w].at = "blocked" /\ Ready(w)
    /\ thread' = [thread EXCEPT ![w] = Unblocked(@, "UNBLOCKED")]
    /\ UNCHANGED kernelVars

\* cancelRead() or cancelWrite(), by another thread.
Cancel(w) ==
    /\ Idle /\ thread[w].at \in {"blocked", "ready"} /\ Ends
    /\ LET th == thread[w]
       IN  thread' = [thread EXCEPT ![w] =
               [Unblocked(th, "CANCELLED") EXCEPT
                   !.cancel = IF th.at = "blocked" THEN "yes"
                              ELSE IF th.cancel = "no" THEN "late" ELSE th.cancel]]
    /\ UNCHANGED connVars

-----------------------------------------------------------------------------
(***************************************************************************)
(* The calls: a step goes from the beginning of a call, from a resumption  *)
(* or from the last round of sendAll() to the next point where the thread  *)
(* waits, has its answer, or goes round again.                             *)
(***************************************************************************)

Begun(call, first, len) ==
    [NewThread EXCEPT !.call = call, !.first = first, !.size = len, !.len = len]

New(s, call) ==
    IF call \in Sending
    THEN {Begun(call, handed[s], n) : n \in 1 .. MaxHanded - handed[s]}
    ELSE {th \in {Begun(call, 0, 0)} :
             /\ call # "getError"
             /\ call = "connect" => conn \in {"none", "connecting"}}

\* The threads that make the system call for one of the given calls: one that
\* begins, goes round again or was released.
Entering(w, calls) ==
    IF w \notin Used THEN {}
    ELSE IF thread[w].at = "out"
    THEN UNION {New(w[1], call) :
                   call \in {c \in calls \cap Uses[w] : Idle /\ fd[w[1]] # "unborn"}}
    ELSE {th \in {thread[w]} :
             /\ th.call \in calls
             /\ \/ th.at = "running"
                \/ th.at = "ready" /\ th.result = "UNBLOCKED" /\ Idle}

\* accept(): a descriptor, an error, or EAGAIN.
Accept(w) ==
    /\ w[1] = "listener"
    /\ \E th \in Entering(w, {"accept"}) :
           \/ ~Listening /\ Returns(w, th, -1) /\ UNCHANGED <<queued, fd>>
           \/ Listening /\ ~queued /\ Blocks(w, th) /\ UNCHANGED <<queued, fd>>
           \/ /\ Listening /\ queued
              /\ queued' = FALSE /\ fd' = [fd EXCEPT !["passive"] = "open"]
              /\ Returns(w, th, 1)
           \/ Listening /\ queued /\ Returns(w, th, -1) /\ UNCHANGED <<queued, fd>>
    /\ UNCHANGED <<conn, shut, reset, soError, wire, handed, got, taken, ends>>

\* connect() up to waitWrite(): EINPROGRESS, or an answer at once.
Connect(w) ==
    /\ w = <<"active", "write">>
    /\ \E th \in Entering(w, {"connect"}) :
           \/ /\ fd["active"] = "open" /\ conn = "none"
              /\ conn' = "connecting" /\ UNCHANGED queued
              /\ Blocks(w, [th EXCEPT !.call = "getError"])
           \/ /\ fd["active"] = "open" /\ conn = "none" /\ Listening
              /\ conn' = "established" /\ queued' = TRUE
              /\ Returns(w, th, 0)
           \/ Returns(w, th, -1) /\ UNCHANGED <<conn, queued>>
    /\ UNCHANGED <<fd, shut, reset, soError, wire, handed, got, taken, ends>>

\* Mutant: connect() takes a writable socket for a connected one.
GetErrorNot(w) ==
    /\ \E th \in Entering(w, {"getError"}) : Returns(w, th, 0)
    /\ UNCHANGED kernelVars

\* connect() after waitWrite(): SO_ERROR is read and cleared.
GetError(w) ==
    /\ \E th \in Entering(w, {"getError"}) :
           Returns(w, th, IF fd["active"] # "open" \/ soError["active"] THEN -1 ELSE 0)
    /\ soError' = [soError EXCEPT !["active"] = @ /\ fd["active"] # "open"]
    /\ UNCHANGED <<conn, queued, fd, shut, reset, wire, handed, got, taken, ends>>

ConnectInProgress(s) ==
    <<s, "write">> \in Used /\ thread[<<s, "write">>].call = "getError"

\* recv() and read(): data first, then an error, then the end; or EAGAIN.
Receive(w) ==
    LET s == w[1]
        AtEnd == "read" \in shut[s] \/ Fin(s) \/ Dead(s)
    IN  /\ \E th \in Entering(w, Receiving) :
               \/ /\ fd[s] # "open" \/ conn = "none"
                  /\ Returns(w, th, -1) /\ UNCHANGED <<soError, wire, got, taken>>
               \/ /\ fd[s] = "open"
                  /\ \E n \in 1 .. Len(wire[s]) :
                         /\ wire' = [wire EXCEPT ![s] = SubSeq(@, n + 1, Len(@))]
                         /\ got' = [got EXCEPT ![s] = @ + n]
                         /\ Returns(w, th, n)
                  /\ UNCHANGED <<soError, taken>>
               \/ /\ fd[s] = "open" /\ wire[s] = << >> /\ soError[s]
                  /\ soError' = [soError EXCEPT ![s] = FALSE]
                  /\ taken' = (taken \/ ConnectInProgress(s))
                  /\ Returns(w, th, -1) /\ UNCHANGED <<wire, got>>
               \/ /\ fd[s] = "open" /\ conn # "none" /\ wire[s] = << >> /\ ~soError[s]
                  /\ IF AtEnd THEN Returns(w, th, 0) ELSE Blocks(w, th)
                  /\ UNCHANGED <<soError, wire, got, taken>>
        /\ UNCHANGED <<conn, queued, fd, shut, reset, handed, ends>>

Again(w, th) == thread' = [thread EXCEPT ![w] = [th EXCEPT !.at = "running"]]

\* Mutant: sendAll() forgets to move its data pointer.
SentStaying(w, th, n) ==
    IF th.call # "sendAll" THEN Returns(w, th, n)
    ELSE IF n = th.len THEN Returns(w, th, 1)
    ELSE Again(w, [th EXCEPT !.len = @ - n])

\* Mutant: sendAll() takes a part for the whole.
SentOnce(w, th, n) == Returns(w, th, IF th.call # "sendAll" THEN n ELSE 1)

\* The kernel took n bytes: send() returns, sendAll() goes on with the rest.
Sent(w, th, n) ==
    IF th.call # "sendAll" THEN Returns(w, th, n)
    ELSE IF n = th.len THEN Returns(w, th, 1)
    ELSE Again(w, [th EXCEPT !.data = @ + n, !.len = @ - n])

\* sendAll() returns false where send() returns -1 or 0.
SendFails(w, th, v) == Returns(w, th, IF th.call = "sendAll" THEN 0 ELSE v)

Room(s) == IF conn = "established" THEN Capacity - Len(wire[Peer(s)]) ELSE 0

\* send() and write(), called once or in the loop of sendAll() and writeAll().
\* The bytes of a call are numbered on from those handed over before it.
\* SIGPIPE is ignored by the process: send() with flags 0 would end it where
\* the direction is shut down or reset, and here returns -1.
Send(w) ==
    LET s == w[1]
        Bad == fd[s] # "open" \/ conn = "none" \/ soError[s] \/ Dead(s) \/ "write" \in shut[s]
    IN  /\ \E th \in Entering(w, Sending) :
               \/ /\ Bad /\ SendFails(w, th, -1)
                  /\ soError' = [soError EXCEPT ![s] = @ /\ fd[s] # "open"]
                  /\ UNCHANGED <<wire, handed>>
               \/ /\ ~Bad /\ \E n \in {k \in 1 .. th.len : k <= Room(s)} :
                         /\ wire' = [wire EXCEPT ![Peer(s)] =
                                @ \o [i \in 1 .. n |-> th.first + th.data + i]]
                         /\ handed' = [handed EXCEPT ![s] = @ + n]
                         /\ Sent(w, th, n)
                  /\ UNCHANGED soError
               \/ /\ ~Bad /\ Room(s) = 0
                  /\ Blocks(w, th) /\ UNCHANGED <<soError, wire, handed>>
        /\ UNCHANGED <<conn, queued, fd, shut, reset, got, taken, ends>>

\* What a call returns when its thread was cancelled while it was blocked.
Cancelled(call) == IF call \in {"recv", "send", "sendAll"} THEN 0 ELSE -1

\* Mutant: sendAll() goes on when send() returns 0.
GiveUpNotAll(w) ==
    /\ Idle /\ thread[w].at = "ready" /\ thread[w].result = "CANCELLED"
    /\ IF thread[w].call = "sendAll" THEN Again(w, thread[w])
       ELSE Returns(w, thread[w], Cancelled(thread[w].call))
    /\ UNCHANGED kernelVars

\* blockCurrent() returns CANCELLED, and waitRead() or waitWrite() false.
GiveUp(w) ==
    /\ Idle /\ thread[w].at = "ready" /\ thread[w].result = "CANCELLED"
    /\ Returns(w, thread[w], Cancelled(thread[w].call))
    /\ UNCHANGED kernelVars

-----------------------------------------------------------------------------
(***************************************************************************)
(* Shutting down and closing, by another thread.                           *)
(***************************************************************************)

\* The threads after unblock() on the waiters of s in the given directions.
Released(s, how) ==
    [w \in Used |-> IF w[1] = s /\ w[2] \in how THEN Unblocked(thread[w], "UNBLOCKED")
                      ELSE thread[w]]

\* The kernel resets the connection that nobody has accepted.
ResetQueued ==
    /\ reset' = [reset EXCEPT !["active"] = @ \/ queued]
    /\ soError' = [soError EXCEPT !["active"] = @ \/ queued]
    /\ queued' = FALSE

\* socket(), bind() and listen().
Listen ==
    /\ Idle /\ fd["listener"] = "unborn"
    /\ fd' = [fd EXCEPT !["listener"] = "open"]
    /\ UNCHANGED <<conn, queued, shut, reset, soError, wire, handed, got, taken, ends, thread>>

\* shutdown() that succeeds; the others change nothing.  A socket that is
\* connecting is disconnected.
Shutdown(s, how) ==
    /\ Idle /\ fd[s] = "open" /\ Ends
    /\ s \in End => conn \in {"connecting", "established"} /\ ~Dead(s)
    /\ IF s = "active" /\ conn = "connecting"
       THEN /\ conn' = "failed" /\ soError' = [soError EXCEPT ![s] = TRUE]
            /\ UNCHANGED <<queued, shut, reset>>
       ELSE /\ shut' = [shut EXCEPT ![s] = @ \cup how]
            /\ UNCHANGED conn
            /\ IF s = "listener" /\ "read" \in how THEN ResetQueued
               ELSE UNCHANGED <<queued, reset, soError>>
    /\ thread' = Released(s, how)
    /\ UNCHANGED <<fd, wire, handed, got, taken>>

\* Mutant: close() forgets the thread that writes.
CloseReader(s) ==
    /\ Idle /\ fd[s] = "open" /\ Ends
    /\ shut' = [shut EXCEPT ![s] = Side]
    /\ fd' = [fd EXCEPT ![s] = "closed"]
    /\ conn' = IF s = "active" /\ conn = "connecting" THEN "failed" ELSE conn
    /\ IF s = "listener" THEN ResetQueued ELSE UNCHANGED <<queued, reset, soError>>
    /\ thread' = Released(s, {"read"})
    /\ UNCHANGED <<wire, handed, got, taken>>

Close(s) ==
    /\ Idle /\ fd[s] = "open" /\ Ends
    /\ shut' = [shut EXCEPT ![s] = Side]
    /\ fd' = [fd EXCEPT ![s] = "closed"]
    /\ conn' = IF s = "active" /\ conn = "connecting" THEN "failed" ELSE conn
    /\ IF s = "listener" THEN ResetQueued ELSE UNCHANGED <<queued, reset, soError>>
    /\ thread' = Released(s, Side)
    /\ UNCHANGED <<wire, handed, got, taken>>

Next ==
    \/ Establish
    \/ Refuse
    \/ \E s \in End : Reset(s)
    \/ \E w \in Used : Event(w)
    \/ \E w \in Used : Cancel(w)
    \/ \E w \in Used : Accept(w)
    \/ \E w \in Used : Connect(w)
    \/ \E w \in Used : GetError(w)
    \/ \E s \in End : Receive(<<s, "read">>)
    \/ \E s \in End : Send(<<s, "write">>)
    \/ \E w \in Used : GiveUp(w)
    \/ \E w \in Used : Leave(w)
    \/ Listen
    \/ \E s \in Socket, how \in SUBSET Side \ {{}} : Shutdown(s, how)
    \/ \E s \in Socket : Close(s)

Spec == Init /\ [][Next]_vars

GoesOn(w) ==
    /\ thread[w].at \in {"ready", "running"}
    /\ \/ Accept(w)
       \/ GetError(w)
       \/ w[2] = "read" /\ w[1] \in End /\ Receive(w)
       \/ w[2] = "write" /\ Send(w)
       \/ GiveUp(w)

\* Events are reported, ready threads run (Threads shows that they do so in
\* order), and a thread that runs goes on.
Fairness == \A w \in Used : WF_vars(Event(w)) /\ SF_vars(GoesOn(w)) /\ WF_vars(Leave(w))

FairSpec == Spec /\ Fairness

-----------------------------------------------------------------------------
(***************************************************************************)
(* Properties.                                                             *)
(***************************************************************************)

\* connect() returns 0 only for a connection that was established
\* (ThreadedSocket.cc:44-53), although a wait also ends by shutdown(), close()
\* and errors.  The exception is a recv() by another thread, on the socket
\* that is still connecting, that took the error out of SO_ERROR: connect()
\* then finds none and returns 0 for a connection that was refused.
ConnectTellsTruthUnlessTaken ==
    \A w \in Used :
        thread[w].at = "returned" /\ thread[w].call \in {"connect", "getError"} /\ thread[w].value = 0
            => conn = "established" \/ taken

\* A call whose cancellation returned true does not wait again, whatever
\* happens between its release and its resumption (ThreadedFDMixin.h:61-74).
CancelSticks == \A w \in Used : thread[w].cancel = "yes" => thread[w].at # "blocked"

\* The bytes arrive in the order in which the application gave them to
\* sendAll() and its like, none twice and none left out, although a call may
\* hand them over in pieces with waits in between.
InOrder == \A s \in End : \A i \in 1 .. Len(wire[s]) : wire[s][i] = got[s] + i

\* sendAll() and writeAll() say true if and only if the kernel took all bytes
\* of the call, in however many pieces and with whatever happened in between.
AllOrFalse ==
    \A w \in Used :
        thread[w].at = "returned" /\ thread[w].call = "sendAll" =>
            (thread[w].value = 1 <=>
                 handed[w[1]] = thread[w].first + thread[w].size)

\* The outcome of a call is settled: its direction is shut down or the socket
\* closed, the connection is dead or has no more data, connect() is over.
Settled(w) ==
    \/ w[2] \in shut[w[1]]
    \/ w[1] \in End /\ Dead(w[1])
    \/ w[1] \in End /\ w[2] = "read" /\ Fin(w[1])
    \/ thread[w].call = "getError" /\ conn # "connecting"

\* Calls whose outcome is settled return: closing a socket unblocks any
\* waiters (ThreadedFDMixin.h:96-99), and so do shutting it down, errors, the
\* end of the stream and the end of the handshake.
CallsEnd == \A w \in Used : thread[w].at # "out" /\ Settled(w) ~> thread[w].at = "out"
==============================================================================
