---------------------------- MODULE SocketsProofs ----------------------------
(***************************************************************************)
(* What the calls on a threaded socket tell their threads, for any number  *)
(* of bytes and for any use of the two sides of the sockets.               *)
(***************************************************************************)
EXTENDS Sockets, SequenceTheorems, TLAPS

-----------------------------------------------------------------------------
(***************************************************************************)
(* The inductive invariant.                                                *)
(***************************************************************************)

\* In a call, and not through with it.
Inside == {"blocked", "ready", "running"}

\* No call can block in this direction any more.
Over(w) == w[2] \in shut[w[1]] \/ (w[1] = "active" /\ conn = "failed")

\* A cancelled thread has the result still, or finds the socket unusable.
CancelKept(w, th) ==
    th.cancel = "yes" =>
        /\ th.at \notin {"blocked", "running"}
        /\ th.at = "ready" => th.result = "CANCELLED" \/ Over(w)

\* A sender knows how far it is.
Sends(w, th) ==
    th.call \in Sending /\ th.at # "out" =>
        /\ w \in {<<s, "write">> : s \in End}
        /\ th.at \in Inside =>
               /\ th.data + th.len = th.size /\ th.len > 0
               /\ th.first + th.size <= MaxHanded
               /\ handed[w[1]] = th.first + th.data
        /\ th.at = "returned" /\ th.call = "sendAll" =>
               (th.value = 1 <=> handed[w[1]] = th.first + th.size)

\* An error of the connection in progress is still to be found.
ErrorIsKept == taken \/ fd["active"] = "closed" \/ soError["active"]

\* connect() waits for the outcome, and is released when it is there.
Connects(w, th) ==
    /\ th.at \in Inside => th.call # "connect"
    /\ th.at = "running" => th.call = "sendAll"
    /\ th.call = "getError" /\ th.at \in Inside =>
           /\ w = <<"active", "write">> /\ conn # "none"
           /\ conn = "failed" => ErrorIsKept
           /\ th.at = "ready" /\ th.result = "UNBLOCKED" =>
                  conn = "established" \/ ErrorIsKept
    /\ th.at = "returned" /\ th.call \in {"connect", "getError"} /\ th.value = 0 =>
           conn = "established" \/ taken

ThreadOK(w, th) == CancelKept(w, th) /\ Sends(w, th) /\ Connects(w, th)

\* The connection, and the bytes on the way.
KernelOK ==
    /\ queued => conn = "established"
    /\ \A s \in End : reset[s] => conn = "established"
    /\ fd["active"] = "open" /\ conn \in {"none", "connecting"} => "write" \notin shut["active"]
    /\ fd["active"] # "unborn"
    /\ \A s \in End : handed[Peer(s)] = got[s] + Len(wire[s])

IInv == TypeOK /\ KernelOK /\ InOrder /\ \A w \in Used : ThreadOK(w, thread[w])

-----------------------------------------------------------------------------
(***************************************************************************)
(* How a thread comes to a system call.                                    *)
(***************************************************************************)

LEMMA BegunIs ==
    ASSUME NEW call \in Call, NEW f \in 0 .. MaxHanded, NEW n \in 0 .. MaxHanded
    PROVE  LET th == Begun(call, f, n)
           IN  /\ th \in Thread
               /\ th.call = call /\ th.at = "out" /\ th.cancel = "no"
               /\ th.first = f /\ th.size = n /\ th.data = 0 /\ th.len = n
<1>1. 0 \in 0 .. MaxHanded /\ -1 \in -1 .. MaxHanded
  BY SocketsAssumption
<1>2. NewThread \in Thread
  BY <1>1 DEF NewThread, Thread, Call, Receiving
<1>3. Begun(call, f, n) \in Thread
  BY <1>2 DEF Begun, Thread
<1>4. /\ NewThread.at = "out" /\ NewThread.cancel = "no" /\ NewThread.data = 0
  BY DEF NewThread
<1> QED
  BY <1>2, <1>3, <1>4 DEF Begun, Thread

\* A thread that begins a call.
Begins(w, th) ==
    /\ thread[w].at = "out" /\ th.at = "out" /\ th.cancel = "no" /\ th.call # "getError"
    /\ th.data = 0 /\ th.len = th.size
    /\ th.call \in Sending =>
           th.first = handed[w[1]] /\ th.len > 0 /\ th.first + th.size <= MaxHanded

\* A thread that goes on.
Resumes(w, th) ==
    /\ th = thread[w]
    /\ th.at = "running" \/ (th.at = "ready" /\ th.result = "UNBLOCKED")

LEMMA Enters ==
    ASSUME TypeOK, NEW w, NEW calls \in SUBSET Call, NEW th \in Entering(w, calls),
           w[1] \in End \/ calls \cap Sending = {}
    PROVE  /\ w \in Used /\ th \in Thread /\ th.call \in calls
           /\ Begins(w, th) \/ Resumes(w, th)
<1>1. 0 \in 0 .. MaxHanded /\ MaxHanded \in Nat
  BY SocketsAssumption
<1>2. w \in Used
  BY DEF Entering
<1>3. thread[w] \in Thread
  BY <1>2 DEF TypeOK
<1>4. CASE thread[w].at # "out"
  BY <1>2, <1>3, <1>4 DEF Entering, Resumes
<1>5. CASE thread[w].at = "out"
  <2>1. PICK call \in calls \cap Uses[w] : th \in New(w[1], call)
    BY <1>2, <1>5 DEF Entering
  <2>2. CASE call \in Sending
    <3>1. w[1] \in End /\ handed[w[1]] \in 0 .. MaxHanded
      BY <2>1, <2>2 DEF TypeOK
    <3>2. PICK n \in 1 .. MaxHanded - handed[w[1]] : th = Begun(call, handed[w[1]], n)
      BY <2>1, <2>2 DEF New
    <3>3. n \in 0 .. MaxHanded /\ n > 0 /\ handed[w[1]] + n <= MaxHanded
      BY <1>1, <3>1, <3>2
    <3>4. call # "getError" /\ call \in Call
      BY <2>1, <2>2 DEF Sending
    <3> QED
      BY <1>2, <1>5, <2>1, <3>1, <3>2, <3>3, <3>4, BegunIs DEF Begins
  <2>3. CASE call \notin Sending
    <3>1. th = Begun(call, 0, 0) /\ call # "getError" /\ call \in Call
      BY <2>1, <2>3 DEF New
    <3> QED
      BY <1>1, <1>2, <1>5, <2>1, <2>3, <3>1, BegunIs DEF Begins
  <2> QED
    BY <2>2, <2>3
<1> QED
  BY <1>4, <1>5

-----------------------------------------------------------------------------
(***************************************************************************)
(* What the steps of the others leave alone.                               *)
(***************************************************************************)

\* What holds of a thread is not undone by what happens to the connection.
Monotone ==
    /\ \A s \in Socket : shut[s] \subseteq shut'[s]
    /\ conn = "failed" => conn' = "failed"
    /\ conn = "established" => conn' = "established"
    /\ conn # "none" => conn' # "none"
    /\ conn # "failed" /\ conn' = "failed" => soError'["active"] \/ fd'["active"] = "closed"
    /\ fd["active"] = "closed" => fd'["active"] = "closed"
    /\ taken => taken'

LEMMA Persists ==
    ASSUME Monotone, NEW w \in Used, NEW th \in Thread, ThreadOK(w, th),
           w[1] \in End /\ w[2] = "write" => handed'[w[1]] = handed[w[1]],
           w = <<"active", "write">> /\ soError["active"] /\ th.call = "getError" =>
               soError'["active"] \/ taken'
    PROVE  ThreadOK(w, th)'
<1>1. w[1] \in Socket /\ w[2] \in Side
  BY DEF Used, Waiter
<1>2. CancelKept(w, th)'
  BY <1>1 DEF ThreadOK, CancelKept, Over, Monotone
<1>3. Sends(w, th)'
  BY <1>1 DEF ThreadOK, Sends
<1>4. Connects(w, th)'
  <2>1. ErrorIsKept /\ w = <<"active", "write">> /\ th.call = "getError" => ErrorIsKept'
    BY DEF ErrorIsKept, Monotone
  <2>2. conn' = "failed" /\ conn # "failed" => ErrorIsKept'
    BY DEF ErrorIsKept, Monotone
  <2> QED
    BY <2>1, <2>2 DEF ThreadOK, Connects, Monotone
<1> QED
  BY <1>2, <1>3, <1>4 DEF ThreadOK

\* A thread that the step does not touch.
LEMMA Untouched ==
    ASSUME IInv, Monotone, NEW w \in Used, thread'[w] = thread[w],
           w[1] \in End /\ w[2] = "write" => handed'[w[1]] = handed[w[1]],
           w = <<"active", "write">> /\ soError["active"] /\ thread[w].call = "getError" =>
               soError'["active"] \/ taken'
    PROVE  ThreadOK(w, thread[w])'
<1>1. PICK th \in Thread : th = thread[w]
  BY DEF IInv, TypeOK
<1>2. ThreadOK(w, th)'
  <2>1. ThreadOK(w, th)
    BY <1>1 DEF IInv
  <2> QED
    BY <1>1, <2>1, Persists
<1> QED
  BY <1>1, <1>2 DEF ThreadOK, CancelKept, Sends, Connects

\* A step of one thread.
LEMMA OneThread ==
    ASSUME IInv, Monotone, NEW w \in Used, NEW th \in Thread,
           thread' = [thread EXCEPT ![w] = th], ThreadOK(w, th)',
           \A s \in End : w # <<s, "write">> => handed'[s] = handed[s],
           w # <<"active", "write">> /\ soError["active"] /\ ConnectInProgress("active") =>
               soError'["active"] \/ taken'
    PROVE  /\ thread' \in [Used -> Thread]
           /\ \A v \in Used : ThreadOK(v, thread[v])'
<1>1. thread \in [Used -> Thread]
  BY DEF IInv, TypeOK
<1>2. ASSUME NEW v \in Used, v # w
      PROVE  ThreadOK(v, thread[v])'
  <2>1. v = <<v[1], v[2]>>
    BY DEF Used, Waiter
  <2>2. thread'[v] = thread[v]
    BY <1>1, <1>2
  <2>3. v[1] \in End /\ v[2] = "write" => handed'[v[1]] = handed[v[1]]
    BY <1>2, <2>1
  <2>4. v = <<"active", "write">> /\ soError["active"] /\ thread[v].call = "getError" =>
            soError'["active"] \/ taken'
    BY <1>2 DEF ConnectInProgress
  <2> QED
    BY <2>2, <2>3, <2>4, Untouched
<1>3. thread'[w] = th
  BY <1>1
<1>4. ThreadOK(w, thread[w])'
  BY <1>3 DEF ThreadOK, CancelKept, Sends, Connects
<1> QED
  BY <1>1, <1>2, <1>4

-----------------------------------------------------------------------------
(***************************************************************************)
(* Where a call can leave a thread.                                        *)
(***************************************************************************)

\* What a thread has when it makes its system call.
LEMMA EntersOK ==
    ASSUME IInv, NEW w, NEW calls \in SUBSET Call, NEW th \in Entering(w, calls),
           w[1] \in End \/ calls \cap Sending = {}
    PROVE  /\ w \in Used /\ th \in Thread /\ th.call \in calls
           /\ thread[w].at # "returned"
           /\ th.cancel = "yes" => Over(w)
           /\ th.call \in Sending =>
                  /\ th.data + th.len = th.size /\ th.len > 0
                  /\ th.first + th.size <= MaxHanded
                  /\ handed[w[1]] = th.first + th.data
           /\ th.call = "getError" =>
                  w = <<"active", "write">> /\ (conn = "established" \/ ErrorIsKept)
           /\ th.at # "out" => th.call # "connect"
<1>1. w \in Used /\ th \in Thread /\ th.call \in calls /\ (Begins(w, th) \/ Resumes(w, th))
  BY Enters DEF IInv
<1>2. ThreadOK(w, thread[w])
  BY <1>1 DEF IInv
<1>3. CASE Begins(w, th)
  <2>1. th.len \in Nat /\ th.first \in Nat /\ th.size \in Nat
    BY <1>1 DEF Thread
  <2> QED
    BY <1>1, <1>3, <2>1 DEF Begins
<1>4. CASE Resumes(w, th)
  BY <1>1, <1>2, <1>4 DEF Resumes, ThreadOK, CancelKept, Sends, Connects, Inside
<1> QED
  BY <1>1, <1>3, <1>4

LEMMA ReturnedOK ==
    ASSUME NEW w, NEW th \in Thread, NEW v \in -1 .. MaxHanded,
           th.call \in Sending => w \in {<<s, "write">> : s \in End},
           th.call = "sendAll" => (v = 1 <=> handed'[w[1]] = th.first + th.size),
           th.call \in {"connect", "getError"} /\ v = 0 => conn' = "established" \/ taken',
           NEW r, r = [th EXCEPT !.at = "returned", !.value = v, !.result = "UNBLOCKED"]
    PROVE  r \in Thread /\ ThreadOK(w, r)'
<1>1. /\ r \in Thread /\ r.at = "returned" /\ r.value = v /\ r.call = th.call
      /\ r.cancel = th.cancel /\ r.first = th.first /\ r.size = th.size
  BY DEF Thread
<1>2. CancelKept(w, r)'
  BY <1>1 DEF CancelKept
<1>3. Sends(w, r)'
  BY <1>1 DEF Sends, Inside
<1>4. Connects(w, r)'
  BY <1>1 DEF Connects, Inside
<1> QED
  BY <1>1, <1>2, <1>3, <1>4 DEF ThreadOK

LEMMA BlockedOK ==
    ASSUME NEW w, NEW th \in Thread, th.cancel # "yes", th.call # "connect",
           th.call \in Sending =>
               /\ w \in {<<s, "write">> : s \in End}
               /\ th.data + th.len = th.size /\ th.len > 0
               /\ th.first + th.size <= MaxHanded
               /\ handed'[w[1]] = th.first + th.data,
           th.call = "getError" => w = <<"active", "write">> /\ conn' \notin {"none", "failed"},
           NEW r, r = [th EXCEPT !.at = "blocked"]
    PROVE  r \in Thread /\ ThreadOK(w, r)'
<1>1. /\ r \in Thread /\ r.at = "blocked" /\ r.call = th.call
      /\ r.cancel = th.cancel /\ r.first = th.first /\ r.size = th.size
      /\ r.data = th.data /\ r.len = th.len
  BY DEF Thread
<1>2. CancelKept(w, r)'
  BY <1>1 DEF CancelKept
<1>3. Sends(w, r)'
  BY <1>1 DEF Sends
<1>4. Connects(w, r)'
  BY <1>1 DEF Connects
<1> QED
  BY <1>1, <1>2, <1>3, <1>4 DEF ThreadOK

\* A call returns, or waits.
LEMMA ReturnsOK ==
    ASSUME NEW w, NEW th \in Thread, NEW v \in -1 .. MaxHanded, Returns(w, th, v),
           th.call \in Sending => w \in {<<s, "write">> : s \in End},
           th.call = "sendAll" => (v = 1 <=> handed'[w[1]] = th.first + th.size),
           th.call \in {"connect", "getError"} /\ v = 0 => conn' = "established" \/ taken'
    PROVE  \E r \in Thread : thread' = [thread EXCEPT ![w] = r] /\ ThreadOK(w, r)'
<1>1. PICK r : r = [th EXCEPT !.at = "returned", !.value = v, !.result = "UNBLOCKED"]
  OBVIOUS
<1>2. thread' = [thread EXCEPT ![w] = r]
  BY <1>1 DEF Returns
<1>3. r \in Thread /\ ThreadOK(w, r)'
  BY <1>1, ReturnedOK
<1> QED
  BY <1>2, <1>3

LEMMA BlocksOK ==
    ASSUME NEW w, NEW th \in Thread, Blocks(w, th), th.cancel # "yes", th.call # "connect",
           th.call \in Sending =>
               /\ w \in {<<s, "write">> : s \in End}
               /\ th.data + th.len = th.size /\ th.len > 0
               /\ th.first + th.size <= MaxHanded
               /\ handed'[w[1]] = th.first + th.data,
           th.call = "getError" => w = <<"active", "write">> /\ conn' \notin {"none", "failed"}
    PROVE  \E r \in Thread : thread' = [thread EXCEPT ![w] = r] /\ ThreadOK(w, r)'
<1>1. PICK r : r = [th EXCEPT !.at = "blocked"]
  OBVIOUS
<1>2. thread' = [thread EXCEPT ![w] = r]
  BY <1>1 DEF Blocks
<1>3. r \in Thread /\ ThreadOK(w, r)'
  BY <1>1, BlockedOK
<1> QED
  BY <1>2, <1>3

\* sendAll() goes round again with what is left.
LEMMA RunningOK ==
    ASSUME NEW w \in {<<s, "write">> : s \in End}, NEW th \in Thread,
           th.cancel # "yes", th.call = "sendAll", NEW n \in Nat, n < th.len,
           th.data + th.len = th.size, th.first + th.size <= MaxHanded,
           handed'[w[1]] = th.first + th.data + n,
           NEW r, r = [[th EXCEPT !.data = @ + n, !.len = @ - n] EXCEPT !.at = "running"]
    PROVE  r \in Thread /\ ThreadOK(w, r)'
<1>0. /\ th.data \in Nat /\ th.len \in Nat /\ th.size \in Nat /\ th.first \in Nat
      /\ MaxHanded \in Nat
  BY SocketsAssumption DEF Thread
<1>1. th.data + n \in 0 .. MaxHanded /\ th.len - n \in 0 .. MaxHanded /\ th.len - n > 0
  BY <1>0
<1>2. /\ r \in Thread /\ r.at = "running" /\ r.call = th.call
      /\ r.cancel = th.cancel /\ r.first = th.first /\ r.size = th.size
      /\ r.data = th.data + n /\ r.len = th.len - n
  BY <1>1 DEF Thread
<1>3. CancelKept(w, r)'
  BY <1>2 DEF CancelKept
<1>4. Sends(w, r)'
  <2>1. r.data + r.len = r.size /\ r.len > 0 /\ handed'[w[1]] = r.first + r.data
    BY <1>0, <1>1, <1>2
  <2> QED
    BY <1>2, <2>1 DEF Sends
<1>5. Connects(w, r)'
  BY <1>2 DEF Connects
<1> QED
  BY <1>2, <1>3, <1>4, <1>5 DEF ThreadOK

-----------------------------------------------------------------------------
(***************************************************************************)
(* The steps of the kernel, and of threads that wait.                      *)
(***************************************************************************)

LEMMA KernelSteps ==
    ASSUME IInv, Establish \/ Refuse \/ (\E s \in End : Reset(s)) \/ Listen
    PROVE  IInv'
<1>1. TypeOK /\ KernelOK /\ InOrder
  BY DEF IInv
<1>2. UNCHANGED <<shut, wire, handed, got, taken, thread>>
  BY DEF Establish, Refuse, Reset, Listen
<1>3. /\ fd \in [Socket -> {"unborn", "open", "closed"}]
      /\ reset \in [End -> BOOLEAN] /\ soError \in [End -> BOOLEAN]
      /\ "active" \in End /\ "active" \in Socket /\ "listener" \in Socket /\ "listener" # "active"
  BY <1>1 DEF TypeOK, End, Socket
<1>4. TypeOK'
  <2>1. CASE Establish
    BY <1>1, <2>1 DEF Establish, TypeOK
  <2>2. CASE Refuse
    BY <1>1, <2>2 DEF Refuse, TypeOK
  <2>3. ASSUME NEW s \in End, Reset(s)
        PROVE  TypeOK'
    <3>1. ends' \in 0 .. MaxEnds
      BY <1>1, <2>3, SocketsAssumption DEF Reset, Ends, TypeOK
    <3> QED
      BY <1>1, <2>3, <3>1 DEF Reset, TypeOK
  <2>4. CASE Listen
    BY <1>1, <2>4 DEF Listen, TypeOK
  <2> QED
    BY <2>1, <2>2, <2>3, <2>4
<1>5. KernelOK' /\ Monotone
  <2>1. CASE Establish
    BY <1>1, <1>2, <2>1 DEF Establish, KernelOK, Monotone
  <2>2. CASE Refuse
    BY <1>1, <1>2, <1>3, <2>2 DEF Refuse, KernelOK, Monotone
  <2>3. ASSUME NEW s \in End, Reset(s)
        PROVE  KernelOK' /\ Monotone
    BY <1>1, <1>2, <1>3, <2>3 DEF Reset, KernelOK, Monotone
  <2>4. CASE Listen
    <3>1. fd'["active"] = fd["active"]
      BY <1>3, <2>4 DEF Listen
    <3> QED
      BY <1>1, <1>2, <2>4, <3>1 DEF Listen, KernelOK, Monotone
  <2> QED
    BY <2>1, <2>2, <2>3, <2>4
<1>6. InOrder'
  BY <1>1, <1>2 DEF InOrder
<1>7. soError["active"] => soError'["active"]
  BY <1>3 DEF Establish, Refuse, Reset, Listen
<1>8. ASSUME NEW w \in Used
      PROVE  ThreadOK(w, thread[w])'
  BY <1>2, <1>5, <1>7, Untouched
<1> QED
  BY <1>4, <1>5, <1>6, <1>8 DEF IInv

\* The steps in which only the state of a thread changes.
LEMMA ThreadOnly ==
    ASSUME IInv, UNCHANGED <<connVars>>, ends' \in 0 .. MaxEnds,
           NEW w \in Used, NEW th \in Thread,
           thread' = [thread EXCEPT ![w] = th], ThreadOK(w, th)
    PROVE  IInv'
<1>1. /\ UNCHANGED <<conn, queued, fd, shut, reset, soError, wire, handed, got, taken>>
      /\ TypeOK /\ KernelOK /\ InOrder
  BY DEF connVars, IInv
<1>2. Monotone
  BY <1>1 DEF Monotone
<1>3. ThreadOK(w, th)'
  BY <1>1 DEF ThreadOK, CancelKept, Sends, Connects, Over, ErrorIsKept
<1>4. thread' \in [Used -> Thread] /\ \A v \in Used : ThreadOK(v, thread[v])'
  BY <1>1, <1>2, <1>3, OneThread
<1>5. TypeOK'
  BY <1>1, <1>4 DEF TypeOK
<1>6. KernelOK' /\ InOrder'
  BY <1>1 DEF KernelOK, InOrder
<1> QED
  BY <1>4, <1>5, <1>6 DEF IInv

\* A thread that was released because its direction is usable or is over.
LEMMA ReleasedOK ==
    ASSUME NEW w \in Used, NEW th \in Thread, ThreadOK(w, th), th.at \in {"blocked", "ready"},
           th.cancel = "yes" => Over(w),
           th.call = "getError" => conn = "established" \/ ErrorIsKept,
           NEW r, r = [th EXCEPT !.at = "ready", !.result = "UNBLOCKED"]
    PROVE  r \in Thread /\ ThreadOK(w, r)
<1>1. /\ r \in Thread /\ r.at = "ready" /\ r.call = th.call /\ r.result = "UNBLOCKED"
      /\ r.cancel = th.cancel /\ r.first = th.first /\ r.size = th.size
      /\ r.data = th.data /\ r.len = th.len
  BY DEF Thread
<1>2. CancelKept(w, r)
  BY <1>1 DEF CancelKept
<1>3. Sends(w, r)
  BY <1>1 DEF Sends, ThreadOK, Inside
<1>4. Connects(w, r)
  BY <1>1 DEF Connects, ThreadOK, Inside
<1> QED
  BY <1>1, <1>2, <1>3, <1>4 DEF ThreadOK

LEMMA EventKeeps ==
    ASSUME IInv, NEW w \in Used, Event(w)
    PROVE  IInv'
<1>1. PICK th \in Thread : th = thread[w] /\ ThreadOK(w, th)
  BY DEF IInv, TypeOK
<1>2. th.at = "blocked" /\ Ready(w)
  BY <1>1 DEF Event
<1> DEFINE r == [th EXCEPT !.at = "ready", !.result = "UNBLOCKED"]
<1>3. thread' = [thread EXCEPT ![w] = r]
  BY <1>1, <1>2 DEF Event, Unblocked
<1>4. th.cancel # "yes"
  BY <1>1, <1>2 DEF ThreadOK, CancelKept
<1>5. th.call = "getError" => conn = "established" \/ ErrorIsKept
  <2>1. SUFFICES ASSUME th.call = "getError", conn # "established"
                 PROVE  ErrorIsKept
    OBVIOUS
  <2>2. w = <<"active", "write">> /\ conn # "none" /\ (conn = "failed" => ErrorIsKept)
    BY <1>1, <1>2, <2>1 DEF ThreadOK, Connects, Inside
  <2>3. CASE conn = "connecting"
    <3>1. fd["active"] = "open" /\ "active" \in End
      BY <1>2, <2>2 DEF Ready, End
    <3>2. ~reset["active"] /\ "write" \notin shut["active"]
      BY <2>3, <3>1 DEF IInv, KernelOK
    <3>3. soError["active"]
      BY <1>2, <2>2, <2>3, <3>2 DEF Ready, Dead
    <3> QED
      BY <3>3 DEF ErrorIsKept
  <2> QED
    BY <2>1, <2>2, <2>3 DEF IInv, TypeOK
<1>6. r \in Thread /\ ThreadOK(w, r)
  BY <1>1, <1>2, <1>4, <1>5, ReleasedOK
<1>7. UNCHANGED <<connVars>> /\ ends' \in 0 .. MaxEnds
  BY DEF Event, kernelVars, IInv, TypeOK
<1> HIDE DEF r
<1> QED
  BY <1>3, <1>6, <1>7, ThreadOnly

LEMMA CancelKeeps ==
    ASSUME IInv, NEW w \in Used, Cancel(w)
    PROVE  IInv'
<1>1. PICK th \in Thread : th = thread[w] /\ ThreadOK(w, th)
  BY DEF IInv, TypeOK
<1>2. th.at \in {"blocked", "ready"} /\ ends < MaxEnds /\ ends' = ends + 1
  BY <1>1 DEF Cancel, Ends
<1> DEFINE r == [[th EXCEPT !.at = "ready", !.result = "CANCELLED"] EXCEPT
                    !.cancel = IF th.at = "blocked" THEN "yes"
                               ELSE IF th.cancel = "no" THEN "late" ELSE th.cancel]
<1>3. thread' = [thread EXCEPT ![w] = r]
  <2>1. Unblocked(th, "CANCELLED") = [th EXCEPT !.at = "ready", !.result = "CANCELLED"]
    BY <1>2 DEF Unblocked
  <2>2. thread' = [thread EXCEPT ![w] =
            [Unblocked(th, "CANCELLED") EXCEPT
                !.cancel = IF th.at = "blocked" THEN "yes"
                           ELSE IF th.cancel = "no" THEN "late" ELSE th.cancel]]
    BY <1>1 DEF Cancel
  <2> QED
    BY <2>1, <2>2
<1>4. /\ r \in Thread /\ r.at = "ready" /\ r.call = th.call /\ r.result = "CANCELLED"
      /\ r.first = th.first /\ r.size = th.size /\ r.data = th.data /\ r.len = th.len
  BY DEF Thread
<1> HIDE DEF r
<1>5. ThreadOK(w, r)
  BY <1>1, <1>2, <1>4 DEF ThreadOK, CancelKept, Sends, Connects, Inside
<1>6. ends' \in 0 .. MaxEnds
  BY <1>2, SocketsAssumption DEF IInv, TypeOK
<1>7. UNCHANGED <<connVars>>
  BY DEF Cancel
<1> QED
  BY <1>3, <1>4, <1>5, <1>6, <1>7, ThreadOnly

LEMMA LeaveKeeps ==
    ASSUME IInv, NEW w \in Used, Leave(w)
    PROVE  IInv'
<1>1. NewThread \in Thread /\ NewThread.at = "out" /\ NewThread.cancel = "no"
  BY SocketsAssumption DEF NewThread, Thread, Call, Receiving
<1>2. ThreadOK(w, NewThread)
  BY <1>1 DEF ThreadOK, CancelKept, Sends, Connects, Inside
<1>3. thread' = [thread EXCEPT ![w] = NewThread] /\ UNCHANGED <<connVars>> /\ ends' \in 0 .. MaxEnds
  BY DEF Leave, kernelVars, IInv, TypeOK
<1> QED
  BY <1>1, <1>2, <1>3, ThreadOnly

LEMMA GiveUpKeeps ==
    ASSUME IInv, NEW w \in Used, GiveUp(w)
    PROVE  IInv'
<1>1. PICK th \in Thread : th = thread[w] /\ ThreadOK(w, th)
  BY DEF IInv, TypeOK
<1>2. th.at = "ready"
  BY <1>1 DEF GiveUp
<1> DEFINE v == Cancelled(th.call)
           r == [th EXCEPT !.at = "returned", !.value = v, !.result = "UNBLOCKED"]
<1>3. thread' = [thread EXCEPT ![w] = r] /\ UNCHANGED kernelVars
  BY <1>1 DEF GiveUp, Returns
<1>4. UNCHANGED <<conn, handed, taken>> /\ UNCHANGED <<connVars>> /\ ends' \in 0 .. MaxEnds
  BY <1>3 DEF kernelVars, connVars, IInv, TypeOK
<1>5. /\ v \in -1 .. MaxHanded /\ v # 1
      /\ th.call \in {"connect", "getError"} => v = -1
  BY SocketsAssumption DEF Cancelled
<1>6. /\ r \in Thread /\ r.at = "returned" /\ r.value = v /\ r.call = th.call
      /\ r.cancel = th.cancel /\ r.first = th.first /\ r.size = th.size
  BY <1>5 DEF Thread
<1>7. ThreadOK(w, r)
  <2>1. th.call = "sendAll" => handed[w[1]] # th.first + th.size
    <3>1. th.call = "sendAll" =>
              /\ th.data + th.len = th.size /\ th.len > 0
              /\ handed[w[1]] = th.first + th.data
      BY <1>1, <1>2 DEF ThreadOK, Sends, Sending, Inside
    <3>2. th.data \in Nat /\ th.len \in Nat /\ th.first \in Nat
      BY DEF Thread
    <3> QED
      BY <3>1, <3>2
  <2> HIDE DEF r, v
  <2> QED
    BY <1>1, <1>2, <1>5, <1>6, <2>1 DEF ThreadOK, CancelKept, Sends, Connects, Inside
<1> HIDE DEF r
<1> QED
  BY <1>3, <1>4, <1>6, <1>7, ThreadOnly

-----------------------------------------------------------------------------
(***************************************************************************)
(* The calls.                                                              *)
(***************************************************************************)

LEMMA Names ==
    /\ "active" \in End /\ "active" \in Socket /\ "passive" \in Socket
    /\ "active" # "listener" /\ "active" # "passive" /\ "passive" # "listener"
    /\ \A s \in End : s \in Socket /\ Peer(s) \in End /\ Peer(Peer(s)) = s /\ Peer(s) # s
    /\ MaxHanded \in Nat /\ MaxHanded > 0 /\ Capacity \in Nat /\ Capacity > 0
  BY SocketsAssumption DEF End, Socket, Peer

\* A call that leaves the bytes alone.
LEMMA CallStep ==
    ASSUME IInv, Monotone, NEW w \in Used, NEW th \in Thread,
           thread' = [thread EXCEPT ![w] = th], ThreadOK(w, th)',
           UNCHANGED <<shut, reset, wire, handed, got, ends>>,
           conn' \in {"none", "connecting", "established", "failed"},
           queued' \in BOOLEAN, taken' \in BOOLEAN, soError' \in [End -> BOOLEAN],
           fd' \in [Socket -> {"unborn", "open", "closed"}], fd'["active"] = fd["active"],
           queued' => conn' = "established",
           conn' \in {"none", "connecting"} => conn \in {"none", "connecting"},
           w # <<"active", "write">> /\ soError["active"] /\ ConnectInProgress("active") =>
               soError'["active"] \/ taken'
    PROVE  IInv'
<1>1. TypeOK /\ KernelOK /\ InOrder
  BY DEF IInv
<1>2. thread' \in [Used -> Thread] /\ \A v \in Used : ThreadOK(v, thread[v])'
  BY OneThread
<1>3. TypeOK'
  BY <1>1, <1>2 DEF TypeOK
<1>4. KernelOK'
  BY <1>1 DEF KernelOK, Monotone
<1>5. InOrder'
  BY <1>1 DEF InOrder
<1> QED
  BY <1>2, <1>3, <1>4, <1>5 DEF IInv

LEMMA AcceptKeeps ==
    ASSUME IInv, NEW w, Accept(w)
    PROVE  IInv'
<1>1. PICK th \in Entering(w, {"accept"}) :
          \/ ~Listening /\ Returns(w, th, -1) /\ UNCHANGED <<queued, fd>>
          \/ Listening /\ ~queued /\ Blocks(w, th) /\ UNCHANGED <<queued, fd>>
          \/ /\ Listening /\ queued
             /\ queued' = FALSE /\ fd' = [fd EXCEPT !["passive"] = "open"]
             /\ Returns(w, th, 1)
          \/ Listening /\ queued /\ Returns(w, th, -1) /\ UNCHANGED <<queued, fd>>
  BY DEF Accept
<1>2. {"accept"} \subseteq Call /\ {"accept"} \cap Sending = {}
  BY DEF Call, Sending
<1>3. /\ w \in Used /\ th \in Thread /\ th.call = "accept"
      /\ th.cancel = "yes" => Over(w)
  BY <1>1, <1>2, EntersOK
<1>4. w[1] = "listener" /\ w[2] = "read"
  BY <1>3 DEF Accept, Used, Waiter, Side
<1>5. UNCHANGED <<conn, shut, reset, soError, wire, handed, got, taken, ends>>
  BY DEF Accept
<1>6. /\ conn \in {"none", "connecting", "established", "failed"}
      /\ queued \in BOOLEAN /\ taken \in BOOLEAN /\ soError \in [End -> BOOLEAN]
      /\ fd \in [Socket -> {"unborn", "open", "closed"}]
      /\ queued => conn = "established"
  BY DEF IInv, TypeOK, KernelOK
<1>7. /\ queued' \in BOOLEAN /\ (queued' => queued)
      /\ fd' \in [Socket -> {"unborn", "open", "closed"}] /\ fd'["active"] = fd["active"]
  <2>1. CASE UNCHANGED <<queued, fd>>
    BY <1>6, <2>1
  <2>2. CASE queued' = FALSE /\ fd' = [fd EXCEPT !["passive"] = "open"]
    BY <1>6, <2>2, Names
  <2> QED
    BY <1>1, <2>1, <2>2
<1>8. Monotone
  BY <1>5, <1>7 DEF Monotone
<1>9. th.call \notin Sending /\ th.call \notin {"connect", "getError", "sendAll"}
  BY <1>3 DEF Sending
<1>10. \E r \in Thread : thread' = [thread EXCEPT ![w] = r] /\ ThreadOK(w, r)'
  <2>1. ASSUME NEW v \in -1 .. MaxHanded, Returns(w, th, v)
        PROVE  \E r \in Thread : thread' = [thread EXCEPT ![w] = r] /\ ThreadOK(w, r)'
    BY <1>3, <1>9, <2>1, ReturnsOK
  <2>2. CASE Listening /\ Blocks(w, th)
    <3>1. th.cancel # "yes"
      BY <1>3, <1>4, <2>2 DEF Over, Listening
    <3> QED
      BY <1>3, <1>9, <2>2, <3>1, BlocksOK
  <2>3. -1 \in -1 .. MaxHanded /\ 1 \in -1 .. MaxHanded
    BY Names
  <2> QED
    BY <1>1, <2>1, <2>2, <2>3
<1> QED
  BY <1>3, <1>4, <1>5, <1>6, <1>7, <1>8, <1>10, CallStep

LEMMA ConnectKeeps ==
    ASSUME IInv, NEW w, Connect(w)
    PROVE  IInv'
<1>1. PICK th \in Entering(w, {"connect"}) :
          \/ /\ fd["active"] = "open" /\ conn = "none"
             /\ conn' = "connecting" /\ UNCHANGED queued
             /\ Blocks(w, [th EXCEPT !.call = "getError"])
          \/ /\ fd["active"] = "open" /\ conn = "none" /\ Listening
             /\ conn' = "established" /\ queued' = TRUE
             /\ Returns(w, th, 0)
          \/ Returns(w, th, -1) /\ UNCHANGED <<conn, queued>>
  BY DEF Connect
<1>2. {"connect"} \subseteq Call /\ {"connect"} \cap Sending = {}
  BY DEF Call, Sending
<1>3. /\ w \in Used /\ th \in Thread /\ th.call = "connect"
      /\ th.cancel = "yes" => Over(w)
  BY <1>1, <1>2, EntersOK
<1>4. w = <<"active", "write">> /\ UNCHANGED <<fd, shut, reset, soError, wire, handed, got, taken, ends>>
  BY DEF Connect
<1>5. /\ conn \in {"none", "connecting", "established", "failed"}
      /\ queued \in BOOLEAN /\ taken \in BOOLEAN /\ soError \in [End -> BOOLEAN]
      /\ fd \in [Socket -> {"unborn", "open", "closed"}]
      /\ queued => conn = "established"
  BY DEF IInv, TypeOK, KernelOK
<1>6. /\ conn' \in {"none", "connecting", "established", "failed"}
      /\ queued' \in BOOLEAN /\ (queued' => conn' = "established")
      /\ conn' \in {"none", "connecting"} => conn \in {"none", "connecting"}
  <2>1. CASE conn = "none" /\ conn' = "connecting" /\ UNCHANGED queued
    BY <1>5, <2>1
  <2>2. CASE conn' = "established" /\ queued' = TRUE
    BY <2>2
  <2>3. CASE UNCHANGED <<conn, queued>>
    BY <1>5, <2>3
  <2> QED
    BY <1>1, <2>1, <2>2, <2>3
<1>7. Monotone
  BY <1>1, <1>4, <1>5 DEF Monotone
<1>8. \E r \in Thread : thread' = [thread EXCEPT ![w] = r] /\ ThreadOK(w, r)'
  <2>1. th.call \notin Sending /\ th.call # "sendAll" /\ -1 \in -1 .. MaxHanded /\ 0 \in -1 .. MaxHanded
    BY <1>3, Names DEF Sending
  <2>2. CASE Returns(w, th, 0) /\ conn' = "established"
    BY <1>3, <2>1, <2>2, ReturnsOK
  <2>3. CASE Returns(w, th, -1)
    BY <1>3, <2>1, <2>3, ReturnsOK
  <2>4. CASE /\ fd["active"] = "open" /\ conn = "none" /\ conn' = "connecting"
             /\ Blocks(w, [th EXCEPT !.call = "getError"])
    <3>1. th.cancel # "yes"
      BY <1>3, <1>4, <2>4 DEF Over, IInv, KernelOK
    <3>2. PICK t \in Thread : t = [th EXCEPT !.call = "getError"]
      BY <1>3 DEF Thread, Call
    <3>3. t.call = "getError" /\ t.cancel = th.cancel
      BY <1>3, <3>2 DEF Thread
    <3>4. t.call \notin Sending
      BY <3>3 DEF Sending
    <3>5. Blocks(w, t)
      BY <2>4, <3>2
    <3> HIDE <3>2
    <3> QED
      BY <1>4, <2>4, <3>1, <3>3, <3>4, <3>5, BlocksOK
  <2> QED
    BY <1>1, <2>2, <2>3, <2>4
<1> QED
  BY <1>3, <1>4, <1>5, <1>6, <1>7, <1>8, CallStep

LEMMA GetErrorKeeps ==
    ASSUME IInv, NEW w, GetError(w)
    PROVE  IInv'
<1> DEFINE v == IF fd["active"] # "open" \/ soError["active"] THEN -1 ELSE 0
<1>1. PICK th \in Entering(w, {"getError"}) : Returns(w, th, v)
  BY DEF GetError
<1>2. {"getError"} \subseteq Call /\ {"getError"} \cap Sending = {}
  BY DEF Call, Sending
<1>3. /\ w \in Used /\ th \in Thread /\ th.call = "getError"
      /\ w = <<"active", "write">> /\ (conn = "established" \/ ErrorIsKept)
  BY <1>1, <1>2, EntersOK
<1>4. /\ UNCHANGED <<conn, queued, fd, shut, reset, wire, handed, got, taken, ends>>
      /\ soError' = [soError EXCEPT !["active"] = soError["active"] /\ fd["active"] # "open"]
  BY DEF GetError
<1>5. /\ conn \in {"none", "connecting", "established", "failed"}
      /\ queued \in BOOLEAN /\ taken \in BOOLEAN /\ soError \in [End -> BOOLEAN]
      /\ fd \in [Socket -> {"unborn", "open", "closed"}]
      /\ queued => conn = "established"
  BY DEF IInv, TypeOK, KernelOK
<1>6. soError' \in [End -> BOOLEAN]
  BY <1>4, <1>5
<1>7. Monotone
  BY <1>4 DEF Monotone
<1>8. v \in -1 .. MaxHanded /\ (v = 0 => conn = "established" \/ taken)
  BY <1>3, Names DEF ErrorIsKept
<1>9. th.call \notin Sending /\ th.call # "sendAll"
  BY <1>3 DEF Sending
<1> HIDE DEF v
<1>10. \E r \in Thread : thread' = [thread EXCEPT ![w] = r] /\ ThreadOK(w, r)'
  BY <1>1, <1>3, <1>4, <1>8, <1>9, ReturnsOK
<1> QED
  BY <1>3, <1>4, <1>5, <1>6, <1>7, <1>10, CallStep

\* The bytes on the way to e become ws, where e has read g and its peer sent h.
Moves(e, ws, g, h) ==
    /\ ws \in Seq(1 .. MaxHanded) /\ g \in 0 .. MaxHanded /\ h \in 0 .. MaxHanded
    /\ wire' = [wire EXCEPT ![e] = ws] /\ got' = [got EXCEPT ![e] = g]
    /\ handed' = [handed EXCEPT ![Peer(e)] = h]
    /\ Len(ws) <= Capacity /\ h = g + Len(ws) /\ \A i \in 1 .. Len(ws) : ws[i] = g + i

\* A call that moves bytes towards an end.
LEMMA BytesStep ==
    ASSUME IInv, Monotone, NEW w \in Used, NEW th \in Thread,
           thread' = [thread EXCEPT ![w] = th], ThreadOK(w, th)',
           UNCHANGED <<conn, queued, fd, shut, reset, ends>>,
           taken' \in BOOLEAN, soError' \in [End -> BOOLEAN],
           NEW e \in End, NEW ws, NEW g, NEW h, Moves(e, ws, g, h),
           \A s \in End : w # <<s, "write">> => handed'[s] = handed[s],
           w # <<"active", "write">> /\ soError["active"] /\ ConnectInProgress("active") =>
               soError'["active"] \/ taken'
    PROVE  IInv'
<1>1. TypeOK /\ KernelOK /\ InOrder
  BY DEF IInv
<1>2. thread' \in [Used -> Thread] /\ \A v \in Used : ThreadOK(v, thread[v])'
  BY OneThread
<1>3. /\ wire \in [End -> Seq(1 .. MaxHanded)] /\ handed \in [End -> 0 .. MaxHanded]
      /\ got \in [End -> 0 .. MaxHanded]
  BY <1>1 DEF TypeOK
<1> USE DEF Moves
<1>4. /\ wire' \in [End -> Seq(1 .. MaxHanded)] /\ handed' \in [End -> 0 .. MaxHanded]
      /\ got' \in [End -> 0 .. MaxHanded] /\ wire'[e] = ws /\ got'[e] = g
      /\ handed'[Peer(e)] = h
  BY <1>3, Names
<1>5. ASSUME NEW s \in End, s # e
      PROVE  wire'[s] = wire[s] /\ got'[s] = got[s] /\ handed'[Peer(s)] = handed[Peer(s)]
  <2>1. Peer(s) # Peer(e)
    BY <1>5, Names
  <2> QED
    BY <1>3, <1>5, <2>1, Names
<1>6. TypeOK'
  <2>1. \A s \in End : Len(wire'[s]) <= Capacity
    BY <1>1, <1>4, <1>5 DEF TypeOK
  <2> QED
    BY <1>1, <1>2, <1>4, <2>1 DEF TypeOK
<1>7. KernelOK'
  <2>1. \A s \in End : handed'[Peer(s)] = got'[s] + Len(wire'[s])
    BY <1>1, <1>4, <1>5 DEF KernelOK
  <2> QED
    BY <1>1, <2>1 DEF KernelOK
<1>8. InOrder'
  BY <1>1, <1>4, <1>5 DEF InOrder
<1> QED
  BY <1>2, <1>6, <1>7, <1>8 DEF IInv

\* What is left of a sequence when its first elements are taken.
LEMMA Remaining ==
    ASSUME NEW S, NEW q \in Seq(S), NEW n \in 1 .. Len(q),
           NEW r, r = SubSeq(q, n + 1, Len(q))
    PROVE  /\ r \in Seq(S) /\ Len(r) = Len(q) - n
           /\ \A i \in 1 .. Len(r) : r[i] = q[n + i]
<1>1. Len(q) \in Nat /\ n \in Nat /\ n <= Len(q)
  OBVIOUS
<1>2. PICK k \in Int, m \in Int : k = n + 1 /\ m = Len(q)
  BY <1>1
<1>3. \A i \in k .. m : q[i] \in S
  BY <1>1, <1>2
<1>4. /\ r \in Seq(S) /\ Len(r) = IF k <= m THEN m - k + 1 ELSE 0
      /\ \A i \in 1 .. m - k + 1 : r[i] = q[k + i - 1]
  BY <1>2, <1>3, SubSeqProperties
<1>5. Len(r) = Len(q) - n
  BY <1>1, <1>2, <1>4
<1>6. ASSUME NEW i \in 1 .. Len(r)
      PROVE  r[i] = q[n + i]
  <2>1. i \in 1 .. m - k + 1 /\ k + i - 1 = n + i
    BY <1>1, <1>2, <1>5
  <2> QED
    BY <1>4, <2>1
<1> QED
  BY <1>4, <1>5, <1>6

LEMMA ReceiveKeeps ==
    ASSUME IInv, NEW s \in End, Receive(<<s, "read">>)
    PROVE  IInv'
<1> DEFINE w == <<s, "read">>
           AtEnd == "read" \in shut[s] \/ Fin(s) \/ Dead(s)
<1>1. PICK th \in Entering(w, Receiving) :
          \/ /\ fd[s] # "open" \/ conn = "none"
             /\ Returns(w, th, -1) /\ UNCHANGED <<soError, wire, got, taken>>
          \/ /\ fd[s] = "open"
             /\ \E n \in 1 .. Len(wire[s]) :
                    /\ wire' = [wire EXCEPT ![s] = SubSeq(wire[s], n + 1, Len(wire[s]))]
                    /\ got' = [got EXCEPT ![s] = got[s] + n]
                    /\ Returns(w, th, n)
             /\ UNCHANGED <<soError, taken>>
          \/ /\ fd[s] = "open" /\ wire[s] = << >> /\ soError[s]
             /\ soError' = [soError EXCEPT ![s] = FALSE]
             /\ taken' = (taken \/ ConnectInProgress(s))
             /\ Returns(w, th, -1) /\ UNCHANGED <<wire, got>>
          \/ /\ fd[s] = "open" /\ conn # "none" /\ wire[s] = << >> /\ ~soError[s]
             /\ IF AtEnd THEN Returns(w, th, 0) ELSE Blocks(w, th)
             /\ UNCHANGED <<soError, wire, got, taken>>
  BY DEF Receive
<1>2. UNCHANGED <<conn, queued, fd, shut, reset, handed, ends>>
  BY DEF Receive
<1>3. Receiving \subseteq Call /\ Receiving \cap Sending = {}
  BY DEF Call, Receiving, Sending
<1>4. /\ w \in Used /\ th \in Thread /\ th.call \in Receiving
      /\ th.cancel = "yes" => Over(w)
  BY <1>1, <1>3, EntersOK
<1>5. th.call \notin Sending /\ th.call \notin {"connect", "getError", "sendAll"}
  BY <1>3, <1>4 DEF Receiving
<1>6. TypeOK /\ KernelOK /\ InOrder
  BY DEF IInv
<1>7. /\ conn \in {"none", "connecting", "established", "failed"}
      /\ queued \in BOOLEAN /\ taken \in BOOLEAN /\ soError \in [End -> BOOLEAN]
      /\ fd \in [Socket -> {"unborn", "open", "closed"}]
      /\ queued => conn = "established"
      /\ wire[s] \in Seq(1 .. MaxHanded) /\ got[s] \in 0 .. MaxHanded
      /\ handed[Peer(s)] \in 0 .. MaxHanded /\ Len(wire[s]) <= Capacity
      /\ handed[Peer(s)] = got[s] + Len(wire[s]) /\ handed \in [End -> 0 .. MaxHanded]
  BY <1>6, Names DEF TypeOK, KernelOK
<1>8. \A v \in -1 .. MaxHanded : Returns(w, th, v) =>
          \E r \in Thread : thread' = [thread EXCEPT ![w] = r] /\ ThreadOK(w, r)'
  BY <1>4, <1>5, ReturnsOK
<1>9. -1 \in -1 .. MaxHanded /\ 0 \in -1 .. MaxHanded
  BY Names
<1>10. CASE UNCHANGED <<soError, wire, got, taken>> /\ (Returns(w, th, -1) \/ Returns(w, th, 0))
  <2>1. Monotone
    BY <1>2, <1>10 DEF Monotone
  <2>2. PICK r \in Thread : thread' = [thread EXCEPT ![w] = r] /\ ThreadOK(w, r)'
    BY <1>8, <1>9, <1>10
  <2> QED
    BY <1>2, <1>4, <1>7, <1>10, <2>1, <2>2, CallStep
<1>11. ASSUME NEW n \in 1 .. Len(wire[s]), UNCHANGED <<soError, taken>>, Returns(w, th, n),
              wire' = [wire EXCEPT ![s] = SubSeq(wire[s], n + 1, Len(wire[s]))],
              got' = [got EXCEPT ![s] = got[s] + n]
       PROVE  IInv'
  <2>1. Monotone
    BY <1>2, <1>11 DEF Monotone
  <2>2. Len(wire[s]) \in Nat /\ n \in Nat /\ n <= Len(wire[s]) /\ n <= MaxHanded
        /\ got[s] \in Nat /\ got[s] + n \in 0 .. MaxHanded
    <3>1. /\ Len(wire[s]) \in Nat /\ n \in Nat /\ n <= Len(wire[s]) /\ got[s] \in Nat
          /\ MaxHanded \in Nat
      BY <1>7, Names
    <3>2. got[s] + Len(wire[s]) \in 0 .. MaxHanded
      BY <1>7, Zenon
    <3>3. \A a, b, c, m \in Nat : a + b \in 0 .. m /\ c <= b => a + c \in 0 .. m /\ c <= m
      OBVIOUS
    <3> QED
      BY <3>1, <3>2, <3>3
  <2>3. PICK r \in Thread : thread' = [thread EXCEPT ![w] = r] /\ ThreadOK(w, r)'
    BY <1>8, <1>11, <2>2
  <2>4. PICK ws : ws = SubSeq(wire[s], n + 1, Len(wire[s]))
    OBVIOUS
  <2>5. /\ ws \in Seq(1 .. MaxHanded) /\ Len(ws) = Len(wire[s]) - n
        /\ \A i \in 1 .. Len(ws) : ws[i] = wire[s][n + i]
    <3>1. PICK S : S = 1 .. MaxHanded
      OBVIOUS
    <3>2. PICK q \in Seq(S) : q = wire[s]
      BY <1>7, <3>1
    <3>3. n \in 1 .. Len(q) /\ ws = SubSeq(q, n + 1, Len(q))
      BY <2>4, <3>2
    <3>4. /\ ws \in Seq(S) /\ Len(ws) = Len(q) - n
          /\ \A i \in 1 .. Len(ws) : ws[i] = q[n + i]
      BY <3>3, Remaining
    <3> QED
      BY <3>1, <3>2, <3>4
  <2>6. PICK g \in 0 .. MaxHanded : g = got[s] + n
    BY <2>2
  <2>7. \A i \in 1 .. Len(ws) : ws[i] = g + i
    <3>1. TAKE i \in 1 .. Len(ws)
    <3>2. n + i \in 1 .. Len(wire[s])
      BY <2>2, <2>5
    <3>3. wire[s][n + i] = got[s] + (n + i)
      BY <1>6, <3>2 DEF InOrder
    <3>4. \A a, b \in Nat, c \in Int : a + (b + c) = (a + b) + c
      OBVIOUS
    <3>5. got[s] + (n + i) = (got[s] + n) + i
      BY <2>2, <3>4
    <3> QED
      BY <2>5, <2>6, <3>3, <3>5
  <2>8. wire' = [wire EXCEPT ![s] = ws] /\ got' = [got EXCEPT ![s] = g]
    BY <1>11, <2>4, <2>6
  <2>9. handed' = [handed EXCEPT ![Peer(s)] = handed[Peer(s)]]
    BY <1>2, <1>7
  <2>10. Len(ws) <= Capacity /\ handed[Peer(s)] = g + Len(ws)
    <3>1. /\ Len(ws) = Len(wire[s]) - n /\ g = got[s] + n /\ got[s] \in Int
          /\ handed[Peer(s)] = got[s] + Len(wire[s]) /\ Len(wire[s]) <= Capacity /\ Capacity \in Int
      BY <1>7, <2>5, <2>6, Names
    <3> QED
      BY <2>2, <3>1
  <2>11. Moves(s, ws, g, handed[Peer(s)])
    BY <1>7, <2>5, <2>7, <2>8, <2>9, <2>10 DEF Moves
  <2> HIDE DEF w
  <2> QED
    BY <1>2, <1>4, <1>7, <1>11, <2>1, <2>3, <2>11, BytesStep
<1>12. CASE /\ soError' = [soError EXCEPT ![s] = FALSE] /\ UNCHANGED <<wire, got>>
            /\ taken' = (taken \/ ConnectInProgress(s)) /\ Returns(w, th, -1)
  <2>1. Monotone
    BY <1>2, <1>12 DEF Monotone
  <2>2. PICK r \in Thread : thread' = [thread EXCEPT ![w] = r] /\ ThreadOK(w, r)'
    BY <1>8, <1>9, <1>12
  <2>3. taken' \in BOOLEAN /\ soError' \in [End -> BOOLEAN]
    BY <1>7, <1>12 DEF ConnectInProgress
  <2>4. soError["active"] /\ ConnectInProgress("active") => soError'["active"] \/ taken'
    BY <1>7, <1>12, Names
  <2> HIDE DEF w
  <2> QED
    BY <1>2, <1>4, <1>7, <1>12, <2>1, <2>2, <2>3, <2>4, CallStep
<1>13. CASE /\ Blocks(w, th) /\ ~AtEnd /\ fd[s] = "open" /\ conn # "none"
            /\ UNCHANGED <<soError, wire, got, taken>>
  <2>1. Monotone
    BY <1>2, <1>13 DEF Monotone
  <2>2. th.cancel # "yes"
    BY <1>4, <1>13 DEF Over, Dead
  <2>3. PICK r \in Thread : thread' = [thread EXCEPT ![w] = r] /\ ThreadOK(w, r)'
    BY <1>4, <1>5, <1>13, <2>2, BlocksOK
  <2> HIDE DEF w
  <2> QED
    BY <1>2, <1>4, <1>7, <1>13, <2>1, <2>3, CallStep
<1> QED
  BY <1>1, <1>10, <1>11, <1>12, <1>13

\* What is put on the wire, behind what is there.
LEMMA Appended ==
    ASSUME NEW S, NEW q \in Seq(S), NEW n \in Nat, NEW o \in Nat,
           \A i \in 1 .. n : o + i \in S,
           NEW r, r = q \o [i \in 1 .. n |-> o + i]
    PROVE  /\ r \in Seq(S) /\ Len(r) = Len(q) + n
           /\ \A i \in 1 .. Len(q) : r[i] = q[i]
           /\ \A i \in Len(q) + 1 .. Len(q) + n : r[i] = o + (i - Len(q))
<1>1. PICK t \in Seq(S) : t = [i \in 1 .. n |-> o + i]
  <2>1. PICK t \in [1 .. n -> S] : t = [i \in 1 .. n |-> o + i]
    OBVIOUS
  <2>2. t \in Seq(S)
    BY SeqDef
  <2> QED
    BY <2>1, <2>2
<1>2. Len(t) = n /\ (\A i \in 1 .. n : t[i] = o + i) /\ Len(q) \in Nat
  BY <1>1
<1>3. r = q \o t
  BY <1>1
<1> HIDE <1>1
<1>4. /\ r \in Seq(S) /\ Len(r) = Len(q) + n
      /\ \A i \in 1 .. Len(q) + n : r[i] = IF i <= Len(q) THEN q[i] ELSE t[i - Len(q)]
  BY <1>2, <1>3, ConcatProperties
<1>5. ASSUME NEW i \in Len(q) + 1 .. Len(q) + n
      PROVE  r[i] = o + (i - Len(q))
  <2>1. i - Len(q) \in 1 .. n /\ i \in 1 .. Len(q) + n /\ ~(i <= Len(q))
    BY <1>2
  <2> QED
    BY <1>2, <1>4, <2>1
<1>6. ASSUME NEW i \in 1 .. Len(q)
      PROVE  r[i] = q[i]
  BY <1>2, <1>4
<1> QED
  BY <1>4, <1>5, <1>6

LEMMA SendKeeps ==
    ASSUME IInv, NEW s \in End, Send(<<s, "write">>)
    PROVE  IInv'
<1> DEFINE w == <<s, "write">>
           Bad == fd[s] # "open" \/ conn = "none" \/ soError[s] \/ Dead(s) \/ "write" \in shut[s]
           p == Peer(s)
<1>1. PICK th \in Entering(w, Sending) :
          \/ /\ Bad /\ SendFails(w, th, -1)
             /\ soError' = [soError EXCEPT ![s] = soError[s] /\ fd[s] # "open"]
             /\ UNCHANGED <<wire, handed>>
          \/ /\ ~Bad /\ \E n \in {k \in 1 .. th.len : k <= Room(s)} :
                    /\ wire' = [wire EXCEPT ![p] =
                           wire[p] \o [i \in 1 .. n |-> th.first + th.data + i]]
                    /\ handed' = [handed EXCEPT ![s] = handed[s] + n]
                    /\ Sent(w, th, n)
             /\ UNCHANGED soError
          \/ /\ ~Bad /\ Room(s) = 0
             /\ Blocks(w, th) /\ UNCHANGED <<soError, wire, handed>>
  BY DEF Send
<1>2. UNCHANGED <<conn, queued, fd, shut, reset, got, taken, ends>>
  BY DEF Send
<1>3. Sending \subseteq Call
  BY DEF Call
<1>4. /\ w \in Used /\ th \in Thread /\ th.call \in Sending
      /\ th.cancel = "yes" => Over(w)
      /\ th.data + th.len = th.size /\ th.len > 0 /\ th.first + th.size <= MaxHanded
      /\ handed[s] = th.first + th.data
  BY <1>1, <1>3, EntersOK
<1>5. th.call \notin {"connect", "getError"} /\ w \in {<<e, "write">> : e \in End}
  BY <1>4 DEF Sending
<1>6. TypeOK /\ KernelOK /\ InOrder
  BY DEF IInv
<1>7. /\ conn \in {"none", "connecting", "established", "failed"}
      /\ queued \in BOOLEAN /\ taken \in BOOLEAN /\ soError \in [End -> BOOLEAN]
      /\ fd \in [Socket -> {"unborn", "open", "closed"}]
      /\ queued => conn = "established"
      /\ handed \in [End -> 0 .. MaxHanded] /\ got \in [End -> 0 .. MaxHanded]
  BY <1>6 DEF TypeOK, KernelOK
<1>8. /\ th.data \in Nat /\ th.len \in Nat /\ th.size \in Nat /\ th.first \in Nat
      /\ MaxHanded \in Nat /\ th.len <= MaxHanded
      /\ -1 \in -1 .. MaxHanded /\ 0 \in -1 .. MaxHanded /\ 1 \in -1 .. MaxHanded
  BY <1>4, Names DEF Thread
<1>9. ~Bad => th.cancel # "yes"
  BY <1>4 DEF Over, Dead
<1>10. CASE /\ SendFails(w, th, -1) /\ UNCHANGED <<wire, handed>>
            /\ soError' = [soError EXCEPT ![s] = soError[s] /\ fd[s] # "open"]
  <2>1. Monotone
    BY <1>2, <1>10 DEF Monotone
  <2>2. handed'[s] # th.first + th.size
    BY <1>4, <1>8, <1>10
  <2>3. PICK v \in -1 .. MaxHanded : v # 1 /\ Returns(w, th, v)
    BY <1>8, <1>10 DEF SendFails
  <2>4. PICK r \in Thread : thread' = [thread EXCEPT ![w] = r] /\ ThreadOK(w, r)'
    BY <1>4, <1>5, <2>2, <2>3, ReturnsOK
  <2>5. soError' \in [End -> BOOLEAN]
    BY <1>7, <1>10
  <2>6. w # <<"active", "write">> => soError'["active"] = soError["active"]
    BY <1>7, <1>10, Names
  <2> HIDE DEF w
  <2> QED
    BY <1>2, <1>4, <1>7, <1>10, <2>1, <2>4, <2>5, <2>6, CallStep
<1>11. CASE ~Bad /\ Blocks(w, th) /\ UNCHANGED <<soError, wire, handed>>
  <2>1. Monotone
    BY <1>2, <1>11 DEF Monotone
  <2>2. PICK r \in Thread : thread' = [thread EXCEPT ![w] = r] /\ ThreadOK(w, r)'
    BY <1>4, <1>5, <1>9, <1>11, BlocksOK
  <2> HIDE DEF w
  <2> QED
    BY <1>2, <1>4, <1>7, <1>11, <2>1, <2>2, CallStep
<1>12. ASSUME NEW n \in {k \in 1 .. th.len : k <= Room(s)}, ~Bad,
              wire' = [wire EXCEPT ![p] =
                  wire[p] \o [i \in 1 .. n |-> th.first + th.data + i]],
              handed' = [handed EXCEPT ![s] = handed[s] + n],
              Sent(w, th, n), UNCHANGED soError
       PROVE  IInv'
  <2>1. Monotone
    BY <1>2, <1>12 DEF Monotone
  <2>2. n \in Nat /\ n > 0 /\ n <= th.len /\ n <= Room(s)
    BY <1>8, <1>12
  <2>3. p \in End /\ Peer(p) = s /\ p # s
    BY Names
  <2>4. /\ wire[p] \in Seq(1 .. MaxHanded) /\ got[p] \in 0 .. MaxHanded
        /\ handed[s] = got[p] + Len(wire[p]) /\ Len(wire[p]) \in Nat
        /\ handed[s] \in Nat /\ got[p] \in Nat
    <3>1. wire[p] \in Seq(1 .. MaxHanded) /\ got[p] \in 0 .. MaxHanded
      BY <1>6, <2>3 DEF TypeOK
    <3>2. handed[Peer(p)] = got[p] + Len(wire[p])
      BY <1>6, <2>3 DEF KernelOK
    <3> QED
      BY <1>7, <2>3, <3>1, <3>2
  <2>5. handed'[s] = th.first + th.data + n /\ handed[s] + n \in 0 .. MaxHanded
    <3>1. handed'[s] = handed[s] + n
      BY <1>7, <1>12, Names
    <3>2. \A a, b, c, d, m, j \in Nat :
              j <= c /\ b + c = d /\ a + d <= m => (a + b) + j \in 0 .. m
      OBVIOUS
    <3>3. (th.first + th.data) + n \in 0 .. MaxHanded
      BY <1>4, <1>8, <2>2, <3>2
    <3> QED
      BY <1>4, <3>1, <3>3
  <2>6. PICK r \in Thread : thread' = [thread EXCEPT ![w] = r] /\ ThreadOK(w, r)'
    <3>1. CASE th.call # "sendAll"
      <4>1. Returns(w, th, n) /\ n \in -1 .. MaxHanded
        BY <1>8, <1>12, <2>2, <3>1 DEF Sent
      <4> QED
        BY <1>4, <1>5, <3>1, <4>1, ReturnsOK
    <3>2. CASE th.call = "sendAll" /\ n = th.len
      <4>1. Returns(w, th, 1)
        BY <1>12, <3>2 DEF Sent
      <4>2. handed'[s] = th.first + th.size
        BY <1>4, <1>8, <2>5, <3>2
      <4> QED
        BY <1>4, <1>5, <1>8, <4>1, <4>2, ReturnsOK
    <3>3. CASE th.call = "sendAll" /\ n # th.len
      <4>1. PICK r : r = [[th EXCEPT !.data = @ + n, !.len = @ - n] EXCEPT !.at = "running"]
        OBVIOUS
      <4>2. thread' = [thread EXCEPT ![w] = r]
        BY <1>12, <3>3, <4>1 DEF Sent, Again
      <4>3. n < th.len
        BY <1>8, <2>2, <3>3
      <4>4. r \in Thread /\ ThreadOK(w, r)'
        BY <1>4, <1>5, <1>9, <1>12, <2>2, <2>5, <3>3, <4>1, <4>3, RunningOK
      <4> QED
        BY <4>2, <4>4
    <3> QED
      BY <3>1, <3>2, <3>3
  <2>7. PICK ws : ws = wire[p] \o [i \in 1 .. n |-> (th.first + th.data) + i]
    OBVIOUS
  <2>8. /\ ws \in Seq(1 .. MaxHanded) /\ Len(ws) = Len(wire[p]) + n
        /\ \A i \in 1 .. Len(wire[p]) : ws[i] = wire[p][i]
        /\ \A i \in Len(wire[p]) + 1 .. Len(wire[p]) + n :
               ws[i] = (th.first + th.data) + (i - Len(wire[p]))
    <3>1. PICK S : S = 1 .. MaxHanded
      OBVIOUS
    <3>2. PICK q \in Seq(S), o \in Nat : q = wire[p] /\ o = th.first + th.data
      BY <1>8, <2>4, <3>1
    <3>3. ASSUME NEW i \in 1 .. n
          PROVE  o + i \in S
      <4>1. /\ i \in Nat /\ i > 0 /\ i <= th.len /\ o = th.first + th.data
            /\ th.data + th.len = th.size /\ th.first + th.size <= MaxHanded
        BY <1>4, <1>8, <2>2, <3>2
      <4>2. \A a, b, c, d, m, j \in Nat :
                j > 0 /\ j <= c /\ b + c = d /\ a + d <= m => (a + b) + j \in 1 .. m
        OBVIOUS
      <4>3. o + i \in 1 .. MaxHanded
        BY <1>8, <4>1, <4>2
      <4> QED
        BY <3>1, <4>3
    <3>4. ws = q \o [i \in 1 .. n |-> o + i]
      BY <2>7, <3>2
    <3>5. /\ ws \in Seq(S) /\ Len(ws) = Len(q) + n
          /\ \A i \in 1 .. Len(q) : ws[i] = q[i]
          /\ \A i \in Len(q) + 1 .. Len(q) + n : ws[i] = o + (i - Len(q))
      BY <2>2, <3>3, <3>4, Appended
    <3> QED
      BY <3>1, <3>2, <3>5
  <2>9. ASSUME NEW i \in 1 .. Len(ws)
        PROVE  ws[i] = got[p] + i
    <3>1. CASE i \in 1 .. Len(wire[p])
      BY <1>6, <2>3, <2>8, <3>1 DEF InOrder
    <3>2. CASE i \in Len(wire[p]) + 1 .. Len(wire[p]) + n
      <4>1. ws[i] = (got[p] + Len(wire[p])) + (i - Len(wire[p]))
        BY <1>4, <2>4, <2>8, <3>2
      <4>2. i \in Int
        OBVIOUS
      <4>3. \A a, b \in Nat, c \in Int : (a + b) + (c - b) = a + c
        OBVIOUS
      <4> QED
        BY <2>4, <4>1, <4>2, <4>3
    <3>3. Len(ws) = Len(wire[p]) + n /\ i \in Int /\ 1 <= i /\ i <= Len(ws)
      BY <2>8
    <3>4. i \in 1 .. Len(wire[p]) \/ i \in Len(wire[p]) + 1 .. Len(wire[p]) + n
      BY <2>2, <2>4, <3>3
    <3> QED
      BY <3>1, <3>2, <3>4
  <2>10. Len(ws) <= Capacity /\ handed[s] + n = got[p] + Len(ws)
    <3>1. Room(s) = Capacity - Len(wire[p]) \/ Room(s) = 0
      BY DEF Room
    <3>2. n <= Capacity - Len(wire[p])
      <4>1. Capacity \in Int /\ Len(wire[p]) <= Capacity
        BY <1>6, <2>3, Names DEF TypeOK
      <4> QED
        BY <2>2, <2>4, <3>1, <4>1
    <3>3. Len(ws) = Len(wire[p]) + n /\ Capacity \in Int
      BY <2>8, Names
    <3>4. Len(ws) <= Capacity
      BY <2>2, <2>4, <3>2, <3>3
    <3>5. handed[s] + n = got[p] + Len(ws)
      <4>1. \A a, b, c \in Nat : (a + b) + c = a + (b + c)
        OBVIOUS
      <4>2. /\ handed[s] = got[p] + Len(wire[p]) /\ Len(ws) = Len(wire[p]) + n
            /\ got[p] \in Nat /\ Len(wire[p]) \in Nat /\ n \in Nat
        BY <2>2, <2>4, <3>3
      <4>3. (got[p] + Len(wire[p])) + n = got[p] + (Len(wire[p]) + n)
        BY <4>1, <4>2
      <4> QED
        BY <4>2, <4>3, Zenon
    <3> QED
      BY <3>4, <3>5
  <2>11. /\ wire' = [wire EXCEPT ![p] = ws] /\ got' = [got EXCEPT ![p] = got[p]]
         /\ handed' = [handed EXCEPT ![Peer(p)] = handed[s] + n]
    BY <1>2, <1>7, <1>12, <2>3, <2>7
  <2>12. \A e \in End : w # <<e, "write">> => handed'[e] = handed[e]
    BY <1>7, <1>12
  <2>13. ws \in Seq(1 .. MaxHanded)
    BY <2>8
  <2>14. PICK h \in 0 .. MaxHanded : h = handed[s] + n
    BY <2>5
  <2>15. handed' = [handed EXCEPT ![Peer(p)] = h] /\ h = got[p] + Len(ws)
    BY <2>10, <2>11, <2>14
  <2>16. PICK g \in 0 .. MaxHanded : g = got[p]
    BY <2>4
  <2>17. /\ got' = [got EXCEPT ![p] = g] /\ h = g + Len(ws)
         /\ \A i \in 1 .. Len(ws) : ws[i] = g + i
    BY <2>9, <2>11, <2>15, <2>16
  <2>18. w # <<"active", "write">> /\ soError["active"] /\ ConnectInProgress("active") =>
            soError'["active"] \/ taken'
    BY <1>12
  <2>19. soError' \in [End -> BOOLEAN] /\ taken' \in BOOLEAN
    BY <1>2, <1>7, <1>12
  <2>20. Moves(p, ws, g, h)
    BY <2>10, <2>11, <2>13, <2>15, <2>17 DEF Moves
  <2>21. UNCHANGED <<conn, queued, fd, shut, reset, ends>> /\ w \in Used
    BY <1>2, <1>4
  <2> HIDE DEF w, p
  <2> QED
    BY <2>1, <2>3, <2>6, <2>12, <2>18, <2>19, <2>20, <2>21, BytesStep
<1> QED
  BY <1>1, <1>10, <1>11, <1>12

-----------------------------------------------------------------------------
(***************************************************************************)
(* Shutting down and closing.                                              *)
(***************************************************************************)

LEMMA ManyReleased ==
    ASSUME IInv, Monotone, NEW s \in Socket, NEW how \in SUBSET Side,
           thread' = Released(s, how), handed' = handed,
           \A d \in how : Over(<<s, d>>)',
           s = "active" => conn' = "established" \/ ErrorIsKept',
           soError["active"] => soError'["active"]
    PROVE  thread' \in [Used -> Thread] /\ \A w \in Used : ThreadOK(w, thread[w])'
<1>1. \A w \in Used : thread'[w] = IF w[1] = s /\ w[2] \in how
                                  THEN Unblocked(thread[w], "UNBLOCKED") ELSE thread[w]
  BY DEF Released
<1>2. ASSUME NEW w \in Used
      PROVE  thread'[w] \in Thread /\ ThreadOK(w, thread[w])'
  <2>1. PICK th \in Thread : th = thread[w] /\ ThreadOK(w, th)
    BY DEF IInv, TypeOK
  <2>2. CASE thread'[w] = thread[w]
    BY <2>1, <2>2, Untouched
  <2>3. CASE w[1] = s /\ w[2] \in how /\ th.at \in {"blocked", "ready"}
    <3>1. PICK r : r = [th EXCEPT !.at = "ready", !.result = "UNBLOCKED"]
      OBVIOUS
    <3>2. thread'[w] = r
      BY <1>1, <2>1, <2>3, <3>1 DEF Unblocked
    <3>3. /\ r \in Thread /\ r.at = "ready" /\ r.call = th.call /\ r.result = "UNBLOCKED"
          /\ r.cancel = th.cancel /\ r.first = th.first /\ r.size = th.size
          /\ r.data = th.data /\ r.len = th.len
      BY <3>1 DEF Thread
    <3> HIDE <3>1
    <3>4. ThreadOK(w, th)'
      BY <2>1, Persists
    <3>5. w = <<w[1], w[2]>>
      BY DEF Used, Waiter
    <3>6. Over(w)'
      BY <2>3, <3>5
    <3>7. CancelKept(w, r)'
      BY <3>3, <3>6 DEF CancelKept
    <3>8. Sends(w, r)'
      BY <2>3, <3>3, <3>4 DEF ThreadOK, Sends, Inside
    <3>9. Connects(w, r)'
      <4>1. th.call = "getError" => conn' = "established" \/ ErrorIsKept'
        BY <2>1, <2>3, <3>5 DEF ThreadOK, Connects, Inside
      <4> QED
        BY <2>3, <3>3, <3>4, <4>1 DEF ThreadOK, Connects, Inside
    <3>10. ThreadOK(w, r)'
      BY <3>7, <3>8, <3>9 DEF ThreadOK
    <3> QED
      BY <3>2, <3>3, <3>10 DEF ThreadOK, CancelKept, Sends, Connects
  <2>4. ~(w[1] = s /\ w[2] \in how /\ th.at \in {"blocked", "ready"}) => thread'[w] = thread[w]
    BY <1>1, <2>1 DEF Unblocked
  <2> QED
    BY <2>2, <2>3, <2>4
<1>3. thread' \in [Used -> Thread]
  BY <1>2 DEF Released
<1> QED
  BY <1>2, <1>3

\* What becomes of the connection that nobody has accepted.
LEMMA QueuedIsReset ==
    ASSUME TypeOK, KernelOK, ResetQueued
    PROVE  /\ reset' \in [End -> BOOLEAN] /\ soError' \in [End -> BOOLEAN] /\ queued' = FALSE
           /\ soError["active"] => soError'["active"]
           /\ \A s \in End : reset'[s] => conn = "established"
  BY Names DEF TypeOK, KernelOK, ResetQueued

LEMMA ShutdownKeeps ==
    ASSUME IInv, NEW s \in Socket, NEW how \in SUBSET Side, Shutdown(s, how)
    PROVE  IInv'
<1>1. TypeOK /\ KernelOK /\ InOrder
  BY DEF IInv
<1>2. /\ fd[s] = "open" /\ ends < MaxEnds /\ ends' = ends + 1
      /\ s \in End => conn \in {"connecting", "established"} /\ ~Dead(s)
      /\ thread' = Released(s, how)
      /\ UNCHANGED <<fd, wire, handed, got, taken>>
  BY DEF Shutdown, Ends
<1>3. ends' \in 0 .. MaxEnds
  BY <1>1, <1>2, SocketsAssumption DEF TypeOK
<1>4. /\ shut \in [Socket -> SUBSET Side] /\ soError \in [End -> BOOLEAN]
      /\ reset \in [End -> BOOLEAN] /\ queued \in BOOLEAN
      /\ conn \in {"none", "connecting", "established", "failed"}
      /\ queued => conn = "established"
      /\ \A e \in End : reset[e] => conn = "established"
  BY <1>1 DEF TypeOK, KernelOK
<1>5. CASE s = "active" /\ conn = "connecting"
  <2>1. /\ conn' = "failed" /\ soError' = [soError EXCEPT ![s] = TRUE]
        /\ UNCHANGED <<queued, shut, reset>>
    BY <1>5 DEF Shutdown
  <2>2. soError' \in [End -> BOOLEAN] /\ soError'["active"]
    BY <1>4, <1>5, <2>1, Names
  <2>3. Monotone
    BY <1>2, <1>5, <2>1, <2>2 DEF Monotone
  <2>4. thread' \in [Used -> Thread] /\ \A w \in Used : ThreadOK(w, thread[w])'
    <3>1. \A d \in how : Over(<<s, d>>)'
      BY <1>5, <2>1 DEF Over
    <3>2. ErrorIsKept'
      BY <2>2 DEF ErrorIsKept
    <3> QED
      BY <1>2, <2>2, <2>3, <3>1, <3>2, ManyReleased
  <2>5. TypeOK'
    BY <1>1, <1>2, <1>3, <2>1, <2>2, <2>4 DEF TypeOK
  <2>6. KernelOK' /\ InOrder'
    BY <1>1, <1>2, <1>4, <1>5, <2>1 DEF KernelOK, InOrder
  <2> QED
    BY <2>4, <2>5, <2>6 DEF IInv
<1>6. CASE ~(s = "active" /\ conn = "connecting")
  <2>1. /\ shut' = [shut EXCEPT ![s] = shut[s] \cup how] /\ conn' = conn
        /\ ResetQueued \/ UNCHANGED <<queued, reset, soError>>
    BY <1>6 DEF Shutdown
  <2>2. /\ reset' \in [End -> BOOLEAN] /\ soError' \in [End -> BOOLEAN]
        /\ queued' \in BOOLEAN /\ (queued' => queued)
        /\ soError["active"] => soError'["active"]
        /\ \A e \in End : reset'[e] => conn = "established"
    <3>1. CASE ResetQueued
      BY <1>1, <3>1, QueuedIsReset
    <3>2. CASE UNCHANGED <<queued, reset, soError>>
      BY <1>4, <3>2
    <3> QED
      BY <2>1, <3>1, <3>2
  <2>3. /\ shut' \in [Socket -> SUBSET Side] /\ how \subseteq shut'[s]
        /\ \A t \in Socket : shut[t] \subseteq shut'[t]
        /\ s # "active" => shut'["active"] = shut["active"]
    BY <1>4, <2>1, Names
  <2>4. Monotone
    BY <1>2, <2>1, <2>2, <2>3 DEF Monotone
  <2>5. s = "active" => conn' = "established"
    BY <1>2, <1>6, <2>1, Names
  <2>6. thread' \in [Used -> Thread] /\ \A w \in Used : ThreadOK(w, thread[w])'
    <3>1. \A d \in how : Over(<<s, d>>)'
      BY <2>3 DEF Over
    <3> QED
      BY <1>2, <2>2, <2>4, <2>5, <3>1, ManyReleased
  <2>7. TypeOK'
    BY <1>1, <1>2, <1>3, <2>1, <2>2, <2>3, <2>6 DEF TypeOK
  <2>8. KernelOK' /\ InOrder'
    BY <1>1, <1>2, <1>4, <2>1, <2>2, <2>3, <2>5 DEF KernelOK, InOrder
  <2> QED
    BY <2>6, <2>7, <2>8 DEF IInv
<1> QED
  BY <1>5, <1>6

LEMMA CloseKeeps ==
    ASSUME IInv, NEW s \in Socket, Close(s)
    PROVE  IInv'
<1>1. TypeOK /\ KernelOK /\ InOrder
  BY DEF IInv
<1>2. /\ fd[s] = "open" /\ ends < MaxEnds /\ ends' = ends + 1
      /\ shut' = [shut EXCEPT ![s] = Side]
      /\ fd' = [fd EXCEPT ![s] = "closed"]
      /\ conn' = IF s = "active" /\ conn = "connecting" THEN "failed" ELSE conn
      /\ ResetQueued \/ UNCHANGED <<queued, reset, soError>>
      /\ thread' = Released(s, Side)
      /\ UNCHANGED <<wire, handed, got, taken>>
  BY DEF Close, Ends
<1>3. ends' \in 0 .. MaxEnds
  BY <1>1, <1>2, SocketsAssumption DEF TypeOK
<1>4. /\ shut \in [Socket -> SUBSET Side] /\ soError \in [End -> BOOLEAN]
      /\ reset \in [End -> BOOLEAN] /\ queued \in BOOLEAN
      /\ conn \in {"none", "connecting", "established", "failed"}
      /\ fd \in [Socket -> {"unborn", "open", "closed"}] /\ fd["active"] # "unborn"
      /\ queued => conn = "established"
      /\ \A e \in End : reset[e] => conn = "established"
  BY <1>1 DEF TypeOK, KernelOK
<1>5. /\ reset' \in [End -> BOOLEAN] /\ soError' \in [End -> BOOLEAN]
      /\ queued' \in BOOLEAN /\ (queued' => queued)
      /\ soError["active"] => soError'["active"]
      /\ \A e \in End : reset'[e] => conn = "established"
  <2>1. CASE ResetQueued
    BY <1>1, <2>1, QueuedIsReset
  <2>2. CASE UNCHANGED <<queued, reset, soError>>
    BY <1>4, <2>2
  <2> QED
    BY <1>2, <2>1, <2>2
<1>6. /\ shut' \in [Socket -> SUBSET Side] /\ shut'[s] = Side
      /\ \A t \in Socket : shut[t] \subseteq shut'[t]
      /\ s # "active" => shut'["active"] = shut["active"] /\ fd'["active"] = fd["active"]
      /\ fd' \in [Socket -> {"unborn", "open", "closed"}] /\ fd'[s] = "closed"
  BY <1>2, <1>4, Names
<1>7. /\ conn' \in {"none", "connecting", "established", "failed"}
      /\ conn' # conn => s = "active" /\ conn = "connecting" /\ conn' = "failed"
  BY <1>2, <1>4
<1>8. Monotone
  BY <1>2, <1>6, <1>7 DEF Monotone
<1>9. thread' \in [Used -> Thread] /\ \A w \in Used : ThreadOK(w, thread[w])'
  <2>1. \A d \in Side : Over(<<s, d>>)'
    BY <1>6 DEF Over
  <2>2. s = "active" => ErrorIsKept'
    BY <1>6 DEF ErrorIsKept
  <2> QED
    BY <1>2, <1>5, <1>8, <2>1, <2>2, ManyReleased
<1>10. TypeOK'
  BY <1>1, <1>2, <1>3, <1>5, <1>6, <1>7, <1>9 DEF TypeOK
<1>11. KernelOK' /\ InOrder'
  BY <1>1, <1>2, <1>4, <1>5, <1>6, <1>7 DEF KernelOK, InOrder
<1> QED
  BY <1>9, <1>10, <1>11 DEF IInv

-----------------------------------------------------------------------------
(***************************************************************************)
(* The theorems.                                                           *)
(***************************************************************************)

LEMMA InitHolds == Init => IInv
<1> SUFFICES ASSUME Init
             PROVE  IInv
  OBVIOUS
<1>1. /\ conn = "none" /\ ends = 0 /\ queued = FALSE /\ taken = FALSE
      /\ fd = [s \in Socket |-> IF s = "active" THEN "open" ELSE "unborn"]
      /\ shut = [s \in Socket |-> {}]
      /\ reset = [s \in End |-> FALSE] /\ soError = [s \in End |-> FALSE]
      /\ wire = [s \in End |-> << >>]
      /\ handed = [s \in End |-> 0] /\ got = [s \in End |-> 0]
      /\ thread = [w \in Used |-> NewThread]
  BY DEF Init
<1>2. NewThread \in Thread /\ NewThread.at = "out" /\ NewThread.cancel = "no"
  BY SocketsAssumption DEF NewThread, Thread, Call, Receiving
<1>3. << >> \in Seq(1 .. MaxHanded) /\ Len(<< >>) = 0 /\ 0 \in 0 .. MaxHanded
      /\ 0 <= Capacity /\ 0 \in 0 .. MaxEnds
  BY SocketsAssumption
<1>4. TypeOK
  BY <1>1, <1>2, <1>3 DEF TypeOK
<1>5. KernelOK
  BY <1>1, <1>3, Names DEF KernelOK
<1>6. InOrder
  BY <1>1 DEF InOrder
<1>7. \A w \in Used : ThreadOK(w, thread[w])
  BY <1>1, <1>2 DEF ThreadOK, CancelKept, Sends, Connects, Inside
<1> QED
  BY <1>4, <1>5, <1>6, <1>7 DEF IInv

LEMMA StepHolds == IInv /\ [Next]_vars => IInv'
<1> SUFFICES ASSUME IInv, [Next]_vars
             PROVE  IInv'
  OBVIOUS
<1>1. CASE Establish \/ Refuse \/ (\E s \in End : Reset(s)) \/ Listen
  BY <1>1, KernelSteps
<1>2. CASE \E w \in Used : Event(w)
  BY <1>2, EventKeeps
<1>3. CASE \E w \in Used : Cancel(w)
  BY <1>3, CancelKeeps
<1>4. CASE \E w \in Used : Accept(w)
  BY <1>4, AcceptKeeps
<1>5. CASE \E w \in Used : Connect(w)
  BY <1>5, ConnectKeeps
<1>6. CASE \E w \in Used : GetError(w)
  BY <1>6, GetErrorKeeps
<1>7. CASE \E s \in End : Receive(<<s, "read">>)
  BY <1>7, ReceiveKeeps
<1>8. CASE \E s \in End : Send(<<s, "write">>)
  BY <1>8, SendKeeps
<1>9. CASE \E w \in Used : GiveUp(w)
  BY <1>9, GiveUpKeeps
<1>10. CASE \E w \in Used : Leave(w)
  BY <1>10, LeaveKeeps
<1>11. CASE \E s \in Socket, how \in SUBSET Side \ {{}} : Shutdown(s, how)
  BY <1>11, ShutdownKeeps
<1>12. CASE \E s \in Socket : Close(s)
  BY <1>12, CloseKeeps
<1>13. CASE UNCHANGED vars
  BY <1>13 DEF vars, kernelVars, connVars, IInv, TypeOK, KernelOK, InOrder, ThreadOK,
               CancelKept, Sends, Connects, Over, ErrorIsKept
<1> QED
  BY <1>1, <1>2, <1>3, <1>4, <1>5, <1>6, <1>7, <1>8, <1>9, <1>10, <1>11, <1>12, <1>13 DEF Next

LEMMA AlwaysIInv == Spec => []IInv
  BY InitHolds, StepHolds, PTL DEF Spec

\* The variables keep their types, and nothing is on the wire that does not
\* fit into the buffer of the kernel.
THEOREM TypeCorrect == Spec => []TypeOK
<1>1. IInv => TypeOK
  BY DEF IInv
<1> QED
  BY <1>1, AlwaysIInv, PTL

\* connect() returns 0 only for a connection that was established
\* (ThreadedSocket.cc:44-53), however its wait ended, or for one whose error
\* another thread's recv() on the same socket took first.
THEOREM ConnectIsTruthful == Spec => []ConnectTellsTruthUnlessTaken
<1>1. IInv => ConnectTellsTruthUnlessTaken
  BY DEF IInv, ThreadOK, Connects, ConnectTellsTruthUnlessTaken
<1> QED
  BY <1>1, AlwaysIInv, PTL

\* A call whose cancellation returned true does not wait again
\* (ThreadedFDMixin.h:61-74).
THEOREM CancellationSticks == Spec => []CancelSticks
<1>1. IInv => CancelSticks
  BY DEF IInv, ThreadOK, CancelKept, CancelSticks
<1> QED
  BY <1>1, AlwaysIInv, PTL

\* The bytes arrive in the order in which the application gave them to
\* sendAll() and its like, none twice and none left out.
THEOREM BytesInOrder == Spec => []InOrder
<1>1. IInv => InOrder
  BY DEF IInv
<1> QED
  BY <1>1, AlwaysIInv, PTL

\* sendAll() says true if and only if the kernel took all bytes of the call.
THEOREM SendAllIsTruthful == Spec => []AllOrFalse
<1>1. IInv => AllOrFalse
  BY DEF IInv, ThreadOK, Sends, AllOrFalse, Sending
<1> QED
  BY <1>1, AlwaysIInv, PTL
=============================================================================
