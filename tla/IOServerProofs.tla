--------------------------- MODULE IOServerProofs ---------------------------
(***************************************************************************)
(* Proofs about IOServer, for any number of clients and workers.           *)
(*                                                                         *)
(* The inductive invariant says in terms of single pipes what OwnResult    *)
(* says of what is in transit: an available worker is idle, and exactly    *)
(* the holder's operation is in one of the three places of a worker that   *)
(* is held.  NoLostWakeup needs WaitersQueued: a reference that putWorker()*)
(* takes from the queue wakes its client only if that client still waits.  *)
(* How far an operation is, for the Executor that the server implements,   *)
(* follows from the place in which it is.                                  *)
(***************************************************************************)
EXTENDS IOServer, QueueTheorems, FiniteSetTheorems

Idle(w) == toWorker[w] = << >> /\ performing[w] = Null /\ fromWorker[w] = << >>

Busy(w, c) ==
    \/ toWorker[w] = <<c>> /\ performing[w] = Null /\ fromWorker[w] = << >>
    \/ toWorker[w] = << >> /\ performing[w] = c /\ fromWorker[w] = << >>
    \/ toWorker[w] = << >> /\ performing[w] = Null /\ fromWorker[w] = <<c>>

Executing == {c \in Client : pc[c] = "executing"}

Pool ==
    /\ IsInjective(available)
    /\ \A w \in ToSet(available) : Idle(w)
    /\ \A c \in Executing : /\ holds[c] \in Worker \ ToSet(available)
                            /\ Busy(holds[c], c)
    /\ \A c \in Client \ Executing : holds[c] = Null
    /\ \A c, d \in Executing : holds[c] = holds[d] => c = d
    /\ ~stopped => \A w \in Worker \ ToSet(available) :
                       \E c \in Executing : holds[c] = w

IInv == TypeOK /\ Pool /\ WaitersQueued /\ NoLostWakeup

\* What is in transit with an idle worker and with a busy one.
LEMMA Transit ==
    ASSUME TypeOK, NEW w \in Worker
    PROVE  /\ Idle(w) => InTransit(w) = << >>
           /\ \A c \in Client : Busy(w, c) => InTransit(w) = <<c>>
<1> USE ServerAssumption
<1>1. << >> \in Seq(Client) /\ \A c \in Client : <<c>> \in Seq(Client)
  OBVIOUS
<1>2. \A s \in Seq(Client) : s \o << >> = s /\ << >> \o s = s
  BY ConcatEmptySeq
<1>3. Idle(w) => InTransit(w) = << >>
  BY <1>1, <1>2 DEF Idle, InTransit
<1>4. ASSUME NEW c \in Client, Busy(w, c)
      PROVE  InTransit(w) = <<c>>
  <2>1. CASE toWorker[w] = <<c>> /\ performing[w] = Null /\ fromWorker[w] = << >>
    BY <1>1, <1>2, <2>1 DEF InTransit
  <2>2. CASE toWorker[w] = << >> /\ performing[w] = c /\ fromWorker[w] = << >>
    <3>1. InTransit(w) = << >> \o <<c>> \o << >>
      BY <2>2 DEF InTransit
    <3> QED
      BY <1>1, <1>2, <3>1
  <2>3. CASE toWorker[w] = << >> /\ performing[w] = Null /\ fromWorker[w] = <<c>>
    BY <1>1, <1>2, <2>3 DEF InTransit
  <2> QED
    BY <1>4, <2>1, <2>2, <2>3 DEF Busy
<1> QED
  BY <1>3, <1>4

LEMMA PoolOwnResult == TypeOK /\ Pool => OwnResult /\ NoWorkerLost
<1> SUFFICES ASSUME TypeOK, Pool
             PROVE  OwnResult /\ NoWorkerLost
  OBVIOUS
<1> USE ServerAssumption
<1>1. ToSet(available) \subseteq Worker
  BY DEF TypeOK, ToSet
<1>2. \A w \in ToSet(available) : InTransit(w) = << >>
  BY <1>1, Transit DEF Pool
<1>3. \A c \in Client : pc[c] = "executing" =>
          holds[c] \notin ToSet(available) /\ InTransit(holds[c]) = <<c>>
  BY Transit DEF Pool, Executing
<1>4. \A c, d \in Client : holds[c] = holds[d] /\ holds[c] # Null => c = d
  BY DEF Pool, Executing
<1>5. \A c \in Client : pc[c] # "executing" => holds[c] = Null
  BY DEF Pool, Executing
<1>6. NoWorkerLost
  <2>1. {holds[c] : c \in Client} \ {Null} \subseteq Worker
    BY DEF TypeOK
  <2>2. ASSUME ~stopped, NEW w \in Worker \ ToSet(available)
        PROVE  w \in {holds[c] : c \in Client} \ {Null}
    BY <2>2 DEF Pool, Executing
  <2> QED
    BY <1>1, <2>1, <2>2 DEF NoWorkerLost
<1> QED
  BY <1>2, <1>3, <1>4, <1>5, <1>6 DEF OwnResult, Pool

LEMMA InitIInv == Init => IInv
<1> SUFFICES ASSUME Init PROVE IInv
  OBVIOUS
<1> USE ServerAssumption DEF Init
<1> DEFINE n == Cardinality(Worker)
<1>1. n \in Nat
  BY FS_CardinalityType
<1>2. available \in [1 .. n -> Worker] /\ IsInjective(available)
  OBVIOUS
<1>3. available \in Seq(Worker)
  BY <1>1, <1>2, SeqDef
<1>4. waiters = << >> /\ waiters \in Seq(Client)
  OBVIOUS
<1>5. TypeOK
  <2>1. toWorker \in [Worker -> Seq(Client)] /\ fromWorker \in [Worker -> Seq(Client)]
    BY <1>4
  <2>2. stopped \in BOOLEAN
    OBVIOUS
  <2>3. /\ pc \in [Client -> {"outside", "waiting", "woken", "executing", "deleted"}]
        /\ holds \in [Client -> Worker \cup {Null}]
        /\ performing \in [Worker -> Client \cup {Null}]
    OBVIOUS
  <2> QED
    BY ONLY <1>3, <1>4, <2>1, <2>2, <2>3 DEF TypeOK
<1>6. ToSet(available) = Worker
  <2>1. IsFiniteSet(1 .. n) /\ Cardinality(1 .. n) = n
    BY <1>1, FS_Interval
  <2>2. available \in Injection(1 .. n, Worker)
    BY <1>2 DEF Injection, IsInjective
  <2>3. available \in Surjection(1 .. n, Worker)
    BY <2>1, <2>2, FS_Injection
  <2> QED
    BY <1>2, <2>3 DEF Surjection, ToSet
<1>7. Pool
  BY <1>2, <1>6 DEF Pool, Idle, Executing
<1>8. WaitersQueued /\ NoLostWakeup
  <2>1. ToSet(waiters) = {} /\ IsInjective(waiters)
    BY <1>4, EmptyQueue
  <2> QED
    BY <1>4, <2>1 DEF WaitersQueued, NoLostWakeup
<1> QED
  BY <1>5, <1>7, <1>8 DEF IInv

\* Nobody appears on its way to a worker without being counted.
LEMMA AddressedIsFinite == IsFiniteSet(Addressed) /\ Cardinality(Addressed) \in Nat
<1>1. Addressed \subseteq Client /\ IsFiniteSet(Client)
  BY ServerAssumption DEF Addressed
<1> QED
  BY <1>1, FS_Subset, FS_CardinalityType

\* getWorker() with a worker available.
LEMMA StartOnStep ==
    ASSUME IInv, NEW c \in Client, pc[c] \in {"outside", "woken"}, ~stopped,
           available # << >>, StartOn(c),
           UNCHANGED <<stopped, performing, fromWorker>>
    PROVE  IInv'
<1> USE ServerAssumption
<1> DEFINE w == Last(available)
<1>1. /\ w \in Worker /\ w \in ToSet(available)
      /\ available' \in Seq(Worker) /\ Len(available') = Len(available) - 1
      /\ ToSet(available') = ToSet(available) \ {w}
      /\ IsInjective(available')
  <2>1. available \in Seq(Worker) /\ IsInjective(available)
    BY DEF IInv, TypeOK, Pool
  <2> QED
    BY <2>1, LastTaken DEF StartOn
<1>2. /\ holds' = [holds EXCEPT ![c] = w]
      /\ toWorker' = [toWorker EXCEPT ![w] = Append(@, c)]
      /\ pc' = [pc EXCEPT ![c] = "executing"]
      /\ waiters' = waiters
  BY DEF StartOn
<1> HIDE DEF w
<1>3. Idle(w) /\ toWorker'[w] = <<c>>
  <2>1. Idle(w)
    BY <1>1 DEF IInv, Pool
  <2>2. toWorker'[w] = Append(toWorker[w], c)
    BY <1>1, <1>2 DEF IInv, TypeOK
  <2> QED
    BY <2>1, <2>2 DEF Idle
<1>4. TypeOK'
  <2>1. toWorker' \in [Worker -> Seq(Client)]
    BY <1>1, <1>2, <1>3 DEF IInv, TypeOK
  <2>2. holds' \in [Client -> Worker \cup {Null}]
    BY <1>1, <1>2 DEF IInv, TypeOK
  <2>3. pc' \in [Client -> {"outside", "waiting", "woken", "executing", "deleted"}]
    BY <1>2 DEF IInv, TypeOK
  <2> QED
    BY <1>1, <1>2, <2>1, <2>2, <2>3 DEF IInv, TypeOK
<1>5. Pool'
  <2>1. Executing' = Executing \cup {c} /\ c \notin Executing
    BY <1>2 DEF IInv, TypeOK, Executing
  <2>2. holds'[c] = w /\ \A d \in Client \ {c} : holds'[d] = holds[d]
    BY <1>2 DEF IInv, TypeOK
  <2>3. \A v \in Worker \ {w} : toWorker'[v] = toWorker[v]
    BY <1>2 DEF IInv, TypeOK
  <2>4. \A d \in Executing : holds[d] \in Worker \ ToSet(available) /\ Busy(holds[d], d)
    BY DEF IInv, Pool
  <2>5. \A v \in ToSet(available') : Idle(v)'
    <3>1. ToSet(available) \subseteq Worker
      BY DEF IInv, TypeOK, ToSet
    <3> QED
      BY <1>1, <2>3, <3>1 DEF IInv, Pool, Idle
  <2>6. ASSUME NEW d \in Executing'
        PROVE  holds'[d] \in Worker \ ToSet(available') /\ Busy(holds[d], d)'
    <3>1. CASE d = c
      BY <1>1, <1>3, <2>2, <3>1 DEF Busy, Idle
    <3>2. CASE d # c
      <4>1. d \in Executing /\ d \in Client
        BY <2>1, <3>2 DEF Executing
      <4>2. holds'[d] = holds[d] /\ holds[d] \in Worker \ {w}
        BY <1>1, <2>2, <2>4, <3>2, <4>1
      <4> QED
        BY <1>1, <2>3, <2>4, <4>1, <4>2 DEF Busy
    <3> QED
      BY <3>1, <3>2
  <2>7. \A d \in Client \ Executing' : holds'[d] = Null
    BY <2>1, <2>2 DEF IInv, Pool
  <2>8. \A d, e \in Executing' : holds'[d] = holds'[e] => d = e
    <3>1. \A d \in Executing : holds'[d] = holds[d] /\ holds[d] # w
      BY <1>1, <2>1, <2>2, <2>4 DEF Executing
    <3> QED
      BY <2>1, <2>2, <3>1 DEF IInv, Pool
  <2>9. \A v \in Worker \ ToSet(available') : \E d \in Executing' : holds'[d] = v
    <3>1. \A v \in Worker \ ToSet(available) : \E d \in Executing : holds[d] = v
      BY DEF IInv, Pool
    <3>2. ASSUME NEW v \in Worker \ ToSet(available'), v # w
          PROVE  \E d \in Executing' : holds'[d] = v
      <4>1. v \in Worker \ ToSet(available)
        BY <1>1, <3>2
      <4>2. PICK d \in Executing : holds[d] = v
        BY <3>1, <4>1
      <4>3. d \in Client /\ d # c /\ d \in Executing'
        BY <2>1, <4>2 DEF Executing
      <4> QED
        BY <2>2, <4>2, <4>3
    <3>3. holds'[c] = w /\ c \in Executing'
      BY <2>1, <2>2
    <3> QED
      BY <3>2, <3>3
  <2> QED
    BY <1>1, <2>5, <2>6, <2>7, <2>8, <2>9 DEF Pool
<1>6. WaitersQueued'
  <2>1. \A d \in Client : pc'[d] = IF d = c THEN "executing" ELSE pc[d]
    BY <1>2 DEF IInv, TypeOK
  <2>2. ToSet(waiters) \subseteq Client /\ WaitersQueued
    BY DEF IInv, TypeOK, ToSet
  <2> QED
    BY <1>2, <2>1, <2>2 DEF WaitersQueued
<1>7. NoLostWakeup'
  <2>1. Addressed' = Addressed \ {c}
    BY <1>2 DEF IInv, TypeOK, Addressed
  <2>2. Cardinality(Addressed') \in Nat /\ Cardinality(Addressed') >= Cardinality(Addressed) - 1
    <3>1. CASE c \in Addressed
      <4>1. /\ Cardinality(Addressed \ {c}) = Cardinality(Addressed) - 1
            /\ Cardinality(Addressed) # 0
        BY <3>1, AddressedIsFinite, FS_RemoveElement, FS_EmptySet
      <4> QED
        BY <2>1, <4>1, AddressedIsFinite
    <3>2. CASE c \notin Addressed
      <4>1. Addressed' = Addressed
        BY <2>1, <3>2
      <4> QED
        BY <4>1, AddressedIsFinite
    <3> QED
      BY <3>1, <3>2
  <2>3. Len(available) \in Nat /\ Cardinality(Addressed) \in Nat
    BY AddressedIsFinite DEF IInv, TypeOK
  <2>4. waiters # << >> => Len(available) <= Cardinality(Addressed)
    BY DEF IInv, NoLostWakeup
  <2>5. waiters' # << >> => Len(available') <= Cardinality(Addressed')
    BY <1>1, <1>2, <2>2, <2>3, <2>4
  <2> QED
    BY <2>5 DEF NoLostWakeup
<1> QED
  BY <1>4, <1>5, <1>6, <1>7 DEF IInv

\* getWorker() with none: the client has no reference in the queue yet.
LEMMA WaitStep ==
    ASSUME IInv, NEW c \in Client, pc[c] \in {"outside", "woken"}, ~stopped,
           available = << >>, Wait(c),
           UNCHANGED <<stopped, performing, fromWorker>>
    PROVE  IInv'
<1> USE ServerAssumption
<1>1. /\ pc' = [pc EXCEPT ![c] = "waiting"]
      /\ UNCHANGED <<available, holds, toWorker>>
  BY DEF Wait
<1>2. c \notin ToSet(waiters)
  BY DEF IInv, WaitersQueued
<1>3. /\ waiters' \in Seq(Client)
      /\ ToSet(waiters') = ToSet(waiters) \cup {c}
      /\ IsInjective(waiters')
  <2>1. waiters \in Seq(Client) /\ IsInjective(waiters)
    BY DEF IInv, TypeOK, WaitersQueued
  <2> QED
    BY <1>2, <2>1, Appended DEF Wait
<1>4. pc'[c] = "waiting" /\ \A d \in Client \ {c} : pc'[d] = pc[d]
  BY <1>1 DEF IInv, TypeOK
<1>5. TypeOK'
  <2>1. pc' \in [Client -> {"outside", "waiting", "woken", "executing", "deleted"}]
    BY <1>1 DEF IInv, TypeOK
  <2> QED
    BY <1>1, <1>3, <2>1 DEF IInv, TypeOK
<1>6. Pool'
  <2>1. Executing' = Executing
    BY <1>4 DEF Executing
  <2> QED
    BY <1>1, <2>1 DEF IInv, Pool, Idle, Busy
<1>7. WaitersQueued'
  <2>1. \A d \in Client : pc'[d] = "waiting" => d \in ToSet(waiters')
    BY <1>3, <1>4 DEF IInv, WaitersQueued
  <2>2. \A d \in ToSet(waiters') : pc'[d] \in {"waiting", "deleted"}
    <3>1. ToSet(waiters) \subseteq Client
      BY DEF IInv, TypeOK, ToSet
    <3> QED
      BY <1>2, <1>3, <1>4, <3>1 DEF IInv, WaitersQueued
  <2> QED
    BY <1>3, <2>1, <2>2 DEF WaitersQueued
<1>8. NoLostWakeup'
  <2>1. Len(available') = 0
    BY <1>1
  <2>2. Addressed' \subseteq Client
    BY DEF Addressed
  <2>3. Cardinality(Addressed') \in Nat
    BY <2>2, FS_Subset, FS_CardinalityType
  <2> QED
    BY <2>1, <2>3 DEF NoLostWakeup
<1> QED
  BY <1>5, <1>6, <1>7, <1>8 DEF IInv

\* putWorker(): the worker is available again and the first waiter, if it
\* still exists, is on its way to take it.
LEMMA FinishStep ==
    ASSUME IInv, NEW c \in Client, Finish(c)
    PROVE  IInv'
<1> USE ServerAssumption
<1> DEFINE w == holds[c]
<1>1. /\ pc[c] = "executing" /\ c \in Executing
      /\ fromWorker[w] # << >>
      /\ fromWorker' = [fromWorker EXCEPT ![w] = Tail(@)]
      /\ holds' = [holds EXCEPT ![c] = Null]
      /\ available' = Append(available, w)
      /\ UNCHANGED <<stopped, toWorker, performing>>
  BY DEF Finish, PutWorker, Executing
<1>2. w \in Worker \ ToSet(available) /\ Busy(w, c)
  BY <1>1 DEF IInv, Pool
<1>3. /\ available' \in Seq(Worker)
      /\ Len(available') = Len(available) + 1
      /\ ToSet(available') = ToSet(available) \cup {w}
      /\ IsInjective(available')
  <2>1. available \in Seq(Worker) /\ IsInjective(available)
    BY DEF IInv, TypeOK, Pool
  <2> QED
    BY <1>1, <1>2, <2>1, Appended
<1>4. toWorker[w] = << >> /\ performing[w] = Null /\ fromWorker'[w] = << >>
  <2>1. toWorker[w] = << >> /\ performing[w] = Null /\ fromWorker[w] = <<c>>
    BY <1>1, <1>2 DEF Busy
  <2>2. fromWorker'[w] = Tail(fromWorker[w])
    BY <1>1, <1>2 DEF IInv, TypeOK
  <2>3. Tail(<<c>>) = << >>
    OBVIOUS
  <2> QED
    BY <2>1, <2>2, <2>3
<1> HIDE DEF w
\* What becomes of the queue.
<1>5. \/ /\ waiters = << >> /\ waiters' = waiters
         /\ pc' = [pc EXCEPT ![c] = "outside"]
      \/ /\ waiters # << >> /\ waiters' = Tail(waiters)
         /\ Head(waiters) \in Client \ {c}
         /\ pc[Head(waiters)] \in {"waiting", "deleted"}
         /\ pc' = [pc EXCEPT ![c] = "outside",
                            ![Head(waiters)] = IF pc[Head(waiters)] = "waiting"
                                               THEN "woken" ELSE pc[Head(waiters)]]
  <2>1. CASE waiters = << >>
    BY <2>1 DEF Finish, PutWorker
  <2>2. CASE waiters # << >>
    <3>1. Head(waiters) \in Client /\ Head(waiters) \in ToSet(waiters)
      BY <2>2, Taken DEF IInv, TypeOK, WaitersQueued
    <3>2. pc[Head(waiters)] \in {"waiting", "deleted"}
      BY <3>1 DEF IInv, WaitersQueued
    <3> QED
      BY <1>1, <2>2, <3>1, <3>2 DEF Finish, PutWorker, IInv, TypeOK
  <2> QED
    BY <2>1, <2>2
<1>6. /\ waiters' \in Seq(Client) /\ IsInjective(waiters')
      /\ ToSet(waiters') \subseteq ToSet(waiters)
      /\ waiters # << >> => ToSet(waiters') = ToSet(waiters) \ {Head(waiters)}
  <2>1. waiters \in Seq(Client) /\ IsInjective(waiters)
    BY DEF IInv, TypeOK, WaitersQueued
  <2>2. CASE waiters = << >>
    BY <1>5, <2>1, <2>2
  <2>3. CASE waiters # << >>
    <3>1. waiters' = Tail(waiters)
      BY <1>5, <2>3
    <3>2. /\ Tail(waiters) \in Seq(Client) /\ IsInjective(Tail(waiters))
          /\ ToSet(Tail(waiters)) = ToSet(waiters) \ {Head(waiters)}
      BY <2>1, <2>3, Taken
    <3> QED
      BY <3>1, <3>2
  <2> QED
    BY <2>2, <2>3
<1>7. /\ pc' \in [Client -> {"outside", "waiting", "woken", "executing", "deleted"}]
      /\ pc'[c] = "outside"
      /\ \A d \in Client \ {c} :
             pc'[d] = IF waiters # << >> /\ d = Head(waiters) /\ pc[d] = "waiting"
                      THEN "woken" ELSE pc[d]
  BY <1>5 DEF IInv, TypeOK
<1>8. TypeOK'
  <2>1. holds' \in [Client -> Worker \cup {Null}]
    BY <1>1 DEF IInv, TypeOK
  <2>2. fromWorker' \in [Worker -> Seq(Client)]
    <3>1. << >> \in Seq(Client)
      OBVIOUS
    <3> QED
      BY <1>1, <1>4, <3>1 DEF IInv, TypeOK
  <2> QED
    BY <1>1, <1>3, <1>6, <1>7, <2>1, <2>2 DEF IInv, TypeOK
<1>9. Pool'
  <2>1. Executing' = Executing \ {c}
    BY <1>7 DEF Executing
  <2>2. holds'[c] = Null /\ \A d \in Client \ {c} : holds'[d] = holds[d]
    BY <1>1 DEF IInv, TypeOK
  <2>3. \A v \in Worker \ {w} : fromWorker'[v] = fromWorker[v]
    BY <1>1 DEF IInv, TypeOK
  <2>4. \A v \in ToSet(available') : Idle(v)'
    <3>1. ToSet(available) \subseteq Worker \ {w}
      BY <1>2 DEF IInv, TypeOK, ToSet
    <3> QED
      BY <1>1, <1>3, <1>4, <2>3, <3>1 DEF IInv, Pool, Idle
  <2>5. \A d \in Executing' : d \in Client \ {c} /\ d \in Executing /\ holds[d] # w
    BY <1>1, <2>1 DEF IInv, Pool, Executing, w
  <2>6. ASSUME NEW d \in Executing'
        PROVE  holds'[d] \in Worker \ ToSet(available') /\ Busy(holds[d], d)'
    <3>1. holds[d] \in Worker \ ToSet(available) /\ Busy(holds[d], d)
      BY <2>5 DEF IInv, Pool
    <3>2. holds'[d] = holds[d] /\ holds[d] # w
      BY <2>2, <2>5
    <3> QED
      BY <1>1, <1>3, <2>3, <3>1, <3>2 DEF Busy
  <2>7. \A d \in Client \ Executing' : holds'[d] = Null
    BY <2>1, <2>2 DEF IInv, Pool
  <2>8. \A d, e \in Executing' : holds'[d] = holds'[e] => d = e
    BY <2>2, <2>5 DEF IInv, Pool
  <2>9. ~stopped' => \A v \in Worker \ ToSet(available') : \E d \in Executing' : holds'[d] = v
    <3>1. ASSUME ~stopped, NEW v \in Worker \ ToSet(available')
          PROVE  \E d \in Executing' : holds'[d] = v
      <4>1. PICK d \in Executing : holds[d] = v
        BY <1>3, <3>1 DEF IInv, Pool
      <4>2. d # c /\ d \in Client
        BY <1>3, <4>1 DEF w, Executing
      <4> QED
        BY <2>1, <2>2, <4>1, <4>2
    <3> QED
      BY <1>1, <3>1
  <2> QED
    BY <1>3, <2>4, <2>6, <2>7, <2>8, <2>9 DEF Pool
<1>10. WaitersQueued'
  <2>1. \A d \in Client : pc'[d] = "waiting" => d \in ToSet(waiters')
    BY <1>1, <1>6, <1>7, EmptyQueue DEF IInv, TypeOK, WaitersQueued
  <2>2. \A d \in ToSet(waiters') : pc'[d] \in {"waiting", "deleted"}
    <3>1. ToSet(waiters) \subseteq Client
      BY DEF IInv, TypeOK, ToSet
    <3> QED
      BY <1>1, <1>6, <1>7, <3>1 DEF IInv, WaitersQueued
  <2>3. stopped' => waiters' = << >>
    BY <1>1, <1>5 DEF IInv, WaitersQueued
  <2> QED
    BY <1>6, <2>1, <2>2, <2>3 DEF WaitersQueued
<1>11. NoLostWakeup'
  <2>1. SUFFICES ASSUME waiters' # << >>
                 PROVE  Len(available') <= Cardinality(Addressed')
    BY DEF NoLostWakeup
  <2> DEFINE h == Head(waiters)
  <2>2. /\ waiters # << >> /\ h \in Client \ {c}
        /\ pc[h] \in {"waiting", "deleted"}
        /\ ToSet(waiters') = ToSet(waiters) \ {h}
    BY <1>5, <1>6, <2>1
  <2>3. h \in ToSet(waiters)
    BY <2>2, Taken DEF IInv, TypeOK, WaitersQueued
  <2> HIDE DEF h
  <2>4. Len(available) <= Cardinality(Addressed)
    BY <2>2 DEF IInv, NoLostWakeup
  <2>5. Addressed' = Addressed \cup {h} /\ h \notin Addressed
    <3>1. \A d \in Client \ {c, h} : pc'[d] = pc[d]
      BY <1>7 DEF h
    <3>2. pc'[h] = IF pc[h] = "waiting" THEN "woken" ELSE pc[h]
      BY <1>7, <2>2 DEF h
    <3>3. h \in Addressed' /\ h \notin Addressed
      BY <2>2, <2>3, <3>2 DEF Addressed
    <3>4. c \notin Addressed' /\ c \notin Addressed
      BY <1>1, <1>7 DEF Addressed
    <3>5. \A d \in Client \ {c, h} : d \in Addressed' <=> d \in Addressed
      BY <2>2, <3>1 DEF Addressed
    <3>6. Addressed' \subseteq Client /\ Addressed \subseteq Client
      BY DEF Addressed
    <3> QED
      BY <2>2, <3>3, <3>4, <3>5, <3>6
  <2>6. Cardinality(Addressed') = Cardinality(Addressed) + 1
    BY <2>5, AddressedIsFinite, FS_AddElement
  <2>7. Len(available) \in Nat /\ Cardinality(Addressed) \in Nat
    BY AddressedIsFinite DEF IInv, TypeOK
  <2> QED
    BY <1>3, <2>4, <2>6, <2>7
<1> QED
  BY <1>8, <1>9, <1>10, <1>11 DEF IInv

\* The operation moves from the pipe to the worker.
LEMMA WorkerReadsStep ==
    ASSUME IInv, NEW w \in Worker, WorkerReads(w)
    PROVE  IInv'
<1> USE ServerAssumption
<1>1. /\ performing[w] = Null /\ toWorker[w] # << >>
      /\ performing' = [performing EXCEPT ![w] = Head(toWorker[w])]
      /\ toWorker' = [toWorker EXCEPT ![w] = Tail(@)]
      /\ UNCHANGED <<clientVars, fromWorker>>
  BY DEF WorkerReads
<1>2. w \notin ToSet(available)
  BY <1>1 DEF IInv, Pool, Idle
<1>3. TypeOK'
  <2>1. Head(toWorker[w]) \in Client /\ Tail(toWorker[w]) \in Seq(Client)
    BY <1>1 DEF IInv, TypeOK
  <2> QED
    BY <1>1, <2>1 DEF IInv, TypeOK, clientVars
<1>4. Pool'
  <2>1. \A v \in ToSet(available) : Idle(v)'
    <3>1. ToSet(available) \subseteq Worker \ {w}
      BY <1>2 DEF IInv, TypeOK, ToSet
    <3> QED
      BY <1>1, <3>1 DEF IInv, TypeOK, Pool, Idle
  <2>2. ASSUME NEW c \in Executing
        PROVE  Busy(holds[c], c)'
    <3>1. Busy(holds[c], c) /\ holds[c] \in Worker /\ c \in Client
      BY DEF IInv, Pool, Executing
    <3>2. holds'[c] = holds[c]
      BY <1>1 DEF clientVars
    <3>3. CASE holds[c] = w
      <4>1. toWorker[w] = <<c>> /\ fromWorker[w] = << >>
        BY <1>1, <3>1, <3>3 DEF Busy
      <4>2. Head(<<c>>) = c /\ Tail(<<c>>) = << >>
        OBVIOUS
      <4>3. performing'[w] = c /\ toWorker'[w] = << >> /\ fromWorker'[w] = << >>
        BY <1>1, <4>1, <4>2 DEF IInv, TypeOK
      <4> QED
        BY <3>2, <3>3, <4>3 DEF Busy
    <3>4. CASE holds[c] # w
      BY <1>1, <3>1, <3>2, <3>4 DEF IInv, TypeOK, Busy
    <3> QED
      BY <3>3, <3>4
  <2> QED
    BY <1>1, <2>1, <2>2 DEF IInv, Pool, Executing, clientVars
<1>5. WaitersQueued' /\ NoLostWakeup'
  BY <1>1 DEF IInv, WaitersQueued, NoLostWakeup, Addressed, clientVars
<1> QED
  BY <1>3, <1>4, <1>5 DEF IInv

\* The operation moves from the worker to the other pipe.
LEMMA WorkerWritesStep ==
    ASSUME IInv, NEW w \in Worker, WorkerWrites(w)
    PROVE  IInv'
<1> USE ServerAssumption
<1>1. /\ performing[w] # Null
      /\ fromWorker' = [fromWorker EXCEPT ![w] = Append(@, performing[w])]
      /\ performing' = [performing EXCEPT ![w] = Null]
      /\ UNCHANGED <<clientVars, toWorker>>
  BY DEF WorkerWrites
<1>2. w \notin ToSet(available)
  BY <1>1 DEF IInv, Pool, Idle
<1>3. TypeOK'
  <2>1. Append(fromWorker[w], performing[w]) \in Seq(Client)
    BY <1>1 DEF IInv, TypeOK
  <2> QED
    BY <1>1, <2>1 DEF IInv, TypeOK, clientVars
<1>4. Pool'
  <2>1. \A v \in ToSet(available) : Idle(v)'
    <3>1. ToSet(available) \subseteq Worker \ {w}
      BY <1>2 DEF IInv, TypeOK, ToSet
    <3> QED
      BY <1>1, <3>1 DEF IInv, TypeOK, Pool, Idle
  <2>2. ASSUME NEW c \in Executing
        PROVE  Busy(holds[c], c)'
    <3>1. Busy(holds[c], c) /\ holds[c] \in Worker /\ c \in Client
      BY DEF IInv, Pool, Executing
    <3>2. holds'[c] = holds[c]
      BY <1>1 DEF clientVars
    <3>3. CASE holds[c] = w
      <4>1. performing[w] = c /\ toWorker[w] = << >> /\ fromWorker[w] = << >>
        BY <1>1, <3>1, <3>3 DEF Busy
      <4>2. Append(<< >>, c) = <<c>>
        OBVIOUS
      <4>3. performing'[w] = Null /\ toWorker'[w] = << >> /\ fromWorker'[w] = <<c>>
        BY <1>1, <4>1, <4>2 DEF IInv, TypeOK
      <4> QED
        BY <3>2, <3>3, <4>3 DEF Busy
    <3>4. CASE holds[c] # w
      BY <1>1, <3>1, <3>2, <3>4 DEF IInv, TypeOK, Busy
    <3> QED
      BY <3>3, <3>4
  <2> QED
    BY <1>1, <2>1, <2>2 DEF IInv, Pool, Executing, clientVars
<1>5. WaitersQueued' /\ NoLostWakeup'
  BY <1>1 DEF IInv, WaitersQueued, NoLostWakeup, Addressed, clientVars
<1> QED
  BY <1>3, <1>4, <1>5 DEF IInv

\* stop() empties both queues; nobody executes, so no worker is held.
LEMMA StopStep == IInv /\ Stop => IInv'
<1> SUFFICES ASSUME IInv, Stop PROVE IInv'
  OBVIOUS
<1> USE ServerAssumption
<1>1. /\ \A c \in Client : pc[c] # "executing"
      /\ stopped' = TRUE /\ available' = << >> /\ waiters' = << >>
      /\ pc' = [c \in Client |-> IF pc[c] = "waiting" THEN "woken" ELSE pc[c]]
      /\ UNCHANGED <<holds, toWorker, performing, fromWorker>>
  BY DEF Stop
<1>2. /\ << >> \in Seq(Client) /\ << >> \in Seq(Worker)
      /\ ToSet(<< >>) = {} /\ IsInjective(<< >>)
  BY DEF ToSet, IsInjective
<1>3. TypeOK'
  <2>1. pc' \in [Client -> {"outside", "waiting", "woken", "executing", "deleted"}]
    BY <1>1 DEF IInv, TypeOK
  <2> QED
    BY <1>1, <1>2, <2>1 DEF IInv, TypeOK
<1>4. Pool'
  <2>1. Executing = {} /\ Executing' = {}
    BY <1>1 DEF Executing
  <2> QED
    BY <1>1, <1>2, <2>1 DEF IInv, Pool
<1>5. WaitersQueued' /\ NoLostWakeup'
  BY <1>1, <1>2 DEF IInv, TypeOK, WaitersQueued, NoLostWakeup
<1> QED
  BY <1>3, <1>4, <1>5 DEF IInv

\* A client leaves getWorker() without a worker, or disappears from it.
LEMMA LeaveStep ==
    ASSUME IInv, NEW c \in Client, ResumeStopped(c) \/ DeleteClient(c)
    PROVE  IInv'
<1> USE ServerAssumption
<1>1. PICK p \in {"outside", "deleted"} : pc' = [pc EXCEPT ![c] = p]
  BY DEF ResumeStopped, DeleteClient
<1>2. /\ pc[c] \in {"waiting", "woken"}
      /\ p = "outside" => stopped /\ pc[c] = "woken"
      /\ UNCHANGED <<available, waiters, stopped, holds, toWorker,
                     performing, fromWorker>>
  <2>1. pc'[c] = p
    BY <1>1 DEF IInv, TypeOK
  <2>2. CASE ResumeStopped(c)
    BY <2>2 DEF ResumeStopped
  <2>3. CASE DeleteClient(c)
    <3>1. pc'[c] = "deleted"
      BY <2>3 DEF DeleteClient, IInv, TypeOK
    <3> QED
      BY <2>1, <2>3, <3>1 DEF DeleteClient
  <2> QED
    BY <2>2, <2>3
<1>3. pc'[c] = p /\ \A d \in Client \ {c} : pc'[d] = pc[d]
  BY <1>1 DEF IInv, TypeOK
<1>4. TypeOK'
  <2>1. pc' \in [Client -> {"outside", "waiting", "woken", "executing", "deleted"}]
    BY <1>1 DEF IInv, TypeOK
  <2> QED
    BY <1>2, <2>1 DEF IInv, TypeOK
<1>5. Pool'
  <2>1. Executing' = Executing
    BY <1>2, <1>3 DEF Executing
  <2> QED
    BY <1>2, <2>1 DEF IInv, Pool, Idle, Busy
<1>6. WaitersQueued'
  <2>1. ToSet(waiters) \subseteq Client
    BY DEF IInv, TypeOK, ToSet
  <2>2. \A d \in ToSet(waiters) : pc'[d] \in {"waiting", "deleted"}
    BY <1>2, <1>3, <2>1 DEF IInv, WaitersQueued
  <2> QED
    BY <1>2, <1>3, <2>2 DEF IInv, WaitersQueued
<1>7. NoLostWakeup'
  <2>1. CASE p = "outside"
    BY <1>2, <2>1 DEF IInv, WaitersQueued, NoLostWakeup
  <2>2. CASE p = "deleted"
    <3>1. c \in Addressed' <=> c \in Addressed
      BY <1>2, <1>3, <2>2 DEF IInv, WaitersQueued, Addressed
    <3>2. Addressed' = Addressed
      BY <1>2, <1>3, <3>1 DEF Addressed
    <3> QED
      BY <1>2, <3>2 DEF IInv, NoLostWakeup
  <2> QED
    BY <2>1, <2>2
<1> QED
  BY <1>4, <1>5, <1>6, <1>7 DEF IInv

LEMMA NextIInv == IInv /\ [Next]_vars => IInv'
<1> SUFFICES ASSUME IInv, [Next]_vars PROVE IInv'
  OBVIOUS
<1>1. ASSUME NEW c \in Client, Execute(c)
      PROVE  IInv'
  <2>1. pc[c] = "outside" /\ ~stopped /\ UNCHANGED <<stopped, performing, fromWorker>>
    BY <1>1 DEF Execute
  <2> QED
    BY <1>1, <2>1, StartOnStep, WaitStep DEF Execute, GetWorker
<1>2. ASSUME NEW c \in Client, Resume(c)
      PROVE  IInv'
  <2>1. /\ pc[c] = "woken" /\ ~stopped
        /\ UNCHANGED <<stopped, performing, fromWorker>>
    BY <1>2 DEF Resume
  <2> QED
    BY <1>2, <2>1, StartOnStep, WaitStep DEF Resume, GetWorker
<1>3. ASSUME NEW c \in Client, ResumeStopped(c) \/ DeleteClient(c)
      PROVE  IInv'
  BY <1>3, LeaveStep
<1>4. ASSUME NEW c \in Client, Finish(c)
      PROVE  IInv'
  BY <1>4, FinishStep
<1>5. ASSUME NEW w \in Worker, WorkerReads(w)
      PROVE  IInv'
  BY <1>5, WorkerReadsStep
<1>6. ASSUME NEW w \in Worker, WorkerWrites(w)
      PROVE  IInv'
  BY <1>6, WorkerWritesStep
<1>7. CASE Stop
  BY <1>7, StopStep
<1>8. CASE UNCHANGED vars
  BY <1>8 DEF vars, clientVars, IInv, TypeOK, Pool, Idle, Busy, Executing,
              WaitersQueued, NoLostWakeup, Addressed
<1> QED
  BY <1>1, <1>2, <1>3, <1>4, <1>5, <1>6, <1>7, <1>8 DEF Next

LEMMA Invariance == Spec => []IInv
  BY InitIInv, NextIInv, PTL DEF Spec

\* Every pipe, queue and array of the server holds what it is declared to.
THEOREM TypeCorrect == Spec => []TypeOK
<1>1. IInv => TypeOK
  BY DEF IInv
<1> QED
  BY <1>1, Invariance, PTL

\* What waitResult() reads is the operation that its caller started: a held
\* worker has exactly the holder's operation in transit (IOServer.cc:191).
THEOREM ResultIsOwn == Spec => []OwnResult
<1>1. IInv => OwnResult
  BY PoolOwnResult DEF IInv
<1> QED
  BY <1>1, Invariance, PTL

\* No worker leaks from the pool while the server runs (getWorker, putWorker).
THEOREM PoolIsComplete == Spec => []NoWorkerLost
<1>1. IInv => NoWorkerLost
  BY PoolOwnResult DEF IInv
<1> QED
  BY <1>1, Invariance, PTL

\* The queue of getWorker() holds the waiting clients, each once.
THEOREM WaitersAreQueued == Spec => []WaitersQueued
<1>1. IInv => WaitersQueued
  BY DEF IInv
<1> QED
  BY <1>1, Invariance, PTL

\* While clients wait, every available worker has woken a client that is on
\* its way to it, or has met one that was deleted: putWorker() addresses one
\* waiter per worker, and getWorker() takes one worker per wake-up.
THEOREM WakeupsSuffice == Spec => []NoLostWakeup
<1>1. IInv => NoLostWakeup
  BY DEF IInv
<1> QED
  BY <1>1, Invariance, PTL

-----------------------------------------------------------------------------
(***************************************************************************)
(* The pool implements Executor: where the operation of a client is, read  *)
(* off the pipes of the worker it holds, moves as the request does.        *)
(***************************************************************************)
Stages == {"none", "asked", "performing", "performed"}

InStage(c, r) ==
    /\ r \in Stages
    /\ r = "none" <=> pc[c] \in {"outside", "deleted"}
    /\ r = "asked" <=> \/ pc[c] \in {"waiting", "woken"}
                       \/ pc[c] = "executing" /\ toWorker[holds[c]] # << >>
    /\ r = "performing" <=> pc[c] = "executing" /\ performing[holds[c]] # Null

Charted == \A c \in Client : InStage(c, request[c])

\* The operation of a client that holds a worker is in one place.
LEMMA StagesCharted == IInv => Charted
<1> SUFFICES ASSUME IInv, NEW c \in Client
             PROVE  InStage(c, request[c])
  BY DEF Charted
<1>1. request[c] = IF pc[c] \in {"outside", "deleted"} THEN "none"
                   ELSE IF pc[c] # "executing" \/ toWorker[holds[c]] # << >> THEN "asked"
                   ELSE IF performing[holds[c]] # Null THEN "performing"
                   ELSE "performed"
  BY DEF request
<1>2. pc[c] \in {"outside", "waiting", "woken", "executing", "deleted"}
  BY DEF IInv, TypeOK
<1>3. pc[c] = "executing" /\ toWorker[holds[c]] # << >> => performing[holds[c]] = Null
  BY ServerAssumption DEF IInv, Pool, Executing, Busy
<1> QED
  BY <1>1, <1>2, <1>3 DEF InStage, Stages

\* A client whose worker is left alone keeps its stage.
LEMMA StageKept ==
    ASSUME NEW c \in Client, pc'[c] = pc[c], holds'[c] = holds[c],
           pc[c] = "executing" => /\ toWorker'[holds[c]] = toWorker[holds[c]]
                                  /\ performing'[holds[c]] = performing[holds[c]]
    PROVE  request'[c] = request[c]
  BY DEF request

\* One client moves, or none does.
LEMMA OneMoves ==
    ASSUME NEW c \in Client, NEW from, NEW to, request[c] = from, request'[c] = to,
           \A d \in Client \ {c} : request'[d] = request[d]
    PROVE  Exec!Move(c, from, to)
<1>1. request \in [Client -> {request[d] : d \in Client}] /\ request' = [d \in Client |-> request'[d]]
  BY DEF request
<1> HIDE DEF request
<1>2. request' = [request EXCEPT ![c] = to]
  BY <1>1
<1> QED
  BY <1>2 DEF Exec!Move

LEMMA NoneMoves ==
    ASSUME \A d \in Client : request'[d] = request[d]
    PROVE  request' = request
<1>1. request = [d \in Client |-> request[d]] /\ request' = [d \in Client |-> request'[d]]
  BY DEF request
<1> QED
  BY <1>1

\* Two clients hold two workers, so that one that starts to perform is the
\* one of a worker that performs nothing.
LEMMA RoomToBegin ==
    ASSUME IInv, Charted, NEW w \in Worker, performing[w] = Null
    PROVE  Cardinality(Exec!In("performing")) < Cardinality(Worker)
<1> DEFINE P == Exec!In("performing")
           h == [c \in P |-> holds[c]]
<1>1. ASSUME NEW c \in P
      PROVE  c \in Executing /\ holds[c] \in Worker \ {w}
  <2>1. c \in Client /\ pc[c] = "executing" /\ performing[holds[c]] # Null
    BY DEF Exec!In, Charted, InStage
  <2>2. c \in Executing /\ holds[c] \in Worker
    BY <2>1 DEF IInv, Pool, Executing
  <2> QED
    BY <2>1, <2>2
<1> HIDE DEF P
<1>2. h \in [P -> Worker \ {w}]
  BY <1>1
<1>3. IsInjective(h)
  BY <1>1 DEF IsInjective, IInv, Pool
<1>4. h \in Injection(P, Worker \ {w})
  BY <1>2, <1>3 DEF Injection
<1>5. /\ IsFiniteSet(Worker \ {w}) /\ IsFiniteSet(Worker)
      /\ Cardinality(Worker \ {w}) = Cardinality(Worker) - 1
  BY ServerAssumption, FS_RemoveElement
<1>6. IsFiniteSet(P) /\ Cardinality(P) <= Cardinality(Worker \ {w})
  BY <1>4, <1>5, FS_Injection
<1>7. Cardinality(P) \in Nat /\ Cardinality(Worker) \in Nat
  BY <1>5, <1>6, FS_CardinalityType
<1>8. Cardinality(P) < Cardinality(Worker)
  BY <1>5, <1>6, <1>7
<1> QED
  BY <1>8 DEF P

\* getWorker(), whichever way it goes, leaves its caller asking.
LEMMA GetWorkerAsks ==
    ASSUME IInv, Charted', NEW c \in Client, pc[c] \in {"outside", "woken"},
           GetWorker(c), UNCHANGED performing
    PROVE  request'[c] = "asked" /\ \A d \in Client \ {c} : request'[d] = request[d]
<1>1. CASE available = << >>
  <2>1. pc' = [pc EXCEPT ![c] = "waiting"] /\ UNCHANGED <<holds, toWorker>>
    BY <1>1 DEF GetWorker, Wait
  <2>2. pc'[c] = "waiting" /\ \A d \in Client \ {c} : pc'[d] = pc[d]
    BY <2>1 DEF IInv, TypeOK
  <2>3. request'[c] = "asked"
    BY <2>2 DEF Charted, InStage
  <2> QED
    BY <2>1, <2>2, <2>3, StageKept
<1>2. CASE available # << >>
  <2> DEFINE w == Last(available)
  <2>1. /\ holds' = [holds EXCEPT ![c] = w]
        /\ toWorker' = [toWorker EXCEPT ![w] = Append(@, c)]
        /\ pc' = [pc EXCEPT ![c] = "executing"]
    BY <1>2 DEF GetWorker, StartOn
  <2>2. w \in Worker /\ w \in ToSet(available)
    BY <1>2, LastTaken DEF IInv, TypeOK, Pool
  <2> HIDE DEF w
  <2>3. /\ pc'[c] = "executing" /\ holds'[c] = w
        /\ \A d \in Client \ {c} : pc'[d] = pc[d] /\ holds'[d] = holds[d]
        /\ \A v \in Worker \ {w} : toWorker'[v] = toWorker[v]
    BY <2>1 DEF IInv, TypeOK
  <2>4. toWorker'[w] # << >>
    <3>1. toWorker[w] \in Seq(Client) /\ toWorker'[w] = Append(toWorker[w], c)
      BY <2>1, <2>2 DEF IInv, TypeOK
    <3> QED
      BY <3>1
  <2>5. request'[c] = "asked"
    BY <2>3, <2>4 DEF Charted, InStage
  <2>6. ASSUME NEW d \in Client \ {c}
        PROVE  request'[d] = request[d]
    <3>1. pc[d] = "executing" => holds[d] \in Worker \ {w}
      BY <2>2 DEF IInv, Pool, Executing
    <3> QED
      BY <2>3, <3>1, StageKept
  <2> QED
    BY <2>5, <2>6
<1> QED
  BY <1>1, <1>2

\* execute() returns true: the client had its own result to read.
LEMMA FinishAnswers ==
    ASSUME IInv, Charted, Charted', NEW c \in Client, Finish(c)
    PROVE  Exec!Answer(c)
<1>1. /\ pc[c] = "executing" /\ fromWorker[holds[c]] # << >>
      /\ holds' = [holds EXCEPT ![c] = Null]
      /\ UNCHANGED <<toWorker, performing>>
  BY DEF Finish
<1>2. request[c] = "performed"
  <2>1. Busy(holds[c], c)
    BY <1>1 DEF IInv, Pool, Executing
  <2>2. toWorker[holds[c]] = << >> /\ performing[holds[c]] = Null
    BY <1>1, <2>1 DEF Busy
  <2> QED
    BY <1>1, <2>2 DEF Charted, InStage, Stages
<1>3. /\ pc'[c] = "outside"
      /\ \A d \in Client \ {c} : pc'[d] = pc[d] \/ (pc[d] = "waiting" /\ pc'[d] = "woken")
  <2>1. CASE waiters = << >>
    <3>1. pc' = [pc EXCEPT ![c] = "outside"]
      BY <2>1 DEF Finish, PutWorker
    <3> QED
      BY <3>1 DEF IInv, TypeOK
  <2>2. CASE waiters # << >>
    <3> DEFINE h == Head(waiters)
    <3>1. h \in Client /\ h \in ToSet(waiters)
      BY <2>2, Taken DEF IInv, TypeOK, WaitersQueued
    <3>2. h # c
      BY <1>1, <3>1 DEF IInv, WaitersQueued
    <3>3. pc' = [pc EXCEPT ![c] = "outside", ![h] = IF @ = "waiting" THEN "woken" ELSE @]
      BY <2>2 DEF Finish, PutWorker
    <3> HIDE DEF h
    <3> QED
      BY <3>1, <3>2, <3>3 DEF IInv, TypeOK
  <2> QED
    BY <2>1, <2>2
<1>4. request'[c] = "none"
  BY <1>3 DEF Charted, InStage
<1>5. ASSUME NEW d \in Client \ {c}
      PROVE  request'[d] = request[d]
  <2>1. holds'[d] = holds[d]
    BY <1>1 DEF IInv, TypeOK
  <2>2. CASE pc'[d] = pc[d]
    BY <1>1, <2>1, <2>2, StageKept
  <2>3. CASE pc[d] = "waiting" /\ pc'[d] = "woken"
    <3>1. request[d] = "asked" /\ request'[d] = "asked"
      BY <2>3 DEF Charted, InStage
    <3> QED
      BY <3>1
  <2> QED
    BY <1>3, <2>2, <2>3
<1> QED
  BY <1>2, <1>4, <1>5, OneMoves DEF Exec!Answer

\* execute() returns false, or its caller is gone, with nothing performed.
LEMMA LeaveRefuses ==
    ASSUME IInv, Charted, Charted', NEW c \in Client, ResumeStopped(c) \/ DeleteClient(c)
    PROVE  Exec!Refuse(c)
<1>1. /\ pc[c] \in {"waiting", "woken"}
      /\ pc' = [pc EXCEPT ![c] = "outside"] \/ pc' = [pc EXCEPT ![c] = "deleted"]
      /\ UNCHANGED <<holds, toWorker, performing>>
  BY DEF ResumeStopped, DeleteClient
<1>2. pc'[c] \in {"outside", "deleted"} /\ \A d \in Client \ {c} : pc'[d] = pc[d]
  BY <1>1 DEF IInv, TypeOK
<1>3. request[c] = "asked" /\ request'[c] = "none"
  BY <1>1, <1>2 DEF Charted, InStage
<1>4. \A d \in Client \ {c} : request'[d] = request[d]
  BY <1>1, <1>2, StageKept
<1> QED
  BY <1>3, <1>4, OneMoves DEF Exec!Refuse

\* stop() performs nothing and forgets nobody's operation.
LEMMA StopStutters ==
    ASSUME IInv, Charted, Charted', Stop
    PROVE  request' = request
<1>1. ASSUME NEW c \in Client
      PROVE  request'[c] = request[c]
  <2>1. pc'[c] = (IF pc[c] = "waiting" THEN "woken" ELSE pc[c]) /\ pc[c] # "executing"
    BY DEF Stop
  <2>2. UNCHANGED <<holds, toWorker, performing>>
    BY DEF Stop
  <2>3. CASE pc[c] = "waiting"
    <3>1. request[c] = "asked" /\ request'[c] = "asked"
      BY <2>1, <2>3 DEF Charted, InStage
    <3> QED
      BY <3>1
  <2>4. CASE pc[c] # "waiting"
    BY <2>1, <2>2, <2>4, StageKept
  <2> QED
    BY <2>3, <2>4
<1> QED
  BY <1>1, NoneMoves

\* A worker works for the client that holds it, or for nobody.
LEMMA WorkerServes ==
    ASSUME IInv, NEW w \in Worker, UNCHANGED <<pc, holds>>,
           \A v \in Worker \ {w} : toWorker'[v] = toWorker[v] /\ performing'[v] = performing[v]
    PROVE  \/ request' = request
           \/ \E c \in Executing : /\ holds[c] = w
                                   /\ \A d \in Client \ {c} : request'[d] = request[d]
<1>1. ASSUME NEW d \in Client, ~(d \in Executing /\ holds[d] = w)
      PROVE  request'[d] = request[d]
  <2>1. pc[d] = "executing" => holds[d] \in Worker \ {w}
    BY <1>1 DEF IInv, Pool, Executing
  <2> QED
    BY <2>1, StageKept
<1>2. CASE \E c \in Executing : holds[c] = w
  <2>1. PICK c \in Executing : holds[c] = w
    BY <1>2
  <2>2. \A d \in Client \ {c} : ~(d \in Executing /\ holds[d] = w)
    BY <2>1 DEF IInv, Pool
  <2> QED
    BY <1>1, <2>1, <2>2
<1>3. CASE ~ \E c \in Executing : holds[c] = w
  BY <1>1, <1>3, NoneMoves
<1> QED
  BY <1>2, <1>3

LEMMA WorkerReadsBegins ==
    ASSUME IInv, Charted, Charted', NEW w \in Worker, WorkerReads(w)
    PROVE  Exec!Next \/ request' = request
<1>1. /\ performing[w] = Null /\ toWorker[w] # << >>
      /\ performing' = [performing EXCEPT ![w] = Head(toWorker[w])]
      /\ toWorker' = [toWorker EXCEPT ![w] = Tail(@)]
      /\ UNCHANGED <<pc, holds>>
  BY DEF WorkerReads, clientVars
<1>2. \A v \in Worker \ {w} : toWorker'[v] = toWorker[v] /\ performing'[v] = performing[v]
  BY <1>1 DEF IInv, TypeOK
<1>3. SUFFICES ASSUME NEW c \in Executing, holds[c] = w,
                      \A d \in Client \ {c} : request'[d] = request[d]
               PROVE  Exec!Next
  BY <1>1, <1>2, WorkerServes
<1>4. c \in Client /\ pc[c] = "executing" /\ pc'[c] = "executing" /\ holds'[c] = w
  BY <1>1, <1>3 DEF Executing
<1>5. Head(toWorker[w]) # Null
  <2>1. Head(toWorker[w]) \in Client
    BY <1>1 DEF IInv, TypeOK
  <2> QED
    BY <2>1, ServerAssumption
<1>6. performing'[w] # Null
  BY <1>1, <1>5 DEF IInv, TypeOK
<1>7. request[c] = "asked" /\ request'[c] = "performing"
  BY <1>1, <1>3, <1>4, <1>6 DEF Charted, InStage
<1>8. Exec!Begin(c)
  <2>1. Exec!Move(c, "asked", "performing")
    BY <1>3, <1>4, <1>7, OneMoves
  <2>2. Cardinality(Exec!In("performing")) < Cardinality(Worker)
    BY <1>1, RoomToBegin
  <2>3. Exec!Cardinality(Exec!In("performing")) = Cardinality(Exec!In("performing"))
    BY DEF Exec!Cardinality, Cardinality
  <2> QED
    BY <2>1, <2>2, <2>3 DEF Exec!Begin
<1> QED
  BY <1>4, <1>8 DEF Exec!Next

LEMMA WorkerWritesCompletes ==
    ASSUME IInv, Charted, Charted', NEW w \in Worker, WorkerWrites(w)
    PROVE  Exec!Next \/ request' = request
<1>1. /\ performing[w] # Null
      /\ performing' = [performing EXCEPT ![w] = Null]
      /\ UNCHANGED <<pc, holds, toWorker>>
  BY DEF WorkerWrites, clientVars
<1>2. \A v \in Worker \ {w} : toWorker'[v] = toWorker[v] /\ performing'[v] = performing[v]
  BY <1>1 DEF IInv, TypeOK
<1>3. SUFFICES ASSUME NEW c \in Executing, holds[c] = w,
                      \A d \in Client \ {c} : request'[d] = request[d]
               PROVE  Exec!Next
  BY <1>1, <1>2, WorkerServes
<1>4. c \in Client /\ pc[c] = "executing" /\ pc'[c] = "executing" /\ holds'[c] = w
  BY <1>1, <1>3 DEF Executing
<1>5. toWorker'[w] = << >> /\ performing'[w] = Null
  <2>1. Busy(w, c)
    BY <1>3 DEF IInv, Pool
  <2> QED
    BY <1>1, <2>1 DEF Busy, IInv, TypeOK
<1>6. request[c] = "performing" /\ request'[c] = "performed"
  BY <1>1, <1>3, <1>4, <1>5 DEF Charted, InStage, Stages
<1>7. Exec!Complete(c)
  BY <1>3, <1>4, <1>6, OneMoves DEF Exec!Complete
<1> QED
  BY <1>4, <1>7 DEF Exec!Next

LEMMA StepExecutes == IInv /\ Charted /\ Charted' /\ [Next]_vars => [Exec!Next]_request
<1> SUFFICES ASSUME IInv, Charted, Charted', [Next]_vars
             PROVE  Exec!Next \/ request' = request
  OBVIOUS
<1>1. ASSUME NEW c \in Client, Execute(c)
      PROVE  Exec!Next
  <2>1. pc[c] = "outside" /\ GetWorker(c) /\ UNCHANGED performing
    BY <1>1 DEF Execute
  <2>2. request[c] = "none"
    BY <2>1 DEF Charted, InStage
  <2>3. Exec!Ask(c)
    BY <2>1, <2>2, GetWorkerAsks, OneMoves DEF Exec!Ask
  <2> QED
    BY <2>3 DEF Exec!Next
<1>2. ASSUME NEW c \in Client, Resume(c)
      PROVE  request' = request
  <2>1. pc[c] = "woken" /\ GetWorker(c) /\ UNCHANGED performing
    BY <1>2 DEF Resume
  <2>2. request[c] = "asked"
    BY <2>1 DEF Charted, InStage
  <2>3. request'[c] = "asked" /\ \A d \in Client \ {c} : request'[d] = request[d]
    BY <2>1, GetWorkerAsks
  <2>4. \A d \in Client : request'[d] = request[d]
    BY <2>2, <2>3
  <2> QED
    BY <2>4, NoneMoves
<1>3. ASSUME NEW c \in Client, ResumeStopped(c) \/ DeleteClient(c)
      PROVE  Exec!Next
  BY <1>3, LeaveRefuses DEF Exec!Next
<1>4. ASSUME NEW c \in Client, Finish(c)
      PROVE  Exec!Next
  BY <1>4, FinishAnswers DEF Exec!Next
<1>5. ASSUME NEW w \in Worker, WorkerReads(w)
      PROVE  Exec!Next \/ request' = request
  BY <1>5, WorkerReadsBegins
<1>6. ASSUME NEW w \in Worker, WorkerWrites(w)
      PROVE  Exec!Next \/ request' = request
  BY <1>6, WorkerWritesCompletes
<1>7. CASE Stop
  BY <1>7, StopStutters
<1>8. CASE UNCHANGED vars
  BY <1>8 DEF vars, clientVars, request
<1> QED
  BY <1>1, <1>2, <1>3, <1>4, <1>5, <1>6, <1>7, <1>8 DEF Next

\* Whatever the workers interleave, an operation given to execute() is
\* performed once before execute() returns true and not at all otherwise, and
\* no more are performed at a time than there are workers.
THEOREM ExecutesOnce == Spec => ExecutorSpec
<1>1. Init => Exec!Init
  <2> SUFFICES ASSUME Init PROVE Exec!Init
    OBVIOUS
  <2>1. \A c \in Client : request[c] = "none"
    BY InitIInv, StagesCharted DEF Init, Charted, InStage
  <2>2. request = [c \in Client |-> request[c]]
    BY DEF request
  <2> QED
    BY <2>1, <2>2 DEF Exec!Init
<1>2. Spec => [](IInv /\ Charted)
  BY Invariance, StagesCharted, PTL
<1>3. Spec => Exec!Init /\ [][Exec!Next]_request
  BY <1>1, <1>2, StepExecutes, PTL DEF Spec
<1> QED
  BY <1>3 DEF ExecutorSpec, Exec!Spec
==============================================================================
