--------------------------- MODULE ThreadsProofs ---------------------------
(***************************************************************************)
(* Proofs about Threads, for any set of threads and of references.         *)
(*                                                                         *)
(* The inductive invariant is the conjunction of the invariants that TLC   *)
(* checks: each of them needs the others.  That a thread is unlinked when  *)
(* it is deleted (TypeOK) needs that it is linked once (OnePlace), that    *)
(* needs that only blocked threads are released, which is what the mirror  *)
(* of blocker and waiter (BlockInverse) says.  It also makes the phase of  *)
(* a thread a matter of its one place, and with that every call of the     *)
(* library a step of the life cycle in ThreadLife.                         *)
(***************************************************************************)
EXTENDS Threads, QueueTheorems

IInv ==
    /\ TypeOK
    /\ BlockInverse
    /\ OnePlace
    /\ CurrentIsRunning
    /\ PollsOnlyWhenIdle

\* The empty Thread list, no references: nothing to check but types.
LEMMA InitIInv == Init => IInv
<1> SUFFICES ASSUME Init PROVE IInv
  OBVIOUS
<1> USE ContextsAreDistinct DEF Init
<1>1. ready = << >> /\ ready \in Seq(threads) /\ Ready = {} /\ IsInjective(ready)
  <2>1. ready = << >> /\ ready \in Seq(threads)
    OBVIOUS
  <2> QED
    BY <2>1, EmptyQueue DEF Ready
<1>2. TypeOK
  BY <1>1 DEF TypeOK, Results, Blocker
<1>3. BlockInverse
  BY DEF BlockInverse, Blocker
<1>4. OnePlace
  BY <1>1 DEF OnePlace, Blocked
<1> QED
  BY <1>1, <1>2, <1>3, <1>4 DEF IInv, CurrentIsRunning, PollsOnlyWhenIdle

-----------------------------------------------------------------------------
(***************************************************************************)
(* What the shared pieces do to the ready list.                            *)
(***************************************************************************)

\* A switch takes the first ready thread, or goes to the host.
LEMMA DispatchTakes ==
    ASSUME NEW S, NEW q \in Seq(S), IsInjective(q), NEW c, Dispatch(q, c), Host \notin S
    PROVE  /\ ready' \in Seq(S)
           /\ IsInjective(ready')
           /\ Ready' = ToSet(q) \ {running'}
           /\ ToSet(q) = Ready' \cup ({running'} \ {Host})
           /\ running' \in S \cup {Host}
           /\ running' = Host => ready' = << >> /\ current' = c
           /\ running' # Host => current' = running' /\ running' \in ToSet(q)
<1>1. CASE q = << >>
  BY <1>1, EmptyQueue DEF Dispatch, Ready
<1>2. CASE q # << >>
  <2>1. running' = Head(q) /\ current' = Head(q) /\ ready' = Tail(q)
    BY <1>2 DEF Dispatch
  <2>2. Head(q) \in S
    BY <1>2, HeadTailProperties
  <2> QED
    BY <1>2, <2>1, <2>2, Taken DEF Ready
<1> QED
  BY <1>1, <1>2

\* Releasing the waiter of b adds it to the ready list, where it is not yet.
LEMMA ReleasedAdds ==
    ASSUME IInv, NEW b \in Blocker
    PROVE  LET q == ready \o Released(b)
           IN  /\ q \in Seq(threads)
               /\ IsInjective(q)
               /\ ToSet(q) = Ready \cup ({waiter[b]} \ {Null})
<1> DEFINE q == ready \o Released(b)
<1> USE ContextsAreDistinct
<1>0. ready \in Seq(threads) /\ IsInjective(ready) /\ ToSet(ready) = Ready
  BY DEF IInv, TypeOK, OnePlace, Ready
<1>1. CASE waiter[b] = Null
  <2>1. q = ready
    BY <1>0, <1>1, ConcatEmptySeq DEF Released
  <2> QED
    BY <1>0, <1>1, <2>1
<1>2. CASE waiter[b] # Null
  <2>1. waiter[b] \in threads /\ waiter[b] \in Blocked
    BY <1>2 DEF IInv, TypeOK, BlockInverse, Blocked, Blocker
  <2>2. waiter[b] \notin ToSet(ready)
    BY <1>0, <2>1 DEF IInv, OnePlace
  <2>3. q = Append(ready, waiter[b])
    BY <1>0, <1>2, <2>1 DEF Released
  <2> QED
    BY <1>0, <1>2, <2>1, <2>2, <2>3, Appended
<1> QED
  BY <1>1, <1>2

\* Detaching b leaves blocker and waiter inverse of each other, and takes
\* exactly the thread that waited on b out of the blocked ones.
LEMMA DetachUnlinks ==
    ASSUME TypeOK, BlockInverse, NEW b \in Blocker, Detach(b)
    PROVE  /\ blocker' \in [Thread -> Blocker \cup {Null}]
           /\ waiter' \in [Blocker -> threads \cup {Null}]
           /\ waiter'[b] = Null
           /\ \A t \in Thread, c \in Blocker : blocker'[t] = c <=> waiter'[c] = t
           /\ \A t \in Thread : blocker'[t] = blocker[t] \/ blocker'[t] = Null
           /\ \A t \in Thread : blocker'[t] # b
           /\ Blocked' = Blocked \ {waiter[b]}
<1> USE ContextsAreDistinct
<1>1. \A c \in Blocker : waiter'[c] = IF c = b THEN Null ELSE waiter[c]
  BY DEF Detach, TypeOK
<1>2. \A t \in Thread : blocker'[t] = IF t = waiter[b] THEN Null ELSE blocker[t]
  BY DEF Detach, TypeOK
<1>3. /\ blocker' \in [Thread -> Blocker \cup {Null}]
      /\ waiter' \in [Blocker -> threads \cup {Null}]
  BY DEF Detach, TypeOK
<1>4. b # Null /\ \A t \in Thread : t # Null
  BY DEF Blocker
<1>5. \A t \in Thread : blocker[t] = b <=> waiter[b] = t
  BY DEF BlockInverse
<1>6. \A t \in Thread, c \in Blocker : blocker'[t] = c <=> waiter'[c] = t
  <2> TAKE t \in Thread, c \in Blocker
  <2>1. c # Null /\ (blocker[t] = c <=> waiter[c] = t)
    BY DEF BlockInverse, Blocker
  <2> QED
    BY <1>1, <1>2, <1>4, <1>5, <2>1
<1>7. Blocked' = Blocked \ {waiter[b]}
  BY <1>2 DEF Blocked
<1> QED
  BY <1>1, <1>2, <1>3, <1>4, <1>5, <1>6, <1>7

-----------------------------------------------------------------------------
(***************************************************************************)
(* Every action preserves the invariant.                                   *)
(***************************************************************************)

LEMMA NewThreadIInv ==
    ASSUME IInv, NEW t \in Thread, NEW j \in BOOLEAN, NewThread(t, j)
    PROVE  IInv'
<1> USE ContextsAreDistinct DEF IInv
<1>1. t \notin Ready \cup Blocked \cup ended \cup {running, Host}
  BY DEF NewThread, TypeOK, OnePlace, BlockInverse, Blocked
<1>2. /\ ready' \in Seq(threads')
      /\ Ready' = Ready \cup {t}
      /\ IsInjective(ready')
      /\ ready' # << >>
  <2>1. ready \in Seq(threads') /\ t \in threads' /\ t \notin ToSet(ready)
    BY <1>1 DEF NewThread, TypeOK, Ready
  <2>2. IsInjective(ready) /\ ready' = Append(ready, t)
    BY DEF NewThread, OnePlace
  <2> QED
    BY <2>1, <2>2, Appended DEF Ready
<1>3. TypeOK'
  BY <1>2 DEF NewThread, TypeOK
<1>4. BlockInverse'
  BY DEF NewThread, BlockInverse, LiveBlockers
<1>5. OnePlace'
  BY <1>1, <1>2 DEF NewThread, OnePlace, Blocked
<1>6. CurrentIsRunning' /\ PollsOnlyWhenIdle'
  BY DEF NewThread, CanCall, CurrentIsRunning, PollsOnlyWhenIdle, TypeOK
<1> QED
  BY <1>3, <1>4, <1>5, <1>6

LEMMA NewRefIInv ==
    ASSUME IInv, NEW b \in Ref, NewRef(b)
    PROVE  IInv'
<1> USE ContextsAreDistinct DEF IInv
<1>1. TypeOK'
  BY DEF NewRef, TypeOK
<1>2. BlockInverse'
  BY DEF NewRef, BlockInverse, LiveBlockers
<1>3. OnePlace' /\ CurrentIsRunning' /\ PollsOnlyWhenIdle'
  BY DEF NewRef, OnePlace, Blocked, Ready, CurrentIsRunning, PollsOnlyWhenIdle
<1> QED
  BY <1>1, <1>2, <1>3

LEMMA BlockOnIInv ==
    ASSUME IInv, ThreadCanCall, NEW b \in LiveBlockers, BlockOn(b)
    PROVE  IInv'
<1> USE ContextsAreDistinct DEF IInv
<1>1. /\ running \in threads
      /\ running \notin Ready \cup Blocked \cup ended \cup {Null, Host}
      /\ b \in Blocker /\ b # Null
  BY DEF ThreadCanCall, TypeOK, OnePlace, LiveBlockers, Blocker
<1>2. /\ ready' \in Seq(threads)
      /\ IsInjective(ready')
      /\ Ready = Ready' \cup ({running'} \ {Host})
      /\ Ready' = Ready \ {running'}
      /\ running' \in threads \cup {Host}
      /\ running' = Host => ready' = << >> /\ current' = current
      /\ running' # Host => current' = running' /\ running' \in Ready
  <2>1. ready \in Seq(threads) /\ IsInjective(ready) /\ Host \notin threads
        /\ Ready = ToSet(ready) /\ Dispatch(ready, current)
    BY DEF BlockOn, TypeOK, OnePlace, Ready
  <2> QED
    BY <2>1, DispatchTakes
<1>3. TypeOK'
  BY <1>1, <1>2 DEF BlockOn, TypeOK
<1>4. Blocked' = Blocked \cup {running}
  BY <1>1 DEF BlockOn, TypeOK, Blocked
<1>5. BlockInverse'
  <2>1. /\ \A t \in Thread : blocker'[t] = IF t = running THEN b ELSE blocker[t]
        /\ \A c \in Blocker : waiter'[c] = IF c = b THEN running ELSE waiter[c]
        /\ \A t \in Thread : at'[t] = IF t = running THEN b ELSE at[t]
        /\ running \in Thread /\ blocker[running] = Null /\ waiter[b] = Null
    BY <1>1 DEF BlockOn, TypeOK, Blocked
  <2>2. \A t \in Thread, c \in Blocker : blocker'[t] = c <=> waiter'[c] = t
    BY <1>1, <2>1 DEF BlockInverse, Blocker
  <2>3. threads' = threads /\ LiveBlockers' = LiveBlockers
    BY DEF BlockOn, LiveBlockers
  <2> QED
    BY <1>1, <2>1, <2>2, <2>3 DEF BlockInverse
<1>6. OnePlace'
  <2>1. threads' = threads /\ ended' = ended
    BY DEF BlockOn
  <2>2. threads' = Ready' \cup Blocked' \cup ended' \cup ({running'} \ {Host})
    BY <1>1, <1>2, <1>4, <2>1 DEF OnePlace
  <2>3. /\ Ready' \cap Blocked' = {}
        /\ (Ready' \cup Blocked') \cap ended' = {}
    BY <1>1, <1>2, <1>4, <2>1 DEF OnePlace
  <2>4. running' \notin Ready' \cup Blocked' \cup ended'
    BY <1>1, <1>2, <1>4, <2>1 DEF OnePlace, TypeOK, Blocked
  <2> QED
    BY <1>2, <2>2, <2>3, <2>4 DEF OnePlace
<1>7. CurrentIsRunning' /\ PollsOnlyWhenIdle'
  BY <1>2 DEF CurrentIsRunning, PollsOnlyWhenIdle
<1> QED
  BY <1>3, <1>5, <1>6, <1>7

LEMMA AwakeIInv ==
    ASSUME IInv, Awake
    PROVE  IInv'
<1> USE ContextsAreDistinct DEF IInv
<1>1. TypeOK'
  BY DEF Awake, TypeOK
<1>2. BlockInverse'
  BY DEF Awake, BlockInverse, LiveBlockers, OnePlace, Blocked, TypeOK
<1>3. OnePlace' /\ CurrentIsRunning' /\ PollsOnlyWhenIdle'
  BY DEF Awake, OnePlace, Blocked, Ready, CurrentIsRunning, PollsOnlyWhenIdle
<1> QED
  BY <1>1, <1>2, <1>3

\* A release moves one thread from the blocked to the ready ones.
LEMMA ReleaseOnePlace ==
    ASSUME IInv, NEW b \in Blocker, Detach(b), IsInjective(ready'),
           Ready' = Ready \cup ({waiter[b]} \ {Null}),
           UNCHANGED <<threads, ended, running>>
    PROVE  OnePlace'
<1> USE ContextsAreDistinct DEF IInv
<1>1. Blocked' = Blocked \ {waiter[b]}
  BY DetachUnlinks
<1>2. {waiter[b]} \ {Null} \subseteq Blocked /\ Null \notin Blocked
  BY DEF Blocked, BlockInverse, TypeOK, Blocker
<1>3. threads' = Ready' \cup Blocked' \cup ended' \cup ({running'} \ {Host})
  BY <1>1, <1>2 DEF OnePlace
<1>4. /\ Ready' \cap Blocked' = {}
      /\ (Ready' \cup Blocked') \cap ended' = {}
      /\ running' \notin Ready' \cup Blocked' \cup ended'
  BY <1>1, <1>2 DEF OnePlace
<1> QED
  BY <1>3, <1>4 DEF OnePlace

LEMMA UnblockIInv ==
    ASSUME IInv, NEW b \in Ref, NEW r \in Results, Unblock(b, r)
    PROVE  IInv'
<1> USE ContextsAreDistinct DEF IInv
<1>1. b \in Blocker /\ Detach(b)
  BY DEF Unblock, Blocker
<1>2. /\ ready' \in Seq(threads)
      /\ IsInjective(ready')
      /\ Ready' = Ready \cup ({waiter[b]} \ {Null})
  BY <1>1, ReleasedAdds DEF Unblock, Ready
<1>3. TypeOK'
  BY <1>1, <1>2, DetachUnlinks DEF Unblock, TypeOK
<1>4. BlockInverse'
  <2>1. threads' = threads /\ LiveBlockers' = LiveBlockers /\ at' = at
    BY DEF Unblock, LiveBlockers
  <2> QED
    BY <1>1, <2>1, DetachUnlinks DEF BlockInverse
<1>5. OnePlace'
  BY <1>1, <1>2, ReleaseOnePlace DEF Unblock
<1>6. CurrentIsRunning' /\ PollsOnlyWhenIdle'
  BY DEF Unblock, CanCall, CurrentIsRunning, PollsOnlyWhenIdle, TypeOK
<1> QED
  BY <1>3, <1>4, <1>5, <1>6

LEMMA DeleteRefIInv ==
    ASSUME IInv, NEW b \in Ref, DeleteRef(b)
    PROVE  IInv'
<1> USE ContextsAreDistinct DEF IInv
<1>1. b \in Blocker /\ Detach(b)
  BY DEF DeleteRef, Blocker
<1>2. /\ ready' \in Seq(threads)
      /\ IsInjective(ready')
      /\ Ready' = Ready \cup ({waiter[b]} \ {Null})
  BY <1>1, ReleasedAdds DEF DeleteRef, Ready
<1>3. TypeOK'
  BY <1>1, <1>2, DetachUnlinks DEF DeleteRef, TypeOK, Results
<1>4. BlockInverse'
  <2>1. threads' = threads /\ LiveBlockers \subseteq LiveBlockers' \cup {b} /\ at' = at
    BY DEF DeleteRef, LiveBlockers
  <2> QED
    BY <1>1, <2>1, DetachUnlinks DEF BlockInverse
<1>5. OnePlace'
  BY <1>1, <1>2, ReleaseOnePlace DEF DeleteRef
<1>6. CurrentIsRunning' /\ PollsOnlyWhenIdle'
  BY DEF DeleteRef, CanCall, CurrentIsRunning, PollsOnlyWhenIdle, TypeOK
<1> QED
  BY <1>3, <1>4, <1>5, <1>6

LEMMA ReturnJoinableIInv ==
    ASSUME IInv, ReturnJoinable
    PROVE  IInv'
<1> USE ContextsAreDistinct DEF IInv
<1> DEFINE b == running
           q == ready \o Released(b)
<1>1. /\ b \in threads /\ b \in joinable /\ b \in Blocker
      /\ b \notin Ready \cup Blocked \cup ended \cup {Null, Host}
      /\ Detach(b)
  BY DEF ReturnJoinable, ThreadCanCall, TypeOK, OnePlace, Blocker
<1>2. /\ q \in Seq(threads) /\ IsInjective(q) /\ Host \notin threads
      /\ ToSet(q) = Ready \cup ({waiter[b]} \ {Null})
  BY <1>1, ReleasedAdds DEF TypeOK
<1>3. /\ ready' \in Seq(threads)
      /\ IsInjective(ready')
      /\ ToSet(q) = Ready' \cup ({running'} \ {Host})
      /\ Ready' = ToSet(q) \ {running'}
      /\ running' \in threads \cup {Host}
      /\ running' = Host => ready' = << >> /\ current' = current
      /\ running' # Host => current' = running' /\ running' \in ToSet(q)
  <2>1. Dispatch(q, current)
    BY DEF ReturnJoinable
  <2> HIDE DEF q
  <2> QED
    BY <1>2, <2>1, DispatchTakes
<1> HIDE DEF q
<1>4. TypeOK'
  BY <1>1, <1>3, DetachUnlinks DEF ReturnJoinable, TypeOK
<1>5. BlockInverse'
  <2>1. threads' = threads /\ LiveBlockers' = LiveBlockers /\ at' = at
    BY DEF ReturnJoinable, LiveBlockers
  <2> QED
    BY <1>1, <2>1, DetachUnlinks DEF BlockInverse
<1>6. OnePlace'
  <2>1. threads' = threads /\ ended' = ended \cup {b}
    BY DEF ReturnJoinable
  <2>2. Blocked' = Blocked \ {waiter[b]}
    BY <1>1, DetachUnlinks
  <2>3. {waiter[b]} \ {Null} \subseteq Blocked /\ Null \notin Blocked
    BY <1>1 DEF Blocked, BlockInverse, TypeOK, Blocker
  <2>4. threads' = Ready' \cup Blocked' \cup ended' \cup ({running'} \ {Host})
    BY <1>1, <1>2, <1>3, <2>1, <2>2, <2>3 DEF OnePlace
  <2>5. ToSet(q) \cap Blocked' = {} /\ (ToSet(q) \cup Blocked') \cap ended' = {}
    BY <1>1, <1>2, <2>1, <2>2, <2>3 DEF OnePlace
  <2>6. /\ Ready' \cap Blocked' = {}
        /\ (Ready' \cup Blocked') \cap ended' = {}
    BY <1>3, <2>5
  <2>7. Host \notin Blocked' \cup ended'
    BY <1>1, <2>1 DEF Blocked, TypeOK
  <2>8. running' \notin Ready' \cup Blocked' \cup ended'
    BY <1>3, <2>5, <2>7
  <2> QED
    BY <1>3, <2>4, <2>6, <2>8 DEF OnePlace
<1>7. CurrentIsRunning' /\ PollsOnlyWhenIdle'
  BY <1>3 DEF CurrentIsRunning, PollsOnlyWhenIdle
<1> QED
  BY <1>4, <1>5, <1>6, <1>7

\* Deleting a thread unlinks it from the reference it blocks on, and the
\* thread that joins it from its joiner.
LEMMA DeleteUnlinks ==
    ASSUME TypeOK, BlockInverse, NEW t \in threads, Delete(t), UNCHANGED refs
    PROVE  /\ blocker' \in [Thread -> Blocker \cup {Null}]
           /\ waiter' \in [Blocker -> threads' \cup {Null}]
           /\ at' \in [Thread -> Blocker \cup {Null}]
           /\ BlockInverse'
           /\ Blocked' = Blocked \ {t, waiter[t]}
<1> USE ContextsAreDistinct
<1>1. /\ t \in Thread /\ t \in Blocker /\ t # Null
      /\ \A u \in Thread : u # Null
  BY DEF TypeOK, Blocker
<1>2. \A u \in Thread : blocker'[u] = IF u \in {t, waiter[t]} THEN Null ELSE blocker[u]
  BY DEF Delete
<1>3. \A c \in Blocker :
         waiter'[c] = IF c = t \/ waiter[c] = t THEN Null ELSE waiter[c]
  <2> TAKE c \in Blocker
  <2>1. waiter[c] = t <=> blocker[t] = c
    BY <1>1 DEF BlockInverse
  <2> QED
    BY <2>1 DEF Delete
<1>4. \A u \in Thread : at'[u] = IF u = t THEN Null ELSE at[u]
  BY DEF Delete, TypeOK
<1>5. blocker' \in [Thread -> Blocker \cup {Null}] /\ at' \in [Thread -> Blocker \cup {Null}]
  BY DEF Delete, TypeOK
<1>6. waiter' \in [Blocker -> threads' \cup {Null}]
  <2>1. waiter' \in [Blocker -> threads \cup {Null}] /\ threads' = threads \ {t}
    BY DEF Delete, TypeOK
  <2> QED
    BY <1>1, <1>3, <2>1
<1>7. BlockInverse'
  <2>0. \A u \in Thread : u = waiter[t] <=> blocker[u] = t
    BY <1>1 DEF BlockInverse
  <2>1. \A u \in Thread, c \in Blocker : blocker'[u] = c <=> waiter'[c] = u
    <3> TAKE u \in Thread, c \in Blocker
    <3>1. c # Null /\ u # Null /\ (blocker[u] = c <=> waiter[c] = u)
      BY DEF BlockInverse, Blocker
    <3>2. blocker'[u] = IF u = t \/ blocker[u] = t THEN Null ELSE blocker[u]
      BY <1>2, <2>0
    <3> QED
      BY <1>3, <3>1, <3>2
  <2>2. \A u \in Thread : blocker'[u] # t
    BY <1>1, <1>2, <2>0
  <2>3. threads' = threads \ {t} /\ LiveBlockers \subseteq LiveBlockers' \cup {t}
    BY DEF Delete, LiveBlockers
  <2> QED
    BY <1>2, <1>4, <2>1, <2>2, <2>3 DEF BlockInverse
<1>8. Blocked' = Blocked \ {t, waiter[t]}
  BY <1>2 DEF Blocked
<1> QED
  BY <1>5, <1>6, <1>7, <1>8

LEMMA ReturnDetachedIInv ==
    ASSUME IInv, ReturnDetached
    PROVE  IInv'
<1> USE ContextsAreDistinct DEF IInv
<1> DEFINE t == running
<1>1. /\ t \in threads /\ t # Null /\ t # Host
      /\ t \notin Ready \cup Blocked \cup ended
      /\ Delete(t) /\ UNCHANGED refs
  BY DEF ReturnDetached, ThreadCanCall, TypeOK, OnePlace
<1>2. waiter[t] = Null
  <2>1. t \notin LiveBlockers
    BY <1>1 DEF ReturnDetached, LiveBlockers, TypeOK
  <2>2. waiter[t] \in threads \cup {Null} /\ t \in Blocker
    BY <1>1 DEF TypeOK, Blocker
  <2> QED
    BY <1>1, <2>1, <2>2 DEF BlockInverse, TypeOK
<1>3. ready \in Seq(threads') /\ threads' = threads \ {t} /\ Host \notin threads'
  <2>1. ready \in Seq(threads) /\ \A i \in 1 .. Len(ready) : ready[i] # t
    BY <1>1, MemberHasPlace DEF TypeOK, Ready
  <2>2. \A i \in 1 .. Len(ready) : ready[i] \in threads \ {t}
    BY <2>1
  <2>3. threads' = threads \ {t}
    BY <1>1 DEF Delete
  <2> QED
    BY <2>1, <2>2, <2>3 DEF TypeOK
<1>4. /\ ready' \in Seq(threads')
      /\ IsInjective(ready')
      /\ Ready = Ready' \cup ({running'} \ {Host})
      /\ Ready' = Ready \ {running'}
      /\ running' \in threads' \cup {Host}
      /\ running' = Host => ready' = << >> /\ current' = Null
      /\ running' # Host => current' = running' /\ running' \in Ready
  <2>1. IsInjective(ready) /\ Ready = ToSet(ready) /\ Dispatch(ready, Null)
    BY DEF ReturnDetached, OnePlace, Ready
  <2> QED
    BY <1>3, <2>1, DispatchTakes
<1>5. /\ waiter' \in [Blocker -> threads' \cup {Null}]
      /\ BlockInverse'
      /\ Blocked' = Blocked \ {t}
      /\ blocker' \in [Thread -> Blocker \cup {Null}]
      /\ at' \in [Thread -> Blocker \cup {Null}]
  <2>1. Blocked \ {t, waiter[t]} = Blocked \ {t}
    BY <1>1, <1>2 DEF Blocked
  <2> QED
    BY <1>1, <2>1, DeleteUnlinks
<1>6. joinable' = joinable \ {t} /\ finished' = finished \ {t} /\ ended' = ended \ {t}
  BY <1>1 DEF Delete
<1>7. TypeOK'
  BY <1>1, <1>3, <1>4, <1>5, <1>6 DEF ReturnDetached, TypeOK
<1>8. OnePlace'
  <2>1. threads' = Ready' \cup Blocked' \cup ended' \cup ({running'} \ {Host})
    BY <1>1, <1>3, <1>4, <1>5, <1>6 DEF OnePlace
  <2>2. /\ Ready' \cap Blocked' = {}
        /\ (Ready' \cup Blocked') \cap ended' = {}
        /\ Ready \cap (Blocked' \cup ended') = {}
    BY <1>1, <1>4, <1>5, <1>6 DEF OnePlace
  <2>3. Host \notin Blocked' \cup ended'
    BY <1>6 DEF Blocked, TypeOK
  <2>4. running' \notin Ready' \cup Blocked' \cup ended'
    BY <1>4, <2>2, <2>3
  <2> QED
    BY <1>4, <2>1, <2>2, <2>4 DEF OnePlace
<1>9. CurrentIsRunning' /\ PollsOnlyWhenIdle'
  BY <1>4 DEF CurrentIsRunning, PollsOnlyWhenIdle
<1> QED
  BY <1>5, <1>7, <1>8, <1>9

LEMMA DestroyIInv ==
    ASSUME IInv, NEW t \in Thread, Destroy(t)
    PROVE  IInv'
<1> USE ContextsAreDistinct DEF IInv
<1> DEFINE q == ready \o Released(t)
<1>1. /\ t \in threads /\ t # running /\ t # Null /\ t \in Blocker
      /\ Delete(t) /\ UNCHANGED refs
  BY DEF Destroy, Blocker
<1>2. /\ waiter' \in [Blocker -> threads' \cup {Null}]
      /\ BlockInverse'
      /\ Blocked' = Blocked \ {t, waiter[t]}
      /\ blocker' \in [Thread -> Blocker \cup {Null}]
      /\ at' \in [Thread -> Blocker \cup {Null}]
  BY <1>1, DeleteUnlinks
<1>3. /\ threads' = threads \ {t} /\ joinable' = joinable \ {t}
      /\ finished' = finished \ {t} /\ ended' = ended \ {t}
  BY <1>1 DEF Delete
<1>4. /\ ready' \in Seq(threads')
      /\ IsInjective(ready')
      /\ Ready' = (Ready \cup ({waiter[t]} \ {Null})) \ {t}
  <2>1. /\ q \in Seq(threads) /\ IsInjective(q)
        /\ ToSet(q) = Ready \cup ({waiter[t]} \ {Null})
        /\ ready' = Without(q, t)
    BY <1>1, ReleasedAdds DEF Destroy, RemoveReady
  <2> HIDE DEF q
  <2>2. ready' \in Seq(threads) /\ IsInjective(ready') /\ Ready' = ToSet(q) \ {t}
    BY <2>1, Removed DEF Ready
  <2>3. \A i \in 1 .. Len(ready') : ready'[i] \in threads \ {t}
    BY <2>2, MemberHasPlace DEF Ready
  <2> QED
    BY <1>3, <2>1, <2>2, <2>3
<1>5. UNCHANGED <<running, host, result>> /\ current' \in {Null, current} \ {t}
  BY <1>1 DEF Destroy
<1>6. TypeOK'
  BY <1>1, <1>2, <1>3, <1>4, <1>5 DEF TypeOK
<1>7. OnePlace'
  <2>1. waiter[t] = Null \/ waiter[t] \in Blocked
    BY <1>1 DEF TypeOK, BlockInverse, Blocked
  <2>2. Null \notin Blocked /\ Null \notin threads
    BY DEF Blocked, TypeOK
  <2> QED
    BY <1>1, <1>2, <1>3, <1>4, <1>5, <2>1, <2>2 DEF OnePlace
<1>8. CurrentIsRunning'
  BY <1>1 DEF Destroy, CurrentIsRunning
<1>9. PollsOnlyWhenIdle'
  BY DEF Destroy, CanCall, PollsOnlyWhenIdle, TypeOK
<1> QED
  BY <1>2, <1>6, <1>7, <1>8, <1>9

\* The host gives the processor to the first ready thread, in run() and
\* after handlers alike.
LEMMA HostDispatchIInv ==
    ASSUME IInv, running = Host, host' = "poll", Dispatch(ready, current),
           UNCHANGED <<threads, joinable, finished, ended, refs, blocker,
                       waiter, result, at>>
    PROVE  IInv'
<1> USE ContextsAreDistinct DEF IInv
<1>1. /\ ready' \in Seq(threads)
      /\ IsInjective(ready')
      /\ Ready = Ready' \cup ({running'} \ {Host})
      /\ Ready' = Ready \ {running'}
      /\ running' \in threads \cup {Host}
      /\ running' = Host => ready' = << >> /\ current' = current
      /\ running' # Host => current' = running' /\ running' \in Ready
  <2>1. /\ ready \in Seq(threads) /\ IsInjective(ready)
        /\ Ready = ToSet(ready) /\ Host \notin threads
    BY DEF TypeOK, OnePlace, Ready
  <2> QED
    BY <2>1, DispatchTakes
<1>2. TypeOK'
  BY <1>1 DEF TypeOK
<1>3. BlockInverse'
  BY DEF BlockInverse, LiveBlockers
<1>4. OnePlace'
  <2>1. Blocked' = Blocked
    BY DEF Blocked
  <2>2. threads' = Ready' \cup Blocked' \cup ended' \cup ({running'} \ {Host})
    BY <1>1, <2>1 DEF OnePlace
  <2>3. /\ Ready' \cap Blocked' = {}
        /\ (Ready' \cup Blocked') \cap ended' = {}
        /\ running' \notin Ready' \cup Blocked' \cup ended'
    BY <1>1, <2>1 DEF OnePlace
  <2> QED
    BY <1>1, <2>2, <2>3 DEF OnePlace
<1>5. CurrentIsRunning' /\ PollsOnlyWhenIdle'
  BY <1>1 DEF CurrentIsRunning, PollsOnlyWhenIdle
<1> QED
  BY <1>2, <1>3, <1>4, <1>5

LEMMA PollIInv ==
    ASSUME IInv, Poll
    PROVE  IInv'
<1> USE ContextsAreDistinct DEF IInv
<1>1. TypeOK'
  BY DEF Poll, TypeOK
<1>2. BlockInverse'
  BY DEF Poll, BlockInverse, LiveBlockers
<1>3. OnePlace' /\ CurrentIsRunning' /\ PollsOnlyWhenIdle'
  BY DEF Poll, OnePlace, Blocked, Ready, CurrentIsRunning, PollsOnlyWhenIdle
<1> QED
  BY <1>1, <1>2, <1>3

LEMMA StutterIInv ==
    ASSUME IInv, UNCHANGED vars
    PROVE  IInv'
  BY DEF vars, IInv, TypeOK, BlockInverse, OnePlace, CurrentIsRunning,
         PollsOnlyWhenIdle, LiveBlockers, Ready, Blocked

-----------------------------------------------------------------------------
LEMMA NextIInv == IInv /\ [Next]_vars => IInv'
<1> SUFFICES ASSUME IInv, [Next]_vars
             PROVE  IInv'
  OBVIOUS
<1>1. ASSUME NEW t \in Thread, NEW j \in BOOLEAN, NewThread(t, j)
      PROVE  IInv'
  BY <1>1, NewThreadIInv
<1>2. ASSUME NEW b \in Ref, NewRef(b)
      PROVE  IInv'
  BY <1>2, NewRefIInv
<1>3. ASSUME NEW b \in Ref, Block(b)
      PROVE  IInv'
  BY <1>3, BlockOnIInv DEF Block, LiveBlockers
<1>4. ASSUME NEW t \in Thread, Join(t)
      PROVE  IInv'
  BY <1>4, BlockOnIInv DEF Join, LiveBlockers
<1>5. CASE Awake
  BY <1>5, AwakeIInv
<1>6. ASSUME NEW b \in Ref, NEW r \in Results, Unblock(b, r)
      PROVE  IInv'
  BY <1>6, UnblockIInv
<1>7. ASSUME NEW b \in Ref, DeleteRef(b)
      PROVE  IInv'
  BY <1>7, DeleteRefIInv
<1>8. CASE ReturnJoinable
  BY <1>8, ReturnJoinableIInv
<1>9. CASE ReturnDetached
  BY <1>9, ReturnDetachedIInv
<1>10. ASSUME NEW t \in Thread, Destroy(t)
       PROVE  IInv'
  BY <1>10, DestroyIInv
<1>11. CASE Run
  BY <1>11, HostDispatchIInv DEF Run
<1>12. CASE Poll
  BY <1>12, PollIInv
<1>13. CASE HandlersDone
  BY <1>13, HostDispatchIInv DEF HandlersDone
<1>14. CASE UNCHANGED vars
  BY <1>14, StutterIInv
<1> QED
  BY <1>1, <1>2, <1>3, <1>4, <1>5, <1>6, <1>7, <1>8, <1>9, <1>10, <1>11,
     <1>12, <1>13, <1>14 DEF Next

\* Whatever is called in whatever order, every pointer the library keeps
\* leads to an object that exists.
THEOREM TypeCorrect == Spec => []TypeOK
<1>1. IInv => TypeOK
  BY DEF IInv
<1> QED
  BY <1>1, InitIInv, NextIInv, PTL DEF Spec

\* A blocked thread and its reference always point to each other.
THEOREM BlockingIsMirrored == Spec => []BlockInverse
<1>1. IInv => BlockInverse
  BY DEF IInv
<1> QED
  BY <1>1, InitIInv, NextIInv, PTL DEF Spec

\* No call loses a thread or makes it runnable twice.
THEOREM NoThreadIsLost == Spec => []OnePlace
<1>1. IInv => OnePlace
  BY DEF IInv
<1> QED
  BY <1>1, InitIInv, NextIInv, PTL DEF Spec

\* block() and join() act on their caller.
THEOREM CurrentIsTheCaller == Spec => []CurrentIsRunning
<1>1. IInv => CurrentIsRunning
  BY DEF IInv
<1> QED
  BY <1>1, InitIInv, NextIInv, PTL DEF Spec

\* The loop polls, and Scheduler::run() returns, only with no thread ready.
THEOREM WorkConserving == Spec => []PollsOnlyWhenIdle
<1>1. IInv => PollsOnlyWhenIdle
  BY DEF IInv
<1> QED
  BY <1>1, InitIInv, NextIInv, PTL DEF Spec

-----------------------------------------------------------------------------
JoinersStay ==
    \A t, u \in Thread :
        blocker[t] = u /\ blocker'[t] # u =>
            u \in ended' \/ u \notin threads' \/ t \notin threads'

\* A joiner is released by nobody but the thread it joined, which ends or is
\* deleted: the joiner of a thread is no reference that anybody could unblock.
LEMMA StepJoinersStay == IInv /\ [Next]_vars => JoinersStay
<1> SUFFICES ASSUME IInv, [Next]_vars,
                    NEW t \in Thread, NEW u \in Thread,
                    blocker[t] = u, blocker'[t] # u
             PROVE  u \in ended' \/ u \notin threads' \/ t \notin threads'
  BY DEF JoinersStay
<1> USE ContextsAreDistinct
<1>0. /\ waiter[u] = t /\ u \in Blocker /\ u \notin Ref /\ u # Null
      /\ t \in threads /\ at[t] = u
      /\ blocker \in [Thread -> Blocker \cup {Null}]
      /\ waiter \in [Blocker -> threads \cup {Null}]
  BY DEF IInv, BlockInverse, TypeOK, Blocker
\* What releases somebody else, or moves nobody, leaves t alone.
<1>1. ASSUME blocker' = blocker
      PROVE  FALSE
  BY <1>1
<1>2. ASSUME NEW b \in Blocker, Detach(b), b # u
      PROVE  FALSE
  <2>1. CASE waiter[b] = Null
    BY <1>1, <1>2, <2>1 DEF Detach
  <2>2. CASE waiter[b] # Null
    <3>1. waiter[b] # t
      BY <1>2, <1>0 DEF IInv, BlockInverse
    <3>2. blocker'[t] = blocker[t]
      BY <1>0, <1>2, <2>2, <3>1 DEF Detach
    <3> QED
      BY <3>2
  <2> QED
    BY <2>1, <2>2
<1>3. ASSUME NEW d \in Thread, Delete(d)
      PROVE  u \notin threads' \/ t \notin threads'
  <2>1. d = t \/ waiter[d] = t
    BY <1>0, <1>3 DEF Delete
  <2>2. d = t \/ d = u
    BY <1>0, <2>1 DEF IInv, BlockInverse, Blocker
  <2> QED
    BY <1>3, <2>2 DEF Delete
<1>4. ASSUME NEW b \in Blocker, ThreadCanCall, BlockOn(b)
      PROVE  FALSE
  <2>1. running # t /\ blocker' = [blocker EXCEPT ![running] = b]
    BY <1>0, <1>4 DEF ThreadCanCall, BlockOn
  <2> QED
    BY <1>0, <2>1
<1>5. CASE \/ \E x \in Thread, j \in BOOLEAN : NewThread(x, j)
           \/ \E b \in Ref : NewRef(b)
           \/ Awake \/ Run \/ Poll \/ HandlersDone \/ UNCHANGED vars
  BY <1>1, <1>5 DEF NewThread, NewRef, Awake, Run, Poll, HandlersDone, vars
<1>6. CASE (\E b \in Ref : Block(b)) \/ \E x \in Thread : Join(x)
  BY <1>4, <1>6 DEF Block, Join, Blocker
<1>7. CASE \E b \in Ref : DeleteRef(b) \/ \E r \in Results : Unblock(b, r)
  BY <1>0, <1>2, <1>7 DEF DeleteRef, Unblock, Blocker
<1>8. CASE ReturnJoinable
  <2>1. running \in Blocker /\ Detach(running) /\ ended' = ended \cup {running}
    BY <1>8 DEF ReturnJoinable, ThreadCanCall, Blocker
  <2> QED
    BY <1>2, <2>1
<1>9. CASE ReturnDetached \/ \E x \in Thread : Destroy(x)
  <2>1. \E d \in Thread : Delete(d)
    BY <1>9 DEF ReturnDetached, Destroy, ThreadCanCall
  <2> QED
    BY <1>3, <2>1
<1> QED
  BY <1>5, <1>6, <1>7, <1>8, <1>9 DEF Next

\* join() returns only after run() of the thread joined has returned, or when
\* that thread is deleted, unless the joiner itself is.
THEOREM JoinIsSound == Spec => JoinWaitsForEnd
<1>1. IInv /\ [Next]_vars => [JoinersStay]_vars
  BY StepJoinersStay
<1>2. Spec => [][JoinersStay]_vars
  BY <1>1, InitIInv, NextIInv, PTL DEF Spec
<1> QED
  BY <1>2 DEF JoinWaitsForEnd, JoinersStay

-----------------------------------------------------------------------------
(***************************************************************************)
(* The ready list is a queue.                                              *)
(***************************************************************************)
KeepsOrder ==
    \A t, u \in Thread : Ahead(t, u) =>
        /\ running' # u
        /\ t \in Ready' /\ u \in Ready' => Ahead(t, u)'

\* A switch runs the thread ahead of all others, or none is ready.
LEMMA SwitchKeepsOrder ==
    ASSUME NEW S, NEW q \in Seq(S), IsInjective(q), NEW c, Dispatch(q, c),
           NEW t, NEW u, Precedes(q, t, u)
    PROVE  /\ running' # u
           /\ t \in Ready' => Precedes(ready', t, u)
<1>1. /\ q # << >>
      /\ Head(q) # u
      /\ t # Head(q) => Precedes(Tail(q), t, u)
  BY TakenOrder
<1>2. running' = Head(q) /\ ready' = Tail(q)
  BY <1>1 DEF Dispatch
<1>3. Head(q) \notin Ready'
  BY <1>1, <1>2, Taken DEF Ready
<1> QED
  BY <1>1, <1>2, <1>3

\* So does a switch after a release, which adds at the end.
LEMMA ReleaseKeepsOrder ==
    ASSUME IInv, NEW b \in Blocker, NEW t, NEW u, Precedes(ready, t, u)
    PROVE  Precedes(ready \o Released(b), t, u)
<1>1. ready \in Seq(threads)
  BY DEF IInv, TypeOK
<1>2. CASE waiter[b] = Null
  <2>1. ready \o Released(b) = ready
    BY <1>1, <1>2, ConcatEmptySeq DEF Released
  <2> QED
    BY <2>1
<1>3. CASE waiter[b] # Null
  <2>1. waiter[b] \in threads
    BY <1>3 DEF IInv, TypeOK
  <2>2. ready \o Released(b) = Append(ready, waiter[b])
    BY <1>1, <1>3, <2>1 DEF Released
  <2> QED
    BY <1>1, <2>1, <2>2, AppendedOrder
<1> QED
  BY <1>2, <1>3

\* Of two ready threads the one linked later does not overtake the other.
LEMMA StepKeepsOrder == IInv /\ [Next]_vars => KeepsOrder
<1> SUFFICES ASSUME IInv, [Next]_vars, NEW t \in Thread, NEW u \in Thread, Ahead(t, u)
             PROVE  /\ running' # u
                    /\ t \in Ready' /\ u \in Ready' => Ahead(t, u)'
  BY DEF KeepsOrder
<1> USE ContextsAreDistinct
<1>0. /\ ready \in Seq(threads) /\ IsInjective(ready) /\ threads \subseteq Thread
      /\ joinable \subseteq threads
      /\ Precedes(ready, t, u)
      /\ Precedes(ready', t, u) => Ahead(t, u)'
      /\ running # u
  <2>1. ready \in Seq(threads) /\ IsInjective(ready) /\ threads \subseteq Thread
        /\ joinable \subseteq threads
    BY DEF IInv, TypeOK, OnePlace
  <2>2. Precedes(ready, t, u) /\ (Precedes(ready', t, u) => Ahead(t, u)')
    BY DEF Ahead, Precedes
  <2>3. u \in Ready
    BY <2>1, MemberHasPlace DEF Ahead, Ready
  <2> QED
    BY <2>1, <2>2, <2>3 DEF IInv, OnePlace
<1>1. CASE UNCHANGED <<ready, running>>
  BY <1>0, <1>1
<1>2. ASSUME NEW b \in Blocker, ready' = ready \o Released(b), running' = running
      PROVE  running' # u /\ Precedes(ready', t, u)
  BY <1>0, <1>2, ReleaseKeepsOrder
<1>3. ASSUME NEW c, Dispatch(ready, c)
      PROVE  running' # u /\ (t \in Ready' => Precedes(ready', t, u))
  BY <1>0, <1>3, SwitchKeepsOrder
<1>4. ASSUME NEW x \in Thread, NEW j \in BOOLEAN, NewThread(x, j)
      PROVE  running' # u /\ Precedes(ready', t, u)
  <2>1. ready' = Append(ready, x) /\ running' = running
    BY <1>4 DEF NewThread
  <2>2. ready \in Seq(Thread)
    BY <1>0
  <2> QED
    BY <1>0, <2>1, <2>2, AppendedOrder
<1>5. CASE ReturnJoinable
  <2>1. running \in Blocker
    BY <1>5 DEF ReturnJoinable, ThreadCanCall, Blocker
  <2>2. /\ ready \o Released(running) \in Seq(threads)
        /\ IsInjective(ready \o Released(running))
        /\ Precedes(ready \o Released(running), t, u)
    BY <1>0, <2>1, ReleasedAdds, ReleaseKeepsOrder
  <2>3. Dispatch(ready \o Released(running), current)
    BY <1>5 DEF ReturnJoinable
  <2>4. running' # u /\ (t \in Ready' => Precedes(ready', t, u))
    BY <2>2, <2>3, SwitchKeepsOrder
  <2> QED
    BY <1>0, <2>4
<1>6. ASSUME NEW x \in Thread, Destroy(x)
      PROVE  running' # u /\ (t \in Ready' /\ u \in Ready' => Precedes(ready', t, u))
  <2> DEFINE q == ready \o Released(x)
  <2>1. ready' = Without(q, x) /\ running' = running
    BY <1>6 DEF Destroy, RemoveReady
  <2>2. q \in Seq(threads) /\ IsInjective(q) /\ Precedes(q, t, u)
    BY <1>0, ReleasedAdds, ReleaseKeepsOrder DEF Blocker
  <2> HIDE DEF q
  <2>3. Ready' = ToSet(q) \ {x}
    BY <2>1, <2>2, Removed DEF Ready
  <2>4. x # t /\ x # u => Precedes(ready', t, u)
    BY <2>1, <2>2, RemovedOrder
  <2> QED
    BY <1>0, <2>1, <2>3, <2>4
<1>7. CASE Awake \/ Poll \/ (\E b \in Ref : NewRef(b)) \/ UNCHANGED vars
  BY <1>1, <1>7 DEF Awake, Poll, NewRef, vars
<1>8. CASE (\E b \in Ref : Block(b)) \/ \E x \in Thread : Join(x)
  <2>1. Dispatch(ready, current)
    BY <1>8 DEF Block, Join, BlockOn
  <2> QED
    BY <1>0, <1>3, <2>1
<1>9. CASE \E b \in Ref : DeleteRef(b) \/ \E r \in Results : Unblock(b, r)
  BY <1>0, <1>2, <1>9 DEF DeleteRef, Unblock, Blocker
<1>10. CASE ReturnDetached \/ Run \/ HandlersDone
  <2>1. \E c : Dispatch(ready, c)
    BY <1>10 DEF ReturnDetached, Run, HandlersDone
  <2> QED
    BY <1>0, <1>3, <2>1
<1> QED
  BY <1>0, <1>4, <1>5, <1>6, <1>7, <1>8, <1>9, <1>10 DEF Next

\* The ready list is a queue: nobody is overtaken, whatever is released,
\* deleted or switched to meanwhile.
THEOREM ReadyInOrder == Spec => NoOvertaking
<1>1. IInv /\ [Next]_vars => [KeepsOrder]_vars
  BY StepKeepsOrder
<1>2. Spec => [][KeepsOrder]_vars
  BY <1>1, InitIInv, NextIInv, PTL DEF Spec
<1> QED
  BY <1>2 DEF NoOvertaking, KeepsOrder

-----------------------------------------------------------------------------
(***************************************************************************)
(* The calls of the library implement the life cycle of ThreadLife: where  *)
(* a thread is, read off lists and references, moves as its phase does.    *)
(***************************************************************************)
InPhase(t, p) ==
    /\ p \in {"absent", "ready", "running", "blocked", "ended"}
    /\ p = "absent" <=> t \notin threads
    /\ p = "ready" <=> t \in Ready
    /\ p = "running" <=> t = running
    /\ p = "blocked" <=> t \in Blocked
    /\ p = "ended" <=> t \in ended

Charted == \A t \in Thread : InPhase(t, phase[t])

\* One place for each thread is one phase.
LEMMA PhasesCharted == IInv => Charted
<1> SUFFICES ASSUME IInv, NEW t \in Thread
             PROVE  InPhase(t, phase[t])
  BY DEF Charted
<1>1. /\ threads = Ready \cup Blocked \cup ended \cup ({running} \ {Host})
      /\ Ready \cap Blocked = {}
      /\ (Ready \cup Blocked) \cap ended = {}
      /\ running \notin Ready \cup Blocked \cup ended
      /\ t # Host
  BY ContextsAreDistinct DEF IInv, OnePlace
<1>2. phase[t] = CASE t \notin threads -> "absent"
                   [] t \in ended      -> "ended"
                   [] t \in Blocked    -> "blocked"
                   [] t = running      -> "running"
                   [] OTHER            -> "ready"
  BY DEF phase
<1>3. CASE t \notin threads
  <2>1. phase[t] = "absent"
    BY <1>1, <1>2, <1>3
  <2> QED
    BY <1>1, <1>3, <2>1 DEF InPhase
<1>4. CASE t \in ended
  <2>1. phase[t] = "ended"
    BY <1>1, <1>2, <1>4
  <2> QED
    BY <1>1, <1>4, <2>1 DEF InPhase
<1>5. CASE t \in Blocked
  <2>1. phase[t] = "blocked"
    BY <1>1, <1>2, <1>5
  <2> QED
    BY <1>1, <1>5, <2>1 DEF InPhase
<1>6. CASE t = running
  <2>1. phase[t] = "running"
    BY <1>1, <1>2, <1>6
  <2> QED
    BY <1>1, <1>6, <2>1 DEF InPhase
<1>7. CASE t \in Ready
  <2>1. phase[t] = "ready"
    BY <1>1, <1>2, <1>7
  <2> QED
    BY <1>1, <1>7, <2>1 DEF InPhase
<1> QED
  BY <1>1, <1>3, <1>4, <1>5, <1>6, <1>7

\* Phases that agree everywhere are equal, and those of a switch are those
\* before it but for the thread that is switched to.
LEMMA Switches ==
    ASSUME NEW q \in Seq(threads), threads \subseteq Thread, IsInjective(q), NEW c,
           Dispatch(q, c),
           NEW p \in [Thread -> {"absent", "ready", "running", "blocked", "ended"}],
           \A t \in Thread : p[t] = "ready" <=> t \in ToSet(q),
           \A t \in Thread : phase'[t] = IF t = running' THEN "running" ELSE p[t]
    PROVE  phase' \in Life!Switched(p)
<1> DEFINE ReadyIn == {t \in Thread : p[t] = "ready"}
<1>1. phase' = [t \in Thread |-> IF t = running' THEN "running" ELSE p[t]]
  <2>1. phase' = [t \in Thread |-> phase'[t]]
    BY DEF phase
  <2> HIDE DEF phase
  <2> QED
    BY <2>1
<1>2. CASE q = << >>
  <2>1. ReadyIn = {}
    BY <1>2, EmptyQueue
  <2>2. running' \notin Thread
    BY <1>2, ContextsAreDistinct DEF Dispatch
  <2>3. phase' = p
    BY <1>1, <2>2
  <2> QED
    BY <2>1, <2>3 DEF Life!Switched
<1>3. CASE q # << >>
  <2>1. running' = Head(q) /\ Head(q) \in ToSet(q) /\ Head(q) \in Thread
    BY <1>3, Taken, HeadTailProperties DEF Dispatch
  <2>2. Head(q) \in ReadyIn /\ ReadyIn # {}
    BY <2>1
  <2>3. phase' = Life!Moved(p, Head(q), "running")
    BY <1>1, <2>1 DEF Life!Moved
  <2> QED
    BY <2>2, <2>3 DEF Life!Switched
<1> QED
  BY <1>2, <1>3

\* Phases in which one thread moves.
LEMMA OneMoves ==
    ASSUME NEW t, NEW p, \A u \in Thread : phase'[u] = IF u = t THEN p ELSE phase[u]
    PROVE  phase' = Life!Moved(phase, t, p)
<1>1. phase' = [u \in Thread |-> phase'[u]]
  BY DEF phase
<1> QED
  BY <1>1 DEF Life!Moved

LEMMA NothingMoves ==
    ASSUME UNCHANGED <<threads, ended, blocker, running>>
    PROVE  phase' = phase
  BY DEF phase, Blocked

LEMMA NewThreadLife ==
    ASSUME IInv, Charted, Charted', NEW t \in Thread, NEW j \in BOOLEAN, NewThread(t, j)
    PROVE  Life!Next
<1>1. /\ threads' = threads \cup {t} /\ t \notin threads
      /\ ended' = ended /\ running' = running /\ Blocked' = Blocked
  BY DEF NewThread, Blocked
<1>2. Ready' = Ready \cup {t}
  <2>1. ready \in Seq(Thread) /\ IsInjective(ready) /\ t \notin ToSet(ready)
    BY <1>1, MemberHasPlace DEF IInv, TypeOK, OnePlace, Ready
  <2>2. ready' = Append(ready, t)
    BY DEF NewThread
  <2> QED
    BY <2>1, <2>2, Appended DEF Ready
<1>3. \A u \in Thread : phase'[u] = IF u = t THEN "ready" ELSE phase[u]
  BY <1>1, <1>2 DEF Charted, InPhase
<1>4. phase[t] = "absent"
  BY <1>1 DEF Charted, InPhase
<1> QED
  BY <1>3, <1>4, OneMoves DEF Life!Next, Life!Create

\* A release wakes the thread that waits, or nobody.
LEMMA ReleaseLife ==
    ASSUME IInv, Charted, Charted', NEW b \in Blocker, Detach(b),
           ready' = ready \o Released(b), UNCHANGED <<threads, ended, running>>
    PROVE  Life!Next \/ phase' = phase
<1>1. /\ Blocked' = Blocked \ {waiter[b]}
      /\ Ready' = Ready \cup ({waiter[b]} \ {Null})
  BY DetachUnlinks, ReleasedAdds DEF IInv, Ready
<1>2. CASE waiter[b] = Null
  BY <1>2, NothingMoves DEF Detach
<1>3. CASE waiter[b] # Null
  <2>1. waiter[b] \in Thread /\ waiter[b] \in Blocked
    BY <1>3, ContextsAreDistinct DEF IInv, TypeOK, BlockInverse, Blocked, Blocker
  <2>2. \A u \in Thread : phase'[u] = IF u = waiter[b] THEN "ready" ELSE phase[u]
    BY <1>1, <1>3, <2>1 DEF Charted, InPhase
  <2>3. phase[waiter[b]] = "blocked"
    BY <2>1 DEF Charted, InPhase
  <2>4. Life!Wake(waiter[b])
    BY <2>2, <2>3, OneMoves DEF Life!Wake
  <2> QED
    BY <2>1, <2>4 DEF Life!Next
<1> QED
  BY <1>2, <1>3

\* A deletion takes the thread away, and its joiner, if there is one, goes on.
LEMMA DestroyLife ==
    ASSUME IInv, Charted, Charted', NEW t \in Thread, Destroy(t)
    PROVE  Life!Next
<1> DEFINE j == waiter[t]
           q == ready \o Released(t)
<1>1. /\ t \in threads /\ t # running /\ Delete(t) /\ t \in Blocker
      /\ running' = running /\ refs' = refs
      /\ threads' = threads \ {t} /\ ended' = ended \ {t}
      /\ Null \notin Thread
  BY ContextsAreDistinct DEF Destroy, Delete, Blocker
<1>2. Blocked' = Blocked \ {t, j}
  BY <1>1, DeleteUnlinks DEF IInv
<1>3. Ready' = (Ready \cup ({j} \ {Null})) \ {t}
  <2>1. q \in Seq(threads) /\ IsInjective(q) /\ ToSet(q) = Ready \cup ({j} \ {Null})
    BY <1>1, ReleasedAdds
  <2>2. ready' = Without(q, t)
    BY DEF Destroy, RemoveReady
  <2> HIDE DEF q, j
  <2> QED
    BY <2>1, <2>2, Removed DEF Ready
<1>4. j = Null \/ j \in Blocked
  BY <1>1 DEF IInv, TypeOK, BlockInverse, Blocked
<1> HIDE DEF j
<1>5. phase[t] \in {"ready", "blocked", "ended"}
  BY <1>1 DEF Charted, InPhase
<1>6. CASE j \in {Null, t}
  <2>1. \A u \in Thread : phase'[u] = IF u = t THEN "absent" ELSE phase[u]
    BY <1>1, <1>2, <1>3, <1>6 DEF Charted, InPhase
  <2> QED
    BY <1>5, <2>1, OneMoves DEF Life!Next, Life!Kill
<1>7. CASE j \in Blocked /\ j # t
  <2> DEFINE p == Life!Moved(phase, j, "ready")
  <2>1. j \in Thread /\ j # Null /\ phase[j] = "blocked"
    BY <1>1, <1>7 DEF Blocked, Charted, InPhase
  <2>2. \A u \in Thread : p[u] = IF u = j THEN "ready" ELSE phase[u]
    BY DEF Life!Moved
  <2> HIDE DEF p
  <2>3. \A u \in Thread : phase'[u] = IF u = t THEN "absent" ELSE p[u]
    BY <1>1, <1>2, <1>3, <1>7, <2>1, <2>2 DEF Charted, InPhase
  <2>4. phase' = Life!Moved(p, t, "absent")
    <3>1. phase' = [u \in Thread |-> phase'[u]]
      BY DEF phase
    <3> QED
      BY <2>3, <3>1 DEF Life!Moved
  <2>5. Life!KillJoined(t, j)
    BY <1>5, <2>1, <2>4 DEF p, Life!KillJoined
  <2> QED
    BY <2>1, <2>5 DEF Life!Next
<1> QED
  BY <1>4, <1>6, <1>7

\* The running thread moves to phase p and the processor to a ready thread.
LEMMA LeaveLife ==
    ASSUME IInv, Charted, Charted', running \in Thread, NEW c, Dispatch(ready, c),
           ready \in Seq(threads'), threads' \subseteq Thread,
           NEW p \in {"blocked", "absent"},
           threads' = IF p = "absent" THEN threads \ {running} ELSE threads,
           Blocked' = IF p = "blocked" THEN Blocked \cup {running} ELSE Blocked,
           ended' = ended
    PROVE  Life!Next
<1> DEFINE q == Life!Moved(phase, running, p)
<1>1. /\ Ready' = Ready \ {running'}
      /\ Ready = Ready' \cup ({running'} \ {Host})
      /\ running' \in Thread \cup {Host}
  <2>1. IsInjective(ready) /\ Host \notin threads'
    BY ContextsAreDistinct DEF IInv, OnePlace
  <2> QED
    BY <2>1, DispatchTakes DEF Ready
<1>2. running \notin Ready /\ running \in threads /\ Host \notin Thread
  BY ContextsAreDistinct DEF IInv, OnePlace, TypeOK
<1>3. \A t \in Thread : q[t] = IF t = running THEN p ELSE phase[t]
  BY DEF Life!Moved
<1>4. q \in [Thread -> {"absent", "ready", "running", "blocked", "ended"}]
  BY DEF Life!Moved, Charted, InPhase
<1> HIDE DEF q
<1>5. \A t \in Thread : q[t] = "ready" <=> t \in ToSet(ready)
  BY <1>2, <1>3 DEF Charted, InPhase, Ready
<1>6. \A t \in Thread : phase'[t] = IF t = running' THEN "running" ELSE q[t]
  BY <1>1, <1>2, <1>3 DEF Charted, InPhase
<1>7. phase' \in Life!Switched(q)
  <2>1. ready \in Seq(threads) /\ threads \subseteq Thread /\ IsInjective(ready)
    BY DEF IInv, TypeOK, OnePlace
  <2> QED
    BY <1>4, <1>5, <1>6, <2>1, Switches
<1>8. phase[running] = "running" /\ p \in Life!Phases
  BY DEF Charted, InPhase, Life!Phases
<1> QED
  BY <1>7, <1>8 DEF q, Life!Next, Life!Leave

LEMMA BlockOnLife ==
    ASSUME IInv, Charted, Charted', ThreadCanCall, NEW b \in LiveBlockers, BlockOn(b)
    PROVE  Life!Next
<1>1. running \in Thread /\ b # Null
  BY ContextsAreDistinct DEF ThreadCanCall, LiveBlockers, IInv, TypeOK
<1>2. threads' = threads /\ ended' = ended /\ Dispatch(ready, current)
  BY DEF BlockOn
<1>3. Blocked' = Blocked \cup {running}
  BY <1>1 DEF BlockOn, IInv, TypeOK, Blocked
<1>4. ready \in Seq(threads) /\ threads \subseteq Thread
  BY DEF IInv, TypeOK
<1> QED
  BY <1>1, <1>2, <1>3, <1>4, LeaveLife

LEMMA ReturnDetachedLife ==
    ASSUME IInv, Charted, Charted', ReturnDetached
    PROVE  Life!Next
<1>1. /\ running \in Thread /\ running \in threads
      /\ running \notin Ready \cup Blocked \cup ended
      /\ Delete(running) /\ Dispatch(ready, Null)
  BY ContextsAreDistinct DEF ReturnDetached, ThreadCanCall, IInv, TypeOK, OnePlace
<1>2. threads' = threads \ {running} /\ ended' = ended
  BY <1>1 DEF Delete
<1>3. Blocked' = Blocked
  <2>1. waiter[running] = Null
    <3>1. running \in Blocker /\ running \notin LiveBlockers
      BY <1>1, ContextsAreDistinct
      DEF ReturnDetached, LiveBlockers, Blocker, IInv, TypeOK
    <3> QED
      BY <1>1, <3>1, ContextsAreDistinct DEF IInv, TypeOK, BlockInverse
  <2>2. Blocked' = Blocked \ {running, waiter[running]}
    BY <1>1, DeleteUnlinks DEF IInv, ReturnDetached
  <2> QED
    BY <1>1, <2>1, <2>2, ContextsAreDistinct DEF Blocked
<1>4. ready \in Seq(threads') /\ threads' \subseteq Thread
  <2>1. ready \in Seq(threads) /\ \A i \in 1 .. Len(ready) : ready[i] # running
    BY <1>1, MemberHasPlace DEF IInv, TypeOK, Ready
  <2>2. \A i \in 1 .. Len(ready) : ready[i] \in threads \ {running}
    BY <2>1
  <2>3. threads \subseteq Thread
    BY DEF IInv, TypeOK
  <2> QED
    BY <1>2, <2>1, <2>2, <2>3
<1> QED
  BY <1>1, <1>2, <1>3, <1>4, LeaveLife

\* A thread that ends releases its joiner, if there is one, before the switch.
LEMMA ReturnJoinableLife ==
    ASSUME IInv, Charted, Charted', ReturnJoinable
    PROVE  Life!Next
<1> DEFINE j == waiter[running]
           q == ready \o Released(running)
           p == Life!Moved(phase, running, "ended")
<1>1. /\ running \in Thread /\ running \in threads /\ running \in Blocker
      /\ running \notin Ready \cup Blocked \cup ended
      /\ Host \notin Thread /\ Null \notin Thread /\ threads \subseteq Thread
      /\ Detach(running) /\ Dispatch(q, current)
      /\ threads' = threads /\ ended' = ended \cup {running}
  BY ContextsAreDistinct DEF ReturnJoinable, ThreadCanCall, IInv, TypeOK, OnePlace, Blocker
<1>2. /\ q \in Seq(threads) /\ IsInjective(q)
      /\ ToSet(q) = Ready \cup ({j} \ {Null})
  BY <1>1, ReleasedAdds
<1>3. Blocked' = Blocked \ {j}
  BY <1>1, DetachUnlinks DEF IInv
<1>4. j = Null \/ j \in Blocked
  BY <1>1, ContextsAreDistinct DEF IInv, TypeOK, BlockInverse, Blocked, Blocker
<1> HIDE DEF j, q
<1>5. /\ Ready' = ToSet(q) \ {running'}
      /\ ToSet(q) = Ready' \cup ({running'} \ {Host})
      /\ running' \in threads \cup {Host}
  <2>1. Host \notin threads
    BY <1>1
  <2> QED
    BY <1>1, <1>2, <2>1, DispatchTakes
<1>6. phase[running] = "running" /\ Blocked \subseteq Thread /\ running # j
  BY <1>1, <1>4 DEF Charted, InPhase, Blocked
<1>7. /\ p \in [Thread -> {"absent", "ready", "running", "blocked", "ended"}]
      /\ \A t \in Thread : p[t] = IF t = running THEN "ended" ELSE phase[t]
  BY DEF Life!Moved, Charted, InPhase
<1> HIDE DEF p
<1>8. CASE j = Null
  <2>1. \A t \in Thread : p[t] = "ready" <=> t \in ToSet(q)
    BY <1>1, <1>2, <1>7, <1>8 DEF Charted, InPhase
  <2>2. \A t \in Thread : phase'[t] = IF t = running' THEN "running" ELSE p[t]
    BY <1>1, <1>2, <1>3, <1>5, <1>7, <1>8 DEF Charted, InPhase
  <2>3. phase' \in Life!Switched(p)
    BY <1>1, <1>2, <1>7, <2>1, <2>2, Switches
  <2>4. Life!End(running)
    BY <1>6, <2>3 DEF p, Life!End
  <2> QED
    BY <1>1, <2>4 DEF Life!Next
<1>9. CASE j \in Blocked
  <2> DEFINE r == Life!Moved(p, j, "ready")
  <2>1. /\ r \in [Thread -> {"absent", "ready", "running", "blocked", "ended"}]
        /\ \A t \in Thread : r[t] = IF t = j THEN "ready" ELSE p[t]
    BY <1>7 DEF Life!Moved
  <2> HIDE DEF r
  <2>2. j \in Thread /\ j # Null /\ phase[j] = "blocked"
    BY <1>1, <1>6, <1>9 DEF Charted, InPhase
  <2>3. \A t \in Thread : r[t] = "ready" <=> t \in ToSet(q)
    BY <1>1, <1>2, <1>7, <2>1, <2>2 DEF Charted, InPhase
  <2>4. \A t \in Thread : phase'[t] = IF t = running' THEN "running" ELSE r[t]
    BY <1>1, <1>2, <1>3, <1>5, <1>7, <2>1, <2>2 DEF Charted, InPhase
  <2>5. phase' \in Life!Switched(r)
    BY <1>1, <1>2, <2>1, <2>3, <2>4, Switches
  <2>6. Life!EndJoined(running, j)
    BY <1>6, <2>2, <2>5 DEF p, r, Life!EndJoined
  <2> QED
    BY <1>1, <2>2, <2>6 DEF Life!Next
<1> QED
  BY <1>4, <1>8, <1>9

\* The host hands the processor over, or goes on with nothing ready.
LEMMA HostLife ==
    ASSUME IInv, Charted, Charted', running = Host, Dispatch(ready, current),
           UNCHANGED <<threads, ended, blocker>>
    PROVE  Life!Next
<1>1. ready \in Seq(threads) /\ IsInjective(ready) /\ threads \subseteq Thread /\ Host \notin Thread
  BY ContextsAreDistinct DEF IInv, TypeOK, OnePlace
<1>2. /\ Ready' = Ready \ {running'}
      /\ Ready = Ready' \cup ({running'} \ {Host})
      /\ Blocked' = Blocked
  <2>1. Host \notin threads
    BY <1>1
  <2> QED
    BY <1>1, <2>1, DispatchTakes DEF Ready, Blocked
<1>3. /\ phase \in [Thread -> {"absent", "ready", "running", "blocked", "ended"}]
      /\ \A t \in Thread : phase[t] = "ready" <=> t \in ToSet(ready)
  <2>1. phase = [t \in Thread |-> phase[t]]
    BY DEF phase
  <2> QED
    BY <2>1 DEF Charted, InPhase, Ready
<1>4. \A t \in Thread : phase'[t] = IF t = running' THEN "running" ELSE phase[t]
  BY <1>1, <1>2 DEF Charted, InPhase
<1>5. phase' \in Life!Switched(phase)
  BY <1>1, <1>3, <1>4, Switches
<1>6. \A t \in Thread : phase[t] # "running"
  BY <1>1 DEF Charted, InPhase
<1> QED
  BY <1>5, <1>6 DEF Life!Next, Life!Resume

LEMMA StepLife == IInv /\ Charted /\ Charted' /\ [Next]_vars => [Life!Next]_phase
<1> SUFFICES ASSUME IInv, Charted, Charted', [Next]_vars
             PROVE  Life!Next \/ phase' = phase
  OBVIOUS
<1>1. ASSUME NEW t \in Thread, NEW j \in BOOLEAN, NewThread(t, j)
      PROVE  Life!Next
  BY <1>1, NewThreadLife
<1>2. CASE Awake \/ Poll \/ (\E b \in Ref : NewRef(b)) \/ UNCHANGED vars
  BY <1>2, NothingMoves DEF Awake, Poll, NewRef, vars
<1>3. ASSUME NEW b \in Ref, Block(b)
      PROVE  Life!Next
  BY <1>3, BlockOnLife DEF Block, LiveBlockers
<1>4. ASSUME NEW t \in Thread, Join(t)
      PROVE  Life!Next
  BY <1>4, BlockOnLife DEF Join, LiveBlockers
<1>5. CASE \E b \in Ref : DeleteRef(b) \/ \E r \in Results : Unblock(b, r)
  <2>1. PICK b \in Ref : DeleteRef(b) \/ \E r \in Results : Unblock(b, r)
    BY <1>5
  <2>2. /\ b \in Blocker /\ Detach(b)
        /\ ready' = ready \o Released(b) /\ UNCHANGED <<threads, ended, running>>
    BY <2>1 DEF DeleteRef, Unblock, Blocker
  <2> QED
    BY <2>2, ReleaseLife
<1>6. CASE ReturnJoinable
  BY <1>6, ReturnJoinableLife
<1>7. CASE ReturnDetached
  BY <1>7, ReturnDetachedLife
<1>8. ASSUME NEW t \in Thread, Destroy(t)
      PROVE  Life!Next
  BY <1>8, DestroyLife
<1>9. CASE Run \/ HandlersDone
  BY <1>9, HostLife DEF Run, HandlersDone
<1> QED
  BY <1>1, <1>2, <1>3, <1>4, <1>5, <1>6, <1>7, <1>8, <1>9 DEF Next

\* The library keeps its promise to threads: every call is a step of the life
\* cycle, or none.
THEOREM KeepsLifeCycle == Spec => LifeSpec
<1>1. Init => Life!Init
  <2> SUFFICES ASSUME Init PROVE Life!Init
    OBVIOUS
  <2>1. \A t \in Thread : phase[t] = "absent"
    BY InitIInv, PhasesCharted DEF Init, Charted, InPhase
  <2>2. phase = [t \in Thread |-> phase[t]]
    BY DEF phase
  <2> QED
    BY <2>1, <2>2 DEF Life!Init
<1>2. Spec => [](IInv /\ Charted)
  BY InitIInv, NextIInv, PhasesCharted, PTL DEF Spec
<1>3. Spec => Life!Init /\ [][Life!Next]_phase
  BY <1>1, <1>2, StepLife, PTL DEF Spec
<1> QED
  BY <1>3 DEF LifeSpec, Life!Spec
==============================================================================
