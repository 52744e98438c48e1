--------------------------- MODULE QueueTheorems ---------------------------
(***************************************************************************)
(* What the operations on a queue without repetitions do to the set of its *)
(* elements, and that they keep it without repetitions.  The least of a    *)
(* set of positions stands for an induction over them.                     *)
(***************************************************************************)
EXTENDS Queues, SequenceTheorems, WellFoundedInduction, TLAPS

\* A set of numbers has a least one.
LEMMA LeastOf ==
    ASSUME NEW D \in SUBSET Nat, D # {}
    PROVE  \E i \in D : \A j \in D : ~(j < i)
<1>1. PICK i \in D : \A j \in D : ~(<<j, i>> \in OpToRel(<, Nat))
  BY WFMin, NatLessThanWellFounded
<1>2. \A j \in D : ~(j < i)
  BY <1>1 DEF OpToRel
<1> QED
  BY <1>2

\* Membership, by position.
LEMMA MemberHasPlace ==
    ASSUME NEW S, NEW q \in Seq(S), NEW x
    PROVE  x \in ToSet(q) <=> \E i \in 1 .. Len(q) : q[i] = x
  BY DEF ToSet

\* Only the empty queue has no element.
LEMMA EmptyQueue ==
    ASSUME NEW S, NEW q \in Seq(S)
    PROVE  /\ q = << >> => ToSet(q) = {} /\ IsInjective(q)
           /\ q # << >> => ToSet(q) # {}
  BY DEF ToSet, IsInjective

\* Thread::append: one more element, at the end.
LEMMA Appended ==
    ASSUME NEW S, NEW q \in Seq(S), IsInjective(q), NEW x \in S, x \notin ToSet(q)
    PROVE  /\ Append(q, x) \in Seq(S)
           /\ ToSet(Append(q, x)) = ToSet(q) \cup {x}
           /\ IsInjective(Append(q, x))
           /\ Append(q, x) # << >>
<1>1. \A i \in 1 .. Len(q) : q[i] # x
  BY MemberHasPlace
<1>2. /\ Append(q, x) \in Seq(S)
      /\ Len(Append(q, x)) = Len(q) + 1
      /\ \A i \in 1 .. Len(q) : Append(q, x)[i] = q[i]
      /\ Append(q, x)[Len(q) + 1] = x
  BY AppendProperties
<1>3. ToSet(Append(q, x)) = ToSet(q) \cup {x}
  BY <1>2 DEF ToSet
<1>4. IsInjective(Append(q, x))
  BY <1>1, <1>2 DEF IsInjective
<1> QED
  BY <1>2, <1>3, <1>4

\* Scheduler::processReady: the first element leaves.
LEMMA Taken ==
    ASSUME NEW S, NEW q \in Seq(S), IsInjective(q), q # << >>
    PROVE  /\ Head(q) \in ToSet(q)
           /\ Tail(q) \in Seq(S)
           /\ ToSet(Tail(q)) = ToSet(q) \ {Head(q)}
           /\ IsInjective(Tail(q))
<1>1. /\ Head(q) = q[1]
      /\ Len(q) \in Nat \ {0}
      /\ Tail(q) \in Seq(S)
      /\ Len(Tail(q)) = Len(q) - 1
      /\ \A i \in 1 .. Len(Tail(q)) : Tail(q)[i] = q[i + 1]
  BY HeadTailProperties
<1>2. IsInjective(Tail(q))
  BY <1>1 DEF IsInjective
<1>3. ASSUME NEW x
      PROVE  x \in ToSet(Tail(q)) <=> x \in ToSet(q) \ {Head(q)}
  <2>1. ASSUME NEW i \in 1 .. Len(Tail(q)), Tail(q)[i] = x
        PROVE  x \in ToSet(q) \ {Head(q)}
    <3>1. i + 1 \in 1 .. Len(q) /\ q[i + 1] = x /\ i + 1 # 1
      BY <1>1, <2>1
    <3> QED
      BY <1>1, <3>1, MemberHasPlace DEF IsInjective
  <2>2. ASSUME NEW i \in 1 .. Len(q), q[i] = x, x # Head(q)
        PROVE  x \in ToSet(Tail(q))
    <3>1. i - 1 \in 1 .. Len(Tail(q)) /\ Tail(q)[i - 1] = x
      BY <1>1, <2>2
    <3> QED
      BY <1>1, <3>1, MemberHasPlace
  <2>3. x \in ToSet(Tail(q)) <=> \E i \in 1 .. Len(Tail(q)) : Tail(q)[i] = x
    BY <1>1, MemberHasPlace
  <2>4. x \in ToSet(q) <=> \E i \in 1 .. Len(q) : q[i] = x
    BY MemberHasPlace
  <2> QED
    BY <2>1, <2>2, <2>3, <2>4
<1>4. ToSet(Tail(q)) = ToSet(q) \ {Head(q)}
  BY <1>3
<1>5. Head(q) \in ToSet(q)
  BY <1>1, MemberHasPlace
<1> QED
  BY <1>1, <1>2, <1>4, <1>5

\* getWorker(): the last element of the vector leaves.
LEMMA LastTaken ==
    ASSUME NEW S, NEW q \in Seq(S), IsInjective(q), q # << >>
    PROVE  /\ Last(q) \in S
           /\ Last(q) \in ToSet(q)
           /\ Front(q) \in Seq(S)
           /\ Len(Front(q)) = Len(q) - 1
           /\ ToSet(Front(q)) = ToSet(q) \ {Last(q)}
           /\ IsInjective(Front(q))
<1>1. Len(q) \in Nat \ {0} /\ \A i \in 1 .. Len(q) : q[i] \in S
  BY EmptySeq, ElementOfSeq
<1>2. Last(q) = q[Len(q)] /\ Len(q) \in 1 .. Len(q)
  BY <1>1 DEF Last
<1>3. Last(q) \in S /\ Last(q) \in ToSet(q)
  BY <1>1, <1>2, MemberHasPlace
<1>4. /\ Front(q) \in Seq(S)
      /\ Len(Front(q)) = Len(q) - 1
      /\ \A i \in 1 .. Len(q) - 1 : Front(q)[i] = q[i]
  <2> DEFINE n == Len(q) - 1
  <2>1. n \in Nat /\ \A i \in 1 .. n : q[i] \in S
    BY <1>1
  <2>2. Front(q) = SubSeq(q, 1, n)
    BY DEF Front
  <2> HIDE DEF n
  <2>3. /\ Front(q) \in Seq(S)
        /\ Len(Front(q)) = IF 1 <= n THEN n - 1 + 1 ELSE 0
        /\ \A i \in 1 .. n - 1 + 1 : Front(q)[i] = q[1 + i - 1]
    BY <2>1, <2>2, SubSeqProperties
  <2>4. Len(Front(q)) = n /\ \A i \in 1 .. n : Front(q)[i] = q[i]
    BY <2>1, <2>3
  <2> QED
    BY <2>3, <2>4 DEF n
<1>5. IsInjective(Front(q))
  BY <1>1, <1>4 DEF IsInjective
<1>6. ASSUME NEW x
      PROVE  x \in ToSet(Front(q)) <=> x \in ToSet(q) \ {Last(q)}
  <2>1. x \in ToSet(Front(q)) <=> \E i \in 1 .. Len(q) - 1 : q[i] = x
    BY <1>4, MemberHasPlace
  <2>2. x \in ToSet(q) <=> \E i \in 1 .. Len(q) : q[i] = x
    BY MemberHasPlace
  <2>3. ASSUME NEW i \in 1 .. Len(q)
        PROVE  q[i] # Last(q) <=> i \in 1 .. Len(q) - 1
    BY <1>1, <1>2 DEF IsInjective
  <2> QED
    BY <1>1, <2>1, <2>2, <2>3
<1> QED
  BY <1>3, <1>4, <1>5, <1>6

\* Thread::remove: those behind the element move up.
LEMMA RemovedAt ==
    ASSUME NEW S, NEW q \in Seq(S), IsInjective(q), NEW k \in 1 .. Len(q)
    PROVE  /\ Without(q, q[k]) \in Seq(S)
           /\ Len(Without(q, q[k])) = Len(q) - 1
           /\ \A i \in 1 .. Len(q) - 1 :
                  Without(q, q[k])[i] = IF i < k THEN q[i] ELSE q[i + 1]
<1>1. Without(q, q[k]) = RemoveAt(q, k)
  <2> DEFINE Places == {i \in DOMAIN q : q[i] = q[k]}
  <2>1. Places = {k}
    BY DEF IsInjective
  <2> QED
    BY <2>1 DEF Without
<1> DEFINE front == SubSeq(q, 1, k - 1)
           back == SubSeq(q, k + 1, Len(q))
           r == front \o back
<1>2. Len(q) \in Nat /\ \A i \in 1 .. Len(q) : q[i] \in S
  OBVIOUS
<1>3. /\ front \in Seq(S)
      /\ Len(front) = k - 1
      /\ \A i \in 1 .. k - 1 : front[i] = q[i]
  BY <1>2, SubSeqProperties
<1>4. /\ back \in Seq(S)
      /\ Len(back) = Len(q) - k
      /\ \A i \in 1 .. Len(q) - k : back[i] = q[k + i]
  <2>1. \A i \in (k + 1) .. Len(q) : q[i] \in S
    BY <1>2
  <2> QED
    BY <2>1, <1>2, SubSeqProperties
<1> HIDE DEF front, back
<1>5. /\ r \in Seq(S)
      /\ Len(r) = Len(q) - 1
      /\ \A i \in 1 .. Len(r) : r[i] = IF i < k THEN q[i] ELSE q[i + 1]
  <2>1. /\ r \in Seq(S)
        /\ Len(r) = Len(front) + Len(back)
        /\ \A i \in 1 .. Len(front) + Len(back) :
               r[i] = IF i <= Len(front) THEN front[i] ELSE back[i - Len(front)]
    <3>1. front \in Seq(S) /\ back \in Seq(S)
      BY <1>3, <1>4
    <3> HIDE DEF front, back
    <3> QED
      BY <3>1, ConcatProperties
  <2>2. Len(r) = Len(q) - 1
    BY <1>2, <1>3, <1>4, <2>1
  <2>3. ASSUME NEW i \in 1 .. Len(r)
        PROVE  r[i] = IF i < k THEN q[i] ELSE q[i + 1]
    <3>1. CASE i < k
      BY <1>2, <1>3, <2>1, <3>1
    <3>2. CASE ~(i < k)
      <4>1. i - (k - 1) \in 1 .. Len(q) - k /\ k + (i - (k - 1)) = i + 1
        BY <1>2, <2>2, <3>2
      <4>2. r[i] = back[i - (k - 1)]
        BY <1>2, <1>3, <2>1, <3>2
      <4>3. back[i - (k - 1)] = q[k + (i - (k - 1))]
        BY <1>4, <4>1
      <4> QED
        BY <3>2, <4>1, <4>2, <4>3
    <3> QED
      BY <3>1, <3>2
  <2> QED
    BY <2>1, <2>2, <2>3
<1>6. Without(q, q[k]) = r
  BY <1>1 DEF RemoveAt, front, back
<1> QED
  BY <1>5, <1>6

\* Thread::remove: the element leaves, the others keep their order.
LEMMA Removed ==
    ASSUME NEW S, NEW q \in Seq(S), IsInjective(q), NEW x
    PROVE  /\ Without(q, x) \in Seq(S)
           /\ ToSet(Without(q, x)) = ToSet(q) \ {x}
           /\ IsInjective(Without(q, x))
<1>1. CASE x \notin ToSet(q)
  <2>1. Without(q, x) = q
    BY <1>1, MemberHasPlace DEF Without
  <2> QED
    BY <1>1, <2>1
<1>2. CASE x \in ToSet(q)
  <2>1. PICK k \in 1 .. Len(q) : q[k] = x
    BY <1>2, MemberHasPlace
  <2> DEFINE r == Without(q, x)
  <2>2. Len(q) \in Nat /\ \A i \in 1 .. Len(q) : q[i] \in S
    OBVIOUS
  <2>3. /\ r \in Seq(S)
        /\ Len(r) = Len(q) - 1
        /\ \A i \in 1 .. Len(r) : r[i] = IF i < k THEN q[i] ELSE q[i + 1]
    BY <2>1, RemovedAt
  <2> HIDE DEF r
  <2>4. IsInjective(r)
    <3>1. \A i, j \in 1 .. Len(q) : q[i] = q[j] => i = j
      BY <2>2 DEF IsInjective
    <3>2. ASSUME NEW i \in 1 .. Len(r), NEW j \in 1 .. Len(r), r[i] = r[j]
          PROVE  i = j
      <4>1. /\ i \in 1 .. Len(q) /\ i + 1 \in 1 .. Len(q)
            /\ j \in 1 .. Len(q) /\ j + 1 \in 1 .. Len(q)
        BY <2>2, <2>3
      <4>2. CASE i < k
        BY <2>3, <3>1, <3>2, <4>1, <4>2
      <4>3. CASE ~(i < k)
        BY <2>3, <3>1, <3>2, <4>1, <4>3
      <4> QED
        BY <4>2, <4>3
    <3>3. DOMAIN r = 1 .. Len(r)
      BY <2>3
    <3> QED
      BY <3>2, <3>3 DEF IsInjective
  <2>5. ASSUME NEW y
        PROVE  y \in ToSet(r) <=> y \in ToSet(q) \ {x}
    <3>1. ASSUME NEW i \in 1 .. Len(r), r[i] = y
          PROVE  y \in ToSet(q) \ {x}
      <4>1. PICK j \in 1 .. Len(q) : q[j] = y /\ j # k
        BY <2>2, <2>3, <3>1
      <4> QED
        BY <2>1, <4>1, MemberHasPlace DEF IsInjective
    <3>2. ASSUME NEW i \in 1 .. Len(q), q[i] = y, y # x
          PROVE  y \in ToSet(r)
      <4>1. PICK j \in 1 .. Len(r) : r[j] = y
        <5>1. CASE i < k
          BY <2>2, <2>3, <3>2, <5>1
        <5>2. CASE i > k
          <6>1. i - 1 \in 1 .. Len(r) /\ ~(i - 1 < k)
            BY <2>2, <2>3, <5>2
          <6>2. r[i - 1] = y
            BY <2>2, <2>3, <3>2, <6>1
          <6> QED
            BY <6>1, <6>2
        <5> QED
          BY <2>1, <2>2, <3>2, <5>1, <5>2
      <4> QED
        BY <2>3, <4>1, MemberHasPlace
    <3> QED
      BY <2>3, <3>1, <3>2, MemberHasPlace
  <2>6. ToSet(r) = ToSet(q) \ {x}
    BY <2>5
  <2> QED
    BY <2>3, <2>4, <2>6 DEF r
<1> QED
  BY <1>1, <1>2

-----------------------------------------------------------------------------
(***************************************************************************)
(* The order of two elements.                                              *)
(***************************************************************************)
Precedes(q, x, y) == \E i, j \in DOMAIN q : i < j /\ q[i] = x /\ q[j] = y

\* What is linked at the end changes nothing before it.
LEMMA AppendedOrder ==
    ASSUME NEW S, NEW q \in Seq(S), NEW z \in S, NEW x, NEW y, Precedes(q, x, y)
    PROVE  Precedes(Append(q, z), x, y)
<1>1. PICK i \in DOMAIN q, j \in DOMAIN q : i < j /\ q[i] = x /\ q[j] = y
  BY DEF Precedes
<1>2. /\ Len(Append(q, z)) = Len(q) + 1
      /\ \A k \in 1 .. Len(q) : Append(q, z)[k] = q[k]
      /\ DOMAIN q = 1 .. Len(q) /\ Len(q) \in Nat
      /\ DOMAIN Append(q, z) = 1 .. Len(Append(q, z))
  BY AppendProperties
<1>3. i \in DOMAIN Append(q, z) /\ j \in DOMAIN Append(q, z)
  BY <1>2
<1>4. Append(q, z)[i] = x /\ Append(q, z)[j] = y
  BY <1>1, <1>2
<1> QED
  BY <1>1, <1>3, <1>4 DEF Precedes

\* The first element precedes the others, and their order stays.
LEMMA TakenOrder ==
    ASSUME NEW S, NEW q \in Seq(S), IsInjective(q), NEW x, NEW y, Precedes(q, x, y)
    PROVE  /\ q # << >>
           /\ Head(q) # y
           /\ x # Head(q) => Precedes(Tail(q), x, y)
<1>1. PICK i \in DOMAIN q, j \in DOMAIN q : i < j /\ q[i] = x /\ q[j] = y
  BY DEF Precedes
<1>2. DOMAIN q = 1 .. Len(q) /\ Len(q) \in Nat
  OBVIOUS
<1>3. q # << >>
  BY <1>2
<1>4. /\ Head(q) = q[1]
      /\ Len(Tail(q)) = Len(q) - 1
      /\ DOMAIN Tail(q) = 1 .. Len(Tail(q))
      /\ \A k \in 1 .. Len(Tail(q)) : Tail(q)[k] = q[k + 1]
  BY <1>3, HeadTailProperties
<1>5. i \in Int /\ j \in Int /\ 1 <= i /\ i < j /\ j <= Len(q)
  BY <1>1, <1>2
<1>6. 1 \in DOMAIN q /\ j # 1
  BY <1>2, <1>5
<1>7. Head(q) # y
  BY <1>1, <1>4, <1>6 DEF IsInjective
<1>8. ASSUME x # Head(q)
      PROVE  Precedes(Tail(q), x, y)
  <2>1. i # 1
    BY <1>1, <1>4, <1>8
  <2>2. i - 1 \in DOMAIN Tail(q) /\ j - 1 \in DOMAIN Tail(q) /\ i - 1 < j - 1
    BY <1>2, <1>4, <1>5, <2>1
  <2>3. (i - 1) + 1 = i /\ (j - 1) + 1 = j
    BY <1>5
  <2>4. Tail(q)[i - 1] = x /\ Tail(q)[j - 1] = y
    BY <1>1, <1>4, <2>2, <2>3
  <2> QED
    BY <2>2, <2>4 DEF Precedes
<1> QED
  BY <1>3, <1>7, <1>8

\* Unlinking an element leaves the order of the others.
LEMMA RemovedOrder ==
    ASSUME NEW S, NEW q \in Seq(S), IsInjective(q), NEW z, NEW x, NEW y,
           z # x, z # y, Precedes(q, x, y)
    PROVE  Precedes(Without(q, z), x, y)
<1>1. PICK i \in DOMAIN q, j \in DOMAIN q : i < j /\ q[i] = x /\ q[j] = y
  BY DEF Precedes
<1>2. DOMAIN q = 1 .. Len(q) /\ Len(q) \in Nat
  OBVIOUS
<1>3. CASE z \notin ToSet(q)
  <2>1. Without(q, z) = q
    BY <1>3, MemberHasPlace DEF Without
  <2> QED
    BY <2>1
<1>4. CASE z \in ToSet(q)
  <2>1. PICK k \in 1 .. Len(q) : q[k] = z
    BY <1>4, MemberHasPlace
  <2> DEFINE r == Without(q, z)
  <2>2. /\ DOMAIN r = 1 .. Len(q) - 1
        /\ \A n \in 1 .. Len(q) - 1 : r[n] = IF n < k THEN q[n] ELSE q[n + 1]
    <3>1. r = Without(q, q[k])
      BY <2>1
    <3> HIDE DEF r
    <3>2. /\ r \in Seq(S)
          /\ Len(r) = Len(q) - 1
          /\ \A n \in 1 .. Len(q) - 1 : r[n] = IF n < k THEN q[n] ELSE q[n + 1]
      BY <3>1, RemovedAt
    <3> QED
      BY <3>2
  <2> HIDE DEF r
  <2> DEFINE Moved(n) == IF n < k THEN n ELSE n - 1
  <2>3. i # k /\ j # k
    BY <1>1, <2>1
  <2>4. ASSUME NEW n \in 1 .. Len(q), n # k
        PROVE  Moved(n) \in DOMAIN r /\ r[Moved(n)] = q[n]
    <3>1. CASE n < k
      <4>1. n \in 1 .. Len(q) - 1
        BY <1>2, <3>1
      <4> QED
        BY <2>2, <3>1, <4>1
    <3>2. CASE ~(n < k)
      <4>1. n - 1 \in 1 .. Len(q) - 1 /\ ~(n - 1 < k) /\ (n - 1) + 1 = n
        BY <1>2, <2>4, <3>2
      <4> QED
        BY <2>2, <3>2, <4>1
    <3> QED
      BY <3>1, <3>2
  <2>5. Moved(i) < Moved(j)
    BY <1>1, <1>2, <2>3
  <2> HIDE DEF Moved
  <2>6. Precedes(r, x, y)
    BY <1>1, <1>2, <2>3, <2>4, <2>5 DEF Precedes
  <2> QED
    BY <2>6 DEF r
<1> QED
  BY <1>3, <1>4
==============================================================================
