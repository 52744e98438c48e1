---------------------------- MODULE RuntimeProofs ----------------------------
(***************************************************************************)
(* append() and remove() keep the ring, and do to the sequence that it     *)
(* spells what the queue of Threads does, for any number of threads.       *)
(*                                                                         *)
(* The runtime touches the ready list only through append() and remove(),  *)
(* so that what they keep it keeps; every thread has a stack of its own;   *)
(* and the free stacks are a chain, whichever way they were given back.    *)
(* Together the layers implement the life cycle of ThreadLife.             *)
(***************************************************************************)
EXTENDS Runtime, QueueTheorems, FiniteSetTheorems

\* The members are what they are declared to be.
ListTypeOK ==
    /\ first \in Thread \cup {Null} /\ last \in Thread \cup {Null}
    /\ next \in [Thread -> Thread \cup {Null}]
    /\ previous \in [Thread -> Thread \cup {Null}]

-----------------------------------------------------------------------------
(***************************************************************************)
(* What a ring that spells a sequence looks like.                          *)
(***************************************************************************)

\* The positions behind the others, and behind the last one.
LEMMA AfterFacts ==
    ASSUME NEW n \in Nat
    PROVE  After(n, n) = 1 /\ \A i \in 1 .. n - 1 : After(i, n) = i + 1 /\ i \in 1 .. n /\ i + 1 \in 1 .. n
BY DEF After

\* Spells, of any four members.
SpelledBy(s, f, l, n, p) ==
    /\ s \in Seq(Thread) /\ IsInjective(s)
    /\ IF s = << >> THEN f = Null /\ l = Null
                    ELSE f = s[1] /\ l = s[Len(s)]
    /\ \A i \in DOMAIN s :
           /\ n[s[i]] = s[After(i, Len(s))]
           /\ p[s[After(i, Len(s))]] = s[i]
    /\ \A t \in Thread \ ToSet(s) : n[t] = Null /\ p[t] = Null

\* The ring of s, link by link.
LEMMA RingFacts ==
    ASSUME NEW s, NEW f, NEW l, NEW n, NEW p, SpelledBy(s, f, l, n, p)
    PROVE  /\ s \in Seq(Thread) /\ Len(s) \in Nat
           /\ \A i \in 1 .. Len(s) : s[i] \in Thread
           /\ \A i, j \in 1 .. Len(s) : s[i] = s[j] => i = j
           /\ Len(s) = 0 => s = << >> /\ f = Null /\ l = Null
           /\ Len(s) > 0 =>
                  /\ f = s[1] /\ l = s[Len(s)]
                  /\ n[s[Len(s)]] = s[1] /\ p[s[1]] = s[Len(s)]
           /\ \A i \in 1 .. Len(s) - 1 : n[s[i]] = s[i + 1] /\ p[s[i + 1]] = s[i]
           /\ \A t \in Thread : (\A i \in 1 .. Len(s) : s[i] # t) =>
                  n[t] = Null /\ p[t] = Null
<1>1. s \in Seq(Thread) /\ IsInjective(s)
  BY DEF SpelledBy
<1>2. Len(s) \in Nat /\ DOMAIN s = 1 .. Len(s) /\ \A i \in 1 .. Len(s) : s[i] \in Thread
  BY <1>1
<1>3. \A i, j \in 1 .. Len(s) : s[i] = s[j] => i = j
  BY <1>1, <1>2 DEF IsInjective
<1>4. Len(s) = 0 <=> s = << >>
  BY <1>1
<1>5. Len(s) = 0 => s = << >> /\ f = Null /\ l = Null
  BY <1>4 DEF SpelledBy
<1>6. \A i \in 1 .. Len(s) :
          n[s[i]] = s[After(i, Len(s))] /\ p[s[After(i, Len(s))]] = s[i]
  BY <1>2 DEF SpelledBy
<1>7. Len(s) > 0 =>
          /\ f = s[1] /\ l = s[Len(s)]
          /\ n[s[Len(s)]] = s[1] /\ p[s[1]] = s[Len(s)]
  <2>1. Len(s) > 0 => f = s[1] /\ l = s[Len(s)]
    BY <1>2, <1>4 DEF SpelledBy
  <2>2. Len(s) > 0 => n[s[Len(s)]] = s[1] /\ p[s[1]] = s[Len(s)]
    <3>1. Len(s) > 0 => Len(s) \in 1 .. Len(s)
      BY <1>2
    <3> QED
      BY <1>2, <1>6, <3>1, AfterFacts
  <2> QED
    BY <2>1, <2>2
<1>8. \A i \in 1 .. Len(s) - 1 : n[s[i]] = s[i + 1] /\ p[s[i + 1]] = s[i]
  BY <1>2, <1>6, AfterFacts
<1>9. \A t \in Thread : (\A i \in 1 .. Len(s) : s[i] # t) => n[t] = Null /\ p[t] = Null
  <2>1. ASSUME NEW t \in Thread, \A i \in 1 .. Len(s) : s[i] # t
        PROVE  t \notin ToSet(s)
    BY <1>1, <2>1, MemberHasPlace
  <2> QED
    BY <2>1 DEF SpelledBy
<1> QED
  BY <1>1, <1>2, <1>3, <1>5, <1>7, <1>8, <1>9

\* The same facts make a ring.
LEMMA RingFrom ==
    ASSUME NEW s \in Seq(Thread), NEW f, NEW l, NEW n, NEW p,
           \A i, j \in 1 .. Len(s) : s[i] = s[j] => i = j,
           Len(s) = 0 => f = Null /\ l = Null,
           Len(s) > 0 =>
               /\ f = s[1] /\ l = s[Len(s)]
               /\ n[s[Len(s)]] = s[1] /\ p[s[1]] = s[Len(s)],
           \A i \in 1 .. Len(s) - 1 : n[s[i]] = s[i + 1] /\ p[s[i + 1]] = s[i],
           \A t \in Thread : (\A i \in 1 .. Len(s) : s[i] # t) =>
               n[t] = Null /\ p[t] = Null
    PROVE  SpelledBy(s, f, l, n, p)
<1>1. Len(s) \in Nat /\ DOMAIN s = 1 .. Len(s) /\ (Len(s) = 0 <=> s = << >>)
  OBVIOUS
<1>2. IsInjective(s)
  BY <1>1 DEF IsInjective
<1>3. \A i \in DOMAIN s :
          n[s[i]] = s[After(i, Len(s))] /\ p[s[After(i, Len(s))]] = s[i]
  <2>1. ASSUME NEW i \in 1 .. Len(s)
        PROVE  n[s[i]] = s[After(i, Len(s))] /\ p[s[After(i, Len(s))]] = s[i]
    <3>1. CASE i = Len(s)
      BY <1>1, <3>1, AfterFacts
    <3>2. CASE i # Len(s)
      <4>1. Len(s) \in Nat /\ i \in 1 .. Len(s) /\ i # Len(s)
        BY <1>1, <2>1, <3>2
      <4>2. i \in 1 .. Len(s) - 1
        BY <4>1
      <4> QED
        BY <1>1, <4>2, AfterFacts
    <3> QED
      BY <3>1, <3>2
  <2> QED
    BY <1>1, <2>1
<1>4. \A t \in Thread \ ToSet(s) : n[t] = Null /\ p[t] = Null
  <2>1. ASSUME NEW t \in Thread \ ToSet(s)
        PROVE  \A i \in 1 .. Len(s) : s[i] # t
    BY <2>1, MemberHasPlace
  <2> QED
    BY <2>1
<1> QED
  BY <1>1, <1>2, <1>3, <1>4 DEF SpelledBy

-----------------------------------------------------------------------------
(***************************************************************************)
(* append() and remove().                                                  *)
(***************************************************************************)

\* append() puts a thread that is not linked at the end of the ring.
LEMMA LinkLastSpells ==
    ASSUME ListTypeOK, NEW s, Spells(s), NEW t \in Thread, LinkLast(t),
           NEW r, r = Append(s, t)
    PROVE  ListTypeOK' /\ Spells(r)' /\ t \notin ToSet(s)
<1> USE ListAssumption
<1> DEFINE n == Len(s)
<1>1. /\ s \in Seq(Thread) /\ n \in Nat
      /\ \A i \in 1 .. n : s[i] \in Thread
      /\ \A i, j \in 1 .. n : s[i] = s[j] => i = j
      /\ n = 0 => s = << >> /\ first = Null /\ last = Null
      /\ n > 0 => /\ first = s[1] /\ last = s[n]
                 /\ next[s[n]] = s[1] /\ previous[s[1]] = s[n]
      /\ \A i \in 1 .. n - 1 : next[s[i]] = s[i + 1] /\ previous[s[i + 1]] = s[i]
      /\ \A u \in Thread : (\A i \in 1 .. n : s[i] # u) => next[u] = Null /\ previous[u] = Null
  <2>1. SpelledBy(s, first, last, next, previous)
    BY DEF Spells, SpelledBy
  <2> QED
    BY <2>1, RingFacts
<1>2. \A i \in 1 .. n : s[i] # t
  <2>1. ASSUME NEW i \in 1 .. n, s[i] = t
        PROVE  FALSE
    <3>1. next[t] = Null
      BY DEF LinkLast
    <3>2. CASE i = n
      BY <1>1, <2>1, <3>1, <3>2
    <3>3. CASE i # n
      <4>1. i \in 1 .. n - 1 /\ i + 1 \in 1 .. n
        BY <1>1, <2>1, <3>3
      <4> QED
        BY <1>1, <2>1, <3>1, <4>1
    <3> QED
      BY <3>2, <3>3
  <2> QED
    BY <2>1
<1>3. /\ r \in Seq(Thread) /\ Len(r) = n + 1 /\ r[n + 1] = t
      /\ \A i \in 1 .. n : r[i] = s[i]
  BY <1>1, AppendProperties
<1>4. t \notin ToSet(s)
  BY <1>1, <1>2, MemberHasPlace
<1> HIDE DEF n
<1>5. \A i, j \in 1 .. Len(r) : r[i] = r[j] => i = j
  BY <1>1, <1>2, <1>3
<1>6. CASE n = 0
  <2>1. /\ first' = t /\ last' = t
        /\ next' = [next EXCEPT ![t] = t] /\ previous' = [previous EXCEPT ![t] = t]
    BY <1>1, <1>6 DEF LinkLast
  <2>2. /\ Len(r) = 1 /\ r[1] = t
        /\ next'[t] = t /\ previous'[t] = t
        /\ \A u \in Thread : u # t => next'[u] = Null /\ previous'[u] = Null
    BY <1>1, <1>3, <1>6, <2>1 DEF ListTypeOK
  <2>3. ListTypeOK'
    BY <2>1 DEF ListTypeOK
  <2>4. Spells(r)'
    <3>1. SpelledBy(r, first', last', next', previous')
      <4>1. Len(r) # 0 /\ 1 .. Len(r) - 1 = {} /\ 1 \in 1 .. Len(r) /\ r[Len(r)] = t
        BY <2>2
      <4>2. \A u \in Thread : (\A i \in 1 .. Len(r) : r[i] # u) =>
                next'[u] = Null /\ previous'[u] = Null
        BY <2>2, <4>1
      <4>3. /\ first' = r[1] /\ last' = r[Len(r)]
            /\ next'[r[Len(r)]] = r[1] /\ previous'[r[1]] = r[Len(r)]
        BY <2>1, <2>2, <4>1
      <4> QED
        BY <1>3, <1>5, <4>1, <4>2, <4>3, RingFrom
    <3> QED
      BY <3>1 DEF Spells, SpelledBy
  <2> QED
    BY <1>4, <2>3, <2>4
<1>7. CASE n # 0
  <2>1. /\ n > 0 /\ n \in 1 .. n /\ 1 \in 1 .. n /\ s[1] \in Thread /\ s[n] \in Thread
        /\ s[1] # t /\ s[n] # t
    BY <1>1, <1>2, <1>7
  <2>2. /\ first' = s[1] /\ last' = t
        /\ next' = [next EXCEPT ![s[n]] = t, ![t] = s[1]]
        /\ previous' = [previous EXCEPT ![t] = s[n], ![s[1]] = t]
    BY <1>1, <2>1 DEF LinkLast
  <2>3. ListTypeOK'
    BY <2>1, <2>2 DEF ListTypeOK
  <2>4. /\ next'[s[n]] = t /\ next'[t] = s[1]
        /\ previous'[t] = s[n] /\ previous'[s[1]] = t
        /\ \A u \in Thread : u # s[n] /\ u # t => next'[u] = next[u]
        /\ \A u \in Thread : u # s[1] /\ u # t => previous'[u] = previous[u]
    BY <2>1, <2>2 DEF ListTypeOK
  <2>5. ASSUME NEW i \in 1 .. Len(r) - 1
        PROVE  next'[r[i]] = r[i + 1] /\ previous'[r[i + 1]] = r[i]
    <3>1. CASE i = n
      BY <1>3, <2>1, <2>4, <3>1
    <3>2. CASE i # n
      <4>1. i \in 1 .. n - 1 /\ i \in 1 .. n /\ i + 1 \in 1 .. n /\ i + 1 # 1
        BY <1>1, <1>3, <2>5, <3>2
      <4>2. r[i] = s[i] /\ r[i + 1] = s[i + 1] /\ s[i] # s[n] /\ s[i + 1] # s[1]
        BY <1>1, <1>3, <2>1, <3>2, <4>1
      <4>3. s[i] \in Thread /\ s[i + 1] \in Thread /\ s[i] # t /\ s[i + 1] # t
        BY <1>1, <1>2, <4>1
      <4>4. next'[s[i]] = next[s[i]] /\ previous'[s[i + 1]] = previous[s[i + 1]]
        BY <2>4, <4>2, <4>3
      <4> QED
        BY <1>1, <4>1, <4>2, <4>4
    <3> QED
      BY <3>1, <3>2
  <2>6. ASSUME NEW u \in Thread, \A i \in 1 .. Len(r) : r[i] # u
        PROVE  next'[u] = Null /\ previous'[u] = Null
    <3>1. u # t /\ \A i \in 1 .. n : s[i] # u
      BY <1>1, <1>3, <2>6
    <3> QED
      BY <1>1, <2>1, <2>4, <3>1
  <2>7. /\ Len(r) > 0 /\ first' = r[1] /\ last' = r[Len(r)]
        /\ next'[r[Len(r)]] = r[1] /\ previous'[r[1]] = r[Len(r)]
    <3>1. Len(r) > 0 /\ r[1] = s[1] /\ r[Len(r)] = t
      BY <1>1, <1>3, <2>1
    <3> QED
      BY <2>2, <2>4, <3>1
  <2>8. Spells(r)'
    <3>1. Len(r) # 0
      BY <1>1, <1>3
    <3>2. SpelledBy(r, first', last', next', previous')
      BY <1>3, <1>5, <2>5, <2>6, <2>7, <3>1, RingFrom
    <3> QED
      BY <3>2 DEF Spells, SpelledBy
  <2> QED
    BY <1>4, <2>3, <2>8
<1> QED
  BY <1>6, <1>7

\* remove() closes the ring over the thread that it takes out.
LEMMA UnlinkSpells ==
    ASSUME ListTypeOK, NEW s, Spells(s), NEW t \in Thread, Unlink(t),
           NEW r, r = Without(s, t)
    PROVE  ListTypeOK' /\ Spells(r)' /\ t \in ToSet(s)
<1> USE ListAssumption
<1> DEFINE n == Len(s)
<1>1. /\ s \in Seq(Thread) /\ n \in Nat
      /\ \A i \in 1 .. n : s[i] \in Thread
      /\ \A i, j \in 1 .. n : s[i] = s[j] => i = j
      /\ n > 0 => /\ first = s[1] /\ last = s[n]
                 /\ next[s[n]] = s[1] /\ previous[s[1]] = s[n]
      /\ \A i \in 1 .. n - 1 : next[s[i]] = s[i + 1] /\ previous[s[i + 1]] = s[i]
      /\ \A u \in Thread : (\A i \in 1 .. n : s[i] # u) => next[u] = Null /\ previous[u] = Null
  <2>1. SpelledBy(s, first, last, next, previous)
    BY DEF Spells, SpelledBy
  <2> QED
    BY <2>1, RingFacts
<1>2. PICK k \in 1 .. n : s[k] = t
  BY <1>1 DEF Unlink
<1>3. t \in ToSet(s)
  BY <1>1, <1>2, MemberHasPlace
<1>4. IsInjective(s)
  BY DEF Spells
<1>5. /\ r \in Seq(Thread) /\ Len(r) = n - 1
      /\ \A i \in 1 .. n - 1 : r[i] = IF i < k THEN s[i] ELSE s[i + 1]
  <2>1. r = Without(s, s[k]) /\ s \in Seq(Thread) /\ k \in 1 .. Len(s)
    BY <1>1, <1>2
  <2> QED
    BY <1>4, <2>1, RemovedAt
<1> HIDE DEF n
<1>6. n > 0 /\ 1 \in 1 .. n /\ n \in 1 .. n /\ k \in Nat
  BY <1>1, <1>2
<1>7. \A i, j \in 1 .. Len(r) : r[i] = r[j] => i = j
  <2>1. SUFFICES ASSUME NEW i \in 1 .. n - 1, NEW j \in 1 .. n - 1, r[i] = r[j]
                 PROVE  i = j
    BY <1>5
  <2>2. i \in 1 .. n /\ j \in 1 .. n /\ i + 1 \in 1 .. n /\ j + 1 \in 1 .. n
    BY <1>1, <2>1
  <2> QED
    BY <1>1, <1>5, <1>6, <2>1, <2>2
<1>8. CASE n = 1
  <2>1. /\ first' = Null /\ last' = Null
        /\ next' = [next EXCEPT ![t] = Null] /\ previous' = [previous EXCEPT ![t] = Null]
    BY <1>1, <1>2, <1>8 DEF Unlink
  <2>2. ListTypeOK'
    BY <2>1 DEF ListTypeOK
  <2>3. ASSUME NEW u \in Thread
        PROVE  next'[u] = Null /\ previous'[u] = Null
    <3>1. CASE u = t
      BY <2>1, <3>1 DEF ListTypeOK
    <3>2. CASE u # t
      <4>1. \A i \in 1 .. n : s[i] # u
        BY <1>2, <1>8, <3>2
      <4> QED
        BY <1>1, <2>1, <3>2, <4>1 DEF ListTypeOK
    <3> QED
      BY <3>1, <3>2
  <2>4. SpelledBy(r, first', last', next', previous')
    <3>1. Len(r) = 0 /\ 1 .. Len(r) - 1 = {}
      BY <1>5, <1>8
    <3>2. first' = Null /\ last' = Null /\ ~(Len(r) > 0)
      BY <2>1, <3>1
    <3>3. \A i \in 1 .. Len(r) - 1 : next'[r[i]] = r[i + 1] /\ previous'[r[i + 1]] = r[i]
      BY <3>1
    <3> QED
      BY <1>5, <1>7, <2>3, <3>2, <3>3, RingFrom
  <2> QED
    BY <1>3, <2>2, <2>4 DEF Spells, SpelledBy
<1>9. CASE n # 1
  <2> DEFINE p == IF k = 1 THEN s[n] ELSE s[k - 1]
             q == IF k = n THEN s[1] ELSE s[k + 1]
  <2>1. n > 1 /\ n - 1 \in 1 .. n
    BY <1>1, <1>6, <1>9
  <2>2. previous[t] = p /\ next[t] = q
    <3>1. k # 1 => k - 1 \in 1 .. n - 1 /\ k - 1 + 1 = k
      BY <1>1, <1>2
    <3>2. k # n => k \in 1 .. n - 1
      BY <1>1, <1>2
    <3>3. previous[t] = p
      BY <1>1, <1>2, <1>6, <3>1
    <3>4. next[t] = q
      BY <1>1, <1>2, <1>6, <3>2
    <3> QED
      BY <3>3, <3>4
  <2>3. p \in Thread /\ q \in Thread /\ p # t /\ q # t
    <3>1. k # 1 => k - 1 \in 1 .. n
      BY <1>1, <1>2
    <3>2. k # n => k + 1 \in 1 .. n
      BY <1>1, <1>2
    <3> QED
      BY <1>1, <1>2, <1>6, <2>1, <3>1, <3>2
  <2>4. (first = t <=> k = 1) /\ (last = t <=> k = n)
    BY <1>1, <1>2, <1>6
  <2> HIDE DEF p, q
  <2>5. /\ next' = [next EXCEPT ![p] = q, ![t] = Null]
        /\ previous' = [previous EXCEPT ![q] = p, ![t] = Null]
        /\ first' = IF k = 1 THEN q ELSE first
        /\ last' = IF k = n THEN p ELSE last
    <3>1. k = 1 => p = last
      BY <1>1, <1>6 DEF p
    <3>2. k = n => q = first
      BY <1>1, <1>6 DEF q
    <3>3. ~(k = 1 /\ k = n)
      BY <2>1
    <3> QED
      BY <2>2, <2>4, <3>1, <3>2, <3>3 DEF Unlink
  <2>6. /\ next'[p] = q /\ previous'[q] = p
        /\ next'[t] = Null /\ previous'[t] = Null
        /\ \A u \in Thread : u # p /\ u # t => next'[u] = next[u]
        /\ \A u \in Thread : u # q /\ u # t => previous'[u] = previous[u]
    BY <2>3, <2>5 DEF ListTypeOK
  <2>7. ListTypeOK'
    BY <1>1, <1>6, <2>3, <2>5 DEF ListTypeOK
  <2>8. ASSUME NEW i \in 1 .. Len(r) - 1
        PROVE  next'[r[i]] = r[i + 1] /\ previous'[r[i + 1]] = r[i]
    <3>1. /\ i \in 1 .. n - 2 /\ i \in 1 .. n - 1 /\ i + 1 \in 1 .. n - 1
          /\ i \in 1 .. n /\ i + 1 \in 1 .. n /\ i + 2 \in 1 .. n
      BY <1>1, <1>5, <2>8
    <3>2. CASE i + 1 < k
      <4>1. r[i] = s[i] /\ r[i + 1] = s[i + 1] /\ next[s[i]] = s[i + 1] /\ previous[s[i + 1]] = s[i]
        <5>1. i < k /\ i + 1 < k
          BY <1>6, <3>1, <3>2
        <5>2. r[i] = s[i] /\ r[i + 1] = s[i + 1]
          BY <1>5, <3>1, <5>1
        <5>3. next[s[i]] = s[i + 1] /\ previous[s[i + 1]] = s[i]
          BY <1>1, <3>1
        <5> QED
          BY <5>2, <5>3
      <4>2. s[i] # t /\ s[i + 1] # t
        BY <1>1, <1>2, <3>1, <3>2
      <4>3. p = s[k - 1] /\ k - 1 \in 1 .. n /\ i # k - 1
        BY <1>1, <1>2, <3>1, <3>2 DEF p
      <4>4. q = s[1] \/ (q = s[k + 1] /\ k + 1 \in 1 .. n)
        BY <1>1, <1>2 DEF q
      <4>5. s[i] # p
        BY <1>1, <3>1, <4>3
      <4>6. s[i + 1] # q
        BY <1>1, <1>6, <3>1, <3>2, <4>4
      <4> QED
        BY <1>1, <2>6, <3>1, <4>1, <4>2, <4>5, <4>6
    <3>3. CASE i + 1 = k
      <4>1. r[i] = s[i] /\ r[i + 1] = s[i + 2] /\ k - 1 = i /\ k + 1 = i + 2 /\ k # 1 /\ k # n
        <5>1. i + 1 + 1 = i + 2 /\ i < k /\ ~(i + 1 < k)
          BY <1>6, <3>1, <3>3
        <5>2. r[i] = s[i] /\ r[i + 1] = s[i + 2]
          BY <1>5, <3>1, <5>1
        <5> QED
          BY <1>1, <1>6, <3>1, <3>3, <5>2
      <4>2. p = s[i] /\ q = s[i + 2]
        BY <4>1 DEF p, q
      <4> QED
        BY <2>6, <4>1, <4>2
    <3>4. CASE i + 1 > k
      <4>1. /\ r[i] = s[i + 1] /\ r[i + 1] = s[i + 2]
            /\ next[s[i + 1]] = s[i + 2] /\ previous[s[i + 2]] = s[i + 1]
        <5>1. i + 1 + 1 = i + 2 /\ ~(i < k) /\ ~(i + 1 < k)
          BY <1>6, <3>1, <3>4
        <5>2. r[i] = s[i + 1] /\ r[i + 1] = s[i + 2]
          BY <1>5, <3>1, <5>1
        <5>3. next[s[i + 1]] = s[i + 1 + 1] /\ previous[s[i + 1 + 1]] = s[i + 1]
          BY <1>1, <3>1
        <5> QED
          BY <5>1, <5>2, <5>3
      <4>2. s[i + 1] # t /\ s[i + 2] # t
        BY <1>1, <1>2, <3>1, <3>4
      <4>3. p = s[n] \/ (p = s[k - 1] /\ k - 1 \in 1 .. n)
        BY <1>1, <1>2 DEF p
      <4>4. q = s[1] \/ (q = s[k + 1] /\ k + 1 \in 1 .. n)
        BY <1>1, <1>2 DEF q
      <4>5. s[i + 1] # p
        <5>1. i + 1 # n /\ i + 1 # k - 1
          BY <1>1, <1>2, <3>1, <3>4
        <5> QED
          BY <1>1, <1>6, <3>1, <4>3, <5>1
      <4>6. s[i + 2] # q
        BY <1>1, <1>6, <3>1, <3>4, <4>4
      <4> QED
        BY <1>1, <2>6, <3>1, <4>1, <4>2, <4>5, <4>6
    <3> QED
      BY <1>6, <3>1, <3>2, <3>3, <3>4
  <2>9. ASSUME NEW u \in Thread, \A i \in 1 .. Len(r) : r[i] # u
        PROVE  next'[u] = Null /\ previous'[u] = Null
    <3>1. CASE u = t
      BY <2>6, <3>1
    <3>2. CASE u # t
      <4>1. ASSUME NEW i \in 1 .. n
            PROVE  s[i] # u
        <5>1. CASE i < k
          <6>1. i \in 1 .. Len(r) /\ r[i] = s[i]
            <7>1. i \in 1 .. n - 1
              BY <1>1, <1>2, <4>1, <5>1
            <7> QED
              BY <1>5, <5>1, <7>1
          <6> QED
            BY <2>9, <6>1
        <5>2. CASE i = k
          BY <1>2, <3>2, <5>2
        <5>3. CASE i > k
          <6>1. i - 1 \in 1 .. Len(r) /\ r[i - 1] = s[i]
            <7>1. i - 1 \in 1 .. n - 1 /\ ~(i - 1 < k) /\ i - 1 + 1 = i
              BY <1>1, <1>2, <4>1, <5>3
            <7> QED
              BY <1>5, <7>1
          <6> QED
            BY <2>9, <6>1
        <5> QED
          BY <1>6, <4>1, <5>1, <5>2, <5>3
      <4>2. next[u] = Null /\ previous[u] = Null
        BY <1>1, <4>1
      <4>3. next[p] # Null /\ previous[q] # Null
        <5>1. previous[q] = t /\ next[p] = t
          <6>1. k # 1 => k - 1 \in 1 .. n - 1 /\ k - 1 + 1 = k
            BY <1>1, <1>2
          <6>2. k # n => k \in 1 .. n - 1
            BY <1>1, <1>2
          <6> QED
            BY <1>1, <1>2, <1>6, <6>1, <6>2 DEF p, q
        <5> QED
          BY <5>1
      <4> QED
        BY <2>6, <3>2, <4>2, <4>3
    <3> QED
      BY <3>1, <3>2
  <2>10. /\ Len(r) > 0 /\ first' = r[1] /\ last' = r[Len(r)]
         /\ next'[r[Len(r)]] = r[1] /\ previous'[r[1]] = r[Len(r)]
    <3>1. Len(r) = n - 1 /\ 1 \in 1 .. n - 1 /\ n - 1 \in 1 .. n - 1 /\ n - 1 + 1 = n
      BY <1>1, <1>5, <2>1
    <3>2. CASE k = 1
      <4>1. r[1] = s[1 + 1] /\ r[Len(r)] = s[n] /\ q = s[1 + 1] /\ p = s[n] /\ k # n
        BY <1>5, <2>1, <3>1, <3>2 DEF p, q
      <4>2. first' = q /\ last' = p
        BY <1>1, <1>6, <2>5, <3>2, <4>1
      <4>3. next'[p] = q /\ previous'[q] = p /\ Len(r) > 0
        BY <2>1, <2>6, <3>1
      <4>4. q = r[1] /\ p = r[Len(r)]
        BY <4>1
      <4> QED
        BY <4>2, <4>3, <4>4
    <3>3. CASE k = n
      <4>1. r[1] = s[1] /\ r[Len(r)] = s[n - 1] /\ q = s[1] /\ p = s[n - 1] /\ k # 1
        <5>1. 1 < k /\ n - 1 < k
          BY <1>1, <2>1, <3>3
        <5> QED
          BY <1>5, <3>1, <3>3, <5>1 DEF p, q
      <4>2. first' = q /\ last' = p
        BY <1>1, <1>6, <2>5, <3>3, <4>1
      <4>3. next'[p] = q /\ previous'[q] = p /\ Len(r) > 0
        BY <2>1, <2>6, <3>1
      <4>4. q = r[1] /\ p = r[Len(r)]
        BY <3>1, <4>1
      <4> QED
        BY <4>2, <4>3, <4>4
    <3>4. CASE k # 1 /\ k # n
      <4>1. r[1] = s[1] /\ r[Len(r)] = s[n] /\ q = s[k + 1] /\ p = s[k - 1]
        <5>1. 1 < k /\ ~(n - 1 < k)
          BY <1>1, <1>2, <3>4
        <5> QED
          BY <1>5, <3>1, <3>4, <5>1 DEF p, q
      <4>2. k + 1 \in 1 .. n /\ k - 1 \in 1 .. n /\ k + 1 # 1 /\ k - 1 # n
        BY <1>1, <1>2, <3>4
      <4>3. s[n] # p /\ s[1] # q /\ s[n] # t /\ s[1] # t
        BY <1>1, <1>2, <1>6, <3>4, <4>1, <4>2
      <4>4. next'[s[n]] = s[1] /\ previous'[s[1]] = s[n]
        BY <1>1, <1>6, <2>6, <4>3
      <4> QED
        BY <1>1, <1>6, <2>5, <3>1, <3>4, <4>1, <4>4
    <3> QED
      BY <3>2, <3>3, <3>4
  <2>11. SpelledBy(r, first', last', next', previous')
    <3>1. Len(r) # 0
      BY <2>10
    <3> QED
      BY <1>5, <1>7, <2>8, <2>9, <2>10, <3>1, RingFrom
  <2> QED
    BY <1>3, <2>7, <2>11 DEF Spells, SpelledBy
<1> QED
  BY <1>8, <1>9

-----------------------------------------------------------------------------
(***************************************************************************)
(* The ring spells one sequence, and it is short enough to be found.       *)
(***************************************************************************)

\* Who follows whom from the first thread on is settled by the links.
LEMMA SpelledAlike ==
    ASSUME NEW s, NEW r, NEW f, NEW l, NEW n, NEW p,
           SpelledBy(s, f, l, n, p), SpelledBy(r, f, l, n, p)
    PROVE  \A i \in 1 .. Len(s) : i \in 1 .. Len(r) /\ s[i] = r[i]
<1> USE ListAssumption
<1> DEFINE Differs == {i \in 1 .. Len(s) : ~(i \in 1 .. Len(r) /\ s[i] = r[i])}
<1>1. SUFFICES ASSUME Differs # {}
               PROVE  FALSE
  OBVIOUS
<1>2. /\ s \in Seq(Thread) /\ Len(s) \in Nat
      /\ \A i \in 1 .. Len(s) : s[i] \in Thread
      /\ \A i, j \in 1 .. Len(s) : s[i] = s[j] => i = j
      /\ Len(s) > 0 => f = s[1]
      /\ \A i \in 1 .. Len(s) - 1 : n[s[i]] = s[i + 1]
  BY RingFacts
<1>3. /\ Len(r) \in Nat
      /\ Len(r) = 0 => f = Null
      /\ Len(r) > 0 => f = r[1] /\ n[r[Len(r)]] = r[1]
      /\ \A i \in 1 .. Len(r) - 1 : n[r[i]] = r[i + 1]
  BY RingFacts
<1>4. PICK i \in Differs : \A j \in Differs : ~(j < i)
  <2>1. Differs \subseteq Nat
    BY <1>2
  <2> HIDE DEF Differs
  <2> QED
    BY <1>1, <2>1, LeastOf
<1>5. i \in 1 .. Len(s) /\ 1 \in 1 .. Len(s) /\ Len(s) > 0
  BY <1>2, <1>4
<1>6. Len(r) > 0 /\ r[1] = s[1]
  BY <1>2, <1>3, <1>5
<1>7. CASE i = 1
  BY <1>3, <1>4, <1>6, <1>7
<1>8. CASE i # 1
  <2>1. i - 1 \in 1 .. Len(s) - 1 /\ i - 1 \in 1 .. Len(s) /\ i - 1 + 1 = i /\ i - 1 < i
    BY <1>2, <1>5, <1>8
  <2>2. i - 1 \in 1 .. Len(r) /\ s[i - 1] = r[i - 1]
    <3>1. i - 1 \notin Differs
      BY <1>2, <1>4, <1>5, <2>1
    <3> QED
      BY <2>1, <3>1
  <2>3. n[s[i - 1]] = s[i]
    BY <1>2, <2>1
  <2>4. CASE i - 1 = Len(r)
    <3>1. s[i] = s[1]
      BY <1>3, <1>6, <2>2, <2>3, <2>4
    <3> QED
      BY <1>2, <1>5, <1>8, <3>1
  <2>5. CASE i - 1 # Len(r)
    <3>1. i - 1 \in 1 .. Len(r) - 1 /\ i \in 1 .. Len(r)
      BY <1>3, <1>5, <1>8, <2>2, <2>5
    <3>2. n[r[i - 1]] = r[i]
      BY <1>3, <2>1, <3>1
    <3> QED
      BY <1>4, <2>2, <2>3, <3>1, <3>2
  <2> QED
    BY <2>4, <2>5
<1> QED
  BY <1>7, <1>8

LEMMA SpelledOnce ==
    ASSUME NEW s, NEW r, NEW f, NEW l, NEW n, NEW p,
           SpelledBy(s, f, l, n, p), SpelledBy(r, f, l, n, p)
    PROVE  s = r
<1>1. s \in Seq(Thread) /\ r \in Seq(Thread) /\ Len(s) \in Nat /\ Len(r) \in Nat
  BY RingFacts
<1>2. \A i \in 1 .. Len(s) : i \in 1 .. Len(r) /\ s[i] = r[i]
  BY SpelledAlike
<1>3. \A i \in 1 .. Len(r) : i \in 1 .. Len(s) /\ s[i] = r[i]
  BY SpelledAlike
<1>4. Len(s) = Len(r)
  <2>1. Len(s) # 0 => Len(s) \in 1 .. Len(r)
    BY <1>1, <1>2
  <2>2. Len(r) # 0 => Len(r) \in 1 .. Len(s)
    BY <1>1, <1>3
  <2> QED
    BY <1>1, <2>1, <2>2
<1> QED
  BY <1>1, <1>2, <1>4, SeqEqual

\* A sequence without repetitions has at most as many places as there are
\* threads.
LEMMA SpelledIsAnOrder ==
    ASSUME NEW s, NEW f, NEW l, NEW n, NEW p, SpelledBy(s, f, l, n, p)
    PROVE  s \in Orders
<1> USE ListAssumption
<1>1. /\ s \in Seq(Thread) /\ Len(s) \in Nat
      /\ \A i, j \in 1 .. Len(s) : s[i] = s[j] => i = j
  BY RingFacts
<1>2. s \in [1 .. Len(s) -> Thread]
  BY <1>1
<1>3. Cardinality(Thread) \in Nat
  BY FS_CardinalityType
<1>4. IsFiniteSet(1 .. Len(s)) /\ Cardinality(1 .. Len(s)) = Len(s)
  <2>1. 1 \in Int /\ Len(s) \in Int /\ (1 > Len(s) => Len(s) = 0)
    BY <1>1
  <2>2. Cardinality(1 .. Len(s)) = IF 1 > Len(s) THEN 0 ELSE Len(s) - 1 + 1
    BY <2>1, FS_Interval
  <2> QED
    BY <1>1, <2>1, <2>2, FS_Interval
<1>5. Len(s) <= Cardinality(Thread)
  <2>1. SUFFICES ASSUME Cardinality(Thread) < Cardinality(1 .. Len(s))
                 PROVE  FALSE
    BY <1>1, <1>3, <1>4
  <2>2. \E x, y \in 1 .. Len(s) : x # y /\ s[x] = s[y]
    BY <1>2, <1>4, <2>1, FS_PigeonHole
  <2> QED
    BY <1>1, <2>2
<1>6. Len(s) \in 0 .. Cardinality(Thread)
  BY <1>1, <1>3, <1>5
<1> QED
  BY <1>2, <1>6 DEF Orders

\* The sequence of QueueSpec is the one that the ring spells ...
LEMMA SpelledNow ==
    ASSUME NEW s, Spells(s)
    PROVE  IsRing /\ spelled = s
<1>1. s \in Orders
  <2>1. SpelledBy(s, first, last, next, previous)
    BY DEF Spells, SpelledBy
  <2> QED
    BY <2>1, SpelledIsAnOrder
<1>2. \A r \in Orders : Spells(r) => r = s
  <2>1. ASSUME NEW r, Spells(r)
        PROVE  r = s
    <3>1. SpelledBy(s, first, last, next, previous) /\ SpelledBy(r, first, last, next, previous)
      BY <2>1 DEF Spells, SpelledBy
    <3> QED
      BY <3>1, SpelledOnce
  <2> QED
    BY <2>1
<1> QED
  BY <1>1, <1>2 DEF IsRing, spelled

\* ... before a step and after it.
LEMMA SpelledNext ==
    ASSUME NEW s, Spells(s)'
    PROVE  IsRing' /\ spelled' = s
<1>1. SpelledBy(s, first', last', next', previous')
  BY DEF Spells, SpelledBy
<1>2. s \in Orders
  BY <1>1, SpelledIsAnOrder
<1>3. \A r \in Orders : Spells(r)' => r = s
  <2>1. ASSUME NEW r, Spells(r)'
        PROVE  r = s
    <3>1. SpelledBy(r, first', last', next', previous')
      BY <2>1 DEF Spells, SpelledBy
    <3> QED
      BY <1>1, <3>1, SpelledOnce
  <2> QED
    BY <2>1
<1> QED
  BY <1>2, <1>3 DEF IsRing, spelled

-----------------------------------------------------------------------------
(***************************************************************************)
(* The inductive invariant, and the steps of the ring as steps of a queue. *)
(***************************************************************************)

ListInv == ListTypeOK /\ \E s : Spells(s)

LEMMA InitRing == Init => ListTypeOK /\ Spells(<< >>)
<1>1. SUFFICES ASSUME Init PROVE ListTypeOK /\ Spells(<< >>)
  OBVIOUS
<1>2. << >> \in Seq(Thread) /\ IsInjective(<< >>) /\ ToSet(<< >>) = {} /\ DOMAIN << >> = {}
  BY DEF IsInjective, ToSet
<1> QED
  BY <1>1, <1>2 DEF Init, ListTypeOK, Spells

LEMMA ListStep ==
    ASSUME ListTypeOK, NEW s, Spells(s), [Next]_vars
    PROVE  /\ ListTypeOK'
           /\ \E r : /\ Spells(r)'
                     /\ \/ r = s
                        \/ \E t \in Thread : t \notin ToSet(s) /\ r = Append(s, t)
                        \/ s # << >> /\ r = Tail(s)
                        \/ \E t \in Thread : r = Without(s, t)
<1> USE ListAssumption
<1>1. CASE UNCHANGED vars
  BY <1>1 DEF vars, ListTypeOK, Spells
<1>2. ASSUME NEW t \in Thread, LinkLast(t)
      PROVE  ListTypeOK' /\ Spells(Append(s, t))' /\ t \notin ToSet(s)
  BY <1>2, LinkLastSpells
<1>3. ASSUME NEW t \in Thread, Unlink(t)
      PROVE  ListTypeOK' /\ Spells(Without(s, t))' /\ t \in ToSet(s)
  BY <1>3, UnlinkSpells
<1>4. CASE TakeFirst
  <2>1. SpelledBy(s, first, last, next, previous)
    BY DEF Spells, SpelledBy
  <2>2. /\ s \in Seq(Thread) /\ IsInjective(s) /\ Len(s) \in Nat
        /\ Len(s) > 0 /\ first = s[1] /\ first \in Thread
    BY <1>4, <2>1, RingFacts DEF TakeFirst, Spells
  <2>3. Without(s, first) = Tail(s) /\ s # << >>
    <3>1. s # << >> /\ 1 \in 1 .. Len(s)
      BY <2>2
    <3>2. /\ Tail(s) \in Seq(Thread) /\ Len(Tail(s)) = Len(s) - 1
          /\ \A i \in 1 .. Len(Tail(s)) : Tail(s)[i] = s[i + 1]
      BY <2>2, <3>1, HeadTailProperties
    <3>3. /\ Without(s, first) \in Seq(Thread)
          /\ Len(Without(s, first)) = Len(s) - 1
          /\ \A i \in 1 .. Len(s) - 1 : Without(s, first)[i] = s[i + 1]
      BY <2>2, <3>1, RemovedAt
    <3> QED
      BY <3>1, <3>2, <3>3, SeqEqual
  <2>4. PICK t \in Thread : t = first
    BY <2>2
  <2>5. ListTypeOK' /\ Spells(Without(s, t))'
    BY <1>3, <1>4, <2>4 DEF TakeFirst
  <2> QED
    BY <2>3, <2>4, <2>5
<1> QED
  BY <1>1, <1>2, <1>3, <1>4 DEF Next, RemoveReady

LEMMA InvHolds == Spec => []ListInv
<1>1. Init => ListInv
  BY InitRing DEF ListInv
<1>2. ListInv /\ [Next]_vars => ListInv'
  <2>1. SUFFICES ASSUME ListInv, [Next]_vars PROVE ListInv'
    OBVIOUS
  <2>2. PICK s : Spells(s)
    BY <2>1 DEF ListInv
  <2> QED
    BY <2>1, <2>2, ListStep DEF ListInv
<1> QED
  BY <1>1, <1>2, PTL DEF Spec

\* append() and remove() keep one closed ring, linked alike both ways,
\* whatever calls are made and for any number of threads.
THEOREM RingIsKept == Spec => []IsRing
<1>1. ListInv => IsRing
  BY SpelledNow DEF ListInv
<1> QED
  BY <1>1, InvHolds, PTL

\* The pointer operations implement the queue of ReadyQueue, which is the one
\* that Threads works with.
THEOREM ImplementsQueue == Spec => QueueSpec
<1>1. Init => Queue!Init
  BY InitRing, SpelledNow DEF Queue!Init
<1>2. ListInv /\ [Next]_vars => [Queue!Next]_spelled
  <2>1. SUFFICES ASSUME ListInv, [Next]_vars PROVE [Queue!Next]_spelled
    OBVIOUS
  <2>2. PICK s : Spells(s)
    BY <2>1 DEF ListInv
  <2>3. PICK r : /\ Spells(r)'
                 /\ \/ r = s
                    \/ \E t \in Thread : t \notin ToSet(s) /\ r = Append(s, t)
                    \/ s # << >> /\ r = Tail(s)
                    \/ \E t \in Thread : r = Without(s, t)
    BY <2>1, <2>2, ListStep DEF ListInv
  <2>4. spelled = s /\ spelled' = r
    BY <2>2, <2>3, SpelledNow, SpelledNext
  <2>5. ASSUME NEW t \in Thread, t \notin ToSet(s), r = Append(s, t)
        PROVE  Queue!Next
    BY <2>4, <2>5 DEF Queue!Next, Queue!Put, Queue!ToSet, ToSet
  <2>6. CASE s # << >> /\ r = Tail(s)
    BY <2>4, <2>6 DEF Queue!Next, Queue!Take
  <2>7. ASSUME NEW t \in Thread, r = Without(s, t)
        PROVE  Queue!Next
    BY <2>4, <2>7 DEF Queue!Next, Queue!Withdraw, Queue!Without, Without, Queue!RemoveAt, RemoveAt
  <2>8. CASE r = s
    BY <2>4, <2>8
  <2> QED
    BY <2>3, <2>5, <2>6, <2>7, <2>8
<1> QED
  BY <1>1, <1>2, InvHolds, PTL DEF Spec, QueueSpec, Queue!Spec

-----------------------------------------------------------------------------
(***************************************************************************)
(* The runtime on top of the list.                                         *)
(***************************************************************************)

\* Every call of the runtime is one of the ready list, or leaves it alone.
THEOREM UsesReadyList == RuntimeSpec => Spec
<1>1. RuntimeInit => Init
  BY DEF RuntimeInit
<1>2. [RuntimeNext]_runtimeVars => [Next]_vars
  <2>1. SUFFICES ASSUME [RuntimeNext]_runtimeVars PROVE [Next]_vars
    OBVIOUS
  <2>2. ASSUME NEW t \in Thread, LinkLast(t)
        PROVE  Next
    BY <2>2, ListAssumption DEF Next, Linked, LinkLast
  <2>3. ASSUME NEW t \in Thread, Destroy(t)
        PROVE  Next
    BY <2>3 DEF Destroy, Next
  <2>4. ASSUME NEW t \in Thread, Create(t)
        PROVE  Next
    BY <2>2, <2>4 DEF Create
  <2>5. CASE Block
    BY <2>5 DEF Block, list, vars
  <2>6. ASSUME NEW t \in Thread, Wake(t)
        PROVE  Next
    BY <2>2, <2>6 DEF Wake
  <2>7. ASSUME NEW t \in Thread, Delete(t) \/ EndDetached(t)
        PROVE  Next
    BY <2>3, <2>7 DEF Delete, EndDetached
  <2>8. ASSUME NEW t \in Thread, EndJoinable(t)
        PROVE  [Next]_vars
    BY <2>2, <2>8 DEF EndJoinable, list, vars
  <2>9. CASE Schedule
    BY <2>9 DEF Schedule, ProcessReady, Next, list, vars
  <2>10. CASE RunReady
    BY <2>10 DEF RunReady, ProcessReady, Next
  <2>11. CASE UNCHANGED runtimeVars
    BY <2>11 DEF runtimeVars, list, vars
  <2> QED
    BY <2>1, <2>4, <2>5, <2>6, <2>7, <2>8, <2>9, <2>10, <2>11 DEF RuntimeNext
<1> QED
  BY <1>1, <1>2, PTL DEF Spec, RuntimeSpec

\* In the runtime every traversal from readyFirst meets each ready thread
\* once.
THEOREM ListStaysClosed == RuntimeSpec => []IsRing
  BY UsesReadyList, RingIsKept

\* In the runtime the ready list is a queue.
THEOREM ListIsQueue == RuntimeSpec => QueueSpec
  BY UsesReadyList, ImplementsQueue
-----------------------------------------------------------------------------
(***************************************************************************)
(* The stack manager: the topmost words of the free stacks are a chain.    *)
(***************************************************************************)

\* From firstFreeStack on, the stacks of f follow each other.
Chain(m, f) ==
    /\ f \in Seq(Stack) /\ IsInjective(f)
    /\ m.first = IF f = << >> THEN NoStack ELSE f[1]
    /\ \A i \in 1 .. Len(f) : m.top[f[i]] = IF i = Len(f) THEN NoStack ELSE f[i + 1]

\* The numbers of the stacks.
LEMMA Numbers ==
    /\ StacksPerPool * MaxPools \in Nat
    /\ \A k \in 0 .. MaxPools :
           StacksPerPool * k \in Nat /\ 1 .. StacksPerPool * k \subseteq Stack
    /\ \A k \in 0 .. MaxPools : k < MaxPools =>
           /\ k + 1 \in 0 .. MaxPools
           /\ StacksPerPool * (k + 1) = StacksPerPool * k + StacksPerPool
    /\ NoStack \notin Stack /\ Frame \notin Stack /\ Frame # NoStack
<1> USE StacksAssumption
<1>1. StacksPerPool \in Nat /\ StacksPerPool > 0 /\ MaxPools \in Nat
  OBVIOUS
<1>2. ASSUME NEW k \in Nat
      PROVE  /\ StacksPerPool * k \in Nat
             /\ StacksPerPool * (k + 1) = StacksPerPool * k + StacksPerPool
  BY <1>1
<1>3. ASSUME NEW k \in Nat, NEW j \in Nat, j <= k
      PROVE  StacksPerPool * j <= StacksPerPool * k
  BY <1>1, <1>3
<1>4. ASSUME NEW k \in 0 .. MaxPools
      PROVE  1 .. StacksPerPool * k \subseteq Stack
  <2>1. k \in Nat /\ k <= MaxPools
    BY <1>1
  <2>2. StacksPerPool * k <= StacksPerPool * MaxPools
    BY <1>1, <1>3, <2>1
  <2>3. StacksPerPool * k \in Nat /\ StacksPerPool * MaxPools \in Nat
    BY <1>1, <1>2, <2>1
  <2> DEFINE a == StacksPerPool * k
             b == StacksPerPool * MaxPools
  <2> HIDE DEF a, b
  <2>4. 1 .. a \subseteq 1 .. b
    BY <2>2, <2>3 DEF a, b
  <2> QED
    BY <2>4 DEF Stack, a, b
<1> QED
  BY <1>1, <1>2, <1>4

\* A traversal finds the stacks of the chain.
LEMMA ChainIsFree ==
    ASSUME NEW m, NEW f, Chain(m, f)
    PROVE  Free(m) = ToSet(f)
<1> DEFINE N == StacksPerPool * MaxPools
           L == Len(f)
<1>1. /\ N \in Nat /\ Stack = 1 .. N /\ NoStack \notin Stack
      /\ f \in Seq(Stack) /\ L \in Nat /\ \A i \in 1 .. L : f[i] \in Stack
  BY Numbers DEF Stack, Chain
<1>2. L <= N
  <2>1. IsFiniteSet(1 .. N) /\ Cardinality(1 .. N) = N
    <3>1. 1 \in Int /\ N \in Int /\ (1 > N => N = 0)
      BY <1>1
    <3> HIDE DEF N
    <3>2. Cardinality(1 .. N) = IF 1 > N THEN 0 ELSE N - 1 + 1
      BY <3>1, FS_Interval
    <3> QED
      BY <1>1, <3>1, <3>2, FS_Interval
  <2>2. IsFiniteSet(1 .. L) /\ Cardinality(1 .. L) = L
    <3>1. 1 \in Int /\ L \in Int /\ (1 > L => L = 0)
      BY <1>1
    <3> HIDE DEF L
    <3>2. Cardinality(1 .. L) = IF 1 > L THEN 0 ELSE L - 1 + 1
      BY <3>1, FS_Interval
    <3> QED
      BY <1>1, <3>1, <3>2, FS_Interval
  <2>3. SUFFICES ASSUME N < L PROVE FALSE
    BY <1>1
  <2>4. f \in [1 .. L -> 1 .. N]
    BY <1>1
  <2>5. \E x, y \in 1 .. L : x # y /\ f[x] = f[y]
    <3> HIDE DEF N, L
    <3> QED
      BY <2>1, <2>2, <2>3, <2>4, FS_PigeonHole
  <2> QED
    BY <1>1, <2>5 DEF Chain, IsInjective
<1> HIDE DEF N
<1> DEFINE step(g) == [n \in 0 .. N |->
                          IF n = 0 THEN m.first
                          ELSE IF g[n - 1] \in Stack THEN m.top[g[n - 1]] ELSE g[n - 1]]
           found == [n \in 0 .. N |-> IF n < L THEN f[n + 1] ELSE NoStack]
<1>3. found = step(found)
  <2>1. ASSUME NEW n \in 0 .. N
        PROVE  found[n] = step(found)[n]
    <3>1. CASE n = 0
      <4>1. found[0] = IF f = << >> THEN NoStack ELSE f[1]
        BY <1>1, <3>1
      <4> QED
        BY <1>1, <3>1, <4>1 DEF Chain
    <3>2. CASE n # 0
      <4>1. n - 1 \in 0 .. N
        BY <1>1, <3>2
      <4>2. CASE n - 1 < L
        <5>1. n \in 1 .. L /\ n - 1 + 1 = n
          BY <1>1, <3>2, <4>2
        <5>2. found[n - 1] = f[n] /\ f[n] \in Stack
          BY <1>1, <4>1, <4>2, <5>1
        <5>3. m.top[f[n]] = IF n = L THEN NoStack ELSE f[n + 1]
          BY <5>1 DEF Chain
        <5>4. found[n] = IF n = L THEN NoStack ELSE f[n + 1]
          BY <1>1, <5>1
        <5> QED
          BY <3>2, <5>2, <5>3, <5>4
      <4>3. CASE ~(n - 1 < L)
        <5>1. found[n - 1] = NoStack /\ found[n] = NoStack
          BY <1>1, <4>1, <4>3
        <5> QED
          BY <1>1, <3>2, <5>1
      <4> QED
        BY <4>2, <4>3
    <3> QED
      BY <3>1, <3>2
  <2> QED
    BY <2>1
<1>4. ASSUME NEW g, g = step(g)
      PROVE  g = found
  <2> DEFINE D == {n \in 0 .. N : g[n] # found[n]}
  <2>1. SUFFICES ASSUME D # {} PROVE FALSE
    <3>1. g = [n \in 0 .. N |-> g[n]]
      BY <1>4
    <3> QED
      BY <3>1
  <2>2. PICK n \in D : \A j \in D : ~(j < n)
    <3>1. D \subseteq Nat
      BY <1>1
    <3> HIDE DEF D
    <3> QED
      BY <2>1, <3>1, LeastOf
  <2>3. n \in 0 .. N /\ g[n] # found[n]
    BY <2>2
  <2>4. g[n] = step(g)[n] /\ found[n] = step(found)[n]
    BY <1>3, <1>4, <2>3
  <2>5. CASE n = 0
    BY <2>3, <2>4, <2>5
  <2>6. CASE n # 0
    <3>1. n - 1 \in 0 .. N /\ n - 1 < n
      BY <1>1, <2>3, <2>6
    <3>2. g[n - 1] = found[n - 1]
      BY <2>2, <3>1
    <3> HIDE DEF found
    <3> QED
      BY <2>3, <2>4, <2>6, <3>1, <3>2
  <2> QED
    BY <2>5, <2>6
<1>5. Free(m) = {found[n] : n \in 0 .. N} \cap Stack
  <2>1. (CHOOSE g : g = step(g)) = found
    <3> HIDE DEF found, step
    <3> QED
      BY <1>3, <1>4
  <2>2. DOMAIN found = 0 .. N
    OBVIOUS
  <2> HIDE DEF found
  <2> QED
    BY <2>1, <2>2 DEF Free, N
<1>6. ASSUME NEW s
      PROVE  s \in {found[n] : n \in 0 .. N} \cap Stack <=> \E i \in 1 .. L : f[i] = s
  <2>1. ASSUME NEW n \in 0 .. N, found[n] \in Stack
        PROVE  \E i \in 1 .. L : f[i] = found[n]
    <3>1. n < L /\ found[n] = f[n + 1] /\ n + 1 \in 1 .. L
      BY <1>1, <2>1
    <3> QED
      BY <3>1
  <2>2. ASSUME NEW i \in 1 .. L
        PROVE  f[i] \in Stack /\ \E n \in 0 .. N : found[n] = f[i]
    <3>1. i - 1 \in 0 .. N /\ found[i - 1] = f[i]
      BY <1>1, <1>2, <2>2
    <3> QED
      BY <1>1, <2>2, <3>1
  <2> HIDE DEF found
  <2> QED
    BY <2>1, <2>2
<1> QED
  BY <1>1, <1>5, <1>6, MemberHasPlace

\* The memory once the first stack of the list is in use.
FirstTaken(m) == [[m EXCEPT !.first = m.top[m.first]] EXCEPT !.top[m.first] = Frame]

\* acquireStack() when there is a free stack: it is the first of the chain,
\* and the address above it is overwritten once it is in use.
LEMMA FirstIsTaken ==
    ASSUME NEW m \in Memory, NEW f, Chain(m, f), f # << >>,
           NEW n, n = FirstTaken(m)
    PROVE  /\ n \in Memory /\ n.pools = m.pools /\ Chain(n, Tail(f))
           /\ m.first \in ToSet(f) /\ ToSet(Tail(f)) = ToSet(f) \ {m.first}
<1>1. /\ f \in Seq(Stack) /\ IsInjective(f) /\ Len(f) \in Nat /\ Len(f) > 0
      /\ \A i \in 1 .. Len(f) : f[i] \in Stack
      /\ \A i, j \in 1 .. Len(f) : f[i] = f[j] => i = j
  <2>1. f \in Seq(Stack) /\ IsInjective(f)
    BY DEF Chain
  <2> QED
    BY <2>1 DEF IsInjective
<1>2. m.first = f[1] /\ Head(f) = f[1] /\ f[1] \in Stack
  BY <1>1 DEF Chain
<1>3. /\ Tail(f) \in Seq(Stack) /\ IsInjective(Tail(f))
      /\ f[1] \in ToSet(f) /\ ToSet(Tail(f)) = ToSet(f) \ {f[1]}
  BY <1>1, <1>2, Taken
<1>4. Len(Tail(f)) = Len(f) - 1 /\ \A i \in 1 .. Len(f) - 1 : Tail(f)[i] = f[i + 1]
  BY <1>1, HeadTailProperties
<1>5. m.top[f[1]] = IF Len(f) = 1 THEN NoStack ELSE f[2]
  <2>1. 1 \in 1 .. Len(f) /\ 1 + 1 = 2
    BY <1>1
  <2> QED
    BY <2>1 DEF Chain
<1>6. /\ Len(f) # 1 => 1 \in 1 .. Len(f) - 1 /\ 2 \in 1 .. Len(f)
      /\ m.top[f[1]] \in Stack \cup {NoStack}
  <2>1. ASSUME NEW L \in Nat, L > 0, L # 1
        PROVE  1 \in 1 .. L - 1 /\ 2 \in 1 .. L
    BY <2>1
  <2>2. Len(f) # 1 => 1 \in 1 .. Len(f) - 1 /\ 2 \in 1 .. Len(f)
    BY <1>1, <2>1
  <2> QED
    BY <1>1, <1>5, <2>2
<1>7. /\ n.first = m.top[f[1]] /\ n.pools = m.pools
      /\ n.top = [m.top EXCEPT ![f[1]] = Frame]
  BY <1>2 DEF FirstTaken, Memory
<1>8. n \in Memory
  BY <1>2, <1>6 DEF FirstTaken, Memory
<1>9. n.first = IF Tail(f) = << >> THEN NoStack ELSE Tail(f)[1]
  <2>1. Tail(f) = << >> <=> Len(f) = 1
    <3>1. Tail(f) = << >> <=> Len(Tail(f)) = 0
      BY <1>3, EmptySeq
    <3>2. \A L \in Nat : L - 1 = 0 <=> L = 1
      OBVIOUS
    <3> QED
      BY <1>1, <1>4, <3>1, <3>2
  <2>2. Len(f) # 1 => Tail(f)[1] = f[2]
    <3>1. 1 + 1 = 2
      OBVIOUS
    <3> QED
      BY <1>4, <1>6, <3>1
  <2> QED
    BY <1>5, <1>7, <2>1, <2>2
<1>10. ASSUME NEW i \in 1 .. Len(Tail(f))
       PROVE  n.top[Tail(f)[i]] = IF i = Len(Tail(f)) THEN NoStack ELSE Tail(f)[i + 1]
  <2>1. i \in 1 .. Len(f) - 1 /\ i + 1 \in 1 .. Len(f) /\ 1 \in 1 .. Len(f) /\ i + 1 # 1
    BY <1>1, <1>4, <1>10
  <2>2. Tail(f)[i] = f[i + 1] /\ f[i + 1] # f[1] /\ f[i + 1] \in Stack
    BY <1>1, <1>4, <2>1
  <2>3. m.top[f[i + 1]] = IF i + 1 = Len(f) THEN NoStack ELSE f[i + 1 + 1]
    BY <2>1 DEF Chain
  <2>4. n.top[f[i + 1]] = m.top[f[i + 1]]
    BY <1>7, <2>2 DEF Memory
  <2>5. i = Len(Tail(f)) <=> i + 1 = Len(f)
    BY <1>1, <1>4, <2>1
  <2>6. i + 1 # Len(f) => Tail(f)[i + 1] = f[i + 1 + 1]
    <3>1. i + 1 # Len(f) => i + 1 \in 1 .. Len(f) - 1
      BY <1>1, <2>1
    <3> QED
      BY <1>4, <3>1
  <2> QED
    BY <2>2, <2>3, <2>4, <2>5, <2>6
<1> QED
  BY <1>2, <1>3, <1>7, <1>8, <1>9, <1>10 DEF Chain

\* allocatePool() makes a chain of the new stacks.
LEMMA PoolIsChained ==
    ASSUME NEW m \in Memory, m.first = NoStack, m.pools < MaxPools
    PROVE  /\ AllocatePool(m) \in Memory
           /\ AllocatePool(m).pools = m.pools + 1
           /\ Mapped(m) \subseteq Mapped(AllocatePool(m))
           /\ \E f : /\ f # << >> /\ Chain(AllocatePool(m), f)
                     /\ ToSet(f) = Mapped(AllocatePool(m)) \ Mapped(m)
<1> DEFINE k == StacksPerPool
           from == StacksPerPool * m.pools
           to == from + k
           n == AllocatePool(m)
           f == [i \in 1 .. k |-> to + 1 - i]
<1>1. k \in Nat /\ k > 0 /\ m.pools \in 0 .. MaxPools
  BY StacksAssumption DEF Memory
<1>2. /\ from \in Nat /\ StacksPerPool * (m.pools + 1) = to
      /\ m.pools + 1 \in 0 .. MaxPools /\ 1 .. StacksPerPool * (m.pools + 1) \subseteq Stack
      /\ NoStack \notin Stack
  BY <1>1, Numbers
<1> HIDE DEF from, k
<1>3. 1 .. to \subseteq Stack
  BY <1>2
<1>4. /\ n.first = to /\ n.pools = m.pools + 1
      /\ n.top = [s \in Stack |-> IF s = from + 1 THEN m.first
                                  ELSE IF s \in from + 2 .. to THEN s - 1
                                  ELSE m.top[s]]
  BY DEF AllocatePool, from, k
<1>5. n \in Memory
  <2>1. \A s \in from + 2 .. to : s - 1 \in Stack
    BY <1>1, <1>2, <1>3
  <2>2. n.top \in [Stack -> Stack \cup {NoStack, Frame}]
    BY <1>4, <2>1 DEF Memory
  <2>3. to \in Stack
    BY <1>1, <1>2, <1>3
  <2>4. n = [first |-> n.first, top |-> n.top, pools |-> n.pools]
    BY DEF AllocatePool
  <2> HIDE DEF n
  <2> QED
    BY <1>2, <1>4, <2>2, <2>3, <2>4 DEF Memory
<1>6. Mapped(m) = 1 .. from /\ Mapped(n) = 1 .. to
  BY <1>2, <1>4 DEF Mapped, from
<1>7. f \in Seq(Stack) /\ Len(f) = k /\ \A i \in 1 .. k : f[i] = to + 1 - i
  <2>1. \A i \in 1 .. k : to + 1 - i \in Stack
    BY <1>1, <1>2, <1>3
  <2>2. f \in [1 .. k -> Stack]
    BY <2>1
  <2> QED
    BY <1>1, <2>2
<1> HIDE DEF n, f
<1>8. f # << >> /\ IsInjective(f)
  <2>1. DOMAIN f = 1 .. k
    BY <1>1, <1>7
  <2>2. IsInjective(f)
    BY <1>1, <1>2, <1>7, <2>1 DEF IsInjective
  <2> QED
    BY <1>1, <1>7, <2>2
<1>9. n.first = f[1]
  BY <1>1, <1>2, <1>4, <1>7
<1>10. ASSUME NEW i \in 1 .. k
       PROVE  n.top[f[i]] = IF i = k THEN NoStack ELSE f[i + 1]
  <2>1. f[i] = to + 1 - i /\ f[i] \in Stack
    BY <1>1, <1>2, <1>3, <1>7
  <2>2. CASE i = k
    BY <1>1, <1>2, <1>4, <2>1, <2>2
  <2>3. CASE i # k
    <3>1. i + 1 \in 1 .. k /\ f[i] # from + 1 /\ f[i] \in from + 2 .. to
      BY <1>1, <1>2, <2>1, <2>3
    <3>2. n.top[f[i]] = f[i] - 1
      BY <1>4, <2>1, <3>1
    <3> QED
      BY <1>1, <1>2, <1>7, <2>1, <2>3, <3>1, <3>2
  <2> QED
    BY <2>2, <2>3
<1>11. ToSet(f) = from + 1 .. to
  <2>1. ASSUME NEW s
        PROVE  s \in from + 1 .. to <=> \E i \in 1 .. Len(f) : f[i] = s
    <3>1. ASSUME s \in from + 1 .. to
          PROVE  to + 1 - s \in 1 .. k /\ f[to + 1 - s] = s
      <4>1. to + 1 - s \in 1 .. k /\ to + 1 - (to + 1 - s) = s
        BY <1>1, <1>2, <3>1
      <4> QED
        BY <1>7, <4>1
    <3>2. ASSUME NEW i \in 1 .. k
          PROVE  f[i] \in from + 1 .. to
      BY <1>1, <1>2, <1>7
    <3> QED
      BY <1>7, <3>1, <3>2
  <2> QED
    BY <1>7, <2>1, MemberHasPlace
<1>12. 1 .. from \subseteq 1 .. to /\ from + 1 .. to = (1 .. to) \ (1 .. from)
  BY <1>1, <1>2
<1>13. Chain(n, f)
  BY <1>7, <1>8, <1>9, <1>10 DEF Chain
<1> QED
  BY <1>4, <1>5, <1>6, <1>8, <1>11, <1>12, <1>13 DEF n

\* releaseStack(): the stack comes first in the chain.
LEMMA ReleasedIsFirst ==
    ASSUME NEW m \in Memory, NEW f, Chain(m, f), NEW s \in Stack, s \notin ToSet(f)
    PROVE  /\ Released(m, s) \in Memory /\ Released(m, s).first = s
           /\ Released(m, s).pools = m.pools
           /\ \E g : Chain(Released(m, s), g) /\ ToSet(g) = ToSet(f) \cup {s}
<1> DEFINE n == Released(m, s)
           L == Len(f)
           g == [i \in 1 .. L + 1 |-> IF i = 1 THEN s ELSE f[i - 1]]
<1>1. /\ f \in Seq(Stack) /\ IsInjective(f) /\ L \in Nat
      /\ \A i \in 1 .. L : f[i] \in Stack /\ f[i] # s
      /\ \A i, j \in 1 .. L : f[i] = f[j] => i = j
      /\ (f = << >> <=> L = 0)
  <2>1. f \in Seq(Stack) /\ IsInjective(f)
    BY DEF Chain
  <2>2. \A i \in 1 .. L : f[i] # s
    BY <2>1, MemberHasPlace
  <2> QED
    BY <2>1, <2>2 DEF IsInjective
<1>2. /\ n \in Memory /\ n.first = s /\ n.pools = m.pools
      /\ n.top = [m.top EXCEPT ![s] = m.first]
  BY DEF Released, Memory
<1>3. /\ g \in Seq(Stack) /\ Len(g) = L + 1 /\ g[1] = s
      /\ \A i \in 1 .. L : g[i + 1] = f[i]
  <2>1. g \in [1 .. L + 1 -> Stack]
    BY <1>1
  <2> QED
    BY <1>1, <2>1
<1>4. \A i \in 1 .. L + 1 : i # 1 => i - 1 \in 1 .. L /\ g[i] = f[i - 1]
  BY <1>1
<1> HIDE DEF n, g, L
<1>5. IsInjective(g)
  <2>1. DOMAIN g = 1 .. L + 1
    BY <1>1, <1>3
  <2>2. ASSUME NEW i \in 1 .. L + 1, NEW j \in 1 .. L + 1, g[i] = g[j]
        PROVE  i = j
    <3>1. CASE i = 1 \/ j = 1
      BY <1>1, <1>3, <1>4, <2>2, <3>1
    <3>2. CASE i # 1 /\ j # 1
      <4>1. i - 1 = j - 1
        BY <1>1, <1>4, <2>2, <3>2
      <4> QED
        BY <1>1, <4>1
    <3> QED
      BY <3>1, <3>2
  <2> QED
    BY <2>1, <2>2 DEF IsInjective
<1>6. ToSet(g) = ToSet(f) \cup {s}
  <2>1. ASSUME NEW x
        PROVE  (\E i \in 1 .. L + 1 : g[i] = x) <=> x = s \/ \E i \in 1 .. L : f[i] = x
    <3>1. 1 \in 1 .. L + 1 /\ \A i \in 1 .. L : i + 1 \in 1 .. L + 1
      BY <1>1
    <3> QED
      BY <1>3, <1>4, <3>1
  <2>2. ASSUME NEW x
        PROVE  x \in ToSet(g) <=> x \in ToSet(f) \cup {s}
    <3>1. x \in ToSet(g) <=> \E i \in 1 .. L + 1 : g[i] = x
      BY <1>3, MemberHasPlace
    <3>2. x \in ToSet(f) <=> \E i \in 1 .. L : f[i] = x
      BY <1>1, MemberHasPlace DEF L
    <3> QED
      BY <2>1, <3>1, <3>2
  <2> QED
    BY <2>2
<1>7. g # << >> /\ n.first = g[1]
  BY <1>1, <1>2, <1>3
<1>8. ASSUME NEW i \in 1 .. L + 1
      PROVE  n.top[g[i]] = IF i = L + 1 THEN NoStack ELSE g[i + 1]
  <2>1. CASE i = 1
    <3>1. n.top[g[1]] = m.first
      BY <1>2, <1>3 DEF Memory
    <3>2. m.first = IF L = 0 THEN NoStack ELSE f[1]
      BY <1>1 DEF Chain
    <3>3. L # 0 => 1 \in 1 .. L
      BY <1>1
    <3> QED
      BY <1>1, <1>3, <2>1, <3>1, <3>2, <3>3
  <2>2. CASE i # 1
    <3>1. i - 1 \in 1 .. L /\ g[i] = f[i - 1] /\ f[i - 1] # s /\ f[i - 1] \in Stack
      BY <1>1, <1>4, <2>2
    <3>2. n.top[g[i]] = m.top[f[i - 1]]
      BY <1>2, <3>1 DEF Memory
    <3>3. m.top[f[i - 1]] = IF i - 1 = L THEN NoStack ELSE f[i - 1 + 1]
      BY <3>1 DEF Chain, L
    <3>4. i - 1 + 1 = i /\ (i - 1 = L <=> i = L + 1)
      BY <1>1
    <3>5. i # L + 1 => g[i + 1] = f[i]
      <4>1. i # L + 1 => i \in 1 .. L
        BY <1>1
      <4> QED
        BY <1>3, <4>1
    <3> QED
      BY <3>2, <3>3, <3>4, <3>5
  <2> QED
    BY <2>1, <2>2
<1>9. Chain(n, g)
  BY <1>3, <1>5, <1>7, <1>8 DEF Chain
<1> QED
  BY <1>2, <1>6, <1>9 DEF n

\* The memory once acquireStack() has given out a stack and it is in use.
GivenOut(m) == [Acquired(m) EXCEPT !.top[AcquiredStack(m)] = Frame]

\* acquireStack(), with a new pool if it takes one: what was in use stays in
\* use, and one stack that was not is added.
LEMMA StackIsAcquired ==
    ASSUME NEW m \in Memory, NEW f, Chain(m, f), ToSet(f) \subseteq Mapped(m),
           m.first # NoStack \/ m.pools < MaxPools,
           NEW s, s = AcquiredStack(m),
           NEW n, n = GivenOut(m)
    PROVE  /\ n \in Memory /\ s \in Stack
           /\ n.pools = IF f = << >> THEN m.pools + 1 ELSE m.pools
           /\ \E g : /\ Chain(n, g) /\ ToSet(g) \subseteq Mapped(n)
                     /\ s \notin Mapped(m) \ ToSet(f)
                     /\ Mapped(n) \ ToSet(g) = (Mapped(m) \ ToSet(f)) \cup {s}
<1>1. f \in Seq(Stack) /\ NoStack \notin Stack /\ (f = << >> <=> m.first = NoStack)
  BY Numbers DEF Chain
<1>2. CASE f # << >>
  <2>1. Supplied(m) = m /\ s = m.first
    BY <1>1, <1>2 DEF Supplied, AcquiredStack
  <2>2. n = FirstTaken(m)
    BY <2>1 DEF GivenOut, Acquired, AcquiredStack, FirstTaken
  <2>3. /\ n \in Memory /\ n.pools = m.pools /\ Chain(n, Tail(f))
        /\ s \in ToSet(f) /\ ToSet(Tail(f)) = ToSet(f) \ {s}
    <3>1. /\ n \in Memory /\ n.pools = m.pools /\ Chain(n, Tail(f))
          /\ m.first \in ToSet(f) /\ ToSet(Tail(f)) = ToSet(f) \ {m.first}
      BY <1>2, <2>2, FirstIsTaken, Zenon
    <3> QED
      BY <2>1, <3>1, Zenon
  <2>4. Mapped(n) = Mapped(m)
    BY <2>3 DEF Mapped
  <2>5. s \in Stack
    BY <1>1, <1>2, <2>1 DEF Chain
  <2> QED
    BY <1>2, <2>3, <2>4, <2>5
<1>3. CASE f = << >>
  <2> DEFINE a == AllocatePool(m)
  <2>1. m.first = NoStack /\ m.pools < MaxPools /\ ToSet(f) = {}
    BY <1>1, <1>3, EmptyQueue
  <2>2. a \in Memory /\ a.pools = m.pools + 1 /\ Mapped(m) \subseteq Mapped(a)
    BY <2>1, PoolIsChained
  <2>3. PICK g : g # << >> /\ Chain(a, g) /\ ToSet(g) = Mapped(a) \ Mapped(m)
    BY <2>1, PoolIsChained
  <2>4. Supplied(m) = a /\ s = a.first
    BY <2>1 DEF Supplied, AcquiredStack
  <2>5. n = FirstTaken(a)
    BY <2>4 DEF GivenOut, Acquired, AcquiredStack, FirstTaken
  <2> HIDE DEF a
  <2>6. /\ n \in Memory /\ n.pools = a.pools /\ Chain(n, Tail(g))
        /\ s \in ToSet(g) /\ ToSet(Tail(g)) = ToSet(g) \ {s}
    <3>1. /\ n \in Memory /\ n.pools = a.pools /\ Chain(n, Tail(g))
          /\ a.first \in ToSet(g) /\ ToSet(Tail(g)) = ToSet(g) \ {a.first}
      BY <2>2, <2>3, <2>5, FirstIsTaken, Zenon
    <3> QED
      BY <2>4, <3>1, Zenon
  <2>7. Mapped(n) = Mapped(a)
    BY <2>6 DEF Mapped
  <2>8. s \in Stack
    BY <2>3, <2>4 DEF Chain
  <2>9. /\ ToSet(Tail(g)) \subseteq Mapped(n) /\ s \notin Mapped(m)
        /\ Mapped(n) \ ToSet(Tail(g)) = Mapped(m) \cup {s}
    BY <2>2, <2>3, <2>6, <2>7
  <2> QED
    BY <1>3, <2>1, <2>2, <2>6, <2>8, <2>9
<1> QED
  BY <1>2, <1>3

-----------------------------------------------------------------------------
(***************************************************************************)
(* Who is linked.                                                          *)
(***************************************************************************)

LEMMA LinkedAreSpelled ==
    ASSUME NEW s, NEW f, NEW l, NEW n, NEW p, SpelledBy(s, f, l, n, p), NEW t \in Thread
    PROVE  n[t] # Null <=> t \in ToSet(s)
<1> USE ListAssumption
<1>1. /\ s \in Seq(Thread) /\ Len(s) \in Nat
      /\ \A i \in 1 .. Len(s) : s[i] \in Thread
      /\ Len(s) > 0 => n[s[Len(s)]] = s[1]
      /\ \A i \in 1 .. Len(s) - 1 : n[s[i]] = s[i + 1]
      /\ (\A i \in 1 .. Len(s) : s[i] # t) => n[t] = Null
  BY RingFacts
<1>2. ASSUME NEW i \in 1 .. Len(s), s[i] = t
      PROVE  n[t] # Null
  <2>1. 1 \in 1 .. Len(s) /\ Len(s) > 0
    BY <1>1
  <2>2. CASE i = Len(s)
    BY <1>1, <1>2, <2>1, <2>2
  <2>3. CASE i # Len(s)
    <3>1. i \in 1 .. Len(s) - 1 /\ i + 1 \in 1 .. Len(s)
      BY <1>1, <2>3
    <3> QED
      BY <1>1, <1>2, <3>1
  <2> QED
    BY <2>2, <2>3
<1> QED
  BY <1>1, <1>2, MemberHasPlace

LEMMA LinkLastLinks ==
    ASSUME ListInv, NEW t \in Thread, LinkLast(t)
    PROVE  /\ ListInv' /\ ~Linked(t)
           /\ \A u \in Thread : Linked(u)' <=> Linked(u) \/ u = t
<1>1. PICK s : Spells(s)
  BY DEF ListInv
<1>2. ListTypeOK' /\ Spells(Append(s, t))' /\ t \notin ToSet(s)
  BY <1>1, LinkLastSpells DEF ListInv
<1>3. /\ SpelledBy(s, first, last, next, previous)
      /\ SpelledBy(Append(s, t), first', last', next', previous')
  BY <1>1, <1>2 DEF Spells, SpelledBy
<1>4. s \in Seq(Thread) /\ IsInjective(s)
  BY <1>1 DEF Spells
<1>5. ToSet(Append(s, t)) = ToSet(s) \cup {t}
  BY <1>2, <1>4, Appended
<1>6. \A u \in Thread : (next[u] # Null <=> u \in ToSet(s)) /\ (next'[u] # Null <=> u \in ToSet(Append(s, t)))
  BY <1>3, LinkedAreSpelled
<1>7. ListInv'
  BY <1>2 DEF ListInv
<1> QED
  BY <1>2, <1>5, <1>6, <1>7 DEF Linked

LEMMA UnlinkUnlinks ==
    ASSUME ListInv, NEW t \in Thread, Unlink(t)
    PROVE  /\ ListInv' /\ Linked(t)
           /\ \A u \in Thread : Linked(u)' <=> Linked(u) /\ u # t
<1>1. PICK s : Spells(s)
  BY DEF ListInv
<1>2. ListTypeOK' /\ Spells(Without(s, t))' /\ t \in ToSet(s)
  BY <1>1, UnlinkSpells DEF ListInv
<1>3. /\ SpelledBy(s, first, last, next, previous)
      /\ SpelledBy(Without(s, t), first', last', next', previous')
  BY <1>1, <1>2 DEF Spells, SpelledBy
<1>4. s \in Seq(Thread) /\ IsInjective(s)
  BY <1>1 DEF Spells
<1>5. ToSet(Without(s, t)) = ToSet(s) \ {t}
  BY <1>2, <1>4, Removed
<1>6. \A u \in Thread : (next[u] # Null <=> u \in ToSet(s)) /\ (next'[u] # Null <=> u \in ToSet(Without(s, t)))
  BY <1>3, LinkedAreSpelled
<1>7. ListInv'
  BY <1>2 DEF ListInv
<1> QED
  BY <1>2, <1>5, <1>6, <1>7 DEF Linked

\* ~Thread() takes the thread out if it is linked.
LEMMA RemovedIsNotLinked ==
    ASSUME ListInv, NEW t \in Thread, RemoveReady(t)
    PROVE  ListInv' /\ \A u \in Thread : Linked(u)' <=> Linked(u) /\ u # t
<1>1. CASE Linked(t)
  BY <1>1, UnlinkUnlinks DEF RemoveReady
<1>2. CASE ~Linked(t)
  BY <1>2 DEF RemoveReady, Linked, vars, ListInv, ListTypeOK, Spells
<1> QED
  BY <1>1, <1>2

\* The thread that processReady() takes was linked.
LEMMA FirstIsLinked ==
    ASSUME ListInv, TakeFirst
    PROVE  \E t \in Thread : t = first /\ Unlink(t)
  BY DEF TakeFirst, ListInv, ListTypeOK

-----------------------------------------------------------------------------
(***************************************************************************)
(* The inductive invariant of the runtime.                                 *)
(***************************************************************************)

\* The free stacks are a chain, and those of the threads are not in it.
Supply(f) ==
    /\ Chain(mem, f) /\ ToSet(f) \subseteq Mapped(mem)
    /\ \A t \in Live : stackTop[t] \in Mapped(mem) \ ToSet(f)

\* Each thread has a stack of its own, on which its context is.
Apart ==
    /\ \A t, u \in Live : stackTop[t] = stackTop[u] => t = u
    /\ \A t \in Live : context[t] = stackTop[t]

RuntimeInv ==
    /\ ListInv /\ RuntimeTypeOK
    /\ \E f : Supply(f)
    /\ Apart /\ StandsOnOwnStack /\ ReadyAreResumable
    /\ blocked \cap over = {}

LEMMA RuntimeInvInit == RuntimeInit => RuntimeInv
<1>1. SUFFICES ASSUME RuntimeInit PROVE RuntimeInv
  OBVIOUS
<1>2. Live = {} /\ sp = NoStack /\ blocked = {} /\ over = {} /\ current = Null
  BY <1>1 DEF RuntimeInit, Live
<1>3. ListInv /\ \A t \in Thread : ~Linked(t)
  BY <1>1, InitRing DEF RuntimeInit, ListInv, Init, Linked
<1>4. RuntimeTypeOK
  <2>1. 0 \in 0 .. MaxPools
    BY StacksAssumption
  <2>2. mem \in Memory
    BY <1>1, <2>1 DEF RuntimeInit, NoPool, Memory
  <2> QED
    BY <1>1, <1>2, <2>2 DEF RuntimeInit, RuntimeTypeOK
<1>5. Supply(<< >>)
  <2>1. /\ << >> \in Seq(Stack) /\ IsInjective(<< >>) /\ ToSet(<< >>) = {}
        /\ 1 .. Len(<< >>) = {}
    BY DEF IsInjective, ToSet
  <2>2. mem.first = NoStack
    BY <1>1 DEF RuntimeInit, NoPool
  <2> QED
    BY <1>2, <2>1, <2>2 DEF Supply, Chain
<1>6. Apart /\ StandsOnOwnStack /\ ReadyAreResumable
  BY <1>2, <1>3 DEF Apart, StandsOnOwnStack, ReadyAreResumable
<1> QED
  BY <1>2, <1>3, <1>4, <1>5, <1>6 DEF RuntimeInv

\* Whoever calls the library on a stack of its own is Thread::current.
LEMMA CallerIsCurrent ==
    ASSUME RuntimeInv, Active
    PROVE  /\ sp # NoStack =>
                  /\ current \in Live /\ stackTop[current] = sp
                  /\ current \notin blocked \cup over
           /\ \A t \in Thread : OnStack(t) => sp # NoStack /\ t = current
<1>1. /\ Apart /\ StandsOnOwnStack /\ current \in Live \cup {Null}
      /\ Live = {t \in Thread : stackTop[t] # NoStack}
  BY DEF RuntimeInv, RuntimeTypeOK, Live
<1>2. ASSUME sp # NoStack
      PROVE  current \in Live /\ stackTop[current] = sp
  BY <1>1, <1>2 DEF StandsOnOwnStack
<1>3. ASSUME NEW t \in Thread, OnStack(t)
      PROVE  sp # NoStack /\ t = current
  BY <1>1, <1>2, <1>3 DEF OnStack, Apart
<1>4. ASSUME sp # NoStack
      PROVE  current \notin blocked \cup over
  BY <1>3, <1>4 DEF Active
<1> QED
  BY <1>2, <1>3, <1>4

LEMMA CreateKeeps ==
    ASSUME RuntimeInv, NEW t \in Thread, Create(t)
    PROVE  RuntimeInv'
<1> USE ListAssumption
<1> DEFINE s == AcquiredStack(mem)
<1>1. /\ Active /\ t \notin Live /\ LinkLast(t)
      /\ mem.first # NoStack \/ mem.pools < MaxPools
      /\ mem' = GivenOut(mem)
      /\ stackTop' = [stackTop EXCEPT ![t] = s]
      /\ context' = [context EXCEPT ![t] = s]
      /\ UNCHANGED <<current, sp, blocked, over>>
  BY DEF Create, GivenOut
<1>2. RuntimeTypeOK /\ Apart /\ StandsOnOwnStack /\ ReadyAreResumable /\ blocked \cap over = {}
  BY DEF RuntimeInv
<1>3. PICK f : Supply(f)
  BY DEF RuntimeInv
<1>4. /\ ListInv' /\ ~Linked(t)
      /\ \A u \in Thread : Linked(u)' <=> Linked(u) \/ u = t
  BY <1>1, LinkLastLinks DEF RuntimeInv
<1>5. /\ mem' \in Memory /\ s \in Stack
      /\ \E g : /\ Chain(mem', g) /\ ToSet(g) \subseteq Mapped(mem')
                /\ s \notin Mapped(mem) \ ToSet(f)
                /\ Mapped(mem') \ ToSet(g) = (Mapped(mem) \ ToSet(f)) \cup {s}
  <2>1. mem \in Memory /\ Chain(mem, f) /\ ToSet(f) \subseteq Mapped(mem)
    BY <1>2, <1>3 DEF RuntimeTypeOK, Supply
  <2> QED
    BY <1>1, <2>1, StackIsAcquired
<1>6. PICK g : /\ Chain(mem', g) /\ ToSet(g) \subseteq Mapped(mem')
               /\ s \notin Mapped(mem) \ ToSet(f)
               /\ Mapped(mem') \ ToSet(g) = (Mapped(mem) \ ToSet(f)) \cup {s}
  BY <1>5
<1> HIDE DEF s
<1>7. /\ stackTop'[t] = s /\ context'[t] = s /\ s # NoStack
      /\ \A u \in Thread : u # t => stackTop'[u] = stackTop[u] /\ context'[u] = context[u]
      /\ Live' = Live \cup {t}
  <2>1. s # NoStack
    BY <1>5, Numbers
  <2>2. /\ stackTop'[t] = s /\ context'[t] = s
        /\ \A u \in Thread : u # t => stackTop'[u] = stackTop[u] /\ context'[u] = context[u]
    BY <1>1, <1>2 DEF RuntimeTypeOK
  <2> QED
    BY <2>1, <2>2 DEF Live
<1>8. \A u \in Live : u \in Thread /\ u # t /\ stackTop[u] \in Mapped(mem) \ ToSet(f) /\ stackTop[u] # s
  BY <1>1, <1>3, <1>6 DEF Supply, Live
<1>9. RuntimeTypeOK'
  BY <1>1, <1>2, <1>5, <1>7 DEF RuntimeTypeOK
<1>10. Supply(g)'
  BY <1>6, <1>7, <1>8 DEF Supply
<1>11. Apart'
  BY <1>2, <1>7, <1>8 DEF Apart
<1>12. sp # NoStack => current \in Live /\ stackTop[current] = sp
  BY <1>1, CallerIsCurrent
<1>13. StandsOnOwnStack'
  BY <1>1, <1>7, <1>8, <1>12 DEF StandsOnOwnStack, Live
<1>14. ReadyAreResumable'
  <2>1. ASSUME NEW u \in Thread, Linked(u)'
        PROVE  u \in (Live \ (blocked \cup over))' /\ ~OnStack(u)'
    <3>1. CASE u = t
      <4>1. t \notin blocked \cup over
        BY <1>1, <1>2 DEF RuntimeTypeOK
      <4>2. sp # s
        BY <1>7, <1>8, <1>12
      <4> QED
        BY <1>1, <1>7, <3>1, <4>1, <4>2 DEF OnStack
    <3>2. CASE u # t
      <4>1. u \in Live \ (blocked \cup over) /\ ~OnStack(u)
        BY <1>2, <1>4, <2>1, <3>2 DEF ReadyAreResumable
      <4> QED
        BY <1>1, <1>7, <3>2, <4>1 DEF OnStack
    <3> QED
      BY <3>1, <3>2
  <2> QED
    BY <2>1 DEF ReadyAreResumable
<1> QED
  BY <1>1, <1>2, <1>4, <1>9, <1>10, <1>11, <1>13, <1>14 DEF RuntimeInv

LEMMA DestroyKeeps ==
    ASSUME RuntimeInv, NEW t \in Thread, t \in Live, Active, Destroy(t)
    PROVE  RuntimeInv'
<1> USE ListAssumption
<1> DEFINE s == stackTop[t]
<1>1. /\ RemoveReady(t) /\ mem' = Released(mem, s)
      /\ stackTop' = [stackTop EXCEPT ![t] = NoStack]
      /\ blocked' = blocked \ {t} /\ over' = over \ {t}
      /\ current' = IF current = t THEN Null ELSE current
      /\ UNCHANGED <<context, sp>>
  BY DEF Destroy
<1>2. RuntimeTypeOK /\ Apart /\ StandsOnOwnStack /\ ReadyAreResumable /\ blocked \cap over = {}
  BY DEF RuntimeInv
<1>3. PICK f : Supply(f)
  BY DEF RuntimeInv
<1>4. ListInv' /\ \A u \in Thread : Linked(u)' <=> Linked(u) /\ u # t
  BY <1>1, RemovedIsNotLinked DEF RuntimeInv
<1>5. s \in Stack /\ s \notin ToSet(f) /\ s \in Mapped(mem) /\ s # NoStack
  BY <1>2, <1>3 DEF RuntimeTypeOK, Live, Supply
<1>6. /\ mem' \in Memory /\ mem'.first = s /\ mem'.pools = mem.pools
      /\ \E g : Chain(mem', g) /\ ToSet(g) = ToSet(f) \cup {s}
  <2>1. mem \in Memory /\ Chain(mem, f)
    BY <1>2, <1>3 DEF RuntimeTypeOK, Supply
  <2> QED
    BY <1>1, <1>5, <2>1, ReleasedIsFirst
<1>7. PICK g : Chain(mem', g) /\ ToSet(g) = ToSet(f) \cup {s}
  BY <1>6
<1>8. Mapped(mem') = Mapped(mem)
  BY <1>6 DEF Mapped
<1>9. /\ stackTop'[t] = NoStack
      /\ \A u \in Thread : u # t => stackTop'[u] = stackTop[u]
      /\ Live' = Live \ {t}
  <2>1. /\ stackTop'[t] = NoStack
        /\ \A u \in Thread : u # t => stackTop'[u] = stackTop[u]
    BY <1>1, <1>2 DEF RuntimeTypeOK
  <2> QED
    BY <2>1 DEF Live
<1>10. \A u \in Live : u # t => stackTop[u] # s
  BY <1>2 DEF Apart
<1>11. RuntimeTypeOK'
  BY <1>1, <1>2, <1>6, <1>9 DEF RuntimeTypeOK
<1>12. Supply(g)'
  <2>1. ToSet(g) \subseteq Mapped(mem')
    BY <1>3, <1>5, <1>7, <1>8 DEF Supply
  <2>2. ASSUME NEW u \in Live'
        PROVE  stackTop'[u] \in Mapped(mem') \ ToSet(g)
    <3>1. u \in Live /\ u \in Thread /\ u # t
      BY <1>9, <2>2 DEF Live
    <3> QED
      BY <1>3, <1>7, <1>8, <1>9, <1>10, <3>1 DEF Supply
  <2> QED
    BY <1>7, <2>1, <2>2 DEF Supply
<1>13. Apart'
  <2>1. \A u \in Live' : u \in Live /\ u \in Thread /\ u # t
    BY <1>9 DEF Live
  <2> QED
    BY <1>1, <1>2, <1>9, <2>1 DEF Apart
<1>14. StandsOnOwnStack'
  <2>1. SUFFICES ASSUME sp # NoStack
                 PROVE  \/ current' # Null /\ stackTop'[current'] = sp
                        \/ current' = Null /\ mem'.first = sp /\ ~Active'
    BY <1>1 DEF StandsOnOwnStack
  <2>2. current \in Live /\ current \in Thread /\ current # Null /\ stackTop[current] = sp
    BY <2>1, CallerIsCurrent DEF Live
  <2>3. CASE t = current
    <3>1. \A u \in Thread : stackTop'[u] # sp
      BY <1>9, <1>10, <2>1, <2>2, <2>3 DEF Live
    <3> QED
      BY <1>1, <1>6, <2>1, <2>2, <2>3, <3>1 DEF Active, OnStack
  <2>4. CASE t # current
    BY <1>1, <1>9, <2>2, <2>4
  <2> QED
    BY <2>3, <2>4
<1>15. ReadyAreResumable'
  <2>1. ASSUME NEW u \in Thread, Linked(u)'
        PROVE  u \in (Live \ (blocked \cup over))' /\ ~OnStack(u)'
    <3>1. u # t /\ u \in Live \ (blocked \cup over) /\ ~OnStack(u)
      BY <1>2, <1>4, <2>1 DEF ReadyAreResumable
    <3> QED
      BY <1>1, <1>9, <3>1 DEF OnStack
  <2> QED
    BY <2>1 DEF ReadyAreResumable
<1> QED
  BY <1>1, <1>2, <1>4, <1>11, <1>12, <1>13, <1>14, <1>15 DEF RuntimeInv

LEMMA BlockKeeps ==
    ASSUME RuntimeInv, Block
    PROVE  RuntimeInv'
<1>1. /\ Active /\ sp # NoStack
      /\ context' = [context EXCEPT ![current] = sp]
      /\ blocked' = blocked \cup {current}
      /\ UNCHANGED <<list, mem, stackTop, current, sp, over>>
  BY DEF Block, SaveContext
<1>2. RuntimeTypeOK /\ Apart /\ StandsOnOwnStack /\ ReadyAreResumable /\ blocked \cap over = {}
  BY DEF RuntimeInv
<1>3. /\ current \in Live /\ current \in Thread /\ stackTop[current] = sp
      /\ current \notin blocked \cup over /\ OnStack(current)
  BY <1>1, CallerIsCurrent DEF Live, OnStack
<1>4. /\ UNCHANGED <<first, last, next, previous>>
      /\ Live' = Live /\ (\A t \in Thread : OnStack(t)' <=> OnStack(t))
      /\ \A t \in Thread : Linked(t)' <=> Linked(t)
  BY <1>1 DEF list, Live, OnStack, Linked
<1>5. ListInv'
  BY <1>4 DEF RuntimeInv, ListInv, ListTypeOK, Spells
<1>6. RuntimeTypeOK'
  BY <1>1, <1>2, <1>3, <1>4 DEF RuntimeTypeOK
<1>7. (\E f : Supply(f))'
  BY <1>1, <1>4 DEF RuntimeInv, Supply
<1>8. context' = context
  BY <1>1, <1>2, <1>3 DEF Apart, RuntimeTypeOK
<1>9. Apart' /\ StandsOnOwnStack'
  BY <1>1, <1>2, <1>3, <1>4, <1>8 DEF Apart, StandsOnOwnStack, RuntimeTypeOK
<1>10. ReadyAreResumable'
  BY <1>1, <1>2, <1>3, <1>4 DEF ReadyAreResumable
<1> QED
  BY <1>1, <1>2, <1>3, <1>5, <1>6, <1>7, <1>9, <1>10 DEF RuntimeInv

\* A thread is released: its blocker is reset and it is linked.
LEMMA ReleaseKeeps ==
    ASSUME RuntimeInv, Active, NEW t \in Thread, t \in blocked, LinkLast(t),
           blocked' = blocked \ {t}, over' = over \/ \E u \in Thread : OnStack(u) /\ over' = over \cup {u},
           UNCHANGED <<mem, stackTop, context, current, sp>>
    PROVE  RuntimeInv'
<1>1. RuntimeTypeOK /\ Apart /\ StandsOnOwnStack /\ ReadyAreResumable /\ blocked \cap over = {}
  BY DEF RuntimeInv
<1>2. /\ \A u \in Thread : OnStack(u) => /\ sp # NoStack /\ u = current /\ u \in Live
                                         /\ u \notin blocked \cup over
  BY CallerIsCurrent
<1>3. ListInv' /\ ~Linked(t) /\ \A u \in Thread : Linked(u)' <=> Linked(u) \/ u = t
  BY LinkLastLinks DEF RuntimeInv
<1>4. Live' = Live /\ \A u \in Thread : OnStack(u)' <=> OnStack(u)
  BY DEF Live, OnStack
<1>5. over \subseteq over' /\ \A u \in over' : u \in over \/ (u \in Live /\ OnStack(u) /\ u \notin blocked)
  BY <1>2
<1>6. RuntimeTypeOK'
  BY <1>1, <1>4, <1>5 DEF RuntimeTypeOK
<1>7. (\E f : Supply(f))'
  BY <1>4 DEF RuntimeInv, Supply
<1>8. Apart'
  BY <1>1, <1>4 DEF Apart
<1>9. StandsOnOwnStack'
  <2>1. sp # NoStack => current # Null /\ stackTop[current] = sp
    BY <1>1, CallerIsCurrent, ListAssumption DEF Live
  <2> QED
    BY <2>1 DEF StandsOnOwnStack
<1>10. ReadyAreResumable'
  <2>1. ASSUME NEW u \in Thread, Linked(u)'
        PROVE  u \in (Live \ (blocked \cup over))' /\ ~OnStack(u)'
    <3>1. CASE u = t
      BY <1>1, <1>2, <1>4, <1>5, <3>1 DEF RuntimeTypeOK
    <3>2. CASE u # t
      <4>1. u \in Live \ (blocked \cup over) /\ ~OnStack(u)
        BY <1>1, <1>3, <2>1, <3>2 DEF ReadyAreResumable
      <4> QED
        BY <1>4, <1>5, <4>1
    <3> QED
      BY <3>1, <3>2
  <2> QED
    BY <2>1 DEF ReadyAreResumable
<1>11. (blocked \cap over)' = {}
  BY <1>1, <1>5
<1> QED
  BY <1>3, <1>6, <1>7, <1>8, <1>9, <1>10, <1>11 DEF RuntimeInv

LEMMA EndJoinableKeeps ==
    ASSUME RuntimeInv, NEW t \in Thread, EndJoinable(t)
    PROVE  RuntimeInv'
<1>1. /\ Active /\ OnStack(t) /\ over' = over \cup {t}
      /\ UNCHANGED <<mem, stackTop, context, current, sp>>
  BY DEF EndJoinable
<1>2. CASE \E j \in Thread : j \in blocked /\ LinkLast(j) /\ blocked' = blocked \ {j}
  BY <1>1, <1>2, ReleaseKeeps
<1>3. CASE UNCHANGED <<list, blocked>>
  <2>1. RuntimeTypeOK /\ Apart /\ StandsOnOwnStack /\ ReadyAreResumable /\ blocked \cap over = {}
    BY DEF RuntimeInv
  <2>2. /\ t \in Live /\ t \notin blocked \cup over
        /\ sp # NoStack /\ current # Null /\ stackTop[current] = sp
    BY <1>1, CallerIsCurrent, ListAssumption DEF Live
  <2>3. /\ UNCHANGED <<first, last, next, previous>>
        /\ Live' = Live /\ (\A u \in Thread : OnStack(u)' <=> OnStack(u))
        /\ \A u \in Thread : Linked(u)' <=> Linked(u)
    BY <1>1, <1>3 DEF list, Live, OnStack, Linked
  <2>4. ListInv'
    BY <2>3 DEF RuntimeInv, ListInv, ListTypeOK, Spells
  <2>5. RuntimeTypeOK'
    BY <1>1, <1>3, <2>1, <2>2, <2>3 DEF RuntimeTypeOK
  <2>6. (\E f : Supply(f))'
    BY <1>1, <2>3 DEF RuntimeInv, Supply
  <2>7. Apart' /\ StandsOnOwnStack'
    BY <1>1, <2>1, <2>2, <2>3 DEF Apart, StandsOnOwnStack
  <2>8. ReadyAreResumable'
    BY <1>1, <1>3, <2>1, <2>3 DEF ReadyAreResumable
  <2> QED
    BY <1>1, <1>3, <2>1, <2>2, <2>4, <2>5, <2>6, <2>7, <2>8 DEF RuntimeInv
<1> QED
  BY <1>2, <1>3 DEF EndJoinable

LEMMA ProcessReadyKeeps ==
    ASSUME RuntimeInv, ProcessReady, UNCHANGED <<mem, stackTop, context, blocked, over>>
    PROVE  RuntimeInv'
<1>1. RuntimeTypeOK /\ Apart /\ ReadyAreResumable /\ blocked \cap over = {}
  BY DEF RuntimeInv
<1>2. PICK t \in Thread : t = first /\ Unlink(t)
  BY FirstIsLinked DEF ProcessReady, RuntimeInv
<1>3. ListInv' /\ Linked(t) /\ \A u \in Thread : Linked(u)' <=> Linked(u) /\ u # t
  BY <1>2, UnlinkUnlinks DEF RuntimeInv
<1>4. t \in Live /\ t # Null /\ stackTop[t] # NoStack /\ context[t] = stackTop[t]
  BY <1>1, <1>3, ListAssumption DEF ReadyAreResumable, Live, Apart
<1>5. current' = t /\ sp' = stackTop[t] /\ Live' = Live
  BY <1>2, <1>4 DEF ProcessReady, RestoreContext, Live
<1>6. RuntimeTypeOK'
  BY <1>1, <1>4, <1>5 DEF RuntimeTypeOK
<1>7. (\E f : Supply(f))'
  BY <1>5 DEF RuntimeInv, Supply
<1>8. Apart' /\ StandsOnOwnStack'
  BY <1>1, <1>4, <1>5 DEF Apart, StandsOnOwnStack
<1>9. ReadyAreResumable'
  <2>1. ASSUME NEW u \in Thread, Linked(u)'
        PROVE  u \in (Live \ (blocked \cup over))' /\ ~OnStack(u)'
    <3>1. u # t /\ u \in Live \ (blocked \cup over)
      BY <1>1, <1>3, <2>1 DEF ReadyAreResumable
    <3>2. stackTop[u] # stackTop[t]
      BY <1>1, <1>4, <3>1 DEF Apart
    <3> QED
      BY <1>5, <3>1, <3>2 DEF OnStack
  <2> QED
    BY <2>1 DEF ReadyAreResumable
<1> QED
  BY <1>1, <1>3, <1>6, <1>7, <1>8, <1>9 DEF RuntimeInv

\* schedule() with nobody ready.
LEMMA BackToLoopKeeps ==
    ASSUME RuntimeInv, sp' = NoStack,
           UNCHANGED <<list, current, mem, stackTop, context, blocked, over>>
    PROVE  RuntimeInv'
<1>1. RuntimeTypeOK /\ Apart /\ ReadyAreResumable /\ blocked \cap over = {}
  BY DEF RuntimeInv
<1>2. /\ UNCHANGED <<first, last, next, previous>>
      /\ Live' = Live /\ \A u \in Thread : (Linked(u)' <=> Linked(u)) /\ ~OnStack(u)'
  BY DEF list, Live, OnStack, Linked
<1>3. ListInv'
  BY <1>2 DEF RuntimeInv, ListInv, ListTypeOK, Spells
<1>4. (\E f : Supply(f))'
  BY <1>2 DEF RuntimeInv, Supply
<1>5. RuntimeTypeOK' /\ Apart' /\ StandsOnOwnStack' /\ ReadyAreResumable'
  BY <1>1, <1>2 DEF RuntimeTypeOK, Apart, StandsOnOwnStack, ReadyAreResumable
<1> QED
  BY <1>1, <1>3, <1>4, <1>5 DEF RuntimeInv

LEMMA RuntimeInvStep == RuntimeInv /\ [RuntimeNext]_runtimeVars => RuntimeInv'
<1>1. SUFFICES ASSUME RuntimeInv, [RuntimeNext]_runtimeVars PROVE RuntimeInv'
  OBVIOUS
<1>2. ASSUME NEW t \in Thread, Create(t)
      PROVE  RuntimeInv'
  BY <1>1, <1>2, CreateKeeps
<1>3. CASE Block
  BY <1>1, <1>3, BlockKeeps
<1>4. ASSUME NEW t \in Thread, Wake(t)
      PROVE  RuntimeInv'
  BY <1>1, <1>4, ReleaseKeeps DEF Wake
<1>5. ASSUME NEW t \in Thread, Delete(t)
      PROVE  RuntimeInv'
  BY <1>1, <1>5, DestroyKeeps DEF Delete
<1>6. ASSUME NEW t \in Thread, EndJoinable(t)
      PROVE  RuntimeInv'
  BY <1>1, <1>6, EndJoinableKeeps
<1>7. ASSUME NEW t \in Thread, EndDetached(t)
      PROVE  RuntimeInv'
  <2>1. t \in Live
    BY <1>7 DEF EndDetached, OnStack, Live
  <2> QED
    BY <1>1, <1>7, <2>1, DestroyKeeps DEF EndDetached
<1>8. CASE Schedule
  BY <1>1, <1>8, ProcessReadyKeeps, BackToLoopKeeps DEF Schedule
<1>9. CASE RunReady
  BY <1>1, <1>9, ProcessReadyKeeps DEF RunReady
<1>10. CASE UNCHANGED runtimeVars
  <2>1. UNCHANGED <<first, last, next, previous, mem, stackTop, context, current, sp, blocked, over>>
    BY <1>10 DEF runtimeVars, list
  <2>2. RuntimeTypeOK /\ Apart /\ StandsOnOwnStack /\ ReadyAreResumable /\ blocked \cap over = {}
    BY <1>1 DEF RuntimeInv
  <2>3. /\ Live' = Live /\ (\A u \in Thread : OnStack(u)' <=> OnStack(u))
        /\ \A u \in Thread : Linked(u)' <=> Linked(u)
    BY <2>1 DEF Live, OnStack, Linked
  <2>4. ListInv'
    BY <1>1, <2>1 DEF RuntimeInv, ListInv, ListTypeOK, Spells
  <2>5. (\E f : Supply(f))'
    BY <1>1, <2>1, <2>3 DEF RuntimeInv, Supply
  <2>6. RuntimeTypeOK' /\ Apart' /\ ReadyAreResumable'
    BY <2>1, <2>2, <2>3 DEF RuntimeTypeOK, Apart, ReadyAreResumable
  <2>7. StandsOnOwnStack'
    BY <2>1, <2>2, <2>3 DEF StandsOnOwnStack, Active
  <2> QED
    BY <2>1, <2>2, <2>4, <2>5, <2>6, <2>7 DEF RuntimeInv
<1> QED
  BY <1>1, <1>2, <1>3, <1>4, <1>5, <1>6, <1>7, <1>8, <1>9, <1>10 DEF RuntimeNext

LEMMA RuntimeInvHolds == RuntimeSpec => []RuntimeInv
  BY RuntimeInvInit, RuntimeInvStep, PTL DEF RuntimeSpec

-----------------------------------------------------------------------------
(***************************************************************************)
(* The theorems.                                                           *)
(***************************************************************************)

\* The variables have their types.
THEOREM RuntimeTypeCorrect == RuntimeSpec => []RuntimeTypeOK
<1>1. RuntimeInv => RuntimeTypeOK
  BY DEF RuntimeInv
<1> QED
  BY <1>1, RuntimeInvHolds, PTL

\* No two threads share a stack, none has a free one, and the context of each
\* is on its own, however many threads there are and however large the pools.
THEOREM StacksAreOwned == RuntimeSpec => []OwnStack
<1>1. RuntimeInv => OwnStack
  <2>1. SUFFICES ASSUME RuntimeInv PROVE OwnStack
    OBVIOUS
  <2>2. PICK f : Supply(f)
    BY <2>1 DEF RuntimeInv
  <2>3. Free(mem) = ToSet(f)
    BY <2>2, ChainIsFree DEF Supply
  <2> QED
    BY <2>1, <2>2, <2>3 DEF OwnStack, Apart, RuntimeInv, Supply
<1> QED
  BY <1>1, RuntimeInvHolds, PTL

\* The processor stands on the stack of Thread::current, or on the one that a
\* thread which deleted itself has just given back and nobody has taken.
THEOREM ProcessorIsWithCurrent == RuntimeSpec => []StandsOnOwnStack
<1>1. RuntimeInv => StandsOnOwnStack
  BY DEF RuntimeInv
<1> QED
  BY <1>1, RuntimeInvHolds, PTL

\* schedule() and run() only ever resume a thread that exists, waits for
\* nothing and is not over.
THEOREM OnlyResumableAreReady == RuntimeSpec => []ReadyAreResumable
<1>1. RuntimeInv => ReadyAreResumable
  BY DEF RuntimeInv
<1> QED
  BY <1>1, RuntimeInvHolds, PTL

\* acquireStack() and releaseStack(), with allocatePool(), implement the
\* allocator.
THEOREM ImplementsAllocator == RuntimeSpec => AllocatorSpec
<1> DEFINE used == Mapped(mem) \ Free(mem)
           capacity == StacksPerPool * mem.pools
<1>1. RuntimeInit => Stacks!Init
  <2>1. SUFFICES ASSUME RuntimeInit PROVE used = {} /\ capacity = 0
    BY DEF Stacks!Init
  <2>2. mem.pools = 0 /\ StacksPerPool \in Nat
    BY <2>1, StacksAssumption DEF RuntimeInit, NoPool
  <2>3. capacity = 0 /\ 1 .. capacity = {}
    BY <2>2
  <2> QED
    BY <2>3 DEF Mapped
<1>2. RuntimeInv /\ RuntimeInv' /\ [RuntimeNext]_runtimeVars => [Stacks!Next]_<<used, capacity>>
  <2>1. SUFFICES ASSUME RuntimeInv, RuntimeInv', [RuntimeNext]_runtimeVars
                 PROVE  [Stacks!Next]_<<used, capacity>>
    OBVIOUS
  <2>2. PICK f : Supply(f)
    BY <2>1 DEF RuntimeInv
  <2>3. mem \in Memory /\ used = Mapped(mem) \ ToSet(f)
    BY <2>1, <2>2, ChainIsFree DEF RuntimeInv, RuntimeTypeOK, Supply
  <2>4. ASSUME NEW t \in Thread, Create(t)
        PROVE  Stacks!Acquire
    <3> DEFINE s == AcquiredStack(mem)
    <3>1. /\ mem.first # NoStack \/ mem.pools < MaxPools
          /\ mem' = GivenOut(mem)
      BY <2>4 DEF Create, GivenOut
    <3>2. /\ s \in Stack /\ mem'.pools = IF f = << >> THEN mem.pools + 1 ELSE mem.pools
          /\ \E g : /\ Chain(mem', g) /\ ToSet(g) \subseteq Mapped(mem')
                    /\ s \notin Mapped(mem) \ ToSet(f)
                    /\ Mapped(mem') \ ToSet(g) = (Mapped(mem) \ ToSet(f)) \cup {s}
      <4>1. mem \in Memory /\ Chain(mem, f) /\ ToSet(f) \subseteq Mapped(mem)
        BY <2>2, <2>3 DEF Supply
      <4>2. s = AcquiredStack(mem)
        OBVIOUS
      <4> HIDE DEF s
      <4> QED
        BY <3>1, <4>1, <4>2, StackIsAcquired
    <3>3. PICK g : /\ Chain(mem', g) /\ s \notin Mapped(mem) \ ToSet(f)
                   /\ Mapped(mem') \ ToSet(g) = (Mapped(mem) \ ToSet(f)) \cup {s}
      BY <3>2
    <3> HIDE DEF s
    <3>4. Free(mem') = ToSet(g)
      BY <3>3, ChainIsFree
    <3>5. used' = used \cup {s} /\ s \notin used /\ s \in 1 .. capacity'
      <4>1. used' = Mapped(mem') \ ToSet(g)
        BY <3>4 DEF Free, Mapped
      <4>2. s \in Mapped(mem')
        BY <3>3
      <4> QED
        BY <2>3, <3>3, <4>1, <4>2 DEF Mapped
    <3>6. capacity' = IF used = 1 .. capacity THEN capacity + StacksPerPool ELSE capacity
      <4>1. f = << >> <=> used = 1 .. capacity
        <5>1. f \in Seq(Stack) /\ ToSet(f) \subseteq 1 .. capacity
          BY <2>2 DEF Supply, Chain, Mapped
        <5>2. f = << >> <=> ToSet(f) = {}
          BY <5>1, EmptyQueue
        <5>3. used = (1 .. capacity) \ ToSet(f)
          BY <2>3 DEF Mapped
        <5> HIDE DEF used, capacity
        <5> QED
          BY <5>1, <5>2, <5>3
      <4>2. capacity' = StacksPerPool * mem'.pools
        OBVIOUS
      <4>3. StacksPerPool * (mem.pools + 1) = capacity + StacksPerPool
        BY <2>3, StacksAssumption DEF Memory
      <4> QED
        BY <3>2, <4>1, <4>2, <4>3
    <3> HIDE DEF used, capacity
    <3> QED
      BY <3>5, <3>6 DEF Stacks!Acquire, used, capacity
  <2>5. ASSUME NEW t \in Thread, t \in Live, Destroy(t)
        PROVE  Stacks!Release
    <3> DEFINE s == stackTop[t]
    <3>1. mem' = Released(mem, s)
      BY <2>5 DEF Destroy
    <3>2. s \in Stack /\ s \notin ToSet(f) /\ s \in Mapped(mem)
      BY <2>1, <2>2, <2>5 DEF RuntimeInv, RuntimeTypeOK, Live, Supply
    <3>3. /\ mem'.pools = mem.pools
          /\ \E g : Chain(mem', g) /\ ToSet(g) = ToSet(f) \cup {s}
      BY <2>2, <2>3, <3>1, <3>2, ReleasedIsFirst DEF Supply
    <3>4. PICK g : Chain(mem', g) /\ ToSet(g) = ToSet(f) \cup {s}
      BY <3>3
    <3>5. Free(mem') = ToSet(g) /\ Mapped(mem') = Mapped(mem)
      BY <3>3, <3>4, ChainIsFree DEF Mapped
    <3>6. used' = Mapped(mem') \ Free(mem') /\ capacity' = capacity
      BY <3>3 DEF Free, Mapped
    <3>7. s \in used /\ used' = used \ {s}
      BY <2>3, <3>2, <3>4, <3>5, <3>6
    <3> HIDE DEF s
    <3> QED
      BY <3>6, <3>7 DEF Stacks!Release
  <2>6. ASSUME UNCHANGED mem
        PROVE  UNCHANGED <<used, capacity>>
    BY <2>6 DEF Free, Mapped
  <2>7. ASSUME NEW t \in Thread, EndDetached(t)
        PROVE  Stacks!Release
    BY <2>5, <2>7 DEF EndDetached, OnStack, Live
  <2>8. ASSUME NEW t \in Thread, Delete(t)
        PROVE  Stacks!Release
    BY <2>5, <2>8 DEF Delete
  <2>9. CASE ~(\E t \in Thread : Create(t) \/ EndDetached(t) \/ Delete(t))
    <3>1. UNCHANGED mem
      BY <2>1, <2>9 DEF RuntimeNext, Block, Wake, EndJoinable, Schedule, RunReady, runtimeVars
    <3> QED
      BY <2>6, <3>1
  <2> QED
    BY <2>4, <2>7, <2>8, <2>9 DEF Stacks!Next
<1> QED
  BY <1>1, <1>2, RuntimeInvHolds, PTL DEF RuntimeSpec, AllocatorSpec, Stacks!Spec

-----------------------------------------------------------------------------
(***************************************************************************)
(* Links, stacks and contexts implement the life cycle of ThreadLife.      *)
(***************************************************************************)

\* A thread that exists waits, is over, is linked or executes: no step
\* forgets one.
NoneLost == \A t \in Live : t \in blocked \cup over \/ Linked(t) \/ OnStack(t)

LifeInv == RuntimeInv /\ NoneLost

\* The thread that a step would go on with is linked.
LEMMA FirstOfList ==
    ASSUME ListInv
    PROVE  /\ first = Null => \A t \in Thread : ~Linked(t)
           /\ first # Null => first \in Thread /\ Linked(first)
<1>1. PICK s : Spells(s)
  BY DEF ListInv
<1>2. CASE s = << >>
  <2>1. ToSet(s) = {}
    BY <1>2 DEF ToSet
  <2> QED
    BY <1>1, <1>2, <2>1 DEF Spells, Linked
<1>3. CASE s # << >>
  <2>1. s \in Seq(Thread) /\ first = s[1]
    BY <1>1, <1>3 DEF Spells
  <2>2. 1 \in 1 .. Len(s) /\ s[1] \in Thread
    BY <1>3, <2>1
  <2>3. first \in ToSet(s)
    BY <2>1, <2>2, MemberHasPlace
  <2>4. SpelledBy(s, first, last, next, previous)
    BY <1>1 DEF Spells, SpelledBy
  <2> QED
    BY <2>1, <2>2, <2>3, <2>4, LinkedAreSpelled, ListAssumption DEF Linked
<1> QED
  BY <1>2, <1>3

\* A caller that the step leaves on its stack, and in no list, is still it.
LEMMA StaysActive ==
    ASSUME RuntimeInv, Active, sp' = sp,
           sp # NoStack => /\ stackTop'[current] = stackTop[current]
                           /\ current \notin (blocked \cup over)'
    PROVE  Active'
<1>1. CASE sp = NoStack
  BY <1>1 DEF Active
<1>2. CASE sp # NoStack
  <2>1. current \in Thread /\ stackTop[current] = sp
    BY <1>2, CallerIsCurrent DEF Live
  <2> QED
    BY <1>2, <2>1 DEF Active, OnStack
<1> QED
  BY <1>1, <1>2

LEMMA CreateFacts ==
    ASSUME RuntimeInv, RuntimeInv', NEW t \in Thread, Create(t)
    PROVE  /\ Active /\ Active'
           /\ t \notin Live /\ Live' = Live \cup {t} /\ UNCHANGED <<blocked, over>>
           /\ \A u \in Thread : Linked(u)' <=> Linked(u) \/ u = t
           /\ \A u \in Thread : OnStack(u)' <=> OnStack(u)
<1> DEFINE s == AcquiredStack(mem)
<1>1. /\ Active /\ t \notin Live /\ LinkLast(t)
      /\ stackTop' = [stackTop EXCEPT ![t] = s]
      /\ UNCHANGED <<current, sp, blocked, over>>
  BY DEF Create
<1> HIDE DEF s
<1>2. \A u \in Thread : Linked(u)' <=> Linked(u) \/ u = t
  BY <1>1, LinkLastLinks DEF RuntimeInv
<1>3. stackTop'[t] = s /\ \A u \in Thread \ {t} : stackTop'[u] = stackTop[u]
  BY <1>1 DEF RuntimeInv, RuntimeTypeOK
<1>4. t \in Live' /\ ~OnStack(t)'
  BY <1>2 DEF RuntimeInv, ReadyAreResumable
<1>5. Live' = Live \cup {t}
  BY <1>3, <1>4 DEF Live
<1>6. \A u \in Thread : OnStack(u)' <=> OnStack(u)
  BY <1>1, <1>3, <1>4 DEF OnStack, Live
<1>7. Active'
  <2>1. sp # NoStack => current \in Live /\ current \notin blocked \cup over
    BY <1>1, CallerIsCurrent
  <2> QED
    BY <1>1, <1>3, <2>1, StaysActive DEF Live
<1> QED
  BY <1>1, <1>2, <1>5, <1>6, <1>7

LEMMA DestroyFacts ==
    ASSUME RuntimeInv, RuntimeInv', NEW t \in Thread, t \in Live, Destroy(t)
    PROVE  /\ Live' = Live \ {t} /\ blocked' = blocked \ {t} /\ over' = over \ {t}
           /\ \A u \in Thread : Linked(u)' <=> Linked(u) /\ u # t
           /\ \A u \in Thread : OnStack(u)' <=> OnStack(u) /\ u # t
<1>1. /\ RemoveReady(t)
      /\ stackTop' = [stackTop EXCEPT ![t] = NoStack]
      /\ blocked' = blocked \ {t} /\ over' = over \ {t} /\ sp' = sp
  BY DEF Destroy
<1>2. \A u \in Thread : Linked(u)' <=> Linked(u) /\ u # t
  BY <1>1, RemovedIsNotLinked DEF RuntimeInv
<1>3. stackTop'[t] = NoStack /\ \A u \in Thread \ {t} : stackTop'[u] = stackTop[u]
  BY <1>1 DEF RuntimeInv, RuntimeTypeOK
<1>4. Live' = Live \ {t} /\ \A u \in Thread : OnStack(u)' <=> OnStack(u) /\ u # t
  BY <1>1, <1>3 DEF Live, OnStack
<1> QED
  BY <1>1, <1>2, <1>4

LEMMA BlockFacts ==
    ASSUME RuntimeInv, Block
    PROVE  /\ Active /\ ~Active' /\ current \in Live /\ OnStack(current)
           /\ Live' = Live /\ blocked' = blocked \cup {current} /\ over' = over
           /\ \A u \in Thread : Linked(u)' <=> Linked(u)
           /\ \A u \in Thread : OnStack(u)' <=> OnStack(u)
<1>1. /\ Active /\ sp # NoStack /\ blocked' = blocked \cup {current}
      /\ UNCHANGED <<list, stackTop, sp, over>>
  BY DEF Block
<1>2. current \in Live /\ OnStack(current) /\ \A u \in Thread : OnStack(u) => u = current
  BY <1>1, CallerIsCurrent DEF OnStack
<1>3. /\ Live' = Live
      /\ \A u \in Thread : (Linked(u)' <=> Linked(u)) /\ (OnStack(u)' <=> OnStack(u))
  BY <1>1 DEF list, Live, Linked, OnStack
<1>4. ~Active'
  BY <1>1, <1>2, <1>3 DEF Active
<1> QED
  BY <1>1, <1>2, <1>3, <1>4

\* A release, by a thread that goes on or by one that is over.
LEMMA ReleaseFacts ==
    ASSUME RuntimeInv, NEW j \in Thread, LinkLast(j), UNCHANGED <<stackTop, sp>>
    PROVE  /\ Live' = Live
           /\ \A u \in Thread : Linked(u)' <=> Linked(u) \/ u = j
           /\ \A u \in Thread : OnStack(u)' <=> OnStack(u)
<1>1. Live' = Live /\ \A u \in Thread : OnStack(u)' <=> OnStack(u)
  BY DEF Live, OnStack
<1>2. \A u \in Thread : Linked(u)' <=> Linked(u) \/ u = j
  BY LinkLastLinks DEF RuntimeInv
<1> QED
  BY <1>1, <1>2

\* What is resumed is the first ready thread, on its own stack.
LEMMA ProcessReadyFacts ==
    ASSUME RuntimeInv, ProcessReady, UNCHANGED <<stackTop, context, blocked, over>>
    PROVE  /\ Active' /\ first \in Thread /\ Linked(first) /\ Live' = Live
           /\ \A u \in Thread : Linked(u)' <=> Linked(u) /\ u # first
           /\ \A u \in Thread : OnStack(u)' <=> u = first
<1>1. PICK t \in Thread : t = first /\ Unlink(t)
  BY FirstIsLinked DEF ProcessReady, RuntimeInv
<1>2. Linked(t) /\ \A u \in Thread : Linked(u)' <=> Linked(u) /\ u # t
  BY <1>1, UnlinkUnlinks DEF RuntimeInv
<1>3. t \in Live \ (blocked \cup over) /\ context[t] = stackTop[t] /\ stackTop[t] # NoStack
  BY <1>2 DEF RuntimeInv, ReadyAreResumable, Apart, Live
<1>4. sp' = stackTop[t] /\ Live' = Live
  BY <1>1, <1>3 DEF ProcessReady, RestoreContext, Live
<1>5. \A u \in Thread : stackTop[u] = stackTop[t] => u = t
  BY <1>3 DEF RuntimeInv, Apart, Live
<1>6. \A u \in Thread : OnStack(u)' <=> u = t
  BY <1>3, <1>4, <1>5 DEF OnStack
<1>7. Active'
  BY <1>3, <1>6 DEF Active
<1> QED
  BY <1>1, <1>2, <1>4, <1>6, <1>7

LEMMA NoneLostStep ==
    ASSUME RuntimeInv, RuntimeInv', NoneLost, [RuntimeNext]_runtimeVars
    PROVE  NoneLost'
<1>0. Live \subseteq Thread /\ Live' \subseteq Thread
  BY DEF Live
<1>1. ASSUME NEW t \in Thread, Create(t)
      PROVE  NoneLost'
  BY <1>0, <1>1, CreateFacts DEF NoneLost
<1>2. CASE Block
  BY <1>0, <1>2, BlockFacts DEF NoneLost
<1>3. ASSUME NEW t \in Thread, Wake(t)
      PROVE  NoneLost'
  BY <1>0, <1>3, ReleaseFacts DEF NoneLost, Wake
<1>4. ASSUME NEW t \in Thread, t \in Live, Destroy(t)
      PROVE  NoneLost'
  BY <1>0, <1>4, DestroyFacts DEF NoneLost
<1>5. ASSUME NEW t \in Thread, EndJoinable(t)
      PROVE  NoneLost'
  <2>1. CASE UNCHANGED <<list, blocked>>
    <3>1. /\ Live' = Live /\ blocked' = blocked /\ over' = over \cup {t}
          /\ \A u \in Thread : (Linked(u)' <=> Linked(u)) /\ (OnStack(u)' <=> OnStack(u))
      BY <1>5, <2>1 DEF EndJoinable, list, Live, Linked, OnStack
    <3> QED
      BY <1>0, <3>1 DEF NoneLost
  <2>2. ASSUME NEW j \in Thread, LinkLast(j), blocked' = blocked \ {j}
        PROVE  NoneLost'
    BY <1>0, <1>5, <2>2, ReleaseFacts DEF NoneLost, EndJoinable
  <2> QED
    BY <1>5, <2>1, <2>2 DEF EndJoinable
<1>6. CASE Schedule
  <2>1. \A u \in Thread : OnStack(u) => u \in blocked \cup over
    BY <1>6 DEF Schedule, Active, OnStack
  <2>2. CASE ProcessReady
    BY <1>0, <1>6, <2>1, <2>2, ProcessReadyFacts DEF NoneLost, Schedule
  <2>3. CASE UNCHANGED list
    BY <1>6, <2>1, <2>3 DEF NoneLost, Schedule, list, Live, Linked
  <2> QED
    BY <1>6, <2>2, <2>3 DEF Schedule
<1>7. CASE RunReady
  BY <1>0, <1>7, ProcessReadyFacts DEF NoneLost, RunReady, OnStack
<1>8. CASE UNCHANGED runtimeVars
  BY <1>8 DEF runtimeVars, list, NoneLost, Live, Linked, OnStack
<1>9. \A t \in Thread : OnStack(t) => t \in Live
  BY DEF OnStack, Live
<1> QED
  BY <1>1, <1>2, <1>3, <1>4, <1>5, <1>6, <1>7, <1>8, <1>9 DEF RuntimeNext, Delete, EndDetached

LEMMA LifeInvInit == RuntimeInit => LifeInv
  BY RuntimeInvInit DEF RuntimeInit, LifeInv, NoneLost, Live

LEMMA LifeInvStep == LifeInv /\ [RuntimeNext]_runtimeVars => LifeInv'
  BY RuntimeInvStep, NoneLostStep DEF LifeInv

InPhase(t, p) ==
    /\ p \in {"absent", "ready", "running", "blocked", "ended"}
    /\ p = "absent" <=> t \notin Live
    /\ p = "ready" <=> Linked(t) /\ ~HasProcessor(t)
    /\ p = "running" <=> HasProcessor(t)
    /\ p = "blocked" <=> t \in blocked
    /\ p = "ended" <=> t \in over

\* The phases say where the threads are; the first of the list is one of them.
Charted ==
    /\ \A t \in Thread : InPhase(t, phase[t])
    /\ first = Null => \A t \in Thread : ~Linked(t)
    /\ first # Null => first \in Thread /\ Linked(first)

\* A thread that exists is in one place only.
LEMMA PhasesCharted == LifeInv => Charted
<1> SUFFICES ASSUME LifeInv PROVE Charted
  OBVIOUS
<1>1. /\ first = Null => \A t \in Thread : ~Linked(t)
      /\ first # Null => first \in Thread /\ Linked(first)
  BY FirstOfList DEF LifeInv, RuntimeInv
<1> SUFFICES ASSUME NEW t \in Thread PROVE InPhase(t, phase[t])
  BY <1>1 DEF Charted
<1>2. /\ blocked \subseteq Live /\ over \subseteq Live /\ blocked \cap over = {}
      /\ Linked(t) => t \in Live \ (blocked \cup over) /\ ~OnStack(t)
      /\ t \in Live \ (blocked \cup over) => Linked(t) \/ OnStack(t)
  BY DEF LifeInv, RuntimeInv, RuntimeTypeOK, ReadyAreResumable, NoneLost, Live
<1>3. HasProcessor(t) => t \in Live \ (blocked \cup over)
  <2>1. CASE Active
    BY <2>1, CallerIsCurrent DEF HasProcessor, LifeInv
  <2>2. CASE ~Active
    BY <1>1, <1>2, <2>2, ListAssumption DEF HasProcessor
  <2> QED
    BY <2>1, <2>2
<1>4. Linked(t) \/ HasProcessor(t) <=> t \in Live \ (blocked \cup over)
  <2>1. CASE Active
    BY <1>2, <1>3, <2>1 DEF HasProcessor
  <2>2. CASE ~Active
    <3>1. OnStack(t) => t \in blocked \cup over
      BY <2>2 DEF Active, OnStack
    <3> QED
      BY <1>2, <1>3, <3>1
  <2> QED
    BY <2>1, <2>2
<1>5. phase[t] = CASE t \notin Live    -> "absent"
                   [] t \in over       -> "ended"
                   [] t \in blocked    -> "blocked"
                   [] HasProcessor(t)  -> "running"
                   [] OTHER            -> "ready"
  BY DEF phase
<1>6. CASE t \notin Live
  <2>1. phase[t] = "absent"
    BY <1>2, <1>3, <1>5, <1>6
  <2> QED
    BY <1>2, <1>4, <1>6, <2>1 DEF InPhase
<1>7. CASE t \in over
  <2>1. phase[t] = "ended"
    BY <1>2, <1>3, <1>5, <1>7
  <2> QED
    BY <1>2, <1>4, <1>7, <2>1 DEF InPhase
<1>8. CASE t \in blocked
  <2>1. phase[t] = "blocked"
    BY <1>2, <1>3, <1>5, <1>8
  <2> QED
    BY <1>2, <1>4, <1>8, <2>1 DEF InPhase
<1>9. CASE t \in Live \ (blocked \cup over) /\ HasProcessor(t)
  <2>1. phase[t] = "running"
    BY <1>5, <1>9
  <2> QED
    BY <1>9, <2>1 DEF InPhase
<1>10. CASE t \in Live \ (blocked \cup over) /\ ~HasProcessor(t)
  <2>1. phase[t] = "ready"
    BY <1>5, <1>10
  <2> QED
    BY <1>4, <1>10, <2>1 DEF InPhase
<1> QED
  BY <1>6, <1>7, <1>8, <1>9, <1>10

\* The phases p, except that h has the processor, are those after a switch.
LEMMA Hands ==
    ASSUME NEW p \in [Thread -> {"absent", "ready", "running", "blocked", "ended"}], NEW h,
           h = Null => \A t \in Thread : p[t] # "ready",
           h # Null => h \in Thread /\ p[h] = "ready",
           \A t \in Thread : phase'[t] = IF t = h THEN "running" ELSE p[t]
    PROVE  phase' \in Life!Switched(p)
<1> DEFINE ReadyIn == {t \in Thread : p[t] = "ready"}
<1>1. phase' = [t \in Thread |-> IF t = h THEN "running" ELSE p[t]]
  <2>1. phase' = [t \in Thread |-> phase'[t]]
    BY DEF phase
  <2> HIDE DEF phase
  <2> QED
    BY <2>1
<1>2. CASE h = Null
  <2>1. ReadyIn = {} /\ phase' = p
    BY <1>1, <1>2, ListAssumption
  <2> QED
    BY <2>1 DEF Life!Switched
<1>3. CASE h # Null
  <2>1. h \in ReadyIn /\ phase' = Life!Moved(p, h, "running")
    BY <1>1, <1>3 DEF Life!Moved
  <2> QED
    BY <2>1 DEF Life!Switched
<1> QED
  BY <1>2, <1>3

\* Phases in which one thread moves.
LEMMA OneMoves ==
    ASSUME NEW t, NEW p, \A u \in Thread : phase'[u] = IF u = t THEN p ELSE phase[u]
    PROVE  phase' = Life!Moved(phase, t, p)
<1>1. phase' = [u \in Thread |-> phase'[u]]
  BY DEF phase
<1> QED
  BY <1>1 DEF Life!Moved

LEMMA NothingMoves ==
    ASSUME Charted, Charted', Live' = Live, UNCHANGED <<blocked, over>>,
           \A u \in Thread : HasProcessor(u)' <=> HasProcessor(u)
    PROVE  phase' = phase
<1>1. \A u \in Thread : phase'[u] = phase[u]
  BY DEF Charted, InPhase
<1>2. phase = [u \in Thread |-> phase[u]] /\ phase' = [u \in Thread |-> phase'[u]]
  BY DEF phase
<1> QED
  BY <1>1, <1>2

LEMMA CreateLife ==
    ASSUME LifeInv, LifeInv', Charted, Charted', NEW t \in Thread, Create(t)
    PROVE  Life!Next
<1>1. /\ t \notin Live /\ Live' = Live \cup {t} /\ UNCHANGED <<blocked, over>>
      /\ \A u \in Thread : Linked(u)' <=> Linked(u) \/ u = t
      /\ \A u \in Thread : HasProcessor(u)' <=> HasProcessor(u)
  BY CreateFacts DEF LifeInv, HasProcessor
<1>2. \A u \in Thread : phase'[u] = IF u = t THEN "ready" ELSE phase[u]
  BY <1>1 DEF Charted, InPhase
<1>3. phase[t] = "absent"
  BY <1>1 DEF Charted, InPhase
<1> QED
  BY <1>2, <1>3, OneMoves DEF Life!Next, Life!Create

LEMMA WakeLife ==
    ASSUME LifeInv, LifeInv', Charted, Charted', NEW t \in Thread, Wake(t)
    PROVE  Life!Next
<1>1. /\ Active /\ t \in blocked /\ blocked' = blocked \ {t}
      /\ UNCHANGED <<stackTop, current, sp, over>>
  BY DEF Wake
<1>2. /\ Live' = Live
      /\ \A u \in Thread : Linked(u)' <=> Linked(u) \/ u = t
      /\ \A u \in Thread : OnStack(u)' <=> OnStack(u)
  BY ReleaseFacts DEF LifeInv, Wake
<1>3. Active'
  BY <1>1, CallerIsCurrent, StaysActive DEF LifeInv
<1>4. \A u \in Thread : HasProcessor(u)' <=> HasProcessor(u)
  BY <1>1, <1>2, <1>3 DEF HasProcessor
<1>5. \A u \in Thread : phase'[u] = IF u = t THEN "ready" ELSE phase[u]
  BY <1>1, <1>2, <1>4 DEF Charted, InPhase
<1>6. phase[t] = "blocked"
  BY <1>1 DEF Charted, InPhase
<1> QED
  BY <1>5, <1>6, OneMoves DEF Life!Next, Life!Wake

\* A thread that is deleted by another does not execute.
LEMMA DeleteLife ==
    ASSUME LifeInv, LifeInv', Charted, Charted', NEW t \in Thread, Delete(t)
    PROVE  Life!Next
<1>1. Active /\ t \in Live /\ ~OnStack(t) /\ Destroy(t)
  BY DEF Delete
<1>2. /\ Live' = Live \ {t} /\ blocked' = blocked \ {t} /\ over' = over \ {t}
      /\ \A u \in Thread : Linked(u)' <=> Linked(u) /\ u # t
      /\ \A u \in Thread : OnStack(u)' <=> OnStack(u) /\ u # t
  BY <1>1, DestroyFacts DEF LifeInv
<1>3. Active'
  <2>1. sp' = sp /\ \A u \in Thread : u # t => stackTop'[u] = stackTop[u]
    BY <1>1 DEF Destroy, LifeInv, RuntimeInv, RuntimeTypeOK
  <2>2. sp # NoStack => /\ current \in Thread /\ OnStack(current)
                        /\ current \notin blocked \cup over
    BY <1>1, CallerIsCurrent DEF LifeInv, OnStack, Live
  <2> QED
    BY <1>1, <1>2, <2>1, <2>2, StaysActive DEF LifeInv
<1>4. \A u \in Thread : HasProcessor(u)' <=> HasProcessor(u)
  BY <1>1, <1>2, <1>3 DEF HasProcessor
<1>5. \A u \in Thread : phase'[u] = IF u = t THEN "absent" ELSE phase[u]
  BY <1>1, <1>2, <1>4 DEF Charted, InPhase, HasProcessor
<1>6. phase[t] \in {"ready", "blocked", "ended"}
  BY <1>1 DEF Charted, InPhase, HasProcessor
<1> QED
  BY <1>5, <1>6, OneMoves DEF Life!Next, Life!Kill

\* The thread that executes moves to phase p, and the first ready one to the
\* processor.
LEMMA LeaveLife ==
    ASSUME LifeInv, Charted, Charted', Active, ~Active', NEW t \in Thread, OnStack(t),
           NEW p \in {"blocked", "absent"},
           Live' = IF p = "absent" THEN Live \ {t} ELSE Live,
           blocked' = IF p = "blocked" THEN blocked \cup {t} ELSE blocked,
           over' = over,
           \A u \in Thread : Linked(u)' <=> Linked(u)
    PROVE  Life!Next
<1> DEFINE q == Life!Moved(phase, t, p)
<1>1. /\ q \in [Thread -> {"absent", "ready", "running", "blocked", "ended"}]
      /\ \A u \in Thread : q[u] = IF u = t THEN p ELSE phase[u]
  BY DEF Life!Moved, Charted, InPhase
<1> HIDE DEF q
<1>2. \A u \in Thread : HasProcessor(u) <=> u = t
  BY CallerIsCurrent DEF HasProcessor, LifeInv
<1>3. /\ \A u \in Thread : HasProcessor(u)' <=> u = first'
      /\ ~Linked(t)
  BY DEF HasProcessor, LifeInv, RuntimeInv, ReadyAreResumable
<1>4. /\ first' = Null => \A u \in Thread : ~Linked(u)
      /\ first' # Null => first' \in Thread /\ Linked(first')
  BY DEF Charted
<1>5. \A u \in Thread : q[u] = "ready" <=> Linked(u)
  BY <1>1, <1>2, <1>3 DEF Charted, InPhase
<1>6. \A u \in Thread : phase'[u] = IF u = first' THEN "running" ELSE q[u]
  BY <1>1, <1>2, <1>3 DEF Charted, InPhase
<1>7. phase' \in Life!Switched(q)
  BY <1>1, <1>4, <1>5, <1>6, Hands
<1>8. phase[t] = "running" /\ p \in Life!Phases
  BY <1>2 DEF Charted, InPhase, Life!Phases
<1> QED
  BY <1>7, <1>8 DEF q, Life!Next, Life!Leave

LEMMA BlockLife ==
    ASSUME LifeInv, Charted, Charted', Block
    PROVE  Life!Next
<1>1. current \in Thread /\ RuntimeInv
  BY BlockFacts DEF LifeInv, Live
<1> QED
  BY <1>1, BlockFacts, LeaveLife

LEMMA EndDetachedLife ==
    ASSUME LifeInv, LifeInv', Charted, Charted', NEW t \in Thread, EndDetached(t)
    PROVE  Life!Next
<1>1. /\ Active /\ OnStack(t) /\ Destroy(t) /\ t \in Live /\ sp # NoStack /\ sp' = sp
      /\ t \notin blocked \cup over /\ ~Linked(t)
      /\ \A u \in Thread : OnStack(u) => u = t
  BY CallerIsCurrent
  DEF EndDetached, Destroy, OnStack, Live, LifeInv, RuntimeInv, ReadyAreResumable
<1>2. /\ Live' = Live \ {t} /\ blocked' = blocked /\ over' = over
      /\ \A u \in Thread : Linked(u)' <=> Linked(u)
      /\ \A u \in Thread : ~OnStack(u)'
  BY <1>1, DestroyFacts DEF LifeInv
<1>3. ~Active'
  BY <1>1, <1>2 DEF Active
<1> QED
  BY <1>1, <1>2, <1>3, LeaveLife

\* A thread that is over releases its joiner, if one is blocked, before it
\* switches.
LEMMA EndJoinableLife ==
    ASSUME LifeInv, Charted, Charted', NEW t \in Thread, EndJoinable(t)
    PROVE  Life!Next
<1> DEFINE p == Life!Moved(phase, t, "ended")
<1>1. /\ Active /\ OnStack(t) /\ sp # NoStack /\ sp' = sp /\ stackTop' = stackTop
      /\ over' = over \cup {t} /\ t \notin blocked \cup over /\ ~Linked(t)
      /\ \A u \in Thread : OnStack(u) => u = t
  BY CallerIsCurrent
  DEF EndJoinable, OnStack, LifeInv, RuntimeInv, ReadyAreResumable
<1>2. Live' = Live /\ \A u \in Thread : OnStack(u)' <=> OnStack(u)
  BY <1>1 DEF Live, OnStack
<1>3. ~Active'
  BY <1>1, <1>2 DEF Active
<1>4. /\ \A u \in Thread : HasProcessor(u) <=> u = t
      /\ \A u \in Thread : HasProcessor(u)' <=> u = first'
  BY <1>1, <1>3 DEF HasProcessor
<1>5. PICK h : /\ h = first'
               /\ h = Null => \A u \in Thread : ~Linked(u)'
               /\ h # Null => h \in Thread /\ Linked(h)'
  BY DEF Charted, Linked
<1>6. phase[t] = "running"
  BY <1>4 DEF Charted, InPhase
<1>7. /\ p \in [Thread -> {"absent", "ready", "running", "blocked", "ended"}]
      /\ \A u \in Thread : p[u] = IF u = t THEN "ended" ELSE phase[u]
  BY DEF Life!Moved, Charted, InPhase
<1> HIDE DEF p
<1>8. CASE UNCHANGED <<list, blocked>>
  <2>1. \A u \in Thread : Linked(u)' <=> Linked(u)
    BY <1>8 DEF list, Linked
  <2>2. \A u \in Thread : p[u] = "ready" <=> Linked(u)'
    BY <1>1, <1>4, <1>7, <2>1 DEF Charted, InPhase
  <2>3. \A u \in Thread : phase'[u] = IF u = h THEN "running" ELSE p[u]
    BY <1>1, <1>2, <1>4, <1>5, <1>7, <1>8, <2>1 DEF Charted, InPhase
  <2>4. phase' \in Life!Switched(p)
    BY <1>5, <1>7, <2>2, <2>3, Hands
  <2> QED
    BY <1>6, <2>4 DEF p, Life!Next, Life!End
<1>9. ASSUME NEW j \in Thread, j \in blocked, LinkLast(j), blocked' = blocked \ {j}
      PROVE  Life!Next
  <2> DEFINE r == Life!Moved(p, j, "ready")
  <2>1. /\ r \in [Thread -> {"absent", "ready", "running", "blocked", "ended"}]
        /\ \A u \in Thread : r[u] = IF u = j THEN "ready" ELSE p[u]
    BY <1>7 DEF Life!Moved
  <2> HIDE DEF r
  <2>2. \A u \in Thread : Linked(u)' <=> Linked(u) \/ u = j
    BY <1>1, <1>9, ReleaseFacts DEF LifeInv
  <2>3. j # t /\ phase[j] = "blocked"
    BY <1>1, <1>9 DEF Charted, InPhase
  <2>4. \A u \in Thread : r[u] = "ready" <=> Linked(u)'
    BY <1>1, <1>4, <1>7, <2>1, <2>2, <2>3 DEF Charted, InPhase
  <2>5. \A u \in Thread : phase'[u] = IF u = h THEN "running" ELSE r[u]
    BY <1>1, <1>2, <1>4, <1>5, <1>7, <1>9, <2>1, <2>2, <2>3 DEF Charted, InPhase
  <2>6. phase' \in Life!Switched(r)
    BY <1>5, <2>1, <2>4, <2>5, Hands
  <2> QED
    BY <1>6, <2>3, <2>6 DEF p, r, Life!Next, Life!EndJoined
<1> QED
  BY <1>8, <1>9 DEF EndJoinable

\* The phases have switched already when schedule() does.
LEMMA ScheduleLife ==
    ASSUME LifeInv, Charted, Charted', Schedule
    PROVE  phase' = phase
<1>1. ~Active /\ UNCHANGED <<stackTop, context, blocked, over>>
  BY DEF Schedule
<1>2. CASE ProcessReady
  <2>1. /\ Active' /\ Live' = Live
        /\ \A u \in Thread : OnStack(u)' <=> u = first
    BY <1>1, <1>2, ProcessReadyFacts DEF LifeInv
  <2> QED
    BY <1>1, <2>1, NothingMoves DEF HasProcessor
<1>3. CASE first = Null /\ sp' = NoStack
  <2>1. Live' = Live /\ Active' /\ \A u \in Thread : ~OnStack(u)' /\ u # first
    BY <1>1, <1>3, ListAssumption DEF Live, Active, OnStack
  <2> QED
    BY <1>1, <2>1, NothingMoves DEF HasProcessor
<1> QED
  BY <1>2, <1>3 DEF Schedule

\* The host, on its own stack, gives the processor to the first ready thread.
LEMMA RunReadyLife ==
    ASSUME LifeInv, Charted, Charted', RunReady
    PROVE  Life!Next
<1>1. sp = NoStack /\ ProcessReady /\ UNCHANGED <<stackTop, context, blocked, over>>
  BY DEF RunReady
<1>2. /\ Active' /\ first \in Thread /\ Linked(first) /\ Live' = Live
      /\ \A u \in Thread : Linked(u)' <=> Linked(u) /\ u # first
      /\ \A u \in Thread : OnStack(u)' <=> u = first
  BY <1>1, ProcessReadyFacts DEF LifeInv
<1>3. /\ \A u \in Thread : ~HasProcessor(u)
      /\ \A u \in Thread : HasProcessor(u)' <=> u = first
  BY <1>1, <1>2 DEF HasProcessor, Active, OnStack
<1>4. phase \in [Thread -> {"absent", "ready", "running", "blocked", "ended"}]
  <2>1. phase = [u \in Thread |-> phase[u]]
    BY DEF phase
  <2> QED
    BY <2>1 DEF Charted, InPhase
<1>5. \A u \in Thread : (phase[u] = "ready" <=> Linked(u)) /\ phase[u] # "running"
  BY <1>3 DEF Charted, InPhase
<1>6. \A u \in Thread : phase'[u] = IF u = first THEN "running" ELSE phase[u]
  BY <1>1, <1>2, <1>3 DEF Charted, InPhase
<1>7. phase' \in Life!Switched(phase)
  BY <1>2, <1>4, <1>5, <1>6, Hands, ListAssumption
<1> QED
  BY <1>5, <1>7 DEF Life!Next, Life!Resume

LEMMA StepLife ==
    LifeInv /\ LifeInv' /\ Charted /\ Charted' /\ [RuntimeNext]_runtimeVars
        => [Life!Next]_phase
<1> SUFFICES ASSUME LifeInv, LifeInv', Charted, Charted', [RuntimeNext]_runtimeVars
             PROVE  Life!Next \/ phase' = phase
  OBVIOUS
<1>1. CASE UNCHANGED runtimeVars
  <2>1. /\ Live' = Live /\ UNCHANGED <<blocked, over>>
        /\ \A u \in Thread : HasProcessor(u)' <=> HasProcessor(u)
    BY <1>1 DEF runtimeVars, list, Live, HasProcessor, Active, OnStack
  <2> QED
    BY <2>1, NothingMoves
<1> QED
  BY <1>1, CreateLife, BlockLife, WakeLife, DeleteLife, EndJoinableLife, EndDetachedLife,
     ScheduleLife, RunReadyLife DEF RuntimeNext

\* Lists, stacks and contexts keep the promise to threads as well: the steps
\* that lead to a switch, and the switch, are one step of the life cycle.
THEOREM RuntimeKeepsLifeCycle == RuntimeSpec => LifeSpec
<1>1. RuntimeInit => Life!Init
  <2> SUFFICES ASSUME RuntimeInit PROVE Life!Init
    OBVIOUS
  <2>1. \A t \in Thread : phase[t] = "absent"
    BY LifeInvInit, PhasesCharted DEF RuntimeInit, Live, Charted, InPhase
  <2>2. phase = [t \in Thread |-> phase[t]]
    BY DEF phase
  <2> QED
    BY <2>1, <2>2 DEF Life!Init
<1>2. RuntimeSpec => [](LifeInv /\ Charted)
  BY LifeInvInit, LifeInvStep, PhasesCharted, PTL DEF RuntimeSpec
<1>3. RuntimeSpec => Life!Init /\ [][Life!Next]_phase
  BY <1>1, <1>2, StepLife, PTL DEF RuntimeSpec
<1> QED
  BY <1>3 DEF LifeSpec, Life!Spec
==============================================================================
