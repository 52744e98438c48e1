---------------------------- MODULE StreamsProofs ----------------------------
(***************************************************************************)
(* What is read is what was written, and value by value: for any number of *)
(* bytes, any sizes of the buffers and of the socket, and any plan.        *)
(* And what the loops about lengths do to one that takes up to two bytes.  *)
(***************************************************************************)
EXTENDS DataStreams, Lengths, QueueTheorems

-----------------------------------------------------------------------------
(***************************************************************************)
(* The inductive invariant of the bytes.                                   *)
(***************************************************************************)

\* s holds the bytes behind the first a ones, without a gap.
Follows(s, a) == \A i \in 1 .. Len(s) : s[i] = a + i

\* How many bytes the reader's calls have got, how many are in its process,
\* and how many have been given to the socket.
Consumed == Len(received) + Len(got)
Arrived == Consumed + Len(rbuf)
Sent == Arrived + Len(socket)

\* A call that needs more bytes has emptied the buffer; one that returned has
\* given away what it got.
ReaderOK ==
    /\ Follows(received, 0) /\ Follows(got, Len(received))
    /\ need = 0 => got = << >>
    /\ need > 0 => rbuf = << >> /\ rvalid
    /\ Consumed <= offered

\* While the reader is valid nothing is missing between it and the socket.
WayOK ==
    rvalid => /\ Follows(rbuf, Consumed)
              /\ Follows(socket, Arrived)
              /\ Sent <= offered

\* Only write() and flush() in progress have something in `source' or have
\* written a part of the buffer.
WriterOK ==
    /\ ~flushing => source = << >> /\ offset = 0
    /\ flushing => wvalid

\* While both are valid the writer still has all that was not sent.
RestOK ==
    rvalid /\ wvalid =>
        /\ \A i \in offset + 1 .. Len(wbuf) : wbuf[i] = Sent - offset + i
        /\ Follows(source, Sent - offset + Len(wbuf))
        /\ Sent - offset + Len(wbuf) + Len(source) = offered

IInv == TypeOK /\ ReaderOK /\ WayOK /\ WriterOK /\ RestOK

-----------------------------------------------------------------------------
(***************************************************************************)
(* Pieces of sequences.                                                    *)
(***************************************************************************)

LEMMA CutIs ==
    ASSUME NEW S, NEW q \in Seq(S), NEW m \in Int, NEW n \in Int,
           1 <= m, m <= n + 1, n <= Len(q), NEW r, r = SubSeq(q, m, n)
    PROVE  /\ r \in Seq(S)
           /\ Len(r) = n - m + 1
           /\ \A i \in 1 .. n - m + 1 : r[i] = q[m + i - 1]
<1>1. \A i \in m .. n : q[i] \in S
  OBVIOUS
<1>2. /\ r \in Seq(S) /\ Len(r) = IF m <= n THEN n - m + 1 ELSE 0
      /\ \A i \in 1 .. n - m + 1 : r[i] = q[m + i - 1]
  BY <1>1, SubSeqProperties
<1> QED
  BY <1>2

\* Consecutive bytes cut into two pieces.
LEMMA CutFollows ==
    ASSUME NEW S, NEW q \in Seq(S), NEW k \in 0 .. Len(q), NEW a \in Int,
           NEW p, p = SubSeq(q, 1, k), NEW r, r = SubSeq(q, k + 1, Len(q))
    PROVE  /\ p \in Seq(S) /\ Len(p) = k
           /\ r \in Seq(S) /\ Len(r) = Len(q) - k
           /\ Follows(q, a) => Follows(p, a) /\ Follows(r, a + k)
<1>1. Len(q) \in Nat /\ k \in Nat
  BY LenProperties
<1>2. PICK o \in Int, m \in Int, l \in Int : o = 1 /\ m = k + 1 /\ l = Len(q)
  BY <1>1
<1>3. p = SubSeq(q, o, k) /\ r = SubSeq(q, m, l)
  BY <1>2
<1>4. p \in Seq(S) /\ Len(p) = k - o + 1 /\ \A i \in 1 .. k - o + 1 : p[i] = q[o + i - 1]
  BY <1>1, <1>2, <1>3, CutIs
<1>5. r \in Seq(S) /\ Len(r) = l - m + 1 /\ \A i \in 1 .. l - m + 1 : r[i] = q[m + i - 1]
  BY <1>1, <1>2, <1>3, CutIs
<1>6. Len(p) = k /\ Len(r) = Len(q) - k
  BY <1>1, <1>2, <1>4, <1>5
<1>7. ASSUME Follows(q, a), NEW i \in 1 .. Len(p)
      PROVE  p[i] = a + i
  <2>1. i \in 1 .. Len(q) /\ i \in 1 .. k - o + 1 /\ o + i - 1 = i
    BY <1>1, <1>2, <1>6
  <2> QED
    BY <1>4, <1>7, <2>1 DEF Follows
<1>8. ASSUME Follows(q, a), NEW i \in 1 .. Len(r)
      PROVE  r[i] = a + k + i
  <2>1. k + i \in 1 .. Len(q) /\ i \in 1 .. l - m + 1 /\ m + i - 1 = k + i /\ a + (k + i) = a + k + i
    BY <1>1, <1>2, <1>6
  <2> QED
    BY <1>5, <1>8, <2>1 DEF Follows
<1> QED
  BY <1>4, <1>5, <1>6, <1>7, <1>8 DEF Follows

\* Two pieces put together.
LEMMA JoinFollows ==
    ASSUME NEW S, NEW p \in Seq(S), NEW q \in Seq(S), NEW a \in Int,
           NEW r, r = p \o q
    PROVE  /\ r \in Seq(S) /\ Len(r) = Len(p) + Len(q)
           /\ Follows(p, a) /\ Follows(q, a + Len(p)) => Follows(r, a)
<1>1. /\ r \in Seq(S) /\ Len(r) = Len(p) + Len(q)
      /\ \A i \in 1 .. Len(p) + Len(q) : r[i] = IF i <= Len(p) THEN p[i] ELSE q[i - Len(p)]
  BY ConcatProperties
<1>2. PICK lp \in Nat, lq \in Nat : lp = Len(p) /\ lq = Len(q)
  BY LenProperties
<1>3. ASSUME Follows(p, a), Follows(q, a + Len(p)), NEW i \in 1 .. Len(p) + Len(q)
      PROVE  r[i] = a + i
  <2>1. CASE i <= Len(p)
    <3>1. i \in 1 .. Len(p) /\ r[i] = p[i]
      BY <1>1, <1>2, <1>3, <2>1
    <3> QED
      BY <1>3, <3>1 DEF Follows
  <2>2. CASE ~(i <= Len(p))
    <3>1. i - Len(p) \in 1 .. Len(q) /\ a + Len(p) + (i - Len(p)) = a + i
      BY <1>2, <2>2
    <3> QED
      BY <1>1, <1>3, <2>2, <3>1 DEF Follows
  <2> QED
    BY <2>1, <2>2
<1> QED
  BY <1>1, <1>3 DEF Follows

LEMMA NothingFollows ==
    ASSUME NEW a
    PROVE  Follows(<< >>, a) /\ Len(<< >>) = 0 /\ << >> \in Seq(Byte)
  BY DEF Follows

\* The bytes given to one call of write().
LEMMA BytesAre ==
    ASSUME NEW a \in Nat, NEW n \in Nat, a + n <= Total
    PROVE  /\ Bytes(a + 1, a + n) \in Seq(Byte)
           /\ Len(Bytes(a + 1, a + n)) = n
           /\ Follows(Bytes(a + 1, a + n), a)
<1> USE StreamsAssumption
<1>1. a + n - (a + 1) + 1 = n /\ \A i \in 1 .. n : a + 1 + i - 1 = a + i
  OBVIOUS
<1>2. Bytes(a + 1, a + n) = [i \in 1 .. n |-> a + 1 + i - 1]
  BY <1>1 DEF Bytes
<1>3. Bytes(a + 1, a + n) \in Seq(Byte)
  <2>1. \A i \in 1 .. n : a + 1 + i - 1 \in Byte
    BY <1>1 DEF Byte
  <2>2. PICK f \in [1 .. n -> Byte] : f = [i \in 1 .. n |-> a + 1 + i - 1]
    BY <2>1
  <2>3. f \in Seq(Byte)
    BY SeqDef
  <2> QED
    BY <1>2, <2>2, <2>3
<1>4. Len(Bytes(a + 1, a + n)) = n /\ \A i \in 1 .. n : Bytes(a + 1, a + n)[i] = a + i
  BY <1>1, <1>2
<1> QED
  BY <1>2, <1>3, <1>4 DEF Follows

-----------------------------------------------------------------------------
(***************************************************************************)
(* The loops of write() and read().                                        *)
(***************************************************************************)

LEMMA CopyInOK ==
    ASSUME NEW buf \in Seq(Byte), Len(buf) <= WriterSize,
           NEW src \in Seq(Byte), NEW a \in Int, CopyIn(buf, src)
    PROVE  /\ wbuf' \in Seq(Byte) /\ Len(wbuf') <= WriterSize
           /\ source' \in Seq(Byte) /\ offset' = 0 /\ flushing' \in BOOLEAN
           /\ ~flushing' => source' = << >>
           /\ Len(wbuf') + Len(source') = Len(buf) + Len(src)
           /\ Follows(buf, a) /\ Follows(src, a + Len(buf)) =>
                  Follows(wbuf', a) /\ Follows(source', a + Len(wbuf'))
<1>1. Len(src) \in Nat /\ Len(buf) \in Nat /\ WriterSize \in Nat
  BY LenProperties, StreamsAssumption
<1>2. PICK n \in 0 .. Len(src) : n = Least(Len(src), Room(buf)) /\ n <= WriterSize - Len(buf)
  <2>1. /\ Least(Len(src), Room(buf)) \in 0 .. Len(src)
        /\ Least(Len(src), Room(buf)) <= WriterSize - Len(buf)
    BY <1>1 DEF Least, Room
  <2> QED
    BY <2>1
<1>3. PICK p, r, w : /\ p = SubSeq(src, 1, n) /\ r = SubSeq(src, n + 1, Len(src))
                      /\ w = buf \o p
  OBVIOUS
<1>4. PICK b \in Int : b = a + Len(buf)
  BY <1>1
<1>5. /\ wbuf' = w /\ source' = r /\ offset' = 0
      /\ flushing' \in BOOLEAN /\ (~flushing' => n = Len(src))
  <2>1. wbuf' = w /\ source' = r /\ flushing' = (n < Len(src)) /\ offset' = 0
    BY <1>2, <1>3, Zenon DEF CopyIn
  <2>2. flushing' \in BOOLEAN
    BY <2>1, SMT
  <2>3. flushing' <=> n < Len(src)
    BY <2>1, Zenon
  <2> QED
    BY <1>1, <1>2, <2>1, <2>2, <2>3
<1>6. /\ p \in Seq(Byte) /\ Len(p) = n
      /\ r \in Seq(Byte) /\ Len(r) = Len(src) - n
      /\ Follows(src, b) => Follows(p, b) /\ Follows(r, b + n)
  <2>1. n \in 0 .. Len(src)
    BY <1>2
  <2> QED
    BY <1>3, <2>1, CutFollows DEF Follows
<1>7. /\ w \in Seq(Byte) /\ Len(w) = Len(buf) + n
      /\ Follows(buf, a) /\ Follows(p, b) => Follows(w, a)
  BY <1>3, <1>4, <1>6, JoinFollows DEF Follows
<1>8. ~flushing' => source' = << >>
  <2>1. n = Len(src) => Len(r) = 0
    BY <1>1, <1>6
  <2> QED
    BY <1>5, <1>6, <2>1, EmptySeq
<1>9. b + n = a + Len(wbuf') /\ Len(wbuf') <= WriterSize /\ Len(wbuf') + Len(source') = Len(buf) + Len(src)
  <2>1. Len(wbuf') = Len(buf) + n /\ Len(source') = Len(src) - n
    BY <1>5, <1>6, <1>7
  <2>2. n \in Int /\ n <= WriterSize - Len(buf)
    BY <1>1, <1>2
  <2>3. b + n = a + (Len(buf) + n)
    BY <1>1, <1>4, <2>2
  <2>4. Len(buf) + n <= WriterSize /\ Len(buf) + n + (Len(src) - n) = Len(buf) + Len(src)
    BY <1>1, <2>2
  <2> QED
    BY <2>1, <2>3, <2>4
<1> QED
  BY <1>4, <1>5, <1>6, <1>7, <1>8, <1>9

\* The buffer goes on where a call stands that has got dest.
GoesOn(buf, dest) ==
    /\ Follows(received, 0) /\ Follows(dest, Len(received))
    /\ Follows(buf, Len(received) + Len(dest))

LEMMA CopyOutOK ==
    ASSUME received \in Seq(Byte), NEW buf \in Seq(Byte),
           NEW n \in Nat, NEW dest \in Seq(Byte), CopyOut(buf, n, dest), GoesOn(buf, dest)
    PROVE  /\ received' \in Seq(Byte) /\ got' \in Seq(Byte)
           /\ rbuf' \in Seq(Byte) /\ Len(rbuf') <= Len(buf)
           /\ need' \in 0 .. n
           /\ Follows(received', 0) /\ Follows(got', Len(received'))
           /\ Follows(rbuf', Consumed')
           /\ need' = 0 => got' = << >>
           /\ need' > 0 => rbuf' = << >>
           /\ Arrived' = Len(received) + Len(dest) + Len(buf)
           /\ Consumed' + need' = Len(received) + Len(dest) + n
<1>1. Len(buf) \in Nat /\ Len(dest) \in Nat /\ Len(received) \in Nat
  BY LenProperties
<1>2. PICK k \in 0 .. Len(buf) : k = Least(n, Len(buf)) /\ k <= n /\ (k < n => k = Len(buf))
  <2>1. /\ Least(n, Len(buf)) \in 0 .. Len(buf) /\ Least(n, Len(buf)) <= n
        /\ Least(n, Len(buf)) < n => Least(n, Len(buf)) = Len(buf)
    BY <1>1 DEF Least
  <2> QED
    BY <2>1
<1>3. PICK p, r, all, more :
          /\ p = SubSeq(buf, 1, k) /\ r = SubSeq(buf, k + 1, Len(buf))
          /\ all = dest \o p /\ more = received \o all
  OBVIOUS
<1>4. PICK m \in Int, t \in Int : m = Len(received) /\ t = Len(received) + Len(dest)
  BY <1>1
<1>5. /\ rbuf' = r /\ need' = n - k
      /\ k = n => got' = << >> /\ received' = more
      /\ k # n => got' = all /\ received' = received
  BY <1>2, <1>3, Zenon DEF CopyOut
<1>6. /\ p \in Seq(Byte) /\ Len(p) = k
      /\ r \in Seq(Byte) /\ Len(r) = Len(buf) - k
      /\ Follows(p, t) /\ Follows(r, t + k)
  <2>1. t \in Int /\ Follows(buf, t)
    BY <1>4 DEF GoesOn
  <2>2. k \in 0 .. Len(buf)
    BY <1>2
  <2>3. p = SubSeq(buf, 1, k) /\ r = SubSeq(buf, k + 1, Len(buf))
    BY <1>3
  <2> QED
    BY <2>1, <2>2, <2>3, CutFollows DEF Follows
<1>7. all \in Seq(Byte) /\ Len(all) = Len(dest) + k /\ Follows(all, m)
  <2>1. Follows(dest, m) /\ Follows(p, m + Len(dest))
    BY <1>4, <1>6 DEF GoesOn
  <2> QED
    BY <1>3, <1>6, <2>1, JoinFollows DEF Follows
<1>8. more \in Seq(Byte) /\ Len(more) = m + Len(all) /\ Follows(more, 0)
  <2>1. 0 \in Int /\ Follows(received, 0) /\ Follows(all, 0 + Len(received))
    BY <1>1, <1>4, <1>7 DEF GoesOn
  <2>2. all \in Seq(Byte)
    BY <1>7
  <2>3. m = Len(received) /\ more = received \o all
    BY <1>3, <1>4
  <2> QED
    BY <2>1, <2>2, <2>3, JoinFollows DEF Follows
<1>9. /\ received' \in Seq(Byte) /\ got' \in Seq(Byte)
      /\ Follows(received', 0) /\ Follows(got', Len(received'))
      /\ Len(received') + Len(got') = t + k
  <2>1. CASE k = n
    <3>1. Follows(<< >>, Len(received')) /\ Len(<< >>) = 0 /\ << >> \in Seq(Byte)
      BY NothingFollows
    <3>2. Len(received') + 0 = t + k
      BY <1>1, <1>4, <1>5, <1>7, <1>8, <2>1
    <3> QED
      BY <1>5, <1>8, <2>1, <3>1, <3>2
  <2>2. CASE k # n
    <3>1. got' = all /\ received' = received
      BY <1>5, <2>2
    <3>2. Len(received) + Len(all) = t + k
      BY <1>1, <1>4, <1>7
    <3> QED
      BY <1>4, <1>7, <3>1, <3>2 DEF GoesOn
  <2> QED
    BY <2>1, <2>2
<1>10. need' > 0 => rbuf' = << >>
  <2>1. k < n => Len(r) = 0
    BY <1>1, <1>2, <1>6
  <2> QED
    BY <1>1, <1>2, <1>5, <1>6, <2>1, EmptySeq
<1>11. need' = 0 => got' = << >>
  BY <1>2, <1>5
<1>12. /\ Consumed' = t + k /\ Arrived' = t + Len(buf) /\ Consumed' + need' = t + n
       /\ Len(rbuf') <= Len(buf) /\ need' \in 0 .. n
  <2>1. Consumed' = t + k
    BY <1>9 DEF Consumed
  <2>2. Arrived' = Consumed' + Len(r)
    BY <1>5 DEF Arrived
  <2>3. Len(r) = Len(buf) - k /\ need' = n - k /\ rbuf' = r
    BY <1>5, <1>6
  <2>4. k \in Int /\ 0 <= k /\ k <= n
    BY <1>1, <1>2
  <2>5. t + k + (Len(buf) - k) = t + Len(buf) /\ t + k + (n - k) = t + n /\ n - k \in 0 .. n
        /\ Len(buf) - k <= Len(buf)
    BY <1>1, <1>4, <2>4
  <2> QED
    BY <2>1, <2>2, <2>3, <2>5
<1> QED
  BY <1>4, <1>5, <1>6, <1>9, <1>10, <1>11, <1>12

-----------------------------------------------------------------------------
(***************************************************************************)
(* The steps of the writer.                                                *)
(***************************************************************************)

LEMMA Counts ==
    ASSUME TypeOK
    PROVE  /\ Len(received) \in Nat /\ Len(got) \in Nat /\ Len(rbuf) \in Nat
           /\ Len(socket) \in Nat /\ Len(wbuf) \in Nat /\ Len(source) \in Nat
           /\ Consumed \in Nat /\ Arrived \in Nat /\ Sent \in Nat
           /\ offered \in Nat /\ offset \in Nat /\ need \in Nat
           /\ Total \in Nat /\ MaxLength \in Nat
<1>1. /\ Len(received) \in Nat /\ Len(got) \in Nat /\ Len(rbuf) \in Nat
      /\ Len(socket) \in Nat /\ Len(wbuf) \in Nat /\ Len(source) \in Nat
  BY LenProperties DEF TypeOK
<1>2. Total \in Nat /\ MaxLength \in Nat
  BY StreamsAssumption
<1> QED
  BY <1>1, <1>2 DEF TypeOK, Consumed, Arrived, Sent

\* The reader does not see what the writer does to its own buffer.
LEMMA ReaderUntouched ==
    ASSUME IInv, UNCHANGED reader, UNCHANGED socket,
           offered' \in Nat, offered <= offered'
    PROVE  /\ ReaderOK' /\ WayOK'
           /\ Consumed' = Consumed /\ Arrived' = Arrived /\ Sent' = Sent
<1>1. Consumed' = Consumed /\ Arrived' = Arrived /\ Sent' = Sent
  BY DEF reader, Consumed, Arrived, Sent
<1>2. Consumed \in Nat /\ Sent \in Nat /\ offered \in Nat
  BY Counts DEF IInv
<1>3. ReaderOK'
  BY <1>1, <1>2 DEF IInv, ReaderOK, Follows, reader
<1>4. WayOK'
  BY <1>1, <1>2 DEF IInv, WayOK, Follows, reader
<1> QED
  BY <1>1, <1>3, <1>4

LEMMA WriteKeeps ==
    ASSUME IInv, NEW n \in 0 .. MaxLength, Write(n)
    PROVE  IInv'
<1>1. PICK src : src = Bytes(offered + 1, offered + n)
  OBVIOUS
<1>2. /\ wvalid /\ ~flushing /\ offered + n <= Total /\ offered' = offered + n
      /\ CopyIn(wbuf, src) /\ UNCHANGED <<wvalid, flushed, socket>> /\ UNCHANGED reader
  BY <1>1, Zenon DEF Write
<1>3. offered \in Nat /\ n \in Nat /\ Sent \in Int /\ Len(wbuf) \in Nat /\ Total \in Nat
  BY Counts DEF IInv
<1>4. src \in Seq(Byte) /\ Len(src) = n /\ Follows(src, offered)
  <2>1. offered \in Nat /\ n \in Nat /\ offered + n <= Total
    BY <1>2, <1>3
  <2> QED
    BY <1>1, <2>1, BytesAre DEF Follows
<1>5. offset = 0 /\ source = << >>
  BY <1>2 DEF IInv, WriterOK
<1>6. wbuf \in Seq(Byte) /\ Len(wbuf) <= WriterSize
  BY DEF IInv, TypeOK
<1>7. rvalid => Follows(wbuf, Sent) /\ Follows(src, Sent + Len(wbuf)) /\ Sent + Len(wbuf) = offered
  <2>1. Len(source) = 0
    BY <1>5, NothingFollows
  <2>2. rvalid => Sent + Len(wbuf) = offered
    BY <1>2, <1>3, <1>5, <2>1 DEF IInv, RestOK
  <2>3. rvalid => Follows(wbuf, Sent)
    BY <1>2, <1>3, <1>5 DEF IInv, RestOK, Follows
  <2> QED
    BY <1>4, <2>2, <2>3
<1>8. /\ wbuf' \in Seq(Byte) /\ Len(wbuf') <= WriterSize
      /\ source' \in Seq(Byte) /\ offset' = 0 /\ flushing' \in BOOLEAN
      /\ ~flushing' => source' = << >>
      /\ Len(wbuf') + Len(source') = Len(wbuf) + Len(src)
      /\ Follows(wbuf, Sent) /\ Follows(src, Sent + Len(wbuf)) =>
             Follows(wbuf', Sent) /\ Follows(source', Sent + Len(wbuf'))
  BY <1>2, <1>3, <1>4, <1>6, CopyInOK
<1>9. Len(wbuf') \in Nat /\ Len(source') \in Nat
  BY <1>8, LenProperties
<1>10. TypeOK'
  BY <1>2, <1>3, <1>8, <1>9 DEF IInv, TypeOK, reader
<1>11. ReaderOK' /\ WayOK' /\ Sent' = Sent
  <2>1. offered' \in Nat /\ offered <= offered'
    BY <1>2, <1>3
  <2> QED
    BY <1>2, <2>1, ReaderUntouched
<1>12. WriterOK'
  BY <1>2, <1>8 DEF WriterOK
<1>13. RestOK'
  <2>1. ASSUME rvalid
        PROVE  /\ Follows(wbuf', Sent) /\ Follows(source', Sent + Len(wbuf'))
               /\ Sent + Len(wbuf') + Len(source') = offered'
    <3>1. Follows(wbuf', Sent) /\ Follows(source', Sent + Len(wbuf'))
      BY <1>7, <1>8, <2>1
    <3>2. Sent + Len(wbuf) = offered /\ offered' = offered + n
      BY <1>2, <1>7, <2>1
    <3>3. Len(wbuf') + Len(source') = Len(wbuf) + n
      BY <1>4, <1>8
    <3> QED
      BY <1>3, <1>9, <3>1, <3>2, <3>3
  <2>2. Sent' - offset' = Sent
    BY <1>3, <1>8, <1>11
  <2>3. rvalid' = rvalid
    BY <1>2 DEF reader
  <2> QED
    BY <1>8, <2>1, <2>2, <2>3 DEF RestOK, Follows
<1> QED
  BY <1>10, <1>11, <1>12, <1>13 DEF IInv

LEMMA FlushKeeps ==
    ASSUME IInv, Flush
    PROVE  IInv'
<1>1. /\ wvalid /\ ~flushing /\ flushing' = TRUE
      /\ UNCHANGED <<offered, source, wbuf, offset, wvalid, flushed, socket>>
      /\ UNCHANGED reader
  BY DEF Flush
<1>2. TypeOK'
  BY <1>1 DEF IInv, TypeOK, reader
<1>3. ReaderOK' /\ WayOK' /\ Sent' = Sent
  BY <1>1, Counts, ReaderUntouched DEF IInv
<1>4. WriterOK'
  BY <1>1 DEF WriterOK
<1>5. RestOK'
  BY <1>1, <1>3 DEF IInv, RestOK, Follows, reader
<1> QED
  BY <1>2, <1>3, <1>4, <1>5 DEF IInv

LEMMA StreamWriteFailsKeeps ==
    ASSUME IInv, StreamWriteFails
    PROVE  IInv'
<1>1. /\ flushing' = FALSE /\ source' = << >> /\ offset' = 0 /\ wvalid' = FALSE
      /\ UNCHANGED <<offered, wbuf, flushed, socket>> /\ UNCHANGED reader
  BY DEF StreamWriteFails
<1>2. TypeOK'
  <2>1. << >> \in Seq(Byte) /\ 0 \in 0 .. Len(wbuf)
    BY NothingFollows, Counts DEF IInv
  <2> QED
    BY <1>1, <2>1 DEF IInv, TypeOK, reader
<1>3. ReaderOK' /\ WayOK'
  BY <1>1, Counts, ReaderUntouched DEF IInv
<1>4. WriterOK' /\ RestOK'
  BY <1>1 DEF WriterOK, RestOK
<1> QED
  BY <1>2, <1>3, <1>4 DEF IInv

\* A middle piece of the buffer.
LEMMA MiddleOf ==
    ASSUME NEW S, NEW q \in Seq(S), NEW k \in Nat, NEW n \in Nat, k + n <= Len(q),
           NEW p, p = SubSeq(q, k + 1, k + n), NEW a \in Int
    PROVE  /\ p \in Seq(S) /\ Len(p) = n
           /\ (\A i \in k + 1 .. Len(q) : q[i] = a - k + i) => Follows(p, a)
<1>1. PICK m \in Int, l \in Int : m = k + 1 /\ l = k + n
  OBVIOUS
<1>2. Len(q) \in Nat
  BY LenProperties
<1>3. p \in Seq(S) /\ Len(p) = l - m + 1 /\ \A i \in 1 .. l - m + 1 : p[i] = q[m + i - 1]
  <2>1. 1 <= m /\ m <= l + 1 /\ l <= Len(q)
    BY <1>1, <1>2
  <2>2. p = SubSeq(q, m, l)
    BY <1>1
  <2> QED
    BY <2>1, <2>2, CutIs
<1>4. Len(p) = n
  BY <1>1, <1>3
<1>5. ASSUME \A i \in k + 1 .. Len(q) : q[i] = a - k + i, NEW i \in 1 .. n
      PROVE  p[i] = a + i
  <2>1. k + i \in k + 1 .. Len(q) /\ i \in 1 .. l - m + 1 /\ m + i - 1 = k + i
        /\ a - k + (k + i) = a + i
    BY <1>1, <1>2
  <2> QED
    BY <1>3, <1>5, <2>1
<1> QED
  BY <1>3, <1>4, <1>5 DEF Follows

LEMMA StreamWriteKeeps ==
    ASSUME IInv, StreamWrite
    PROVE  IInv'
<1>1. PICK n \in 1 .. Least(Len(wbuf) - offset, SocketSize - Len(socket)) :
          /\ socket' = socket \o SubSeq(wbuf, offset + 1, offset + n)
          /\ IF offset + n < Len(wbuf)
             THEN /\ offset' = offset + n
                  /\ UNCHANGED <<source, wbuf, flushing, flushed>>
             ELSE /\ CopyIn(<< >>, source)
                  /\ flushed' = IF source = << >> THEN offered ELSE flushed
  BY DEF StreamWrite
<1>2. flushing /\ UNCHANGED <<offered, wvalid>> /\ UNCHANGED reader
  BY DEF StreamWrite
<1>3. /\ Sent \in Nat /\ Arrived \in Nat /\ Consumed \in Nat /\ offset \in Nat /\ offered \in Nat
      /\ Len(wbuf) \in Nat /\ Len(socket) \in Nat /\ Len(source) \in Nat
      /\ Sent = Arrived + Len(socket)
  BY Counts DEF IInv, Sent
<1>4. /\ n \in Nat /\ n > 0 /\ offset + n <= Len(wbuf) /\ Len(socket) + n <= SocketSize
  <2>1. offset <= Len(wbuf) /\ Len(socket) <= SocketSize /\ SocketSize \in Nat
    BY StreamsAssumption DEF IInv, TypeOK
  <2>2. n \in 1 .. Least(Len(wbuf) - offset, SocketSize - Len(socket))
    BY <1>1
  <2> QED
    BY <1>3, <2>1, <2>2 DEF Least
<1>5. PICK p, s : p = SubSeq(wbuf, offset + 1, offset + n) /\ s = socket \o p
  OBVIOUS
<1>6. wbuf \in Seq(Byte) /\ socket \in Seq(Byte) /\ source \in Seq(Byte)
  BY DEF IInv, TypeOK
<1>7. /\ p \in Seq(Byte) /\ Len(p) = n
      /\ rvalid => Follows(p, Sent)
  <2>1. p = SubSeq(wbuf, offset + 1, offset + n)
    BY <1>5
  <2>2. /\ p \in Seq(Byte) /\ Len(p) = n
        /\ (\A i \in offset + 1 .. Len(wbuf) : wbuf[i] = Sent - offset + i) => Follows(p, Sent)
    BY <1>3, <1>4, <1>6, <2>1, MiddleOf DEF Follows
  <2>3. rvalid => \A i \in offset + 1 .. Len(wbuf) : wbuf[i] = Sent - offset + i
    BY <1>2 DEF IInv, WriterOK, RestOK
  <2> QED
    BY <2>2, <2>3
<1>8. /\ socket' = s /\ s \in Seq(Byte) /\ Len(s) = Len(socket) + n
      /\ rvalid => Follows(s, Arrived)
  <2>1. rvalid => Follows(socket, Arrived) /\ Follows(p, Arrived + Len(socket))
    BY <1>3, <1>7 DEF IInv, WayOK
  <2>2. s = socket \o p /\ p \in Seq(Byte)
    BY <1>5, <1>7
  <2>3. /\ s \in Seq(Byte) /\ Len(s) = Len(socket) + Len(p)
        /\ Follows(socket, Arrived) /\ Follows(p, Arrived + Len(socket)) => Follows(s, Arrived)
    <3>1. Arrived \in Int /\ socket \in Seq(Byte)
      BY <1>3, <1>6
    <3> QED
      BY <2>2, <3>1, JoinFollows DEF Follows
  <2> QED
    BY <1>1, <1>5, <1>7, <2>1, <2>2, <2>3
<1>9. Consumed' = Consumed /\ Arrived' = Arrived /\ Sent' = Sent + n
  <2>1. Consumed' = Consumed /\ Arrived' = Arrived
    BY <1>2 DEF Consumed, Arrived, reader
  <2> QED
    BY <1>3, <1>4, <1>8, <2>1 DEF Sent
<1>10. rvalid => Sent - offset + Len(wbuf) + Len(source) = offered
  BY <1>2 DEF IInv, WriterOK, RestOK
<1>11. ReaderOK'
  BY <1>2, <1>9 DEF IInv, ReaderOK, Follows, reader
<1>12. WayOK'
  <2>1. ASSUME rvalid
        PROVE  Sent + n <= offered /\ Follows(rbuf, Consumed) /\ Follows(socket', Arrived)
    <3>1. Sent + n <= offered
      BY <1>3, <1>4, <1>10, <2>1
    <3> QED
      BY <1>8, <2>1, <3>1 DEF IInv, WayOK
  <2>2. rvalid' = rvalid /\ rbuf' = rbuf /\ offered' = offered
    BY <1>2 DEF reader
  <2> QED
    BY <1>9, <2>1, <2>2 DEF WayOK, Follows
<1>13. TypeOK' /\ WriterOK' /\ RestOK'
  <2>1. CASE offset + n < Len(wbuf)
    <3>1. offset' = offset + n /\ UNCHANGED <<source, wbuf, flushing, flushed>>
      BY <1>1, <2>1
    <3>2. TypeOK'
      BY <1>2, <1>3, <1>4, <1>8, <2>1, <3>1 DEF IInv, TypeOK, reader
    <3>3. WriterOK'
      BY <1>2, <3>1 DEF IInv, WriterOK
    <3>4. Sent' - offset' = Sent - offset
      BY <1>3, <1>4, <1>9, <3>1
    <3>5. RestOK'
      <4>1. \A i \in offset' + 1 .. Len(wbuf) : i \in offset + 1 .. Len(wbuf)
        BY <1>3, <1>4, <3>1
      <4> QED
        BY <1>2, <3>1, <3>4, <4>1 DEF IInv, RestOK, Follows, reader
    <3> QED
      BY <3>2, <3>3, <3>5
  <2>2. CASE ~(offset + n < Len(wbuf))
    <3>1. CopyIn(<< >>, source) /\ flushed' = IF source = << >> THEN offered ELSE flushed
      BY <1>1, <2>2
    <3>2. PICK a \in Int : a = Sent + n
      BY <1>3, <1>4
    <3>3. << >> \in Seq(Byte) /\ Len(<< >>) = 0 /\ 0 <= WriterSize /\ Follows(<< >>, a)
      BY NothingFollows, StreamsAssumption
    <3>4. /\ wbuf' \in Seq(Byte) /\ Len(wbuf') <= WriterSize
          /\ source' \in Seq(Byte) /\ offset' = 0 /\ flushing' \in BOOLEAN
          /\ ~flushing' => source' = << >>
          /\ Len(wbuf') + Len(source') = Len(<< >>) + Len(source)
          /\ Follows(<< >>, a) /\ Follows(source, a + Len(<< >>)) =>
                 Follows(wbuf', a) /\ Follows(source', a + Len(wbuf'))
      BY <1>6, <3>1, <3>3, CopyInOK
    <3>5. Len(wbuf') \in Nat /\ Len(source') \in Nat /\ Len(wbuf') + Len(source') = Len(source)
      <4>1. Len(wbuf') \in Nat /\ Len(source') \in Nat
        BY <3>4, LenProperties
      <4> QED
        BY <1>3, <3>3, <3>4, <4>1
    <3>6. TypeOK'
      BY <1>2, <1>3, <1>4, <1>8, <3>1, <3>4, <3>5 DEF IInv, TypeOK, reader
    <3>7. WriterOK'
      BY <1>2, <3>4 DEF IInv, WriterOK
    <3>8. RestOK'
      <4>1. offset + n = Len(wbuf) /\ Sent' - offset' = a
        BY <1>3, <1>4, <1>9, <2>2, <3>2, <3>4
      <4>2. ASSUME rvalid
            PROVE  /\ Follows(wbuf', a) /\ Follows(source', a + Len(wbuf'))
                   /\ a + Len(wbuf') + Len(source') = offered
        <5>1. Follows(source, Sent - offset + Len(wbuf))
          BY <1>2, <4>2 DEF IInv, WriterOK, RestOK
        <5>2. a + Len(<< >>) = Sent - offset + Len(wbuf)
          BY <1>3, <1>4, <3>2, <3>3, <4>1
        <5>3. a + Len(wbuf') + Len(source') = offered
          <6>1. a = Sent - offset + Len(wbuf)
            BY <1>3, <1>4, <3>2, <4>1
          <6> QED
            BY <1>3, <1>10, <3>5, <4>2, <6>1
        <5> QED
          BY <3>3, <3>4, <5>1, <5>2, <5>3
      <4>3. rvalid' = rvalid /\ offered' = offered
        BY <1>2 DEF reader
      <4> QED
        BY <3>4, <4>1, <4>2, <4>3 DEF RestOK, Follows
    <3> QED
      BY <3>6, <3>7, <3>8
  <2> QED
    BY <2>1, <2>2
<1> QED
  BY <1>11, <1>12, <1>13 DEF IInv

-----------------------------------------------------------------------------
(***************************************************************************)
(* The steps of the reader.                                                *)
(***************************************************************************)

\* A call gets dest and goes on with buf, while sk stays in the socket.
LEMMA CallGoesOn ==
    ASSUME IInv, rvalid, UNCHANGED rvalid, UNCHANGED writer,
           NEW buf \in Seq(Byte), Len(buf) <= ReaderSize,
           NEW n \in 0 .. MaxLength, NEW dest \in Seq(Byte),
           CopyOut(buf, n, dest), GoesOn(buf, dest),
           NEW a \in Nat, a = Len(received) + Len(dest) + Len(buf),
           NEW sk \in Seq(Byte), socket' = sk, Len(sk) <= SocketSize,
           Follows(sk, a), a + Len(sk) = Sent
    PROVE  IInv' /\ Consumed' + need' = Len(received) + Len(dest) + n
<1>1. /\ Sent \in Nat /\ offered \in Nat /\ MaxLength \in Nat
  BY Counts DEF IInv
<1>2. received \in Seq(Byte) /\ n \in Nat
  BY <1>1 DEF IInv, TypeOK
<1>3. /\ received' \in Seq(Byte) /\ got' \in Seq(Byte)
      /\ rbuf' \in Seq(Byte) /\ Len(rbuf') <= Len(buf)
      /\ need' \in 0 .. n
      /\ Follows(received', 0) /\ Follows(got', Len(received'))
      /\ Follows(rbuf', Consumed')
      /\ need' = 0 => got' = << >>
      /\ need' > 0 => rbuf' = << >>
      /\ Arrived' = Len(received) + Len(dest) + Len(buf)
      /\ Consumed' + need' = Len(received) + Len(dest) + n
  BY <1>2, CopyOutOK
<1>4. Len(received') \in Nat /\ Len(got') \in Nat /\ Len(rbuf') \in Nat /\ Len(sk) \in Nat
  BY <1>3, LenProperties
<1>5. TypeOK'
  <2>1. Len(buf) \in Nat /\ ReaderSize \in Nat
    BY LenProperties, StreamsAssumption
  <2>2. Len(rbuf') <= ReaderSize
    <3>1. Len(rbuf') <= Len(buf)
      BY <1>3
    <3> QED
      BY <1>4, <2>1, <3>1
  <2>3. need' \in 0 .. MaxLength
    <3>1. need' \in 0 .. n
      BY <1>3
    <3> QED
      BY <1>1, <3>1
  <2> QED
    BY <1>3, <2>2, <2>3 DEF IInv, TypeOK, writer
<1>6. Arrived' = a /\ Sent' = Sent /\ Consumed' \in Nat /\ Consumed' <= Sent'
  <2>1. Arrived' = a
    BY <1>3
  <2>2. Sent' = Arrived' + Len(sk)
    BY DEF Sent
  <2>3. Consumed' = Len(received') + Len(got') /\ Arrived' = Consumed' + Len(rbuf')
    BY DEF Consumed, Arrived
  <2> QED
    BY <1>1, <1>4, <2>1, <2>2, <2>3
<1>7. Sent <= offered
  BY DEF IInv, WayOK
<1>8. ReaderOK'
  <2>1. offered' = offered /\ rvalid'
    BY DEF writer
  <2>2. Consumed' <= offered'
    BY <1>1, <1>6, <1>7, <2>1
  <2> QED
    BY <1>3, <2>1, <2>2 DEF ReaderOK
<1>9. WayOK'
  <2>1. offered' = offered
    BY DEF writer
  <2> QED
    BY <1>3, <1>6, <1>7, <2>1 DEF WayOK, Follows
<1>10. WriterOK'
  BY DEF IInv, WriterOK, writer
<1>11. RestOK'
  BY <1>6 DEF IInv, RestOK, Follows, writer
<1> QED
  BY <1>3, <1>5, <1>8, <1>9, <1>10, <1>11 DEF IInv

LEMMA ReadKeeps ==
    ASSUME IInv, NEW n \in 0 .. MaxLength, Read(n)
    PROVE  /\ IInv'
           /\ Consumed' + need' = Consumed + n
<1>1. /\ rvalid /\ need = 0 /\ CopyOut(rbuf, n, << >>)
      /\ UNCHANGED rvalid /\ UNCHANGED writer /\ UNCHANGED socket
  BY DEF Read
<1>2. << >> \in Seq(Byte) /\ Len(<< >>) = 0 /\ \A a : Follows(<< >>, a)
  BY NothingFollows
<1>3. got = << >> /\ Consumed = Len(received) + Len(<< >>)
  BY <1>1 DEF IInv, ReaderOK, Consumed
<1>4. GoesOn(rbuf, << >>)
  <2>1. Follows(received, 0) /\ Follows(rbuf, Consumed)
    BY <1>1 DEF IInv, ReaderOK, WayOK
  <2> QED
    BY <1>2, <1>3, <2>1 DEF GoesOn
<1>5. PICK a \in Nat : a = Arrived
  BY Counts DEF IInv
<1>6. a = Len(received) + Len(<< >>) + Len(rbuf) /\ a + Len(socket) = Sent
  BY <1>3, <1>5 DEF Arrived, Sent
<1>7. Follows(socket, a)
  BY <1>1, <1>5 DEF IInv, WayOK
<1>8. /\ rbuf \in Seq(Byte) /\ Len(rbuf) <= ReaderSize
      /\ socket \in Seq(Byte) /\ Len(socket) <= SocketSize
  BY DEF IInv, TypeOK
<1>9. IInv' /\ Consumed' + need' = Len(received) + Len(<< >>) + n
  BY <1>1, <1>2, <1>4, <1>6, <1>7, <1>8, CallGoesOn
<1> QED
  BY <1>3, <1>9

LEMMA StreamReadKeeps ==
    ASSUME IInv, StreamRead
    PROVE  /\ IInv'
           /\ Consumed' + need' = Consumed + need
<1>1. PICK n \in 1 .. Least(ReaderSize, Len(socket)) :
          /\ CopyOut(SubSeq(socket, 1, n), need, got)
          /\ socket' = SubSeq(socket, n + 1, Len(socket))
  BY DEF StreamRead
<1>2. need > 0 /\ UNCHANGED rvalid /\ UNCHANGED writer
  BY DEF StreamRead
<1>3. PICK buf, sk : /\ buf = SubSeq(socket, 1, n)
                     /\ sk = SubSeq(socket, n + 1, Len(socket))
  OBVIOUS
<1>4. /\ Len(socket) \in Nat /\ ReaderSize \in Nat /\ Consumed \in Nat /\ Arrived \in Nat /\ Sent \in Nat
      /\ Sent = Arrived + Len(socket) /\ Consumed = Len(received) + Len(got) /\ need \in 0 .. MaxLength
      /\ Len(received) \in Nat /\ Len(got) \in Nat
  BY Counts, StreamsAssumption DEF IInv, TypeOK, Sent, Consumed
<1>5. n \in Nat /\ n <= ReaderSize /\ n \in 0 .. Len(socket)
  BY <1>4 DEF Least
<1>6. rvalid /\ rbuf = << >> /\ Arrived = Consumed
  <2>1. rvalid /\ rbuf = << >>
    BY <1>2 DEF IInv, ReaderOK
  <2>2. Arrived = Consumed + Len(rbuf) /\ Len(<< >>) = 0
    BY NothingFollows DEF Arrived
  <2> QED
    BY <1>4, <2>1, <2>2
<1>7. /\ buf \in Seq(Byte) /\ Len(buf) = n /\ Follows(buf, Consumed)
      /\ sk \in Seq(Byte) /\ Len(sk) = Len(socket) - n /\ Follows(sk, Consumed + n)
  <2>1. Follows(socket, Consumed)
    BY <1>6 DEF IInv, WayOK
  <2>2. socket \in Seq(Byte)
    BY DEF IInv, TypeOK
  <2>3. n \in 0 .. Len(socket) /\ Consumed \in Int
    BY <1>4, <1>5
  <2> QED
    BY <1>3, <2>1, <2>2, <2>3, CutFollows DEF Follows
<1>8. GoesOn(buf, got)
  BY <1>4, <1>7 DEF IInv, ReaderOK, GoesOn
<1>9. PICK a \in Nat : a = Consumed + n
  BY <1>4, <1>5
<1>10. /\ a = Len(received) + Len(got) + Len(buf) /\ a + Len(sk) = Sent /\ Follows(sk, a)
  BY <1>4, <1>6, <1>7, <1>9
<1>11. Len(buf) <= ReaderSize /\ Len(sk) <= SocketSize
  <2>1. Len(socket) <= SocketSize /\ SocketSize \in Nat
    BY StreamsAssumption DEF IInv, TypeOK
  <2> QED
    BY <1>4, <1>5, <1>7, <2>1
<1>12. got \in Seq(Byte) /\ CopyOut(buf, need, got) /\ socket' = sk
  BY <1>1, <1>3 DEF IInv, TypeOK
<1>13. IInv' /\ Consumed' + need' = Len(received) + Len(got) + need
  BY <1>2, <1>4, <1>6, <1>7, <1>8, <1>10, <1>11, <1>12, CallGoesOn
<1> QED
  BY <1>4, <1>13

LEMMA StreamReadFailsKeeps ==
    ASSUME IInv, StreamReadFails
    PROVE  IInv' /\ rvalid' = FALSE
<1>1. /\ need' = 0 /\ got' = << >> /\ rvalid' = FALSE
      /\ UNCHANGED <<rbuf, received, socket>> /\ UNCHANGED writer
  BY DEF StreamReadFails
<1>2. << >> \in Seq(Byte) /\ Len(<< >>) = 0 /\ \A a : Follows(<< >>, a)
  BY NothingFollows
<1>3. /\ Len(received) \in Nat /\ Len(got) \in Nat /\ Consumed \in Nat /\ offered \in Nat
      /\ Consumed = Len(received) + Len(got) /\ MaxLength \in Nat
  BY Counts DEF IInv, Consumed
<1>4. TypeOK'
  <2>1. << >> \in Seq(Byte) /\ 0 \in 0 .. MaxLength
    BY <1>2, <1>3
  <2> QED
    BY <1>1, <2>1 DEF IInv, TypeOK, writer
<1>5. ReaderOK'
  <2>1. Consumed' = Len(received)
    BY <1>1, <1>2, <1>3 DEF Consumed
  <2>2. Consumed' <= offered'
    BY <1>1, <1>3, <2>1 DEF IInv, ReaderOK, writer
  <2> QED
    BY <1>1, <1>2, <2>2 DEF IInv, ReaderOK, Follows
<1>6. WayOK' /\ RestOK'
  BY <1>1 DEF WayOK, RestOK
<1>7. WriterOK'
  BY <1>1 DEF IInv, WriterOK, writer
<1> QED
  BY <1>1, <1>4, <1>5, <1>6, <1>7 DEF IInv

-----------------------------------------------------------------------------
(***************************************************************************)
(* How many bytes the first values of a plan take.                         *)
(***************************************************************************)

LEMMA SizeIs ==
    ASSUME NEW v \in Value
    PROVE  Size(v) \in Nat /\ Size(v) >= 1
<1>1. v.type \in ScalarType \cup {"string"} /\ v.length \in 0 .. Least(127, MaxLength)
  BY DEF Value
<1>2. v.length \in Nat
  BY <1>1, StreamsAssumption DEF Least
<1>3. CASE v.type = "string"
  BY <1>2, <1>3 DEF Size
<1>4. CASE v.type # "string"
  <2>1. v.type \in ScalarType
    BY <1>1, <1>4
  <2>2. WriteSize(v.type) \in {1, 2, 4, 8, 16}
    BY <2>1 DEF ScalarType, WriteSize
  <2> QED
    BY <1>4, <2>2 DEF Size
<1> QED
  BY <1>3, <1>4

\* f sums up the first m values.
SumsTo(values, m, f) ==
    f = [i \in 0 .. m |-> IF i = 0 THEN 0 ELSE f[i - 1] + Size(values[i])]

LEMMA SumExists ==
    ASSUME NEW values, NEW n \in Nat
    PROVE  \E f : SumsTo(values, n, f)
<1> DEFINE Fails == {m \in Nat : ~ \E f : SumsTo(values, m, f)}
<1>1. SUFFICES ASSUME Fails # {}
               PROVE  FALSE
  OBVIOUS
<1>2. PICK m \in Fails : \A j \in Fails : ~(j < m)
  <2>1. Fails \in SUBSET Nat
    OBVIOUS
  <2> HIDE DEF Fails
  <2> QED
    BY <1>1, <2>1, LeastOf
<1>3. CASE m = 0
  <2>1. PICK f : f = [i \in 0 .. 0 |-> 0]
    OBVIOUS
  <2>2. f = [i \in 0 .. 0 |-> IF i = 0 THEN 0 ELSE f[i - 1] + Size(values[i])]
    BY <2>1
  <2>3. SumsTo(values, 0, f)
    BY <2>2 DEF SumsTo
  <2> QED
    BY <1>2, <1>3, <2>3
<1>4. CASE m # 0
  <2>1. m \in Nat /\ m - 1 \in Nat /\ m - 1 < m
    BY <1>2, <1>4
  <2>2. PICK f : SumsTo(values, m - 1, f)
    BY <1>2, <2>1
  <2>3. PICK g : g = [i \in 0 .. m |-> IF i = m THEN f[m - 1] + Size(values[m]) ELSE f[i]]
    OBVIOUS
  <2>4. ASSUME NEW i \in 0 .. m
        PROVE  g[i] = IF i = 0 THEN 0 ELSE g[i - 1] + Size(values[i])
    <3>1. CASE i = m
      <4>1. m - 1 \in 0 .. m /\ m - 1 # m
        BY <2>1
      <4>2. g[m - 1] = f[m - 1]
        BY <2>3, <4>1
      <4> QED
        BY <1>4, <2>3, <3>1, <4>2
    <3>2. CASE i # m
      <4>1. i \in 0 .. m - 1 /\ (i # 0 => i - 1 \in 0 .. m /\ i - 1 # m)
        BY <2>1, <3>2
      <4>2. g[i] = f[i] /\ (i # 0 => g[i - 1] = f[i - 1])
        BY <2>3, <3>2, <4>1
      <4>3. f[i] = IF i = 0 THEN 0 ELSE f[i - 1] + Size(values[i])
        BY <2>2, <4>1 DEF SumsTo
      <4> QED
        BY <4>2, <4>3
    <3> QED
      BY <3>1, <3>2
  <2>5. g = [i \in 0 .. m |-> g[i]]
    BY <2>3
  <2>6. SumsTo(values, m, g)
    BY <2>4, <2>5 DEF SumsTo
  <2> QED
    BY <1>2, <2>6
<1> QED
  BY <1>3, <1>4

LEMMA BytesOfIs ==
    ASSUME NEW values \in Seq(Value)
    PROVE  /\ BytesOf(values, 0) = 0
           /\ \A i \in 1 .. Len(values) :
                  BytesOf(values, i) = BytesOf(values, i - 1) + Size(values[i])
<1>1. Len(values) \in Nat
  BY LenProperties
<1>2. PICK f : /\ SumsTo(values, Len(values), f)
               /\ \A n : BytesOf(values, n) = f[n]
  <2>1. \E f : f = [i \in 0 .. Len(values) |-> IF i = 0 THEN 0 ELSE f[i - 1] + Size(values[i])]
    BY <1>1, SumExists DEF SumsTo
  <2> QED
    BY <2>1 DEF BytesOf, SumsTo
<1>3. f[0] = 0 /\ \A i \in 1 .. Len(values) : f[i] = f[i - 1] + Size(values[i])
  <2>1. \A i \in 0 .. Len(values) : f[i] = IF i = 0 THEN 0 ELSE f[i - 1] + Size(values[i])
    BY <1>2 DEF SumsTo
  <2> QED
    BY <1>1, <2>1
<1> QED
  BY <1>2, <1>3

\* A value begins behind those before it.
LEMMA BytesOfGrows ==
    ASSUME NEW values \in Seq(Value)
    PROVE  /\ \A j \in 0 .. Len(values) : BytesOf(values, j) \in Nat
           /\ \A i, j \in 0 .. Len(values) : i < j => BytesOf(values, i) < BytesOf(values, j)
<1> DEFINE Fails == {j \in 0 .. Len(values) :
                         ~ /\ BytesOf(values, j) \in Nat
                           /\ \A i \in 0 .. j - 1 : BytesOf(values, i) < BytesOf(values, j)}
<1>1. Len(values) \in Nat
  BY LenProperties
<1>2. ASSUME Fails # {}
      PROVE  FALSE
  <2>1. PICK j \in Fails : \A k \in Fails : ~(k < j)
    <3>1. Fails \in SUBSET Nat
      BY <1>1
    <3> HIDE DEF Fails
    <3> QED
      BY <1>2, <3>1, LeastOf
  <2>2. CASE j = 0
    <3>1. BytesOf(values, 0) = 0
      BY BytesOfIs
    <3>2. BytesOf(values, 0) \in Nat /\ 0 .. 0 - 1 = {}
      BY <3>1
    <3> QED
      BY <2>1, <2>2, <3>2
  <2>3. CASE j # 0
    <3>1. j \in 1 .. Len(values) /\ j - 1 \in 0 .. Len(values) /\ j - 1 < j
      BY <1>1, <2>1, <2>3
    <3>2. j - 1 \notin Fails
      BY <2>1, <3>1
    <3>3. /\ BytesOf(values, j - 1) \in Nat
          /\ \A i \in 0 .. j - 1 - 1 : BytesOf(values, i) < BytesOf(values, j - 1)
      BY <3>1, <3>2
    <3>4. PICK z \in Nat : z >= 1 /\ BytesOf(values, j) = BytesOf(values, j - 1) + z
      <4>1. values[j] \in Value
        BY <3>1, ElementOfSeq
      <4>2. Size(values[j]) \in Nat /\ Size(values[j]) >= 1
        BY <4>1, SizeIs
      <4> QED
        BY <3>1, <4>2, BytesOfIs
    <3>5. BytesOf(values, j) \in Nat /\ BytesOf(values, j - 1) < BytesOf(values, j)
      BY <3>3, <3>4
    <3>6. ASSUME NEW i \in 0 .. j - 1
          PROVE  BytesOf(values, i) < BytesOf(values, j)
      <4>1. i = j - 1 \/ i \in 0 .. j - 1 - 1
        BY <3>1
      <4>2. CASE i = j - 1
        BY <3>5, <4>2
      <4>3. CASE i \in 0 .. j - 1 - 1
        <5>1. i \in 0 .. Len(values) /\ i < j
          BY <1>1, <3>1, <4>3
        <5>2. i \notin Fails
          BY <2>1, <5>1
        <5>3. BytesOf(values, i) \in Nat
          BY <5>1, <5>2
        <5>4. BytesOf(values, i) < BytesOf(values, j - 1)
          BY <3>3, <4>3
        <5> QED
          BY <3>3, <3>5, <5>3, <5>4
      <4> QED
        BY <4>1, <4>2, <4>3
    <3> QED
      BY <2>1, <3>5, <3>6
  <2> QED
    BY <2>2, <2>3
<1>3. ASSUME NEW j \in 0 .. Len(values)
      PROVE  /\ BytesOf(values, j) \in Nat
             /\ \A i \in 0 .. j - 1 : BytesOf(values, i) < BytesOf(values, j)
  BY <1>2
<1>4. ASSUME NEW i \in 0 .. Len(values), NEW j \in 0 .. Len(values), i < j
      PROVE  BytesOf(values, i) < BytesOf(values, j)
  <2>1. i \in 0 .. j - 1
    BY <1>1, <1>4
  <2> QED
    BY <1>3, <2>1
<1> QED
  BY <1>3, <1>4

\* The n-th value is found where it begins.
LEMMA FoundWhereItBegins ==
    ASSUME plan \in Seq(Value), NEW n \in 1 .. Len(plan)
    PROVE  LengthIn(BytesOf(plan, n - 1) + 1) = plan[n].length
<1>1. PICK Here : Here = {i \in 1 .. Len(plan) : BytesOf(plan, i - 1) + 1 = BytesOf(plan, n - 1) + 1}
  OBVIOUS
<1>2. Len(plan) \in Nat
  BY LenProperties
<1>3. ASSUME NEW i \in Here
      PROVE  i = n
  <2>1. /\ i \in 1 .. Len(plan) /\ i - 1 \in 0 .. Len(plan) /\ n - 1 \in 0 .. Len(plan)
        /\ BytesOf(plan, i - 1) + 1 = BytesOf(plan, n - 1) + 1
    BY <1>1, <1>2
  <2>2. PICK a \in Nat, b \in Nat : a = BytesOf(plan, i - 1) /\ b = BytesOf(plan, n - 1)
    BY <2>1, BytesOfGrows
  <2>3. a = b
    BY <2>1, <2>2
  <2>4. (i - 1 < n - 1 => a < b) /\ (n - 1 < i - 1 => b < a)
    BY <2>1, <2>2, BytesOfGrows
  <2> QED
    BY <2>1, <2>3, <2>4
<1>4. n \in Here
  BY <1>1
<1>5. Here # {} /\ (CHOOSE i \in Here : TRUE) = n
  BY <1>3, <1>4
<1> QED
  BY <1>1, <1>5, Zenon DEF LengthIn

-----------------------------------------------------------------------------
(***************************************************************************)
(* Both ends go through the plan.                                          *)
(***************************************************************************)

PlanOK ==
    /\ plan \in Plans
    /\ wvalues \in 0 .. Len(plan) /\ rvalues \in 0 .. Len(plan)
    /\ wpart \in Seq(0 .. MaxLength) /\ Len(wpart) <= 1
    /\ rpart \in {"value", "length", "rest"}

\* A reader that is valid will stand, when the call in progress returns, behind
\* the values it has begun, or behind the length of the string it is reading.
Standing ==
    /\ rpart = "length" => rvalues >= 1 /\ plan[rvalues].type = "string"
    /\ rvalid /\ plan # << >> =>
           Consumed + need = IF rpart = "length" THEN BytesOf(plan, rvalues - 1) + 1
                          ELSE BytesOf(plan, rvalues)

DataIInv == IInv /\ PlanOK /\ Standing

LEMMA PlanFacts ==
    ASSUME PlanOK
    PROVE  /\ plan \in Seq(Value) /\ Len(plan) \in Nat
           /\ wvalues \in 0 .. Len(plan) /\ rvalues \in 0 .. Len(plan)
           /\ MaxLength \in Nat /\ MaxRaw \in Nat /\ 16 <= MaxLength
<1>1. plan \in Seq(Value)
  BY DataAssumption DEF PlanOK
<1> QED
  BY <1>1, LenProperties, DataAssumption, StreamsAssumption DEF PlanOK

\* What a value is written with.
LEMMA PartsAre ==
    ASSUME NEW v \in Value
    PROVE  /\ Head(Parts(v)) \in 0 .. MaxLength
           /\ Tail(Parts(v)) \in Seq(0 .. MaxLength) /\ Len(Tail(Parts(v))) <= 1
           /\ v.length \in 0 .. MaxLength
           /\ v.type # "string" => Size(v) = ReadSize(v.type) /\ Size(v) \in 0 .. MaxLength
<1>1. v.type \in ScalarType \cup {"string"} /\ v.length \in 0 .. Least(127, MaxLength)
  BY DEF Value
<1>2. MaxLength \in Nat /\ 16 <= MaxLength
  BY StreamsAssumption, DataAssumption
<1>3. v.length \in 0 .. MaxLength
  BY <1>1, <1>2 DEF Least
<1>4. CASE v.type = "string"
  <2>1. Parts(v) = <<1, v.length>>
    BY <1>4 DEF Parts
  <2>2. Head(Parts(v)) = 1 /\ Tail(Parts(v)) = <<v.length>>
    BY <2>1
  <2>3. 1 \in 0 .. MaxLength
    BY <1>2
  <2>4. <<v.length>> \in Seq(0 .. MaxLength) /\ Len(<<v.length>>) = 1
    BY <1>3
  <2>5. Head(Parts(v)) \in 0 .. MaxLength
    BY <2>2, <2>3
  <2>6. Tail(Parts(v)) \in Seq(0 .. MaxLength) /\ Len(Tail(Parts(v))) = 1
    BY <2>2, <2>4
  <2>7. Len(Tail(Parts(v))) <= 1
    BY <2>6
  <2> QED
    BY <1>3, <1>4, <2>5, <2>6, <2>7
<1>5. CASE v.type # "string"
  <2>1. v.type \in ScalarType
    BY <1>1, <1>5
  <2>2. WriteSize(v.type) \in {1, 2, 4, 8, 16} /\ WriteSize(v.type) = ReadSize(v.type)
    BY <2>1 DEF ScalarType, WriteSize, ReadSize
  <2>3. WriteSize(v.type) \in 0 .. MaxLength
    BY <1>2, <2>2
  <2>4. Parts(v) = <<WriteSize(v.type)>> /\ Size(v) = WriteSize(v.type)
    BY <1>5 DEF Parts, Size
  <2>5. Head(Parts(v)) = WriteSize(v.type) /\ Tail(Parts(v)) = << >>
    BY <2>4
  <2> QED
    BY <1>3, <2>2, <2>3, <2>4, <2>5
<1> QED
  BY <1>4, <1>5

LEMMA WriterStands ==
    ASSUME Standing, UNCHANGED reader, UNCHANGED <<plan, rvalues, rpart>>
    PROVE  Standing'
<1>1. Consumed' = Consumed
  BY DEF Consumed, reader
<1> QED
  BY <1>1 DEF Standing, reader

\* Where the values of the plan begin and end.
LEMMA PlanBytes ==
    ASSUME PlanOK, NEW n \in 1 .. Len(plan)
    PROVE  /\ plan[n] \in Value
           /\ BytesOf(plan, n - 1) \in Nat /\ Size(plan[n]) \in Nat
           /\ BytesOf(plan, n) = BytesOf(plan, n - 1) + Size(plan[n])
<1>1. plan \in Seq(Value) /\ Len(plan) \in Nat
  BY PlanFacts
<1>2. plan[n] \in Value /\ n - 1 \in 0 .. Len(plan)
  BY <1>1, ElementOfSeq
<1> QED
  BY <1>1, <1>2, BytesOfIs, BytesOfGrows, SizeIs

LEMMA RawWriteKeeps ==
    ASSUME DataIInv, RawWrite
    PROVE  DataIInv'
<1>1. PICK n \in 0 .. MaxLength : Write(n)
  <2>1. PICK n \in 1 .. MaxRaw - offered : n <= MaxLength /\ Write(n)
    BY DEF RawWrite
  <2>2. n \in 0 .. MaxLength
    BY <2>1, PlanFacts, Counts DEF DataIInv, IInv
  <2> QED
    BY <2>1, <2>2
<1>2. UNCHANGED <<plan, wvalues, wpart, rvalues, rpart>>
  BY DEF RawWrite
<1>3. IInv'
  BY <1>1, WriteKeeps DEF DataIInv
<1>4. PlanOK'
  BY <1>2 DEF DataIInv, PlanOK
<1>5. Standing'
  <2>1. UNCHANGED reader
    BY <1>1 DEF Write
  <2> QED
    BY <1>2, <2>1, WriterStands DEF DataIInv
<1> QED
  BY <1>3, <1>4, <1>5 DEF DataIInv

LEMMA WriteValueKeeps ==
    ASSUME DataIInv, WriteValue
    PROVE  DataIInv'
<1>1. wvalues < Len(plan) /\ wvalues' = wvalues + 1 /\ UNCHANGED <<plan, rvalues, rpart>>
  BY DEF WriteValue
<1>2. PICK v : v = plan[wvalues + 1]
  OBVIOUS
<1>3. Write(Head(Parts(v))) /\ wpart' = Tail(Parts(v))
  BY <1>2 DEF WriteValue
<1>4. wvalues + 1 \in 1 .. Len(plan)
  BY <1>1, PlanFacts DEF DataIInv
<1>5. v \in Value
  BY <1>2, <1>4, PlanBytes DEF DataIInv
<1>6. IInv'
  BY <1>3, <1>5, PartsAre, WriteKeeps DEF DataIInv
<1>7. PlanOK'
  <2>1. wpart' \in Seq(0 .. MaxLength) /\ Len(wpart') <= 1
    BY <1>3, <1>5, PartsAre
  <2>2. wvalues' \in 0 .. Len(plan)
    BY <1>1, <1>4
  <2> QED
    BY <1>1, <2>1, <2>2 DEF DataIInv, PlanOK
<1>8. Standing'
  <2>1. UNCHANGED reader
    BY <1>3 DEF Write
  <2> QED
    BY <1>1, <2>1, WriterStands DEF DataIInv
<1> QED
  BY <1>6, <1>7, <1>8 DEF DataIInv

LEMMA WriteStringKeeps ==
    ASSUME DataIInv, WriteString
    PROVE  DataIInv'
<1>1. /\ wpart # << >> /\ Write(Head(wpart)) /\ wpart' = Tail(wpart)
      /\ UNCHANGED <<plan, wvalues, rvalues, rpart>>
  BY DEF WriteString
<1>2. wpart \in Seq(0 .. MaxLength) /\ Len(wpart) <= 1
  BY DEF DataIInv, PlanOK
<1>3. Head(wpart) \in 0 .. MaxLength /\ Tail(wpart) \in Seq(0 .. MaxLength) /\ Len(Tail(wpart)) <= 1
  <2>1. /\ Head(wpart) \in 0 .. MaxLength /\ Tail(wpart) \in Seq(0 .. MaxLength)
        /\ Len(Tail(wpart)) = Len(wpart) - 1
    BY <1>1, <1>2, HeadTailProperties
  <2>2. Len(wpart) \in Nat
    BY <1>2, LenProperties
  <2>3. Len(wpart) - 1 <= 1
    BY <1>2, <2>2
  <2> QED
    BY <2>1, <2>3
<1>4. IInv'
  BY <1>1, <1>3, WriteKeeps DEF DataIInv
<1>5. PlanOK'
  BY <1>1, <1>3 DEF DataIInv, PlanOK
<1>6. Standing'
  <2>1. UNCHANGED reader
    BY <1>1 DEF Write
  <2> QED
    BY <1>1, <2>1, WriterStands DEF DataIInv
<1> QED
  BY <1>4, <1>5, <1>6 DEF DataIInv

\* flush(), and the calls of the socket.
LEMMA StreamStepsKeep ==
    ASSUME DataIInv, Flush \/ StreamWrite \/ StreamWriteFails \/ StreamRead \/ StreamReadFails,
           UNCHANGED <<plan, wvalues, wpart, rvalues, rpart>>
    PROVE  DataIInv'
<1>1. PlanOK'
  BY DEF DataIInv, PlanOK
<1>2. CASE Flush \/ StreamWrite \/ StreamWriteFails
  <2>1. IInv'
    BY <1>2, FlushKeeps, StreamWriteKeeps, StreamWriteFailsKeeps DEF DataIInv
  <2>2. UNCHANGED reader
    BY <1>2 DEF Flush, StreamWrite, StreamWriteFails
  <2>3. Standing'
    BY <2>2, WriterStands DEF DataIInv
  <2> QED
    BY <1>1, <2>1, <2>3 DEF DataIInv
<1>3. CASE StreamRead
  <2>1. IInv' /\ Consumed' + need' = Consumed + need
    BY <1>3, StreamReadKeeps DEF DataIInv
  <2>2. rvalid' = rvalid
    BY <1>3 DEF StreamRead
  <2>3. Standing'
    BY <2>1, <2>2 DEF DataIInv, Standing
  <2> QED
    BY <1>1, <2>1, <2>3 DEF DataIInv
<1>4. CASE StreamReadFails
  <2>1. IInv' /\ rvalid' = FALSE
    BY <1>4, StreamReadFailsKeeps DEF DataIInv
  <2>2. Standing'
    BY <2>1 DEF DataIInv, Standing
  <2> QED
    BY <1>1, <2>1, <2>2 DEF DataIInv
<1> QED
  BY <1>2, <1>3, <1>4

LEMMA RawReadKeeps ==
    ASSUME DataIInv, RawRead
    PROVE  DataIInv'
<1>1. PICK n \in 1 .. MaxLength : Read(n)
  BY DEF RawRead
<1>2. plan = << >> /\ UNCHANGED <<plan, wvalues, wpart, rvalues, rpart>>
  BY DEF RawRead
<1>3. IInv'
  <2>1. n \in 0 .. MaxLength
    BY <1>1, PlanFacts DEF DataIInv
  <2> QED
    BY <1>1, <2>1, ReadKeeps DEF DataIInv
<1>4. PlanOK' /\ Standing'
  BY <1>2 DEF DataIInv, PlanOK, Standing
<1> QED
  BY <1>3, <1>4 DEF DataIInv

LEMMA ReadValueKeeps ==
    ASSUME DataIInv, ReadValue
    PROVE  DataIInv'
<1>1. /\ rvalues < Len(plan) /\ rpart # "length" /\ rvalues' = rvalues + 1
      /\ UNCHANGED <<plan, wvalues, wpart>>
  BY DEF ReadValue
<1>2. PICK v : v = plan[rvalues + 1]
  OBVIOUS
<1>3. PICK n : /\ n = IF v.type = "string" THEN 1 ELSE ReadSize(v.type)
               /\ Read(n) /\ rpart' = IF v.type = "string" THEN "length" ELSE "value"
  BY <1>2 DEF ReadValue
<1>4. /\ rvalues + 1 \in 1 .. Len(plan) /\ rvalues + 1 - 1 = rvalues
      /\ 1 \in 0 .. MaxLength
  BY <1>1, PlanFacts DEF DataIInv
<1>5. /\ v \in Value /\ BytesOf(plan, rvalues) \in Nat /\ Size(v) \in Nat
      /\ BytesOf(plan, rvalues + 1) = BytesOf(plan, rvalues) + Size(v)
  <2>1. PICK m \in 1 .. Len(plan) : m = rvalues + 1
    BY <1>4
  <2>2. /\ plan[m] \in Value
        /\ BytesOf(plan, m - 1) \in Nat /\ Size(plan[m]) \in Nat
        /\ BytesOf(plan, m) = BytesOf(plan, m - 1) + Size(plan[m])
    BY PlanBytes DEF DataIInv
  <2>3. m - 1 = rvalues
    <3>1. rvalues \in Nat
      BY PlanFacts DEF DataIInv
    <3> QED
      BY <2>1, <3>1
  <2> QED
    BY <1>2, <2>1, <2>2, <2>3
<1>6. n \in 0 .. MaxLength
  BY <1>3, <1>4, <1>5, PartsAre
<1>7. IInv' /\ Consumed' + need' = Consumed + n
  BY <1>3, <1>6, ReadKeeps DEF DataIInv
<1>8. PlanOK'
  <2>1. rvalues' \in 0 .. Len(plan)
    BY <1>1, <1>4, PlanFacts DEF DataIInv
  <2> QED
    BY <1>1, <1>3, <2>1 DEF DataIInv, PlanOK
<1>9. Consumed = BytesOf(plan, rvalues)
  <2>1. rvalid /\ need = 0
    BY <1>3 DEF Read
  <2>2. Consumed + need = BytesOf(plan, rvalues)
    <3>1. plan # << >>
      <4>1. Len(plan) # 0
        BY <1>4, PlanFacts DEF DataIInv
      <4> QED
        BY <4>1, NothingFollows
    <3> QED
      BY <1>1, <2>1, <3>1 DEF DataIInv, Standing
  <2>3. Consumed \in Nat
    BY Counts DEF DataIInv, IInv
  <2> QED
    BY <2>1, <2>2, <2>3
<1>10. Standing'
  <2>1. CASE v.type = "string"
    <3>1. n = 1 /\ rpart' = "length"
      BY <1>3, <2>1
    <3>2. rvalues' >= 1 /\ plan'[rvalues'].type = "string" /\ rvalues' - 1 = rvalues
      BY <1>1, <1>2, <1>4, <2>1, PlanFacts DEF DataIInv
    <3>3. Consumed' + need' = BytesOf(plan', rvalues' - 1) + 1
      BY <1>1, <1>7, <1>9, <3>1, <3>2
    <3> QED
      BY <3>1, <3>2, <3>3 DEF Standing
  <2>2. CASE v.type # "string"
    <3>1. n = Size(v) /\ rpart' = "value"
      BY <1>3, <1>5, <2>2, PartsAre
    <3>2. Consumed' + need' = BytesOf(plan', rvalues')
      BY <1>1, <1>5, <1>7, <1>9, <3>1
    <3> QED
      BY <3>1, <3>2 DEF Standing
  <2> QED
    BY <2>1, <2>2
<1> QED
  BY <1>7, <1>8, <1>10 DEF DataIInv

\* Whatever byte the length is taken from, it is one that can be read.
LEMMA LengthInIs ==
    ASSUME PlanOK, NEW byte
    PROVE  LengthIn(byte) \in 0 .. MaxLength
<1>1. PICK Here : Here = {i \in 1 .. Len(plan) : BytesOf(plan, i - 1) + 1 = byte}
  OBVIOUS
<1>3. CASE Here = {}
  <2>1. LengthIn(byte) = 0
    BY <1>1, <1>3, SMT DEF LengthIn
  <2> QED
    BY <2>1, PlanFacts
<1>4. CASE Here # {}
  <2>1. PICK k \in 1 .. Len(plan) : LengthIn(byte) = plan[k].length
    <3>1. LengthIn(byte) = plan[CHOOSE i \in Here : TRUE].length
      BY <1>1, <1>4, SMT DEF LengthIn
    <3>2. (CHOOSE i \in Here : TRUE) \in 1 .. Len(plan)
      BY <1>1, <1>4
    <3> QED
      BY <3>1, <3>2
  <2> QED
    BY <2>1, PlanBytes, PartsAre
<1> QED
  BY <1>3, <1>4

LEMMA ReadStringKeeps ==
    ASSUME DataIInv, ReadString
    PROVE  DataIInv'
<1>1. /\ rpart = "length" /\ received # << >> /\ rpart' = "rest"
      /\ UNCHANGED <<plan, wvalues, wpart, rvalues>>
  BY DEF ReadString
<1>2. PICK n : n = LengthIn(Last(received)) /\ Read(n)
  BY DEF ReadString
<1>3. n \in 0 .. MaxLength
  BY <1>2, LengthInIs DEF DataIInv
<1>4. IInv' /\ Consumed' + need' = Consumed + n
  BY <1>2, <1>3, ReadKeeps DEF DataIInv
<1>5. PlanOK'
  BY <1>1 DEF DataIInv, PlanOK
<1>6. /\ rvalues \in 1 .. Len(plan) /\ plan[rvalues].type = "string"
  BY <1>1, PlanFacts DEF DataIInv, Standing
<1>7. /\ plan[rvalues] \in Value /\ BytesOf(plan, rvalues - 1) \in Nat
      /\ plan[rvalues].length \in 0 .. MaxLength /\ MaxLength \in Nat
      /\ BytesOf(plan, rvalues) = BytesOf(plan, rvalues - 1) + (1 + plan[rvalues].length)
  <2>1. Size(plan[rvalues]) = 1 + plan[rvalues].length
    BY <1>6 DEF Size
  <2> QED
    BY <1>6, <2>1, PlanFacts, PlanBytes, PartsAre DEF DataIInv
<1>8. plan # << >>
  <2>1. Len(plan) # 0
    BY <1>6, PlanFacts DEF DataIInv
  <2> QED
    BY <2>1, NothingFollows
<1>9. Consumed = BytesOf(plan, rvalues - 1) + 1 /\ Consumed = Len(received)
  <2>1. rvalid /\ need = 0
    BY <1>2 DEF Read
  <2>2. Consumed + need = BytesOf(plan, rvalues - 1) + 1
    BY <1>1, <1>8, <2>1 DEF DataIInv, Standing
  <2>3. Consumed \in Nat /\ Len(received) \in Nat
    BY Counts DEF DataIInv, IInv
  <2>4. got = << >>
    BY <2>1 DEF DataIInv, IInv, ReaderOK
  <2>5. Consumed = Len(received) + 0
    BY <2>4, NothingFollows DEF Consumed
  <2> QED
    BY <2>1, <2>2, <2>3, <2>5
<1>10. \* the byte read last is the one the length was written in
       n = plan[rvalues].length
  <2>1. received \in Seq(Byte) /\ Len(received) \in Nat /\ Len(received) \in 1 .. Len(received)
    BY <1>7, <1>9, Counts DEF DataIInv, IInv, TypeOK
  <2>2. received[Len(received)] = 0 + Len(received)
    BY <2>1 DEF DataIInv, IInv, ReaderOK, Follows
  <2>3. Last(received) = Len(received)
    BY <2>1, <2>2 DEF Last
  <2>4. Last(received) = BytesOf(plan, rvalues - 1) + 1
    BY <1>9, <2>3
  <2>5. LengthIn(BytesOf(plan, rvalues - 1) + 1) = plan[rvalues].length
    BY <1>6, PlanFacts, FoundWhereItBegins DEF DataIInv
  <2> QED
    BY <1>2, <2>4, <2>5
<1>11. Consumed' + need' = BytesOf(plan, rvalues)
  BY <1>4, <1>7, <1>9, <1>10
<1>12. Standing'
  BY <1>1, <1>11 DEF Standing
<1> QED
  BY <1>4, <1>5, <1>12 DEF DataIInv

-----------------------------------------------------------------------------
(***************************************************************************)
(* The theorems.                                                           *)
(***************************************************************************)

LEMMA DataInitOK == DataInit => DataIInv
<1> SUFFICES ASSUME DataInit
             PROVE  DataIInv
  OBVIOUS
<1>1. /\ offered = 0 /\ source = << >> /\ wbuf = << >> /\ offset = 0
      /\ flushing = FALSE /\ wvalid = TRUE /\ flushed = 0
      /\ socket = << >>
      /\ rbuf = << >> /\ need = 0 /\ got = << >> /\ received = << >>
      /\ rvalid = TRUE
  BY DEF DataInit, Init
<1>2. << >> \in Seq(Byte) /\ Len(<< >>) = 0 /\ \A a : Follows(<< >>, a)
  BY NothingFollows
<1>3. Consumed = 0 /\ Arrived = 0 /\ Sent = 0
  BY <1>1, <1>2 DEF Consumed, Arrived, Sent
<1>4. TypeOK
  <2>1. << >> \in Seq(Byte) /\ Len(<< >>) = 0
    BY <1>2
  <2>2. Total \in Nat /\ MaxLength \in Nat /\ WriterSize \in Nat /\ ReaderSize \in Nat /\ SocketSize \in Nat
    BY StreamsAssumption
  <2>3. offered \in 0 .. Total /\ need \in 0 .. MaxLength /\ flushed \in 0 .. offered
    <3>1. offered = 0 /\ need = 0 /\ flushed = 0
      BY <1>1
    <3> QED
      BY <2>2, <3>1
  <2>4. flushing \in BOOLEAN /\ wvalid \in BOOLEAN /\ rvalid \in BOOLEAN
    BY <1>1, Zenon
  <2>5. /\ wbuf \in Seq(Byte) /\ Len(wbuf) <= WriterSize /\ offset \in 0 .. Len(wbuf)
        /\ socket \in Seq(Byte) /\ Len(socket) <= SocketSize
        /\ rbuf \in Seq(Byte) /\ Len(rbuf) <= ReaderSize
    <3>1. 0 <= WriterSize /\ 0 <= ReaderSize /\ 0 <= SocketSize /\ 0 \in 0 .. 0
      BY <2>2
    <3> QED
      BY <1>1, <2>1, <3>1
  <2>6. source \in Seq(Byte) /\ got \in Seq(Byte) /\ received \in Seq(Byte)
    BY <1>1, <2>1
  <2> QED
    BY <2>3, <2>4, <2>5, <2>6 DEF TypeOK
<1>5. ReaderOK /\ WayOK /\ WriterOK
  BY <1>1, <1>2, <1>3 DEF ReaderOK, WayOK, WriterOK
<1>6. RestOK
  BY <1>1, <1>2, <1>3 DEF RestOK
<1>7. plan \in Plans /\ wvalues = 0 /\ wpart = << >> /\ rvalues = 0 /\ rpart = "value"
  BY DEF DataInit
<1>8. plan \in Seq(Value) /\ Len(plan) \in Nat
  BY <1>7, LenProperties, DataAssumption
<1>9. PlanOK
  BY <1>7, <1>8 DEF PlanOK
<1>10. Standing
  <2>1. BytesOf(plan, rvalues) = 0
    BY <1>7, <1>8, BytesOfIs
  <2> QED
    BY <1>1, <1>3, <1>7, <2>1 DEF Standing
<1> QED
  BY <1>4, <1>5, <1>6, <1>9, <1>10 DEF IInv, DataIInv

LEMMA DataNextKeeps == DataIInv /\ [DataNext]_dataVars => DataIInv'
<1> SUFFICES ASSUME DataIInv, [DataNext]_dataVars
             PROVE  DataIInv'
  OBVIOUS
<1>1. CASE RawWrite
  BY <1>1, RawWriteKeeps
<1>2. CASE RawRead
  BY <1>2, RawReadKeeps
<1>3. CASE WriteValue
  BY <1>3, WriteValueKeeps
<1>4. CASE WriteString
  BY <1>4, WriteStringKeeps
<1>5. CASE WriterFlush
  BY <1>5, StreamStepsKeep DEF WriterFlush
<1>6. CASE ReadValue
  BY <1>6, ReadValueKeeps
<1>7. CASE ReadString
  BY <1>7, ReadStringKeeps
<1>8. CASE /\ StreamWrite \/ StreamWriteFails
           /\ UNCHANGED <<plan, wvalues, wpart, rvalues, rpart>>
  BY <1>8, StreamStepsKeep
<1>9. CASE /\ StreamRead \/ StreamReadFails
           /\ UNCHANGED <<plan, wvalues, wpart, rvalues, rpart>>
  BY <1>9, StreamStepsKeep
<1>10. CASE UNCHANGED dataVars
  <2>1. Consumed' = Consumed /\ Arrived' = Arrived /\ Sent' = Sent
    BY <1>10 DEF dataVars, vars, reader, Consumed, Arrived, Sent
  <2>2. IInv'
    BY <1>10, <2>1 DEF DataIInv, IInv, TypeOK, ReaderOK, WayOK, WriterOK, RestOK, Follows,
                       dataVars, vars, reader, writer
  <2>3. PlanOK' /\ Standing'
    BY <1>10, <2>1 DEF DataIInv, PlanOK, Standing, dataVars, vars, reader
  <2> QED
    BY <2>2, <2>3 DEF DataIInv
<1> QED
  BY <1>1, <1>2, <1>3, <1>4, <1>5, <1>6, <1>7, <1>8, <1>9, <1>10 DEF DataNext

LEMMA DataInvariance == DataSpec => []DataIInv
  BY DataInitOK, DataNextKeeps, PTL DEF DataSpec

\* The buffers never hold more than their size, no count leaves its range, and
\* neither end goes beyond the plan.
THEOREM DataTypeCorrect == DataSpec => []DataTypeOK
<1>1. DataIInv => DataTypeOK
  BY DEF DataIInv, IInv, PlanOK, DataTypeOK
<1> QED
  BY <1>1, DataInvariance, PTL

LEMMA IInvReads == IInv => ReadsWhatWasWritten
<1> SUFFICES ASSUME IInv
             PROVE  ReadsWhatWasWritten
  OBVIOUS
<1>1. PICK s : s = received \o got
  OBVIOUS
<1>2. received \in Seq(Byte) /\ got \in Seq(Byte)
  BY DEF IInv, TypeOK
<1>3. /\ s \in Seq(Byte) /\ Len(s) = Len(received) + Len(got) /\ Follows(s, 0)
  <2>1. Follows(received, 0) /\ Follows(got, 0 + Len(received))
    BY Counts DEF IInv, ReaderOK
  <2> QED
    BY <1>1, <1>2, <2>1, JoinFollows DEF Follows
<1>4. PICK t : t = Bytes(0 + 1, 0 + offered)
  OBVIOUS
<1>5. offered \in Nat /\ 0 \in Nat /\ offered <= Total /\ Len(s) \in Nat /\ Len(s) <= offered
  BY <1>3, Counts DEF IInv, TypeOK, ReaderOK, Consumed
<1>6. t \in Seq(Byte) /\ Len(t) = offered /\ Follows(t, 0)
  BY <1>4, <1>5, BytesAre DEF Follows
<1>7. PICK p : p = SubSeq(t, 1, Len(s))
  OBVIOUS
<1>8. p \in Seq(Byte) /\ Len(p) = Len(s) /\ Follows(p, 0)
  <2>1. Len(s) \in 0 .. Len(t) /\ 0 \in Int
    BY <1>5, <1>6
  <2> QED
    BY <1>6, <1>7, <2>1, CutFollows DEF Follows
<1>9. s = p
  <2>1. \A i \in 1 .. Len(s) : s[i] = p[i]
    BY <1>3, <1>8 DEF Follows
  <2> QED
    BY <1>3, <1>8, <2>1, SeqEqual
<1>10. IsPrefix(s, t)
  BY <1>3, <1>5, <1>6, <1>7, <1>8, <1>9 DEF IsPrefix
<1>11. t = Bytes(1, offered)
  BY <1>4, <1>5
<1> QED
  BY <1>1, <1>10, <1>11 DEF ReadsWhatWasWritten

\* Whatever pieces are written and read, wherever the sockets cut them and
\* whichever call fails, what has been read is the beginning of what was
\* written (BufferedReader.h:74-79, BufferedWriter.h:68-73).
THEOREM WhatWasWritten == DataSpec => []ReadsWhatWasWritten
<1>1. DataIInv => ReadsWhatWasWritten
  BY IInvReads DEF DataIInv
<1> QED
  BY <1>1, DataInvariance, PTL

\* The reader stands, after as many values, where the writer stood, for any
\* plan: the sizes agree on both sides, and the length of a string is found in
\* the byte it was written to (DataWriter.h:145-149, DataReader.h:142-145).
THEOREM EndsInStep == DataSpec => []InStep
<1>1. ASSUME DataIInv, plan # << >>, rvalid, need = 0, rpart # "length"
      PROVE  Len(received) = BytesOf(plan, rvalues)
  <2>1. got = << >>
    BY <1>1 DEF DataIInv, IInv, ReaderOK
  <2>2. Len(received) \in Nat
    BY <1>1, Counts DEF DataIInv, IInv
  <2>3. Consumed + need = Len(received)
    BY <1>1, <2>1, <2>2, NothingFollows DEF Consumed
  <2> QED
    BY <1>1, <2>3 DEF DataIInv, Standing
<1>2. DataIInv => InStep
  BY <1>1 DEF InStep
<1> QED
  BY <1>2, DataInvariance, PTL
-----------------------------------------------------------------------------
(***************************************************************************)
(* The length in front of a string.  DataStreams takes it for one byte,    *)
(* which is right below 128; from there on the groups of seven bits are    *)
(* read in the reverse order.                                              *)
(***************************************************************************)

\* What the loops have left, put on the wire and read, byte by byte.
ShortOnItsWay ==
    \/ rest = written /\ wire = << >> /\ length = 0
    \/ rest = -1 /\ wire = <<written>> /\ length = 0
    \/ rest = -1 /\ wire = << >> /\ length = written

\* The same of a length with two groups of seven bits.
LongOnItsWay(high, low) ==
    /\ written = 128 * high + low
    /\ \/ rest = written /\ wire = << >> /\ length = 0
       \/ rest = high /\ wire = <<low + 128>> /\ length = 0
       \/ rest = -1 /\ wire = <<low + 128, high>> /\ length = 0
       \/ rest = -1 /\ wire = <<high>> /\ length = low
       \/ rest = -1 /\ wire = << >> /\ length = low * 128 + high

Short == written \in 0 .. 127 /\ ShortOnItsWay

Septet == 0 .. 127

Long == \E high, low \in Septet : high > 0 /\ LongOnItsWay(high, low)

\* What readLength() makes of it.
GroupsSwapped ==
    \E high \in 1 .. 127, low \in 0 .. 127 :
        /\ written = 128 * high + low
        /\ length = 128 * low + high
        /\ length = written <=> high = low

LEMMA ShortInit ==
    ASSUME LengthsInit, Length \subseteq 0 .. 127
    PROVE  Short
<1>1. written \in Length /\ rest = written /\ wire = << >> /\ length = 0
  BY DEF LengthsInit
<1>2. written \in 0 .. 127
  BY <1>1
<1> QED
  BY <1>1, <1>2 DEF Short, ShortOnItsWay

LEMMA ShortStep ==
    ASSUME Short, [LengthsNext]_lengthsVars
    PROVE  Short'
<1>1. written \in 0 .. 127 /\ ShortOnItsWay
  BY DEF Short
<1>2. written' = written
  BY DEF LengthsNext, WriteByte, ReadByte, lengthsVars
<1>3. written % 128 = written /\ written \div 128 = 0
  BY <1>1
<1>4. CASE WriteByte
  <2>1. rest = written /\ wire = << >> /\ length = 0
    BY <1>1, <1>4 DEF ShortOnItsWay, WriteByte
  <2>2. wire' = <<written>> /\ rest' = -1 /\ length' = 0
    BY <1>1, <1>3, <1>4, <2>1 DEF WriteByte
  <2> QED
    BY <1>1, <1>2, <2>2 DEF Short, ShortOnItsWay
<1>5. CASE ReadByte
  <2>1. rest = -1 /\ wire = <<written>> /\ length = 0
    BY <1>1, <1>5 DEF ShortOnItsWay, ReadByte
  <2>2. wire' = << >> /\ length' = written /\ rest' = -1
    BY <1>1, <1>3, <1>5, <2>1 DEF ReadByte
  <2> QED
    BY <1>1, <1>2, <2>2 DEF Short, ShortOnItsWay
<1>6. CASE UNCHANGED lengthsVars
  BY <1>1, <1>6 DEF Short, ShortOnItsWay, lengthsVars
<1> QED
  BY <1>4, <1>5, <1>6 DEF LengthsNext

\* A length of two groups comes apart again.
LEMMA TwoGroups ==
    ASSUME NEW n \in Int, NEW high \in 1 .. 127, NEW low \in 0 .. 127, n = 128 * high + low
    PROVE  n % 128 = low /\ n \div 128 = high
  OBVIOUS

LEMMA LongInit ==
    ASSUME LengthsInit, Length \subseteq 128 .. 16383
    PROVE  Long
<1>1. written \in Length /\ rest = written /\ wire = << >> /\ length = 0
  BY DEF LengthsInit
<1>2. written \in 128 .. 16383
  BY <1>1
<1>3. written % 128 \in 0 .. 127
  BY <1>2
<1>4. written \div 128 \in 1 .. 127
  <2>1. written \div 128 > 0 /\ written \div 128 \in Int
    BY <1>2
  <2>2. written \div 128 < 128
    BY <1>2
  <2> QED
    BY <1>2, <2>1, <2>2
<1>5. written = 128 * (written \div 128) + (written % 128)
  BY <1>2
<1>6. LongOnItsWay(written \div 128, written % 128)
  BY <1>1, <1>5 DEF LongOnItsWay
<1>7. written \div 128 \in Septet /\ written % 128 \in Septet /\ written \div 128 > 0
  BY <1>2, <1>3, <1>4 DEF Septet
<1> DEFINE high == written \div 128
           low == written % 128
<1>8. high \in Septet /\ low \in Septet /\ high > 0 /\ LongOnItsWay(high, low)
  BY <1>6, <1>7
<1> HIDE DEF high, low
<1> QED
  BY <1>8 DEF Long

\* Two bytes on the wire.
LEMMA AppendSecond ==
    ASSUME NEW a \in Int, NEW b \in Int
    PROVE  Append(<<a>>, b) = <<a, b>>
<1> DEFINE s == Append(<<a>>, b)
<1>1. <<a>> \in Seq(Int) /\ Len(<<a>>) = 1
  OBVIOUS
<1>2. s \in Seq(Int) /\ Len(s) = 2 /\ s[1] = a /\ s[2] = b
  BY <1>1, AppendProperties
<1>3. s = [i \in 1 .. 2 |-> s[i]]
  BY <1>2
<1>4. <<a, b>> = [i \in 1 .. 2 |-> <<a, b>>[i]]
  OBVIOUS
<1>5. \A i \in 1 .. 2 : s[i] = <<a, b>>[i]
  BY <1>2
<1> QED
  BY <1>3, <1>4, <1>5

LEMMA LongWriteByte ==
    ASSUME NEW high \in 1 .. 127, NEW low \in 0 .. 127,
           LongOnItsWay(high, low), WriteByte
    PROVE  LongOnItsWay(high, low)'
<1>0. written = 128 * high + low /\ written \in Int
  BY DEF LongOnItsWay
<1>1. written % 128 = low /\ written \div 128 = high
  BY <1>0, TwoGroups
<1>2. high % 128 = high /\ high \div 128 = 0
  OBVIOUS
<1>3. \/ rest = written /\ wire = << >>
      \/ rest = high /\ wire = <<low + 128>>
  BY DEF LongOnItsWay, WriteByte
<1>4. length = 0 /\ length' = length /\ written' = written
  BY DEF LongOnItsWay, WriteByte
<1>5. CASE rest = written /\ wire = << >>
  <2>1. wire' = <<low + 128>> /\ rest' = high
    BY <1>1, <1>5 DEF WriteByte
  <2> QED
    BY <1>0, <1>4, <2>1 DEF LongOnItsWay
<1>6. CASE rest = high /\ wire = <<low + 128>>
  <2>1. wire' = Append(wire, high) /\ rest' = -1
    BY <1>2, <1>6 DEF WriteByte
  <2>2. low + 128 \in Int /\ high \in Int
    OBVIOUS
  <2>3. Append(<<low + 128>>, high) = <<low + 128, high>>
    BY <2>2, AppendSecond, Zenon
  <2> QED
    BY <1>0, <1>4, <1>6, <2>1, <2>3 DEF LongOnItsWay
<1> QED
  BY <1>3, <1>5, <1>6

LEMMA LongReadByte ==
    ASSUME NEW high \in 1 .. 127, NEW low \in 0 .. 127,
           LongOnItsWay(high, low), ReadByte
    PROVE  LongOnItsWay(high, low)'
<1>1. (low + 128) % 128 = low /\ high % 128 = high
  OBVIOUS
<1>2. /\ rest = -1 /\ rest' = rest /\ wire # << >>
      /\ written = 128 * high + low /\ written' = written
  BY DEF ReadByte, LongOnItsWay
<1>3. \/ wire = <<low + 128, high>> /\ length = 0
      \/ wire = <<high>> /\ length = low
  BY <1>2 DEF LongOnItsWay
<1>4. CASE wire = <<low + 128, high>> /\ length = 0
  <2>1. wire' = <<high>> /\ length' = low
    BY <1>1, <1>4 DEF ReadByte
  <2> QED
    BY <1>2, <2>1 DEF LongOnItsWay
<1>5. CASE wire = <<high>> /\ length = low
  <2>1. wire' = << >> /\ length' = low * 128 + high
    BY <1>1, <1>5 DEF ReadByte
  <2> QED
    BY <1>2, <2>1 DEF LongOnItsWay
<1> QED
  BY <1>3, <1>4, <1>5

LEMMA LongStep ==
    ASSUME Long, [LengthsNext]_lengthsVars
    PROVE  Long'
<1>1. PICK high, low \in Septet : high > 0 /\ LongOnItsWay(high, low)
  BY DEF Long
<1>2. LongOnItsWay(high, low)'
  <2>1. CASE UNCHANGED lengthsVars
    BY <1>1, <2>1 DEF LongOnItsWay, lengthsVars
  <2>2. high \in 1 .. 127 /\ low \in 0 .. 127
    BY <1>1 DEF Septet
  <2> QED
    BY <1>1, <2>1, <2>2, LongWriteByte, LongReadByte DEF LengthsNext
<1> QED
  BY <1>1, <1>2 DEF Long

LEMMA LongRead ==
    ASSUME Long, rest = -1, wire = << >>
    PROVE  GroupsSwapped
<1>0. PICK high, low \in Septet : high > 0 /\ LongOnItsWay(high, low)
  BY DEF Long
<1>1. high \in 1 .. 127 /\ low \in 0 .. 127 /\ LongOnItsWay(high, low)
  BY <1>0 DEF Septet
<1>2. written = 128 * high + low /\ length = 128 * low + high
  <2>1. written = 128 * high + low /\ length = low * 128 + high
    BY <1>1 DEF LongOnItsWay
  <2> QED
    BY <1>1, <2>1
<1>3. length = written <=> high = low
  BY <1>1, <1>2
<1> QED
  BY <1>1, <1>2, <1>3 DEF GroupsSwapped

\* A length below 128, the only kind that DataStreams has, is read as it was
\* written (DataWriter.h:313-323, DataReader.h:293-306).
THEOREM ShortLengthsAreRead ==
    ASSUME Length \subseteq 0 .. 127
    PROVE  LengthsSpec => []RoundTrip
<1>1. LengthsInit => Short
  BY ShortInit
<1>2. Short /\ [LengthsNext]_lengthsVars => Short'
  BY ShortStep
<1>3. Short => RoundTrip
  BY DEF Short, ShortOnItsWay, RoundTrip
<1> QED
  BY <1>1, <1>2, <1>3, PTL DEF LengthsSpec

\* A length of two bytes is read with its two groups of seven bits exchanged,
\* so that only one with equal groups, such as 129, is read right (the same
\* lines).
THEOREM LongLengthsAreSwapped ==
    ASSUME Length \subseteq 128 .. 16383
    PROVE  LengthsSpec => [](rest = -1 /\ wire = << >> => GroupsSwapped)
<1>1. LengthsInit => Long
  BY LongInit
<1>2. Long /\ [LengthsNext]_lengthsVars => Long'
  BY LongStep
<1>3. Long => (rest = -1 /\ wire = << >> => GroupsSwapped)
  BY LongRead
<1> QED
  BY <1>1, <1>2, <1>3, PTL DEF LengthsSpec
==============================================================================
