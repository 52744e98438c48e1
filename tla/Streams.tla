------------------------------ MODULE Streams ------------------------------
(***************************************************************************)
(* DataWriter over BufferedWriter over a stream socket, and BufferedReader *)
(* under DataReader at its other end: what is written in pieces of some    *)
(* lengths is read in pieces of other lengths.                             *)
(*                                                                         *)
(* One thread writes and one reads.  A step goes to the next call of the   *)
(* socket, where the thread may block.  The n-th byte written is n.        *)
(***************************************************************************)
EXTENDS Integers, Sequences, SequencesExt

CONSTANTS Total,      \* bytes the application will write
          MaxLength,  \* longest piece it writes or reads
          WriterSize, \* bufferSize of the writer
          ReaderSize, \* bufferSize of the reader
          SocketSize  \* bytes in flight between the sockets

ASSUME StreamsAssumption ==
    {Total, MaxLength, WriterSize, ReaderSize, SocketSize} \subseteq Nat \ {0}

VARIABLES
    offered,  \* number of bytes given to write() so far
    source,   \* those of the call in progress that are not in the buffer yet
    wbuf,     \* the writer's buffer up to `size'
    offset,   \* in flush(), bytes of the buffer already written
    flushing, \* the writer is in flush()
    wvalid,   \* DataWriter::valid
    flushed,  \* what the last successful flush() of the application covers
    socket,   \* bytes in flight
    rbuf,     \* the reader's buffer from its `offset' to `size'
    need,     \* bytes the read() in progress still has to get
    got,      \* bytes it got
    received, \* bytes of the calls that returned true
    rvalid    \* DataReader::valid

writer == <<offered, source, wbuf, offset, flushing, wvalid, flushed>>
reader == <<rbuf, need, got, received, rvalid>>
vars == <<writer, socket, reader>>

Byte == 1 .. Total

Bytes(from, to) == [i \in 1 .. to - from + 1 |-> from + i - 1]

Least(a, b) == IF a <= b THEN a ELSE b

TypeOK ==
    /\ offered \in 0 .. Total
    /\ source \in Seq(Byte)
    /\ wbuf \in Seq(Byte) /\ Len(wbuf) <= WriterSize
    /\ offset \in 0 .. Len(wbuf)
    /\ flushing \in BOOLEAN /\ wvalid \in BOOLEAN /\ rvalid \in BOOLEAN
    /\ flushed \in 0 .. offered
    /\ socket \in Seq(Byte) /\ Len(socket) <= SocketSize
    /\ rbuf \in Seq(Byte) /\ Len(rbuf) <= ReaderSize
    /\ need \in 0 .. MaxLength
    /\ got \in Seq(Byte)
    /\ received \in Seq(Byte)

Init ==
    /\ offered = 0 /\ source = << >> /\ wbuf = << >> /\ offset = 0
    /\ flushing = FALSE /\ wvalid = TRUE /\ flushed = 0
    /\ socket = << >>
    /\ rbuf = << >> /\ need = 0 /\ got = << >> /\ received = << >>
    /\ rvalid = TRUE

-----------------------------------------------------------------------------
\* bufferSize - size
Room(buf) == WriterSize - Len(buf)

\* The loop of write() with `size' bytes in the buffer: it copies what fits
\* and calls flush() if something is left.
CopyIn(buf, src) ==
    LET n == Least(Len(src), Room(buf))
    IN  /\ wbuf' = buf \o SubSeq(src, 1, n)
        /\ source' = SubSeq(src, n + 1, Len(src))
        /\ flushing' = (n < Len(src))
        /\ offset' = 0

\* write() of n bytes, in DataWriter while it is valid.
Write(n) ==
    /\ wvalid /\ ~flushing
    /\ offered + n <= Total
    /\ offered' = offered + n
    /\ CopyIn(wbuf, Bytes(offered + 1, offered + n))
    /\ UNCHANGED <<wvalid, flushed, socket, reader>>

\* flush() called by the application with something in the buffer.
Flush ==
    /\ wvalid /\ ~flushing /\ wbuf # << >>
    /\ flushing' = TRUE
    /\ UNCHANGED <<offered, source, wbuf, offset, wvalid, flushed, socket, reader>>

\* stream.write() in flush() takes some bytes.  When these were the last ones
\* flush() returns true, to the application or to the loop of write().
StreamWrite ==
    /\ flushing
    /\ \E n \in 1 .. Least(Len(wbuf) - offset, SocketSize - Len(socket)) :
           /\ socket' = socket \o SubSeq(wbuf, offset + 1, offset + n)
           /\ IF offset + n < Len(wbuf)
              THEN /\ offset' = offset + n
                   /\ UNCHANGED <<source, wbuf, flushing, flushed>>
              ELSE /\ CopyIn(<< >>, source)
                   /\ flushed' = IF source = << >> THEN offered ELSE flushed
    /\ UNCHANGED <<offered, wvalid, reader>>

\* Mutant: DataWriter does not remember the failure, and may flush again.
StreamWriteFailsValid ==
    /\ flushing
    /\ flushing' = FALSE /\ source' = << >> /\ offset' = 0
    /\ UNCHANGED <<offered, wbuf, wvalid, flushed, socket, reader>>

\* stream.write() fails, is cancelled or has no peer any more: flush() returns
\* false and keeps `size', write() returns false, DataWriter is invalid.
StreamWriteFails ==
    /\ flushing
    /\ flushing' = FALSE /\ source' = << >> /\ offset' = 0
    /\ wvalid' = FALSE
    /\ UNCHANGED <<offered, wbuf, flushed, socket, reader>>

-----------------------------------------------------------------------------
\* Mutant: what a call does not need of the buffer is forgotten.
CopyOutDrops(buf, n, dest) ==
    LET k == Least(n, Len(buf))
    IN  /\ rbuf' = << >>
        /\ need' = n - k
        /\ IF k = n THEN got' = << >> /\ received' = received \o dest \o SubSeq(buf, 1, k)
                    ELSE got' = dest \o SubSeq(buf, 1, k) /\ UNCHANGED received

\* The loop of BufferedReader::read() with buf unread in the buffer, n bytes
\* to go and dest read: it ends, or needs more from the socket.
CopyOut(buf, n, dest) ==
    LET k == Least(n, Len(buf))
        all == dest \o SubSeq(buf, 1, k)
    IN  /\ rbuf' = SubSeq(buf, k + 1, Len(buf))
        /\ need' = n - k
        /\ IF k = n THEN got' = << >> /\ received' = received \o all
                    ELSE got' = all /\ UNCHANGED received

\* read() of n bytes, in DataReader while it is valid.
Read(n) ==
    /\ rvalid /\ need = 0
    /\ CopyOut(rbuf, n, << >>)
    /\ UNCHANGED <<rvalid, writer, socket>>

\* stream.read() fills the empty buffer with some bytes.
StreamRead ==
    /\ need > 0
    /\ \E n \in 1 .. Least(ReaderSize, Len(socket)) :
           /\ CopyOut(SubSeq(socket, 1, n), need, got)
           /\ socket' = SubSeq(socket, n + 1, Len(socket))
    /\ UNCHANGED <<rvalid, writer>>

\* stream.read() fails, is cancelled or finds the end: read() returns false,
\* the bytes it got are lost, DataReader is invalid.
StreamReadFails ==
    /\ need > 0
    /\ need' = 0 /\ got' = << >>
    /\ rvalid' = FALSE
    /\ UNCHANGED <<rbuf, received, writer, socket>>

Next ==
    \/ \E n \in 1 .. MaxLength : Write(n)
    \/ Flush
    \/ StreamWrite
    \/ StreamWriteFails
    \/ \E n \in 1 .. MaxLength : Read(n)
    \/ StreamRead
    \/ StreamReadFails

Spec == Init /\ [][Next]_vars

\* The threads go on when the socket lets them, and the reader keeps reading.
Fairness ==
    /\ WF_vars(StreamWrite)
    /\ WF_vars(StreamRead)
    /\ WF_vars(\E n \in 1 .. MaxLength : Read(n))

FairSpec == Spec /\ Fairness

-----------------------------------------------------------------------------
(***************************************************************************)
(* Properties.                                                             *)
(***************************************************************************)

\* What has been read is what was written, in order, without a gap and
\* without a repetition, whatever failed and whatever was cut into pieces
\* (BufferedReader.h:74-79, BufferedWriter.h:68-73).
ReadsWhatWasWritten == IsPrefix(received \o got, Bytes(1, offered))

\* What flush() has returned true for arrives without any further call of
\* the writer, as long as the reader does not fail.
FlushedArrives ==
    \A k \in 1 .. Total :
        flushed >= k ~> Len(received \o got) >= k \/ ~rvalid

==============================================================================
