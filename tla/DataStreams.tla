----------------------------- MODULE DataStreams -----------------------------
(***************************************************************************)
(* The typed half of DataWriter and DataReader on top of Streams: the two  *)
(* ends have agreed on a sequence of values, which one writes with         *)
(* writeS8() ... writeString() and the other reads with readS8() ...       *)
(* readString(); or on none, and use write() and read() with any lengths.  *)
(*                                                                         *)
(* Strings are shorter than 128 characters, so that their length is one    *)
(* byte; Lengths is about the longer ones.                                 *)
(***************************************************************************)
EXTENDS Streams

CONSTANTS Plans,  \* sequences of values, and the empty one
          MaxRaw  \* bound on the bytes written without a plan

ScalarType == {"S8", "U8", "S16", "U16", "S32", "U32", "S64", "U64",
               "Float", "Double", "LongDouble"}

\* What is written and read: a scalar of some type, a string of some length.
Value == [type : ScalarType \cup {"string"}, length : 0 .. Least(127, MaxLength)]

ASSUME DataAssumption ==
    /\ Plans \subseteq Seq(Value)
    /\ 16 <= MaxLength   \* sizeof(long double)
    /\ MaxRaw \in Nat

VARIABLES
    plan,     \* the values agreed on
    wvalues,  \* how many the writer has begun and, but for the last, finished
    wpart,    \* the parts of the last one that it still has to write
    rvalues,  \* how many the reader has begun
    rpart     \* what it reads: a value, the length or the rest of a string

dataVars == <<vars, plan, wvalues, wpart, rvalues, rpart>>

\* sizeof() of the parameters of writeS8() ... writeLongDouble().
WriteSize(type) ==
    CASE type \in {"S8", "U8"} -> 1
      [] type \in {"S16", "U16"} -> 2
      [] type \in {"S32", "U32", "Float"} -> 4
      [] type \in {"S64", "U64", "Double"} -> 8
      [] type = "LongDouble" -> 16

\* Mutant: readU16() reads an int.
ReadSizeWide(type) ==
    CASE type \in {"S8", "U8"} -> 1
      [] type = "S16" -> 2
      [] type \in {"U16", "S32", "U32", "Float"} -> 4
      [] type \in {"S64", "U64", "Double"} -> 8
      [] type = "LongDouble" -> 16

\* sizeof() of the values that readS8() ... readLongDouble() make with readT().
ReadSize(type) ==
    CASE type \in {"S8", "U8"} -> 1
      [] type \in {"S16", "U16"} -> 2
      [] type \in {"S32", "U32", "Float"} -> 4
      [] type \in {"S64", "U64", "Double"} -> 8
      [] type = "LongDouble" -> 16

Scalar(type) == [type |-> type, length |-> 0]
String(n) == [type |-> "string", length |-> n]

\* The calls of write() that a value is written with.
Parts(v) == IF v.type = "string" THEN <<1, v.length>> ELSE <<WriteSize(v.type)>>

\* How many bytes a value takes.
Size(v) == IF v.type = "string" THEN 1 + v.length ELSE WriteSize(v.type)

\* The bytes of the first n values of a plan.
BytesOf(values, n) ==
    LET Sum[i \in 0 .. Len(values)] == IF i = 0 THEN 0 ELSE Sum[i - 1] + Size(values[i])
    IN  Sum[n]

\* The length that a byte of the stream holds, if it is the first of a string.
LengthIn(byte) ==
    LET Here == {i \in 1 .. Len(plan) : BytesOf(plan, i - 1) + 1 = byte}
    IN  IF Here = {} THEN 0 ELSE plan[CHOOSE i \in Here : TRUE].length

DataTypeOK ==
    /\ TypeOK
    /\ plan \in Plans
    /\ wvalues \in 0 .. Len(plan) /\ rvalues \in 0 .. Len(plan)
    /\ wpart \in Seq(0 .. MaxLength) /\ Len(wpart) <= 1
    /\ rpart \in {"value", "length", "rest"}

DataInit ==
    /\ Init
    /\ plan \in Plans
    /\ wvalues = 0 /\ wpart = << >>
    /\ rvalues = 0 /\ rpart = "value"

-----------------------------------------------------------------------------
\* write() and read() by the application.
RawWrite ==
    /\ plan = << >> /\ \E n \in 1 .. MaxRaw - offered : n <= MaxLength /\ Write(n)
    /\ UNCHANGED <<plan, wvalues, wpart, rvalues, rpart>>

RawRead ==
    /\ plan = << >> /\ \E n \in 1 .. MaxLength : Read(n)
    /\ UNCHANGED <<plan, wvalues, wpart, rvalues, rpart>>

\* writeS8() ... writeString() up to the return of their first write().
WriteValue ==
    /\ wvalues < Len(plan) /\ wpart = << >>
    /\ LET parts == Parts(plan[wvalues + 1])
       IN  Write(Head(parts)) /\ wpart' = Tail(parts)
    /\ wvalues' = wvalues + 1
    /\ UNCHANGED <<plan, rvalues, rpart>>

\* writeString() after writeLength() has returned true.
WriteString ==
    /\ wpart # << >>
    /\ Write(Head(wpart)) /\ wpart' = Tail(wpart)
    /\ UNCHANGED <<plan, wvalues, rvalues, rpart>>

WriterFlush == wpart = << >> /\ Flush /\ UNCHANGED <<plan, wvalues, wpart, rvalues, rpart>>

\* readS8() ... readLongDouble(), and readLength() in readString().
ReadValue ==
    /\ rvalues < Len(plan) /\ rpart # "length"
    /\ rvalues' = rvalues + 1
    /\ LET v == plan[rvalues + 1]
       IN  IF v.type = "string" THEN Read(1) /\ rpart' = "length"
           ELSE Read(ReadSize(v.type)) /\ rpart' = "value"
    /\ UNCHANGED <<plan, wvalues, wpart>>

\* readString() after readLength(), while the reader is valid.
ReadString ==
    /\ rpart = "length" /\ received # << >>
    /\ Read(LengthIn(Last(received)))
    /\ rpart' = "rest"
    /\ UNCHANGED <<plan, wvalues, wpart, rvalues>>

DataNext ==
    \/ RawWrite
    \/ RawRead
    \/ WriteValue
    \/ WriteString
    \/ WriterFlush
    \/ ReadValue
    \/ ReadString
    \/ (StreamWrite \/ StreamWriteFails) /\ UNCHANGED <<plan, wvalues, wpart, rvalues, rpart>>
    \/ (StreamRead \/ StreamReadFails) /\ UNCHANGED <<plan, wvalues, wpart, rvalues, rpart>>

DataSpec == DataInit /\ [][DataNext]_dataVars

\* The threads go on when the socket lets them, and the reader keeps reading.
DataFairness ==
    /\ WF_dataVars(StreamWrite /\ UNCHANGED <<plan, wvalues, wpart, rvalues, rpart>>)
    /\ WF_dataVars(StreamRead /\ UNCHANGED <<plan, wvalues, wpart, rvalues, rpart>>)
    /\ WF_dataVars(RawRead \/ ReadValue \/ ReadString)

FairDataSpec == DataSpec /\ DataFairness

-----------------------------------------------------------------------------
(***************************************************************************)
(* Property.                                                               *)
(***************************************************************************)

\* The two ends stay in step: after as many values the reader, while it is
\* valid, stands where the writer stood, whichever types and lengths came
\* before and wherever the bytes were cut (DataWriter.h:145-149,
\* DataReader.h:142-145).
InStep ==
    plan # << >> /\ rvalid /\ need = 0 /\ rpart # "length"
        => Len(received) = BytesOf(plan, rvalues)
==============================================================================
