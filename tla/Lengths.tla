------------------------------ MODULE Lengths ------------------------------
(***************************************************************************)
(* DataWriter::writeLength() and DataReader::readLength(), through which   *)
(* every string goes: a length is a sequence of bytes with seven bits of   *)
(* it each, and the high bit says that another byte follows.  The two      *)
(* loops are taken one byte at a time.                                     *)
(***************************************************************************)
EXTENDS Integers, Sequences

CONSTANT Length   \* the lengths that are written

VARIABLES
    written,  \* the length given to writeLength()
    rest,     \* the variable `length' of writeLength(), -1 when it has returned
    wire,     \* bytes written and not read
    length    \* the variable `length' of readLength()

lengthsVars == <<written, rest, wire, length>>

LengthsInit ==
    /\ written \in Length
    /\ rest = written
    /\ wire = << >>
    /\ length = 0

\* One turn of the loop of writeLength(): the lowest bits come first.
WriteByte ==
    /\ rest >= 0
    /\ LET more == rest \div 128 > 0
       IN  /\ wire' = Append(wire, (rest % 128) + (IF more THEN 128 ELSE 0))
           /\ rest' = IF more THEN rest \div 128 ELSE -1
    /\ UNCHANGED <<written, length>>

\* One turn of the loop of readLength(): the first bits become the highest.
ReadByte ==
    /\ rest = -1 /\ wire # << >>
    /\ length' = length * 128 + (Head(wire) % 128)
    /\ wire' = Tail(wire)
    /\ UNCHANGED <<written, rest>>

LengthsNext == WriteByte \/ ReadByte

LengthsSpec == LengthsInit /\ [][LengthsNext]_lengthsVars

\* What is read is the length that was written (DataReader.h:136-139,
\* DataWriter.h:138-142: "A bytes's lower 7 bits contain parts of the value").
RoundTrip == rest = -1 /\ wire = << >> => length = written
==============================================================================
