------------------------------ MODULE UtpPacket ------------------------------
(***************************************************************************)
(* Packets of uTP (utp/packet.go): a header of twenty bytes that every     *)
(* setter reads, changes in one field and writes back, and a body.         *)
(*                                                                         *)
(* A packet is a record of the fields as they are in the bytes.  Numbers   *)
(* are turned round by every setter and back by every getter, which is     *)
(* what invEndUint16 and invEndUint32 do.                                  *)
(***************************************************************************)
EXTENDS Integers

CONSTANT D   \* the values of a byte of a number; 256 in the code

ASSUME DigitAssumption == D \in Nat \ {0}

\* How many numbers there are of two and of four bytes.
U16 == D * D
U32 == U16 * U16

-----------------------------------------------------------------------------

Data == 0
Fin == 1
State == 2
Reset == 3
Syn == 4
Invalid == 5

None == 0
SelectiveAck == 1
InvalidExt == 2

extType(n) == IF n \in {None, SelectiveAck} THEN n ELSE InvalidExt

invEndUint16(n) == (n % D) * D + (n \div D)

invEndUint32(n) == invEndUint16(n % U16) * U16 + invEndUint16(n \div U16)

\* PacketHeader{}, version zero.
NewPacket ==
    [type |-> Data, ver |-> 0, extension |-> None, connectionId |-> 0, timestamp |-> 0,
     timestampDiff |-> 0, wndSize |-> 0, seqNr |-> 0, ackNr |-> 0]

setTimestamp(p, t) == [p EXCEPT !.timestamp = invEndUint32(t)]

\* It is the timestamp that this sets.
setTimespanDiff(p, delay) == [p EXCEPT !.timestamp = invEndUint32(delay % U32)]

setConnID(p, connID) == [p EXCEPT !.connectionId = invEndUint16(connID)]

\* Slip: the number is not turned round.
setSeqNrPlain(p, seqNr) == [p EXCEPT !.seqNr = seqNr]

setSeqNr(p, seqNr) == [p EXCEPT !.seqNr = invEndUint16(seqNr)]

setAckNr(p, ackNr) == [p EXCEPT !.ackNr = invEndUint16(ackNr)]

getType(p) == p.type
getExtType(p) == extType(p.extension)
timestamp(p) == invEndUint32(p.timestamp)
getConnId(p) == invEndUint16(p.connectionId)
getSeqNr(p) == invEndUint16(p.seqNr)
getAckNr(p) == invEndUint16(p.ackNr)

\* chectExts goes along the extensions without looking at their types: the type
\* of the first is still there at the end, and any but None is refused.
chectExts(p) == getExtType(p) = None

\* Version and type, of a packet that is long enough.
PckHdrFromByteSlice(p) == p.ver = 1 /\ p.type \in Data .. Invalid

PacketFromBytes(p) == PckHdrFromByteSlice(p) /\ chectExts(p)
=============================================================================
