-------------------------------- MODULE Wire --------------------------------
(***************************************************************************)
(* Peer messages on a connection (formats/message.go): a client writes     *)
(* them with Msg.Marshall, a PeerConn reads them with ReadMessage and      *)
(* handles them (ReqBitFields and handleMsg, pwp.go).                      *)
(*                                                                         *)
(* The connection carries bytes.  It may be cut after any of them, and a   *)
(* read may reach its deadline after any of them; what is between two      *)
(* messages is for ReadMessage to find out.  Nobody reads on after a read  *)
(* that failed: Connect gives up, DownloadPiece panics.                    *)
(*                                                                         *)
(* What the messages are about is a torrent cut as Geometry says.          *)
(***************************************************************************)
EXTENDS Geometry, Sequences

CONSTANTS
    File,        \* the bytes of the torrent, numbered from zero
    Shares,      \* the pieces in the remote's bitfield
    HavePieces,  \* pieces that the remote may announce with a Have
    MaxPending,  \* bound: messages written and not yet read
    MaxLost      \* bound: bytes that a break takes off the end

\* Does the number fit into four bytes?
FitsUint32(n) == n \in Nat /\ ((n \div 256) \div 256) \div 256 < 256

\* Pieces have to be numbered with the four bytes of a message, and a message is
\* nine bytes longer than its block.
ASSUME WireAssumption ==
    /\ File \in [0 .. Size - 1 -> 0 .. 255]
    /\ Shares \subseteq Pieces
    /\ \A i \in HavePieces : FitsUint32(i)
    /\ FitsUint32(NumPieces)
    /\ FitsUint32(InfoPieceLen + 9)

VARIABLES
    stream,   \* the bytes on the way
    pending,  \* history: the messages in them
    cut,      \* nothing more can be written
    want,     \* the reader is before a length (0), or before a body of so many bytes
    last,     \* the message just read, in a set, until the next one is begun
    opened,   \* has ReqBitFields succeeded?
    done,     \* the reader reads no more
    bits,     \* PeerConn.b, a sequence of bytes
    said,     \* history: the pieces in the Haves handled
    blocks    \* history: what ParsePieceMsg has returned

wireVars == <<stream, pending, cut, want, last, opened, done, bits, said, blocks>>

-----------------------------------------------------------------------------
(* Messages. *)

\* MsgId counts from zero.
Choke == 0
Unchoke == 1
Interested == 2
Uninterested == 3
Have == 4
BitField == 5
RequestId == 6
Piece == 7
Cancel == 8
Port == 9
KepAlive == 10

Zeros(n) == [i \in 1 .. n |-> 0]

\* copy(dst, src), for a dst of n zeros.
CopyInto(n, src) == [i \in 1 .. n |-> IF i <= Len(src) THEN src[i] ELSE 0]

\* binary.BigEndian
PutUint32(n) ==
    LET n1 == n \div 256
        n2 == n1 \div 256
        n3 == n2 \div 256
    IN  <<n3 % 256, n2 % 256, n1 % 256, n % 256>>
Uint32(s) == ((s[1] * 256 + s[2]) * 256 + s[3]) * 256 + s[4]

Ibl(i, k) == PutUint32(i) \o PutUint32(k * BLOCK_LEN) \o PutUint32(BlockLen(i, k))

NewChoke == [ID |-> Choke, Payload |-> <<>>]
NewUnchoke == [ID |-> Unchoke, Payload |-> <<>>]
NewIntd == [ID |-> Interested, Payload |-> <<>>]
NewUnIntd == [ID |-> Uninterested, Payload |-> <<>>]
\* The bytes of the index are made and not put into the message.
NewHave == [ID |-> Have, Payload |-> <<>>]
NewRequest(i, k) == [ID |-> RequestId, Payload |-> Ibl(i, k)]
NewCancel(i, k) == [ID |-> Cancel, Payload |-> Ibl(i, k)]

BlockBytes(i, k) ==
    [j \in 1 .. BlockLen(i, k) |-> File[PieceBounds(i)[1] + k * BLOCK_LEN + j - 1]]

\* The block is copied over the index and the offset, and the id is a request's.
NewPieceMMsg(i, k) ==
    LET all == PutUint32(i) \o PutUint32(k * BLOCK_LEN) \o Zeros(BlockLen(i, k))
        blk == BlockBytes(i, k)
    IN  [ID |-> RequestId, Payload |-> [j \in DOMAIN all |-> IF j <= Len(blk) THEN blk[j] ELSE all[j]]]

-----------------------------------------------------------------------------
(* Bitfields. *)

\* What the bits of a byte are worth.
Weight == <<128, 64, 32, 16, 8, 4, 2, 1>>

\* Slip: the bits of a byte are counted from the lowest.
BitFromLowest(byte, off) == (byte \div Weight[8 - off]) % 2 = 1

Bit(byte, off) == (byte \div Weight[off + 1]) % 2 = 1

\* Bitfield.Set, which refuses a piece past the end
Set(bf, i) ==
    LET pos == (i \div 8) + 1
        off == i % 8
    IN  IF pos > Len(bf) \/ Bit(bf[pos], off) THEN bf ELSE [bf EXCEPT ![pos] = @ + Weight[off + 1]]

\* Bitfield.Has
Has(bf, i) == i \div 8 < Len(bf) /\ Bit(bf[(i \div 8) + 1], i % 8)

\* The bitfield of a client that has the pieces of S: eight to the byte, the
\* first in the highest bit.
FieldOf(S) ==
    [k \in 1 .. (NumPieces + 7) \div 8 |->
        LET v(off) == IF 8 * (k - 1) + off \in S THEN Weight[off + 1] ELSE 0
        IN  v(0) + v(1) + v(2) + v(3) + v(4) + v(5) + v(6) + v(7)]

-----------------------------------------------------------------------------
(* Frames. *)

\* Slip: the id is not counted in the length of a bitfield or a piece.
MarshallIdNotCounted(m) ==
    CASE m.ID = Uninterested -> PutUint32(1) \o <<m.ID>>
      [] m.ID = Have -> IF Len(m.Payload) = 4 THEN PutUint32(5) \o m.Payload \o <<0>> ELSE <<>>
      [] m.ID \in {BitField, Piece} -> PutUint32(Len(m.Payload)) \o <<m.ID>> \o m.Payload
      [] m.ID \in {RequestId, Cancel} -> PutUint32(13) \o <<m.ID>> \o CopyInto(12, m.Payload)
      [] m.ID = Port -> PutUint32(3) \o <<m.ID>> \o CopyInto(2, m.Payload)
      [] m.ID = KepAlive -> Zeros(4)
      [] OTHER -> <<>>

\* The bytes Msg.Marshall writes.  Its first case or-s four ids into one, which is
\* Uninterested's: Choke, Unchoke and Interested find no case and write nothing.
\* The payload of a Have is copied over its id; NewHave's, which is empty, is an
\* error.
Marshall(m) ==
    CASE m.ID = Uninterested -> PutUint32(1) \o <<m.ID>>
      [] m.ID = Have -> IF Len(m.Payload) = 4 THEN PutUint32(5) \o m.Payload \o <<0>> ELSE <<>>
      [] m.ID \in {BitField, Piece} -> PutUint32(Len(m.Payload) + 1) \o <<m.ID>> \o m.Payload
      [] m.ID \in {RequestId, Cancel} -> PutUint32(13) \o <<m.ID>> \o CopyInto(12, m.Payload)
      [] m.ID = Port -> PutUint32(3) \o <<m.ID>> \o CopyInto(2, m.Payload)
      [] m.ID = KepAlive -> Zeros(4)
      [] OTHER -> <<>>

\* A message as other clients write it.
Frame(m) == PutUint32(Len(m.Payload) + 1) \o <<m.ID>> \o m.Payload

\* Slip: the offset is read before the index.
ParsePieceMsgSwapped(m) ==
    [Index |-> Uint32(SubSeq(m.Payload, 5, 8)), Begin |-> Uint32(SubSeq(m.Payload, 1, 4)),
     Block |-> SubSeq(m.Payload, 9, Len(m.Payload))]

\* ParsePieceMsg, of a message that is long enough.
ParsePieceMsg(m) ==
    [Index |-> Uint32(SubSeq(m.Payload, 1, 4)), Begin |-> Uint32(SubSeq(m.Payload, 5, 8)),
     Block |-> SubSeq(m.Payload, 9, Len(m.Payload))]

-----------------------------------------------------------------------------

\* What a client of this code marshals: the messages it has constructors for, and
\* those it has only ids for.
Constructed ==
    {NewChoke, NewUnchoke, NewIntd, NewUnIntd, NewHave, NewRequest(0, 0), NewCancel(0, 0),
     NewPieceMMsg(0, 0)}
    \cup {[ID |-> KepAlive, Payload |-> <<>>], [ID |-> Port, Payload |-> <<26, 225>>],
          [ID |-> BitField, Payload |-> FieldOf(Shares)]}
    \cup UNION {{[ID |-> Piece, Payload |-> PutUint32(i) \o PutUint32(k * BLOCK_LEN) \o BlockBytes(i, k)]
                    : k \in BlocksOf(i)} : i \in Pieces}

\* What other clients write and Marshall does not.
Foreign == {NewChoke} \cup {[ID |-> Have, Payload |-> PutUint32(i)] : i \in HavePieces}

WireInit ==
    /\ stream = <<>> /\ pending = <<>> /\ cut = FALSE
    /\ want = 0 /\ last = {} /\ opened = FALSE /\ done = FALSE
    /\ bits = <<>> /\ said = {} /\ blocks = {}

\* What is written after the last read is nobody's.
Puts(m, bytes) ==
    /\ ~cut /\ ~done /\ Len(pending) < MaxPending
    /\ stream' = stream \o bytes
    /\ pending' = Append(pending, m)
    /\ UNCHANGED <<cut, want, last, opened, done, bits, said, blocks>>

\* A message that leaves no byte leaves the connection as it is.
Write(m) == Marshall(m) # <<>> /\ Puts(m, Marshall(m))

WriteForeign(m) == Puts(m, Frame(m))

\* The connection breaks, and the last n bytes do not get through.
Break(n) ==
    /\ ~cut /\ ~done /\ n <= Len(stream)
    /\ cut' = TRUE
    /\ stream' = SubSeq(stream, 1, Len(stream) - n)
    /\ UNCHANGED <<pending, want, last, opened, done, bits, said, blocks>>

\* handleMsg, and before it ReqBitFields, whose message must be a bitfield.
Handle(m) ==
    IF ~opened
      THEN /\ opened' = (m.ID = BitField) /\ done' = (m.ID # BitField)
           /\ bits' = IF m.ID = BitField THEN m.Payload ELSE bits
           /\ UNCHANGED <<said, blocks>>
      ELSE /\ done' = (m.ID = Choke)
           /\ bits' = IF m.ID = Have /\ Len(m.Payload) = 4 THEN Set(bits, Uint32(m.Payload)) ELSE bits
           /\ said' = IF m.ID = Have /\ Len(m.Payload) = 4 THEN said \cup {Uint32(m.Payload)} ELSE said
           /\ blocks' = IF m.ID = Piece /\ Len(m.Payload) >= 8 THEN blocks \cup {ParsePieceMsg(m)} ELSE blocks
           /\ UNCHANGED opened

Delivers(m) ==
    /\ last' = {m} /\ want' = 0
    /\ pending' = IF pending = <<>> THEN pending ELSE Tail(pending)
    /\ Handle(m)

\* ReadMessage has the four bytes of a length.
ReadLength ==
    /\ ~done /\ want = 0 /\ Len(stream) >= 4
    /\ stream' = SubSeq(stream, 5, Len(stream))
    /\ LET l == Uint32(stream) IN
         IF l = 0 THEN Delivers([ID |-> KepAlive, Payload |-> <<>>])
                  ELSE /\ want' = l /\ last' = {}
                       /\ UNCHANGED <<pending, opened, done, bits, said, blocks>>
    /\ UNCHANGED cut

Body(body) == [ID |-> body[1], Payload |-> Tail(body)]

\* ReadMessage has the rest of the message.
ReadBody ==
    /\ ~done /\ want > 0 /\ Len(stream) >= want
    /\ stream' = SubSeq(stream, want + 1, Len(stream))
    /\ Delivers(Body(SubSeq(stream, 1, want)))
    /\ UNCHANGED cut

\* The stream ends inside a message or before one, or the deadline passes.
ReadBreaks ==
    /\ ~done
    /\ done' = TRUE
    /\ UNCHANGED <<stream, pending, cut, want, last, opened, bits, said, blocks>>

WireNext == \/ \E m \in Constructed : Write(m)
        \/ \E m \in Foreign : WriteForeign(m)
        \/ \E n \in 0 .. MaxLost : Break(n)
        \/ ReadLength \/ ReadBody \/ ReadBreaks

WireSpec == WireInit /\ [][WireNext]_wireVars

-----------------------------------------------------------------------------

\* What a message has become when it is read: a request or a cancel has three
\* numbers and a port has two bytes, whatever was in the payload.
Arrives(m) ==
    CASE m.ID \in {RequestId, Cancel} -> [m EXCEPT !.Payload = CopyInto(12, @)]
      [] m.ID = Port -> [m EXCEPT !.Payload = CopyInto(2, @)]
      [] OTHER -> m

Channel == INSTANCE MessageChannel
    WITH channel <- [k \in DOMAIN pending |-> Arrives(pending[k])],
         received <- last, broken <- cut

\* Whatever is written, and wherever the connection breaks, ReadMessage returns
\* the messages that were written, whole and in order: the frames Marshall makes
\* are in step with the frames ReadMessage takes, and those of other clients, and
\* a message of which a byte is missing is no message.
ImplementsChannel == Channel!Spec

\* Where byte j of the block p belongs in the file.
Place(p, j) == PieceBounds(p.Index)[1] + p.Begin + j - 1

\* Pieces cut into blocks, sent as messages and put back at the bounds of their
\* piece give the file: each byte is where it was, no two blocks overlap, none is
\* empty, and when every block has come nothing is missing.
BytesInPlace ==
    /\ \A p \in blocks :
         /\ p.Block # <<>>
         /\ \A j \in DOMAIN p.Block : Place(p, j) \in 0 .. Size - 1 /\ p.Block[j] = File[Place(p, j)]
    /\ \A p, q \in blocks : \A j \in DOMAIN p.Block, h \in DOMAIN q.Block :
         Place(p, j) = Place(q, h) => p = q
    /\ (\A i \in Pieces : \A k \in BlocksOf(i) :
            \E p \in blocks : p.Index = i /\ p.Begin = k * BLOCK_LEN)
         => \A x \in 0 .. Size - 1 : \E p \in blocks : \E j \in DOMAIN p.Block : x = Place(p, j)

\* The bitfield of bytes is the set of pieces the remote has announced, in its
\* bitfield and in Haves, of those that have a bit; asking for a piece past the
\* end is no error.
BitfieldIsSet ==
    opened =>
        /\ bits \in Seq(0 .. 255)
        /\ \A i \in HavePieces \cup Pieces \cup 0 .. 8 * Len(bits) :
              Has(bits, i) <=> i \in Shares \cup said /\ i < 8 * Len(bits)
=============================================================================
