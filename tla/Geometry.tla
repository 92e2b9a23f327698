------------------------------ MODULE Geometry ------------------------------
(***************************************************************************)
(* How a torrent of Size bytes is cut into pieces and a piece into blocks: *)
(* the arithmetic of formats/metainfo.go.  Start sizes and places every    *)
(* piece with it, Queue.enq cuts its requests with it and NewPieces sizes  *)
(* the bookkeeping with it, so the three have to agree.                    *)
(***************************************************************************)
EXTENDS Integers

CONSTANTS
    Size,          \* MetaInfo.Size(): length of the download in bytes
    InfoPieceLen,  \* InfoDict.PieceLen
    BLOCK_LEN      \* formats.BLOCK_LEN, 2^14 in the code

ASSUME GeometryAssumption ==
    /\ Size \in Nat \ {0}
    /\ InfoPieceLen \in Nat \ {0}
    /\ BLOCK_LEN \in Nat \ {0}

-----------------------------------------------------------------------------

\* len(Info.PiecesHash) of a well-formed torrent: whoever made the .torrent
\* file hashed every piece, the last one possibly short.
NumPieces == (Size + InfoPieceLen - 1) \div InfoPieceLen

Pieces == 0 .. NumPieces - 1

\* MetaInfo.PieceLen
PieceLen(index) ==
    IF Size \div InfoPieceLen = index THEN Size % InfoPieceLen ELSE InfoPieceLen

\* MetaInfo.PieceBounds: first byte of the piece, and the byte after its last
PieceBounds(index) ==
    LET start == index * InfoPieceLen
        end   == start + InfoPieceLen
    IN  <<start, IF end > Size THEN Size ELSE end>>

\* MetaInfo.NumBlocksInPiece
NumBlocksInPiece(index) ==
    LET pLen == PieceLen(index)
    IN  IF pLen % BLOCK_LEN > 0 THEN pLen \div BLOCK_LEN + 1 ELSE pLen \div BLOCK_LEN

\* MetaInfo.BlockLen
BlockLen(pIndex, bIndex) ==
    LET pLen == PieceLen(pIndex)
    IN  IF bIndex = pLen \div BLOCK_LEN THEN pLen % BLOCK_LEN ELSE BLOCK_LEN

BlocksOf(index) == 0 .. NumBlocksInPiece(index) - 1

-----------------------------------------------------------------------------

\* PieceLen and PieceBounds are computed independently in the code; Start
\* checks a piece's length with the one and places it with the other.  For
\* every piece of the torrent they describe the same non-empty byte range, the
\* ranges are consecutive, and the last ends at the last byte.
PiecesTile ==
    \A i \in Pieces :
        LET b == PieceBounds(i)
        IN  /\ PieceLen(i) > 0
            /\ b[2] - b[1] = PieceLen(i)
            /\ b[1] = IF i = 0 THEN 0 ELSE PieceBounds(i - 1)[2]
            /\ i = NumPieces - 1 => b[2] = Size

\* The blocks Queue.enq asks for cut every piece with no gap, no overlap and no
\* empty block: each block ends where the next begins, the last at the end of
\* the piece.
BlocksTile ==
    \A i \in Pieces : \A k \in BlocksOf(i) :
        /\ BlockLen(i, k) \in 1 .. BLOCK_LEN
        /\ k * BLOCK_LEN + BlockLen(i, k) =
             IF k = NumBlocksInPiece(i) - 1 THEN PieceLen(i) ELSE (k + 1) * BLOCK_LEN
=============================================================================
