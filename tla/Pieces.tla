-------------------------------- MODULE Pieces --------------------------------
(***************************************************************************)
(* What both halves of Torrent.Start (torrent.go) count by: the pieces of  *)
(* the torrent, one for each hash.                                         *)
(***************************************************************************)
EXTENDS Integers

CONSTANT NumPieces   \* len(t.pieceHashes())

ASSUME PiecesAssumption == NumPieces \in Nat \ {0}

Piece == 0 .. NumPieces - 1
=============================================================================
