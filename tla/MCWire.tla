------------------------------- MODULE MCWire -------------------------------
(***************************************************************************)
(* A small torrent for the model checker: two pieces, of three blocks.  No *)
(* two of its bytes are alike, so that one in another's place shows.       *)
(***************************************************************************)
EXTENDS Wire

MCFile == [x \in 0 .. Size - 1 |-> 100 + x]
=============================================================================
