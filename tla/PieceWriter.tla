----------------------------- MODULE PieceWriter -----------------------------
(***************************************************************************)
(* The second half of Torrent.Start (torrent.go): receive as many pieces   *)
(* as the torrent has, start a goroutine that writes each at its offset,   *)
(* and return nil when an errgroup says that all wrote without error.      *)
(*                                                                         *)
(* Nothing in the repository sends on pChan yet.  The senders are an       *)
(* environment that sends each piece once at most (its request has gone to *)
(* one worker, see WorkPool), perhaps short, and with whatever bytes the   *)
(* peers sent.                                                             *)
(***************************************************************************)
EXTENDS Pieces

VARIABLES
    phase,    \* Start: "open", "collect", "wait", and what it returned: "nil", "error"
    unsent,   \* the pieces nobody has sent yet
    got,      \* the loop counter i: pieces received
    writing,  \* the goroutines of the errgroup that run: the place each writes
              \* to, which piece it writes, and whether the bytes are right
    begun,    \* those of them that are in the system call
    file,     \* at each piece's offset, the piece there and whether it is right
    groupErr  \* the errgroup has kept an error

writerVars == <<phase, unsent, got, writing, begun, file, groupErr>>

Hole == <<>>
Bytes == {"good", "bad"}
Returned == phase \in {"nil", "error"}

\* Slip: the n-th piece received goes to the n-th place.
PlaceInOrder(i, n) == n

\* Where piece i, received as the n-th (from 0), is written:
\* PieceBounds(p.index), see Geometry.
Place(i, n) == i

-----------------------------------------------------------------------------

WriterInit ==
    /\ phase = "open"
    /\ unsent = Piece
    /\ got = 0
    /\ writing = {}
    /\ begun = {}
    /\ file = [i \in Piece |-> Hole]
    /\ groupErr = FALSE

\* os.OpenFile, which truncates the file.
Truncate(ok) ==
    /\ phase = "open"
    /\ phase' = IF ok THEN "collect" ELSE "error"
    /\ UNCHANGED <<unsent, got, writing, begun, file, groupErr>>

\* p := <-pChan, and g.Go for a piece of the right length.
Receive(i, bytes) ==
    /\ phase = "collect" /\ got < NumPieces
    /\ i \in unsent
    /\ unsent' = unsent \ {i}
    /\ got' = got + 1
    /\ writing' = writing \cup {<<Place(i, got), i, bytes>>}
    /\ UNCHANGED <<phase, begun, file, groupErr>>

\* A piece of another length: Start returns at once and its deferred Close
\* closes the file under the goroutines that have not begun to write.  It does
\* not wait for those that have, as the file is a regular one.
ReceiveShort(i) ==
    /\ phase = "collect" /\ got < NumPieces
    /\ i \in unsent
    /\ unsent' = unsent \ {i}
    /\ phase' = "error"
    /\ UNCHANGED <<got, writing, begun, file, groupErr>>

\* Slip: one piece too many is waited for.
CollectOneMore ==
    /\ phase = "collect" /\ got = NumPieces + 1
    /\ phase' = "wait"
    /\ UNCHANGED <<unsent, got, writing, begun, file, groupErr>>

\* The loop has received every piece.
CollectedAll ==
    /\ phase = "collect" /\ got = NumPieces
    /\ phase' = "wait"
    /\ UNCHANGED <<unsent, got, writing, begun, file, groupErr>>

\* f.WriteAt in a goroutine of the group enters the system call, for which the
\* file must be open.
BeginWrite(w) ==
    /\ w \in writing \ begun
    /\ ~Returned
    /\ begun' = begun \cup {w}
    /\ UNCHANGED <<phase, unsent, got, writing, file, groupErr>>

\* The system call writes the piece, perhaps after Start has returned.
Write(w) ==
    /\ w \in begun
    /\ file' = [file EXCEPT ![w[1]] = <<w[2], w[3]>>]
    /\ writing' = writing \ {w}
    /\ begun' = begun \ {w}
    /\ UNCHANGED <<phase, unsent, got, groupErr>>

\* Slip: the error is not returned from the goroutine.
WriteErrorLost(w) ==
    /\ w \in writing
    /\ writing' = writing \ {w}
    /\ begun' = begun \ {w}
    /\ UNCHANGED <<phase, unsent, got, file, groupErr>>

\* f.WriteAt fails, as it must when it begins on a closed file.
WriteFails(w) ==
    /\ w \in writing
    /\ writing' = writing \ {w}
    /\ begun' = begun \ {w}
    /\ groupErr' = TRUE
    /\ UNCHANGED <<phase, unsent, got, file>>

\* g.Wait
WaitReturns ==
    /\ phase = "wait" /\ writing = {}
    /\ phase' = IF groupErr THEN "error" ELSE "nil"
    /\ UNCHANGED <<unsent, got, writing, begun, file, groupErr>>

WriterNext ==
    \/ \E ok \in BOOLEAN : Truncate(ok)
    \/ \E i \in Piece : ReceiveShort(i)
    \/ \E i \in Piece, bytes \in Bytes : Receive(i, bytes)
    \/ \E w \in writing : BeginWrite(w) \/ Write(w) \/ WriteFails(w)
    \/ CollectedAll
    \/ WaitReturns

WriterSpec == WriterInit /\ [][WriterNext]_writerVars

\* Goroutines that can run do run, and a write succeeds or fails.
WriterFairness ==
    /\ WF_writerVars(CollectedAll)
    /\ WF_writerVars(WaitReturns)
    /\ \A w \in Piece \X Piece \X Bytes : WF_writerVars(BeginWrite(w) \/ Write(w) \/ WriteFails(w))

WriterFairSpec == WriterSpec /\ WriterFairness

-----------------------------------------------------------------------------

WriterTypeOK ==
    /\ phase \in {"open", "collect", "wait", "nil", "error"}
    /\ unsent \subseteq Piece
    /\ got \in 0 .. NumPieces
    /\ writing \subseteq Piece \X Piece \X Bytes
    /\ begun \subseteq writing
    /\ file \in [Piece -> {Hole} \cup (Piece \X Bytes)]
    /\ groupErr \in BOOLEAN

\* Start returns nil only when every piece is in its place in the file: none is
\* still being written, none failed to be, and the count of pieces received
\* stands for all of them.
NilMeansComplete ==
    phase = "nil" => \A i \in Piece : \E bytes \in Bytes : file[i] = <<i, bytes>>

\* When all pieces have come Start returns, whatever becomes of the writes.
ReturnsWhenDelivered == got = NumPieces ~> Returned
=============================================================================
