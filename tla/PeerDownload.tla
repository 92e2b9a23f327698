---------------------------- MODULE PeerDownload ----------------------------
(***************************************************************************)
(* PeerConn.DownloadPiece and handleMsg (pwp.go): ask one peer for the     *)
(* blocks of one piece, reading one message between two requests.          *)
(*                                                                         *)
(* Nothing in the repository calls DownloadPiece yet: the piece, the peer  *)
(* at the other end and the reader of errchan are the environment.         *)
(***************************************************************************)
EXTENDS Geometry, Sequences

CONSTANTS
    index,        \* PieceReq.index; PieceReq.len is PieceLen(index)
    BitfieldLen,  \* bits in the peer's bitfield, eight per byte it sent
    MaxRead       \* bound: messages read, counted by a history variable

ASSUME DownloadAssumption == /\ index \in Pieces
                             /\ BitfieldLen \in Nat
                             /\ MaxRead \in Nat

VARIABLES
    pc,         \* "loop", "read", "reportWrite", "reportRead", "returned", "panicked"
    connState,  \* c.state.connState
    begin,      \* offset of the next block to ask for
    blockLen,
    conn,       \* c.conn: "open", "expired" (past its deadline), "closed"
    b,          \* PeerConn.b: the pieces the peer says it has
    reqs,       \* history: the requests on the wire
    nread,      \* history: messages read
    peerSaid    \* history: the peer's last "Choke" or "Unchoke", or "nothing"

vars == <<pc, connState, begin, blockLen, conn, b, reqs, nread, peerSaid>>

-----------------------------------------------------------------------------

\* ConnState counts Chkd = 0, UnChkd = 1, Intd = 2, UnIntd = 3 and combines them
\* with a bitwise and: UnChkd & Intd is 1 & 2, the value of Chkd.
Chkd == 0
UnChkd == 1
ChkdIntd == 0     \* 0 & 2
UnChkdIntd == 0   \* 1 & 2

len == PieceLen(index)

\* What the peer may send.  Choke, Unchoke, Have, Piece; any other id, and the
\* keep-alive, fall to the default case and do nothing, as does a Piece, whose
\* block is parsed and thrown away.
Messages == [id : {"Choke", "Unchoke", "Piece", "Other"}]
            \cup [id : {"Have"}, piece : Nat]

\* Torrent.Connect leaves the connection in state ChkdIntd; DownloadPiece sets
\* a deadline of thirty seconds.
Init ==
    /\ pc = "loop"
    /\ connState = ChkdIntd
    /\ begin = 0
    /\ blockLen = BLOCK_LEN
    /\ conn = "open"
    /\ b = {}
    /\ reqs = <<>>
    /\ nread = 0
    /\ peerSaid = "nothing"

\* The deadline passes: from here on reads and writes fail.
Expire ==
    /\ conn = "open" /\ pc \notin {"returned", "panicked"}
    /\ conn' = "expired"
    /\ UNCHANGED <<pc, connState, begin, blockLen, b, reqs, nread, peerSaid>>

\* Slip: done when the next block would reach the end.
ReturnOneEarly ==
    /\ pc = "loop" /\ begin + BLOCK_LEN >= len
    /\ pc' = "returned"
    /\ UNCHANGED <<connState, begin, blockLen, conn, b, reqs, nread, peerSaid>>

\* The loop condition; c.state.numReqsSent stays 0, the loop counts in a local
\* variable of that name.
Return ==
    /\ pc = "loop" /\ begin >= len
    /\ pc' = "returned"
    /\ UNCHANGED <<connState, begin, blockLen, conn, b, reqs, nread, peerSaid>>

\* Slip: the length is not cut for the last block.
LastLenUncut == BLOCK_LEN

\* The length of the block at begin.
NextBlockLen == IF len - begin < BLOCK_LEN THEN len - begin ELSE blockLen

\* Slip: the next request before the answer to this one.
RequestWithoutReading ==
    /\ pc = "loop" /\ begin < len /\ connState = UnChkdIntd
    /\ conn = "open"
    /\ blockLen' = NextBlockLen
    /\ reqs' = Append(reqs, [begin |-> begin, len |-> NextBlockLen])
    /\ begin' = begin + NextBlockLen
    /\ UNCHANGED <<pc, connState, conn, b, nread, peerSaid>>

\* RequestBlock succeeds; the request is on the wire.
Request ==
    /\ pc = "loop" /\ begin < len /\ connState = UnChkdIntd
    /\ conn = "open"
    /\ blockLen' = NextBlockLen
    /\ reqs' = Append(reqs, [begin |-> begin, len |-> NextBlockLen])
    /\ begin' = begin + NextBlockLen
    /\ pc' = "read"
    /\ UNCHANGED <<connState, conn, b, nread, peerSaid>>

\* RequestBlock fails, as it must on a connection closed or past its deadline.
RequestFails ==
    /\ pc = "loop" /\ begin < len /\ connState = UnChkdIntd
    /\ blockLen' = NextBlockLen
    /\ pc' = "reportWrite"
    /\ UNCHANGED <<connState, begin, conn, b, reqs, nread, peerSaid>>

\* In any other state nothing is asked for, only read.
SkipRequest ==
    /\ pc = "loop" /\ begin < len /\ connState # UnChkdIntd
    /\ pc' = "read"
    /\ UNCHANGED <<connState, begin, blockLen, conn, b, reqs, nread, peerSaid>>

\* Slip: a Choke only changes the state.
ChokeKeepsConn(m) == conn

\* Choke closes the connection (hows/protocol.md:72).
ConnAfter(m) == IF m.id = "Choke" THEN "closed" ELSE conn

\* ReadMessage and handleMsg.  Bitfield.Set ignores a piece past its end.
Read(m) ==
    /\ pc = "read" /\ conn = "open"
    /\ m \in Messages
    /\ connState' = CASE m.id = "Choke" -> Chkd
                      [] m.id = "Unchoke" -> UnChkd
                      [] OTHER -> connState
    /\ conn' = ConnAfter(m)
    /\ b' = IF m.id = "Have" /\ m.piece < BitfieldLen THEN b \cup {m.piece} ELSE b
    /\ peerSaid' = IF m.id \in {"Choke", "Unchoke"} THEN m.id ELSE peerSaid
    /\ nread' = IF nread < MaxRead THEN nread + 1 ELSE nread
    /\ pc' = "loop"
    /\ UNCHANGED <<begin, blockLen, reqs>>

\* Slip: a failed read is tried again at once.
ReadFailsRetried ==
    /\ pc = "read"
    /\ UNCHANGED <<pc, connState, begin, blockLen, conn, b, reqs, nread, peerSaid>>

\* ReadMessage fails: the peer hung up, or the connection is past its deadline.
ReadFails ==
    /\ pc = "read"
    /\ pc' = "reportRead"
    /\ UNCHANGED <<connState, begin, blockLen, conn, b, reqs, nread, peerSaid>>

\* Somebody receives from errchan, if anybody does.  After a failed write DownloadPiece returns;
\* after a failed read it goes on, to handleMsg(nil), which panics.
Report ==
    /\ pc \in {"reportWrite", "reportRead"}
    /\ pc' = IF pc = "reportWrite" THEN "returned" ELSE "panicked"
    /\ UNCHANGED <<connState, begin, blockLen, conn, b, reqs, nread, peerSaid>>

Next ==
    \/ Expire
    \/ Return \/ Request \/ RequestFails \/ SkipRequest
    \/ \E id \in {"Choke", "Unchoke", "Piece", "Other"} : Read([id |-> id])
    \/ \E i \in 0 .. BitfieldLen : Read([id |-> "Have", piece |-> i])
    \/ ReadFails
    \/ Report

Spec == Init /\ [][Next]_vars

\* The goroutine runs, and time passes.  A peer need not send anything, but past
\* the deadline a read fails.  Nobody need receive from errchan (the channel the
\* repository makes, torrent.go:154, has no receiver), so Report is not here.
Fairness ==
    /\ WF_vars(Expire)
    /\ WF_vars(Return \/ Request \/ RequestFails \/ SkipRequest)
    /\ WF_vars(ReadFails /\ conn # "open")

FairSpec == Spec /\ Fairness

-----------------------------------------------------------------------------

TypeOK ==
    /\ pc \in {"loop", "read", "reportWrite", "reportRead", "returned", "panicked"}
    /\ connState \in {Chkd, UnChkd}
    /\ begin \in 0 .. len
    /\ blockLen \in 1 .. BLOCK_LEN
    /\ conn \in {"open", "expired", "closed"}
    /\ b \subseteq 0 .. BitfieldLen - 1
    /\ reqs \in Seq([begin : Nat, len : Nat])
    /\ nread \in 0 .. MaxRead
    /\ peerSaid \in {"nothing", "Choke", "Unchoke"}

\* DownloadPiece cuts the piece with arithmetic of its own.  The blocks it asks
\* for are those of MetaInfo.BlockLen, in order, none left out, and begin is
\* where the last of them ends.
RequestsAreBlocks ==
    /\ \A k \in DOMAIN reqs :
        /\ k - 1 \in BlocksOf(index)
        /\ reqs[k] = [begin |-> (k - 1) * BLOCK_LEN, len |-> BlockLen(index, k - 1)]
    /\ begin = IF Len(reqs) = NumBlocksInPiece(index) THEN len ELSE Len(reqs) * BLOCK_LEN

\* A call that ends without an error or a panic has asked for the whole piece.
ReturnMeansAllRequested ==
    [][Return => Len(reqs) = NumBlocksInPiece(index)]_vars

\* There is never more than one request without a message read for it, however
\* the peer mixes its messages: what keeps the peer's queue short.
OneRequestAhead == nread < MaxRead => Len(reqs) <= nread + 1

\* hows/protocol.md:72, "If they send a `choke` back, close the connection":
\* once the peer chokes no request reaches it any more.
NothingAfterChoke ==
    [][peerSaid = "Choke" => reqs' = reqs /\ peerSaid' = "Choke"]_vars

\* The deadline set at the start bounds the loop, whatever the peer sends or
\* withholds: it ends with everything asked for, or with an error to report.
\* (Whether the call then ends is up to a receiver on errchan; after a failed
\* read it would panic, handling a nil message.)
LoopEnds ==
    <>(\/ Len(reqs) = NumBlocksInPiece(index) /\ pc = "returned"
       \/ pc \in {"reportWrite", "reportRead"})
=============================================================================
