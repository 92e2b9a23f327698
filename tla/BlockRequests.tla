---------------------------- MODULE BlockRequests ----------------------------
(***************************************************************************)
(* Which block to ask for next: PiecesState (pieces.go), shared by every   *)
(* connection, the Queue of each connection (queue.go), and               *)
(* PeerConn.ReqPiece (pwp.go), which joins them.                           *)
(*                                                                         *)
(* ReqPiece receives the Queue and the PiecesState BY VALUE.  Its deq() is *)
(* lost when it returns, so a call leaves the connection's queue as it     *)
(* was; its writes to Reqd go through shared backing arrays and stay.      *)
(*                                                                         *)
(* No code in the repository calls these functions yet.  Their callers are *)
(* an environment: it enqueues pieces, chokes and unchokes, calls ReqPiece *)
(* (one call at a time, the types have no lock), and reports the answers   *)
(* of the peers with assertRecvd.                                          *)
(***************************************************************************)
EXTENDS Geometry, Sequences, FiniteSets

CONSTANTS
    Conns,        \* the peer connections
    MaxQueue,     \* bound: Ibls in one queue
    MaxInFlight,  \* bound: unanswered requests on one connection
    MaxAsked      \* bound: where the count of requests for a block saturates

ASSUME ConnsAssumption == /\ IsFiniteSet(Conns)
                          /\ MaxQueue \in Nat
                          /\ MaxInFlight \in Nat
                          /\ MaxAsked \in Nat

VARIABLES
    reqd,       \* PiecesState.Reqd: the blocks whose flag is set
    recvd,      \* PiecesState.Recvd: the blocks whose flag is set
    queue,      \* Queue.queue of each connection
    chocked,    \* Queue.chocked of each connection
    inFlight,   \* requests on the wire of each connection, unanswered; a second
                \* copy of one is not counted, assertRecvd being idempotent
    asked,      \* history: how often each block was asked for
    overtaken   \* history: the blocks in flight when Reqd was last reset

vars == <<reqd, recvd, queue, chocked, inFlight, asked, overtaken>>

-----------------------------------------------------------------------------

\* A block is named by its piece and its position: Reqd[index].done[Begin/BLOCK_LEN]
Block == UNION { {i} \X BlocksOf(i) : i \in Pieces }

\* formats.Ibl
Ibl == [index : Nat, begin : Nat, len : Nat]

BlockOf(ibl) == <<ibl.index, ibl.begin \div BLOCK_LEN>>

\* Slip in enq: a block counted from one.
BlocksAsIblsFromOne(index) ==
    [k \in 1 .. NumBlocksInPiece(index) |->
        [index |-> index, begin |-> k * BLOCK_LEN, len |-> BlockLen(index, k - 1)]]

\* What Queue.enq(index) appends: every block of the piece, with its own length
BlocksAsIbls(index) ==
    [k \in 1 .. NumBlocksInPiece(index) |->
        [index |-> index, begin |-> (k - 1) * BLOCK_LEN, len |-> BlockLen(index, k - 1)]]

Asked(c) == { BlockOf(r) : r \in inFlight[c] }

AllInFlight == UNION { Asked(c) : c \in Conns }

-----------------------------------------------------------------------------

\* NeWQ makes a queue that already holds one zero Ibl, and starts chocked.
NewQueue == << [index |-> 0, begin |-> 0, len |-> 0] >>

Init ==
    /\ reqd = {}
    /\ recvd = {}
    /\ queue = [c \in Conns |-> NewQueue]
    /\ chocked = [c \in Conns |-> TRUE]
    /\ inFlight = [c \in Conns |-> {}]
    /\ asked = [b \in Block |-> 0]
    /\ overtaken = {}

\* Queue.enq
Enq(c, index) ==
    /\ Len(queue[c]) + NumBlocksInPiece(index) <= MaxQueue
    /\ queue' = [queue EXCEPT ![c] = @ \o BlocksAsIbls(index)]
    /\ UNCHANGED <<reqd, recvd, chocked, inFlight, asked, overtaken>>

\* The owner of the queue sets Queue.chocked, which only ReqPiece reads.
SetChocked(c, choke) ==
    /\ chocked[c] # choke
    /\ chocked' = [chocked EXCEPT ![c] = choke]
    /\ UNCHANGED <<reqd, recvd, queue, inFlight, asked, overtaken>>

\* Slips in needed: Reqd cleared instead of copied from Recvd; only the first
\* piece looked at before the copy; no copy at all.
ReqdCleared == IF reqd = Block THEN {} ELSE reqd
ReqdFirstPieceOnly == IF {0} \X BlocksOf(0) \subseteq reqd THEN recvd ELSE reqd
ReqdNeverReset == reqd

\* PiecesState.needed, on its way to the answer: when every block has been
\* requested, Reqd becomes a copy of Recvd, so that what has not arrived is
\* asked for again.
ReqdAfterNeeded == IF reqd = Block THEN recvd ELSE reqd

\* The positions of the queue the loop of ReqPiece would send.
NeededAt(c) == { k \in DOMAIN queue[c] : BlockOf(queue[c][k]) \notin ReqdAfterNeeded }

\* ReqPiece finds the first needed Ibl, which is for block b, and asks for it.
\* The error of req.Marshall is dropped: written says whether the request
\* reached the wire, and the block is marked as requested either way.
ReqPieceSends(c, b, written) ==
    /\ ~chocked[c]
    /\ Cardinality(inFlight[c]) < MaxInFlight
    /\ \E k \in NeededAt(c) :
        /\ \A j \in NeededAt(c) : k <= j
        /\ BlockOf(queue[c][k]) = b
        /\ inFlight' = [inFlight EXCEPT ![c] = IF written THEN @ \cup {queue[c][k]} ELSE @]
    /\ reqd' = ReqdAfterNeeded \cup {b}
    /\ asked' = [asked EXCEPT ![b] = IF @ < MaxAsked THEN @ + 1 ELSE @]
    /\ overtaken' = IF reqd = Block THEN AllInFlight ELSE overtaken
    /\ UNCHANGED <<recvd, queue, chocked>>

\* ReqPiece runs off the end of the queue: nothing to ask for, but the calls of
\* needed() may have reset Reqd.
ReqPieceFindsNothing(c) ==
    /\ ~chocked[c]
    /\ queue[c] # <<>>
    /\ NeededAt(c) = {}
    /\ reqd' = ReqdAfterNeeded
    /\ overtaken' = IF reqd = Block THEN AllInFlight ELSE overtaken
    /\ UNCHANGED <<recvd, queue, chocked, inFlight, asked>>

\* The peer answers a request; PiecesState.assertRecvd.
AssertRecvd(c, ibl) ==
    /\ ibl \in inFlight[c]
    /\ inFlight' = [inFlight EXCEPT ![c] = @ \ {ibl}]
    /\ recvd' = recvd \cup {BlockOf(ibl)}
    /\ UNCHANGED <<reqd, queue, chocked, asked, overtaken>>

Next ==
    \E c \in Conns :
        \/ \E index \in Pieces : Enq(c, index)
        \/ \E choke \in BOOLEAN : SetChocked(c, choke)
        \/ \E b \in Block, written \in BOOLEAN : ReqPieceSends(c, b, written)
        \/ ReqPieceFindsNothing(c)
        \/ \E ibl \in inFlight[c] : AssertRecvd(c, ibl)

Spec == Init /\ [][Next]_vars

\* A connection is not left chocked for ever, keeps calling ReqPiece, its writes
\* do not fail for ever on one block, and a peer answers what it was asked.
Fairness ==
    \A c \in Conns :
        /\ WF_vars(SetChocked(c, FALSE))
        /\ \A b \in Block : SF_vars(ReqPieceSends(c, b, TRUE))
        /\ \A b \in Block : WF_vars(\E r \in inFlight[c] : BlockOf(r) = b /\ AssertRecvd(c, r))

FairSpec == Spec /\ Fairness

-----------------------------------------------------------------------------

\* PiecesState.isDone
IsDone == recvd = Block

\* The queue of c holds every block of the torrent.
Covers(c) == \A b \in Block : \E k \in DOMAIN queue[c] : BlockOf(queue[c][k]) = b

TypeOK ==
    /\ reqd \subseteq Block
    /\ recvd \subseteq Block
    /\ queue \in [Conns -> Seq(Ibl)]
    /\ chocked \in [Conns -> BOOLEAN]
    /\ inFlight \in [Conns -> SUBSET Ibl]
    /\ asked \in [Block -> Nat]
    /\ overtaken \subseteq Block

\* Every Ibl names a block that PiecesState has flags for, the zero Ibl of
\* NeWQ included: Reqd[Index].done[Begin/BLOCK_LEN] never goes out of range.
IndicesInRange ==
    \A c \in Conns : /\ \A k \in DOMAIN queue[c] : BlockOf(queue[c][k]) \in Block
                     /\ Asked(c) \subseteq Block

\* When may needed() ask again for a block that has arrived?  The copy of
\* Recvd over Reqd forgets the requests still in flight; a block is received
\* and yet unrequested only if its answer was overtaken by that copy.
OnlyOvertakenAskedAgain == recvd \ reqd \subseteq overtaken

\* Requests are spread evenly, also when some are lost and asked for again:
\* of two blocks that are both missing, neither is asked for twice more than the
\* other, whatever order they were enqueued in.
BalancedRequests ==
    \A b, d \in Block \ recvd : asked[b] > asked[d] + 1 => asked[d] = MaxAsked

\* One connection whose queue holds every block is enough to complete the
\* download, whatever was chocked, lost or written without success meanwhile.
EverythingArrives == (\E c \in Conns : Covers(c)) ~> IsDone
=============================================================================
