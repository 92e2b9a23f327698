-------------------------------- MODULE Swarm --------------------------------
(***************************************************************************)
(* Torrent.Start and its goroutines (torrent.go): one worker per peer runs *)
(* downloadPiece, that is Connect (dial, handshake, bitfield) and then a   *)
(* loop over the channel of piece requests, which all workers share.       *)
(*                                                                         *)
(* Of the three channels only reqChan is buffered.  Nothing in the code    *)
(* sends on pChan and nothing receives from errChan, so their operations   *)
(* have no step here that completes: a worker with an error to report, and *)
(* Start once it collects pieces, wait for ever.                           *)
(***************************************************************************)
EXTENDS Pieces, Sequences, Functions

CONSTANTS
    Peers,           \* Torrent.peers, and the worker of each
    HandshakeParses  \* can ParseHandShake succeed?  It cannot as it stands, for
                     \* binary.Read is given a uint8 and not a pointer to one.
                     \* TRUE shows what the code behind the handshake does.

ASSUME SwarmAssumption == HandshakeParses \in BOOLEAN

VARIABLES
    start,    \* Start: "opening" the file, "collecting" pieces, "returned"
    pc,       \* where each worker is
    reqChan,  \* the buffered channel of piece requests: a FIFO of indices
    held,     \* the request each worker has received and not yet dealt with
    dropped,  \* the requests that left the channel for good
    bits,     \* PeerConn.b: the pieces each peer says it has
    clients,  \* Torrent.clients
    snap,     \* t.clients as read by an append that has not written it yet
    sent,     \* the ids of the messages written to each peer
    overlapped \* history: the workers whose append has overlapped with another's

vars == <<start, pc, reqChan, held, dropped, bits, clients, snap, sent, overlapped>>

-----------------------------------------------------------------------------

\* formats.MsgId
Unchoke == 1
Interested == 2
Uninterested == 3

Running == start \in {"opening", "collecting"}

\* The workers that got through Connect.
Joined == { p \in Peers : pc[p] \in {"greet", "loop"} }

\* PeerConn.HasPiece
HasPiece(p, i) == i \in bits[p]

\* The bytes Msg.Marshall writes for a message without payload.  Its case is
\* Choke | Unchoke | Interested | Uninterested, which is the one value
\* 0 | 1 | 2 | 3 = 3; the other three ids match no case.
Written(id) == IF id = Uninterested THEN {id} ELSE {}

-----------------------------------------------------------------------------

\* Start fills reqChan, whose capacity is the number of pieces, and starts the
\* workers before it opens the file.
Init ==
    /\ start = "opening"
    /\ pc = [p \in Peers |-> "dial"]
    /\ reqChan = [k \in 1 .. NumPieces |-> k - 1]
    /\ held = [p \in Peers |-> {}]
    /\ dropped = {}
    /\ bits = [p \in Peers |-> {}]
    /\ clients = <<>>
    /\ snap = [p \in Peers |-> <<>>]
    /\ sent = [p \in Peers |-> {}]
    /\ overlapped = {}

\* os.OpenFile; with an error Start returns and main exits, ending the workers.
OpenFile(ok) ==
    /\ start = "opening"
    /\ start' = IF ok THEN "collecting" ELSE "returned"
    /\ UNCHANGED <<pc, reqChan, held, dropped, bits, clients, snap, sent, overlapped>>

\* NewConn: succeeds, or fails, after five seconds at most.
Dial(p, ok) ==
    /\ Running /\ pc[p] = "dial"
    /\ pc' = [pc EXCEPT ![p] = IF ok THEN "shake" ELSE "reporting"]
    /\ UNCHANGED <<start, reqChan, held, dropped, bits, clients, snap, sent, overlapped>>

\* PeerConn.Shake has no deadline: it returns when the peer answers or hangs up.
Shake(p, ok) ==
    /\ Running /\ pc[p] = "shake"
    /\ ok => HandshakeParses
    /\ pc' = [pc EXCEPT ![p] = IF ok THEN "bitfield" ELSE "reporting"]
    /\ UNCHANGED <<start, reqChan, held, dropped, bits, clients, snap, sent, overlapped>>

\* PeerConn.ReqBitFields: the first message is the bitfield b, or Connect fails.
ReqBitFields(p, ok, b) ==
    /\ Running /\ pc[p] = "bitfield"
    /\ IF ok THEN /\ pc' = [pc EXCEPT ![p] = "append"]
                  /\ bits' = [bits EXCEPT ![p] = b]
             ELSE /\ pc' = [pc EXCEPT ![p] = "reporting"]
                  /\ UNCHANGED bits
    /\ UNCHANGED <<start, reqChan, held, dropped, clients, snap, sent, overlapped>>

\* The appends that have read the slice and not written it.
Appending == { p \in Peers : pc[p] = "appending" }

\* Slip: the slice is not read; the connection starts a new one.
ReadNoClients(p) ==
    /\ Running /\ pc[p] = "append"
    /\ snap' = [snap EXCEPT ![p] = <<>>]
    /\ overlapped' = IF Appending = {} THEN overlapped ELSE overlapped \cup Appending \cup {p}
    /\ pc' = [pc EXCEPT ![p] = "appending"]
    /\ UNCHANGED <<start, reqChan, held, dropped, bits, clients, sent>>

\* t.clients = append(t.clients, cl), which no lock protects (Torrent.mu is
\* never taken): it reads the slice in one step and writes it in another.
ReadClients(p) ==
    /\ Running /\ pc[p] = "append"
    /\ snap' = [snap EXCEPT ![p] = clients]
    /\ overlapped' = IF Appending = {} THEN overlapped ELSE overlapped \cup Appending \cup {p}
    /\ pc' = [pc EXCEPT ![p] = "appending"]
    /\ UNCHANGED <<start, reqChan, held, dropped, bits, clients, sent>>

\* (Two that write into one backing array leave one of the two connections in
\* the slot they share: the same two outcomes as here.)
WriteClients(p) ==
    /\ Running /\ pc[p] = "appending"
    /\ clients' = Append(snap[p], p)
    /\ pc' = [pc EXCEPT ![p] = "greet"]
    /\ UNCHANGED <<start, reqChan, held, dropped, bits, snap, sent, overlapped>>

\* PeerConn.Unchoke and PeerConn.Interested: neither can fail, neither writes.
Greet(p) ==
    /\ Running /\ pc[p] = "greet"
    /\ sent' = [sent EXCEPT ![p] = @ \cup Written(Unchoke) \cup Written(Interested)]
    /\ pc' = [pc EXCEPT ![p] = "loop"]
    /\ UNCHANGED <<start, reqChan, held, dropped, bits, clients, snap, overlapped>>

\* Slip: the request stays in the channel when it is received.
TakePeeks(p) ==
    /\ Running /\ pc[p] = "loop" /\ held[p] = {}
    /\ reqChan # <<>>
    /\ held' = [held EXCEPT ![p] = {Head(reqChan)}]
    /\ UNCHANGED <<start, pc, reqChan, dropped, bits, clients, snap, sent, overlapped>>

\* for pReq := range pReqChan: the channel is never closed, so the loop never ends.
Take(p) ==
    /\ Running /\ pc[p] = "loop" /\ held[p] = {}
    /\ reqChan # <<>>
    /\ held' = [held EXCEPT ![p] = {Head(reqChan)}]
    /\ reqChan' = Tail(reqChan)
    /\ UNCHANGED <<start, pc, dropped, bits, clients, snap, sent, overlapped>>

\* Slips: the request goes to the front; it is forgotten.
PutBackInFront(p, i) ==
    /\ Running /\ held[p] = {i} /\ ~HasPiece(p, i)
    /\ Len(reqChan) < NumPieces
    /\ reqChan' = <<i>> \o reqChan
    /\ held' = [held EXCEPT ![p] = {}]
    /\ UNCHANGED <<start, pc, dropped, bits, clients, snap, sent, overlapped>>

PutBackNothing(p, i) ==
    /\ Running /\ held[p] = {i} /\ ~HasPiece(p, i)
    /\ held' = [held EXCEPT ![p] = {}]
    /\ UNCHANGED <<start, pc, reqChan, dropped, bits, clients, snap, sent, overlapped>>

\* pReqChan <- pReq: blocks while the channel is full.
PutBack(p, i) ==
    /\ Running /\ held[p] = {i} /\ ~HasPiece(p, i)
    /\ Len(reqChan) < NumPieces
    /\ reqChan' = Append(reqChan, i)
    /\ held' = [held EXCEPT ![p] = {}]
    /\ UNCHANGED <<start, pc, dropped, bits, clients, snap, sent, overlapped>>

\* The loop body ends without doing anything with a request for a piece the
\* peer has: no message is sent, and the request is not in the channel any more.
Drop(p, i) ==
    /\ Running /\ held[p] = {i} /\ HasPiece(p, i)
    /\ held' = [held EXCEPT ![p] = {}]
    /\ dropped' = dropped \cup {i}
    /\ UNCHANGED <<start, pc, reqChan, bits, clients, snap, sent, overlapped>>

Worker(p) ==
    \/ \E ok \in BOOLEAN : Dial(p, ok) \/ Shake(p, ok)
    \/ \E ok \in BOOLEAN, b \in SUBSET Piece : ReqBitFields(p, ok, b)
    \/ ReadClients(p) \/ WriteClients(p) \/ Greet(p)
    \/ Take(p)
    \/ \E i \in Piece : PutBack(p, i) \/ Drop(p, i)

Next ==
    \/ \E ok \in BOOLEAN : OpenFile(ok)
    \/ \E p \in Peers : Worker(p)

Spec == Init /\ [][Next]_vars

\* Goroutines that can run do run.  Dialing and waiting for the bitfield end
\* within five seconds; nothing makes a handshake end, so Shake is not here.
Fairness ==
    /\ WF_vars(\E ok \in BOOLEAN : OpenFile(ok))
    /\ \A p \in Peers :
        /\ WF_vars(\E ok \in BOOLEAN : Dial(p, ok))
        /\ WF_vars(\E ok \in BOOLEAN, b \in SUBSET Piece : ReqBitFields(p, ok, b))
        /\ WF_vars(ReadClients(p)) /\ WF_vars(WriteClients(p)) /\ WF_vars(Greet(p))
        /\ WF_vars(Take(p))
        /\ WF_vars(\E i \in Piece : PutBack(p, i) \/ Drop(p, i))

FairSpec == Spec /\ Fairness

-----------------------------------------------------------------------------

TypeOK ==
    /\ start \in {"opening", "collecting", "returned"}
    /\ pc \in [Peers -> {"dial", "shake", "bitfield", "append", "appending",
                         "greet", "loop", "reporting"}]
    /\ reqChan \in Seq(Piece)
    /\ held \in [Peers -> SUBSET Piece]
    /\ dropped \subseteq Piece
    /\ bits \in [Peers -> SUBSET Piece]
    /\ clients \in Seq(Peers)
    /\ snap \in [Peers -> Seq(Peers)]
    /\ sent \in [Peers -> SUBSET (0 .. 10)]
    /\ overlapped \subseteq Peers

\* A worker that puts a request back never finds the channel full, whatever the
\* others do: the channel was made for all the requests, and the one put back
\* is not in it.  Were it full, every worker could block on its own send.
PutBackNeverBlocks ==
    \A p \in Peers : held[p] # {} => Len(reqChan) < NumPieces

\* The channel of requests is a pool of work: no request is in two hands, or
\* both in a hand and in the channel, and only a worker whose peer has the
\* piece makes one disappear.
Pool == INSTANCE WorkPool
          WITH Workers <- Peers, Items <- Piece,
               pending <- Range(reqChan), assigned <- held, taken <- dropped

ImplementsWorkPool == Pool!Spec

\* Because requests are put back at the end, one that every worker in the loop
\* could serve is not starved by requests none of them can serve.
CommonlyHeld(i) == /\ \E p \in Peers : pc[p] = "loop"
                   /\ \A p \in Joined : i \in bits[p]

CommonPieceTaken ==
    \A i \in Piece :
        CommonlyHeld(i) ~> (i \in dropped \/ ~CommonlyHeld(i) \/ ~Running)

\* Worker p waits on a channel: to report an error, which nobody reads; for a
\* request, of which there is none; or for room to put one back.
Asleep(p) ==
    \/ pc[p] = "reporting"
    \/ pc[p] = "loop" /\ held[p] = {} /\ reqChan = <<>>
    \/ Len(reqChan) = NumPieces /\ \E i \in held[p] : ~HasPiece(p, i)

\* The workers do not bring one another to a halt over the channel they receive
\* from and send to: when all of them wait and one got as far as the loop, all
\* requests have been served.  (Start waits on pChan for ever all the same.)
AllAsleepOnlyWhenServed ==
    (\A p \in Peers : Asleep(p)) => dropped = Piece \/ \A p \in Peers : pc[p] = "reporting"

\* torrent.go:43, the "list of connections to peers this client is connected to":
\* a connection that is not in it was lost to appends that overlapped, by its own
\* worker or one at the same time, and to nothing else.
ClientsLostOnlyInRace ==
    \A p \in Joined : p \in Range(clients) \/ p \in overlapped
=============================================================================
