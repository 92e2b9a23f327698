------------------------------ MODULE UtpSocket ------------------------------
(***************************************************************************)
(* A UtpSocket (utp/socket.go): how it connects, sends, waits for          *)
(* acknowledgements and closes.  Its caller makes one call at a time; the  *)
(* remote is a correct peer (this code is not one: see socket.go:623)      *)
(* behind a network that loses, doubles and reorders packets.              *)
(*                                                                         *)
(* recv may handle an acknowledgement, which may send a packet again,      *)
(* which waits for room in the window by calling recv: sendPacket is       *)
(* active any number of times at once.  Only the innermost one reads from  *)
(* the network, since every outer recv is past its read; so a stack of     *)
(* the sendPackets is all there is to keep.                                *)
(*                                                                         *)
(* A socket of connect is on a dialed UDPConn, on which WriteToUDP always  *)
(* fails; one of NewSocketFromRaw can be on a listening UDPConn, on which  *)
(* Write always fails.  The code uses both.                                *)
(*                                                                         *)
(* Sequence numbers are modulo W.  Packets are numbered 0, 1, ... from the *)
(* first after connecting, to tell apart what the code cannot.  Sizes are  *)
(* in units of MSS, and the caller's data comes in whole units.            *)
(*                                                                         *)
(* The receiving side ends where it does in the code: insertIntoBuffer     *)
(* indexes the last element of the empty buffer, and nothing ever puts a   *)
(* first one in.  A packet with an extension never passes chectExts.       *)
(***************************************************************************)
EXTENDS Integers, Sequences

CONSTANTS
    W,          \* sequence numbers are 0 .. W - 1; in the code 65536
    FirstNrs,   \* those an accepting socket may draw for its first; in the code all
    Wnds,       \* the windows a remote may announce
    Waits,      \* does recv leave a packet time to come?  It does not: its
                \* deadline is Duration(t).Milliseconds() from now, which is 0.
                \* TRUE shows what the code behind the read does.
    MaxMade,    \* bound: packets the caller's data makes
    MaxHeard,   \* bound: packets read
    MaxDepth    \* bound: sendPackets active at once

ASSUME UtpAssumption == /\ W \in Nat /\ MaxMade \in Nat /\ MaxMade + 1 < W
                        /\ FirstNrs \subseteq 0 .. W - 1
                        /\ Wnds \subseteq Nat
                        /\ Waits \in BOOLEAN
                        /\ MaxHeard \in Nat /\ MaxDepth \in Nat

VARIABLES
    conn,         \* UtpSocket.conn: "dialed" or "listening"
    state,        \* UtpSocket.state
    base,         \* the sequence number of packet 0
    made,         \* packets made so far; seqNr is that of packet number made
    unsentQueue, sendWdw, currWdw, cwnd, remoteWndSize, lastAcked,
    dupAckCount,  \* to 4: the code only asks whether it is 3
    call,         \* the call being made: "connect", "SendTo", "RecvFrom",
                  \* "Flush", "Close" (flushing), "Fin" (Close, awaiting the
                  \* end); "none"; "failed" if there is no socket; "panicked"
    at,           \* the innermost loop is at its "test" or in a "read"
    stack,        \* active sendPackets, the innermost first: their packet, their
                  \* maxInFlight, and pktLossDetected of their handleStatePacket
    retries,      \* of the recv that reads
    err,          \* did the last call return an error?
    sent,         \* history: packets send has put in the window
    written,      \* history: packets written to the network that have a number
                  \* the remote acknowledges, with that number: "Data"; the
                  \* "SynReply" of an accepting socket, which has the number of
                  \* packet 0; a "Fin", which has that of the next to be made
    acked,        \* history: the highest number acknowledged, -1 if none
    heard         \* packets read, for MaxHeard

socket == <<conn, state, base>>
window == <<made, unsentQueue, sendWdw, currWdw, sent>>
control == <<call, at, stack, retries, err>>
vars == <<conn, state, base, made, unsentQueue, sendWdw, currWdw, cwnd, remoteWndSize,
          lastAcked, dupAckCount, call, at, stack, retries, err, sent, written, acked, heard>>

-----------------------------------------------------------------------------

Larger(a, b) == IF a < b THEN b ELSE a
Smaller(a, b) == IF a > b THEN b ELSE a

\* Differences of uint16s.
Minus(a, b) == (a - b + W) % W

\* The sequence number of packet number n.
Nr(n) == (base + n + W) % W

seqNr == Nr(made)

\* min(cwnd, remoteWndSize), but at least MIN_CWND
MaxInFlight(c, wnd) == Larger(2, Smaller(c, wnd))

\* distA > distB, "already acknowledged": the number is in the half of the circle
\* behind lastAcked.
AlreadyAcked(n) == Minus(Nr(n), lastAcked) > Minus(lastAcked, Nr(n))

\* Positions in the send window with the sequence number nr.
At(nr) == {i \in 1 .. Len(sendWdw) : Nr(sendWdw[i]) = nr}

\* Slip: one packet too many.
AckedTooMany(nr) == IF At(nr) = {} THEN 0 ELSE Smaller(Len(sendWdw), (CHOOSE i \in At(nr) : TRUE) + 1)

\* How many packets advanceSendWindow removes: those up to the one with the
\* number lastAcked, or none.
Acked(nr) == IF At(nr) = {} THEN 0 ELSE CHOOSE i \in At(nr) : TRUE

Numbered == {"Data", "SynReply", "Fin"}

\* The remote may have received every number up to n, in whatever packets it was
\* that had them: connect takes the number of the reply to its Syn for its ackNr
\* (socket.go:655), and so acknowledges number 0 without having seen packet 0.
Received(n) == \A k \in 0 .. n : \E ty \in Numbered : <<ty, k>> \in written

\* WriteToUDP on a dialed connection always fails.
CanWriteTo(ok) == ok => conn = "listening"

-----------------------------------------------------------------------------

Init ==
    /\ conn \in {"dialed", "listening"}
    /\ state = IF conn = "dialed" THEN "SynSent" ELSE "New"
    /\ base = 1 /\ made = 0
    /\ unsentQueue = <<>> /\ sendWdw = <<>> /\ currWdw = 0
    /\ cwnd = 2 /\ remoteWndSize = 0
    /\ lastAcked = 0 /\ dupAckCount = 0
    /\ call = IF conn = "dialed" THEN "connect" ELSE "none"
    /\ at = "test" /\ stack = <<>> /\ retries = 0 /\ err = FALSE
    /\ sent = {} /\ written = {} /\ acked = -1 /\ heard = 0

Returns(e) == call' = "none" /\ at' = "test" /\ err' = e

\* Slip: a packet sent again is counted again.
EndOfStateCountsTwice(loss, c, nr) ==
    /\ cwnd' = IF loss THEN Larger(c \div 2, 2) ELSE c
    /\ sendWdw' = SubSeq(sendWdw, Acked(nr) + 1, Len(sendWdw))
    /\ currWdw' = currWdw + 1 - Acked(nr)

\* The end of handleStatePacket: halve the congestion window if a packet was
\* lost, and advance the send window.
EndOfState(loss, c, nr) ==
    /\ cwnd' = IF loss THEN Larger(c \div 2, 2) ELSE c
    /\ sendWdw' = SubSeq(sendWdw, Acked(nr) + 1, Len(sendWdw))
    /\ currWdw' = currWdw - Acked(nr)

\* The innermost sendPacket is send's own, not one of resendLostPacket.
InSend == call = "SendTo" /\ Len(stack) = 1

\* The innermost sendPacket returns.  In send, a success puts the packet in the
\* window and a failure is SendTo's, the packet being off the queue in both
\* cases.  In resendLostPacket the error is dropped.  (The code takes packets off
\* the queue when send ends, and nothing reads it before.)
SendPacketReturns(ok, c) ==
    /\ stack' = Tail(stack)
    /\ retries' = 0
    /\ UNCHANGED made
    /\ IF InSend
         THEN /\ unsentQueue' = Tail(unsentQueue)
              /\ sendWdw' = IF ok THEN Append(sendWdw, Head(unsentQueue)) ELSE sendWdw
              /\ currWdw' = IF ok THEN currWdw + 1 ELSE currWdw
              /\ sent' = IF ok THEN sent \cup {Head(unsentQueue)} ELSE sent
              /\ cwnd' = c
              /\ IF ok THEN at' = "test" /\ UNCHANGED <<call, err>>
                       ELSE Returns(TRUE)
         ELSE /\ EndOfState(Head(stack).loss, c, lastAcked)
              /\ at' = "test"
              /\ UNCHANGED <<unsentQueue, sent, call, err>>

\* Slip: the loops of Flush, RecvFrom and Close go on after an error.
RecvFailsUnnoticed(c) ==
    IF stack # <<>>
      THEN SendPacketReturns(FALSE, c)
      ELSE /\ at' = "test" /\ cwnd' = c /\ retries' = 0
           /\ UNCHANGED <<window, call, stack, err>>

\* recv returns an error to whom it was called by; c is cwnd as recv leaves it.
RecvFails(c) ==
    IF stack # <<>>
      THEN SendPacketReturns(FALSE, c)
      ELSE /\ Returns(TRUE)
           /\ cwnd' = c
           /\ retries' = 0
           /\ UNCHANGED <<window, stack>>

\* recv has no data to return.
RecvReturns ==
    /\ at' = "test" /\ retries' = 0
    /\ UNCHANGED <<window, cwnd, call, stack, err>>

-----------------------------------------------------------------------------
(* The calls. *)

Idle == call = "none"

\* Slip: seqNr is not advanced from chunk to chunk.
ChunksAlike(k) == [i \in 1 .. k |-> made]

\* The packets made of k chunks of data.
Chunks(k) == [i \in 1 .. k |-> made + i - 1]

\* The caller waits to be connected: before, it has nobody to send to.
SendTo(k) ==
    /\ Idle /\ state \notin {"New", "SynSent"}
    /\ made + k <= MaxMade
    /\ IF state = "Closed"
         THEN /\ err' = TRUE
              /\ UNCHANGED <<made, unsentQueue, call>>
         ELSE /\ unsentQueue' = unsentQueue \o Chunks(k)
              /\ made' = made + k
              /\ call' = "SendTo" /\ err' = FALSE
    /\ UNCHANGED <<socket, sendWdw, currWdw, cwnd, remoteWndSize, lastAcked, dupAckCount, at,
                   stack, retries, sent, written, acked, heard>>

\* send takes the next packet and calls sendPacket.
SendNext ==
    /\ call = "SendTo" /\ stack = <<>> /\ unsentQueue # <<>>
    /\ stack' = <<[n |-> Head(unsentQueue), limit |-> MaxInFlight(cwnd, remoteWndSize),
                   loss |-> FALSE]>>
    /\ UNCHANGED <<socket, window, cwnd, remoteWndSize, lastAcked, dupAckCount, call, at,
                   retries, err, written, acked, heard>>

\* send has sent all.
SendEnds ==
    /\ call = "SendTo" /\ stack = <<>> /\ unsentQueue = <<>>
    /\ Returns(FALSE)
    /\ UNCHANGED <<socket, window, cwnd, remoteWndSize, lastAcked, dupAckCount, stack,
                   retries, written, acked, heard>>

Read ==
    /\ at' = "read"
    /\ UNCHANGED <<socket, window, cwnd, remoteWndSize, lastAcked, dupAckCount, call, stack,
                   retries, err, written, acked, heard>>

\* sendPacket: while the window is full.
WaitForRoom ==
    /\ at = "test" /\ stack # <<>>
    /\ currWdw >= Head(stack).limit
    /\ Read

\* sendPacket: there is room, or the 500 ms of PRE_SEND_TIMEOUT are over.
Transmit(ok) ==
    /\ at = "test" /\ stack # <<>>
    /\ LET n == Head(stack).n IN
         IF AlreadyAcked(n)
           THEN /\ ok
                /\ SendPacketReturns(TRUE, cwnd)
                /\ UNCHANGED written
           ELSE /\ CanWriteTo(ok)
                /\ SendPacketReturns(ok, cwnd)
                /\ written' = IF ok THEN written \cup {<<"Data", n>>} ELSE written
    /\ UNCHANGED <<socket, remoteWndSize, lastAcked, dupAckCount, acked, heard>>

\* RecvFrom finds the incoming buffer empty.
RecvFrom ==
    /\ Idle
    /\ IF state = "ResetReceived" THEN err' = TRUE /\ UNCHANGED call
                                  ELSE call' = "RecvFrom" /\ err' = FALSE
    /\ UNCHANGED <<socket, window, cwnd, remoteWndSize, lastAcked, dupAckCount, at, stack,
                   retries, written, acked, heard>>

Flush ==
    /\ Idle
    /\ call' = "Flush" /\ err' = FALSE
    /\ UNCHANGED <<socket, window, cwnd, remoteWndSize, lastAcked, dupAckCount, at, stack,
                   retries, written, acked, heard>>

Close ==
    /\ Idle
    /\ IF state \in {"Closed", "New", "SynSent"} THEN err' = FALSE /\ UNCHANGED call
                                                 ELSE call' = "Close" /\ err' = FALSE
    /\ UNCHANGED <<socket, window, cwnd, remoteWndSize, lastAcked, dupAckCount, at, stack,
                   retries, written, acked, heard>>

\* Slip: the last packet is not waited for.
FlushedButOne == Len(sendWdw) <= 1

Flushed == sendWdw = <<>>

\* The loops of RecvFrom, of Flush (also where Close calls it) and of Close.
ReadMore ==
    /\ at = "test" /\ stack = <<>>
    /\ \/ call = "RecvFrom" /\ state # "Closed"
       \/ call \in {"Flush", "Close"} /\ ~Flushed
       \/ call = "Fin" /\ state # "Closed"
    /\ Read

LoopEnds ==
    /\ at = "test" /\ stack = <<>>
    /\ \/ call \in {"RecvFrom", "Fin"} /\ state = "Closed"
       \/ call = "Flush" /\ Flushed
    /\ Returns(FALSE)
    /\ UNCHANGED <<socket, window, cwnd, remoteWndSize, lastAcked, dupAckCount, stack,
                   retries, written, acked, heard>>

\* Close, flushed: conn.Write of the FIN, which only a dialed connection can do.
WriteFin(ok) ==
    /\ at = "test" /\ stack = <<>> /\ call = "Close" /\ Flushed
    /\ ok => conn = "dialed"
    /\ IF ok THEN /\ state' = "FinSent" /\ call' = "Fin"
                  /\ written' = written \cup {<<"Fin", made>>}
                  /\ UNCHANGED <<at, err>>
             ELSE /\ Returns(TRUE)
                  /\ UNCHANGED <<state, written>>
    /\ UNCHANGED <<conn, base, window, cwnd, remoteWndSize, lastAcked, dupAckCount, stack,
                   retries, acked, heard>>

-----------------------------------------------------------------------------
(* recv: the read, and handlePacket. *)

Reading == at = "read"

MAX_RETRANSMISSION_RETRIES == 5

\* The deadline passes: handleRecieveTimeout writes the first packet of the
\* window again, or a FIN if the window is empty, whatever the state.  The fifth
\* time recv closes the socket.  (A New socket has no deadline.)
Timeout(ok) ==
    /\ Reading /\ state # "New"
    /\ CanWriteTo(ok)
    /\ written' = IF ~ok THEN written
                  ELSE written \cup {IF sendWdw = <<>> THEN <<"Fin", made>> ELSE <<"Data", Head(sendWdw)>>}
    /\ IF ok /\ retries + 1 < MAX_RETRANSMISSION_RETRIES
         THEN /\ retries' = retries + 1
              /\ cwnd' = 1
              /\ UNCHANGED <<window, state, call, at, stack, err>>
         ELSE /\ state' = IF ok THEN "Closed" ELSE state
              /\ RecvFails(1)
    /\ UNCHANGED <<conn, base, remoteWndSize, lastAcked, dupAckCount, acked, heard>>

\* Another error of the read; a dialed connection has them when the remote's host
\* refuses a packet.
ReadFails ==
    /\ Reading /\ conn = "dialed"
    /\ RecvFails(cwnd)
    /\ UNCHANGED <<socket, remoteWndSize, lastAcked, dupAckCount, written, acked, heard>>

\* A packet has come in time.
Hears ==
    /\ Reading
    /\ state = "New" \/ Waits
    /\ heard < MaxHeard
    /\ heard' = heard + 1

\* Bytes that are no packet, or one with an extension, are ignored.
HearsJunk ==
    /\ Hears
    /\ RecvReturns
    /\ UNCHANGED <<socket, remoteWndSize, lastAcked, dupAckCount, written, acked>>

\* recv writes the reply of handlePacket.
Replies(ok) ==
    /\ CanWriteTo(ok)
    /\ IF ok THEN RecvReturns ELSE RecvFails(cwnd)

\* A data packet is answered, and then inserted into a buffer that is empty, which
\* panics; but not one that has the number lastDropped.
RepliesToData(ok) ==
    \/ Replies(ok)
    \/ /\ CanWriteTo(ok) /\ ok
       /\ call' = "panicked" /\ at' = "test" /\ stack' = <<>> /\ retries' = 0
       /\ UNCHANGED <<window, cwnd, err>>

\* A packet of no connection of this socket is answered with a Reset; it is then
\* inserted all the same if it is data.
HearsStray(ty, ok) ==
    /\ Hears /\ state # "SynSent"
    /\ IF ty = "Data" THEN RepliesToData(ok) ELSE Replies(ok)
    /\ UNCHANGED <<socket, remoteWndSize, lastAcked, dupAckCount, written, acked>>

\* A Syn connects a New socket, with a random sequence number, which the reply
\* carries and does not use up (socket.go:650, 710); any other answers with a
\* Reset.
HearsSyn(nr, wnd, ok) ==
    /\ Hears
    /\ remoteWndSize' = wnd
    /\ IF state = "New" THEN state' = "Connected" /\ base' = nr
                        ELSE UNCHANGED <<state, base>>
    /\ written' = IF state = "New" /\ ok THEN written \cup {<<"SynReply", 0>>} ELSE written
    /\ Replies(ok)
    /\ UNCHANGED <<conn, lastAcked, dupAckCount, acked>>

\* What handlePacket refuses with an error; a Reset is noted besides.
HearsRefused(ty, wnd) ==
    /\ Hears
    /\ \/ state = "SynSent" /\ ty \in {"Data", "Fin", "Reset", "Invalid"}
       \/ state = "ResetReceived" /\ ty \in {"Data", "State", "Fin"}
       \/ state = "Closed" /\ ty \in {"Data", "State"}
       \/ state \notin {"New", "SynSent"} /\ ty \in {"Reset", "Invalid"}
    /\ remoteWndSize' = wnd
    /\ state' = IF ty = "Reset" /\ state # "SynSent" THEN "ResetReceived" ELSE state
    /\ RecvFails(cwnd)
    /\ UNCHANGED <<conn, base, lastAcked, dupAckCount, written, acked>>

\* In FinSent the answer is another FIN.
HearsData(wnd, ok) ==
    /\ Hears /\ state \in {"Connected", "FinSent"}
    /\ remoteWndSize' = wnd
    /\ RepliesToData(ok)
    /\ written' = IF state = "FinSent" /\ ok THEN written \cup {<<"Fin", made>>} ELSE written
    /\ UNCHANGED <<socket, lastAcked, dupAckCount, acked>>

HearsFin(wnd, ok) ==
    /\ Hears /\ state \in {"Connected", "FinSent", "Closed"}
    /\ remoteWndSize' = wnd
    /\ state' = "Closed"
    /\ Replies(ok)
    /\ UNCHANGED <<conn, base, lastAcked, dupAckCount, written, acked>>

\* updateCongestionWdw, when the acknowledged packet is in the window.  The term
\* that is added, some 10^5 times the bytes acknowledged, always exceeds what is
\* allowed: one MSS more than is in flight.
CwndAfter(nr) == IF At(nr) # {} THEN Larger(currWdw + 1, 2) ELSE cwnd

\* Acknowledgement of packet n, or n = -1: the one before the first.  A lost packet
\* is one the window holds after it; it is sent again on every acknowledgement
\* but the third of a kind.
handleStatePacket(n, wnd) ==
    LET nr == Nr(n)
        dups == IF nr = lastAcked THEN Smaller(dupAckCount + 1, 4) ELSE 1
        loss == sendWdw # <<>> /\ dups = 3
        lost == At(Nr(n + 1))
    IN  /\ lastAcked' = nr
        /\ dupAckCount' = dups
        /\ at' = "test" /\ retries' = 0
        /\ acked' = Larger(acked, n)
        /\ IF dups # 3 /\ lost # {}
             THEN /\ Len(stack) < MaxDepth
                  /\ \E i \in lost :
                       stack' = <<[n |-> sendWdw[i], limit |-> MaxInFlight(CwndAfter(nr), wnd),
                                   loss |-> loss]>> \o stack
                  /\ cwnd' = CwndAfter(nr)
                  /\ UNCHANGED <<sendWdw, currWdw>>
             ELSE /\ EndOfState(loss, CwndAfter(nr), nr)
                  /\ UNCHANGED stack
        /\ UNCHANGED <<made, unsentQueue, sent, call, err>>

\* In FinSent the acknowledgement of the FIN closes the socket.
HearsState(n, wnd) ==
    /\ Hears /\ state \in {"Connected", "FinSent"}
    /\ Received(n)
    /\ remoteWndSize' = wnd
    /\ IF state = "FinSent" /\ Nr(n) = seqNr
         THEN /\ state' = "Closed"
              /\ RecvReturns
              /\ UNCHANGED <<lastAcked, dupAckCount, acked>>
         ELSE /\ handleStatePacket(n, wnd)
              /\ UNCHANGED state
    /\ UNCHANGED <<conn, base, written>>

\* In SynSent, in which connect may leave a socket, it connects.
HearsSynReply(wnd) ==
    /\ Hears /\ state = "SynSent"
    /\ remoteWndSize' = wnd
    /\ state' = "Connected" /\ base' = (base + 1) % W /\ lastAcked' = base
    /\ RecvReturns
    /\ UNCHANGED <<conn, dupAckCount, written, acked>>

-----------------------------------------------------------------------------
(* connect, on a dialed connection. *)

MAX_SYN_RETRIES == 5

\* No answer: another Syn, or after the last an error, since an empty buffer is no
\* packet.
SynTimeout ==
    /\ call = "connect"
    /\ IF retries + 1 < MAX_SYN_RETRIES THEN retries' = retries + 1 /\ UNCHANGED call
                                        ELSE call' = "failed" /\ UNCHANGED retries
    /\ UNCHANGED <<socket, window, cwnd, remoteWndSize, lastAcked, dupAckCount, at, stack, err,
                   written, acked, heard>>

\* handlePacket of the answer.  The reply to a Syn is dropped, and connect returns
\* a socket that is not connected.
SynAnswered(ty, wnd) ==
    /\ call = "connect"
    /\ remoteWndSize' = wnd
    /\ CASE ty = "State" -> /\ state' = "Connected" /\ base' = (base + 1) % W /\ lastAcked' = base
                            /\ call' = "none"
         [] ty = "Syn" -> call' = "none" /\ UNCHANGED <<state, base, lastAcked>>
         [] OTHER -> call' = "failed" /\ UNCHANGED <<state, base, lastAcked>>
    /\ retries' = 0
    /\ UNCHANGED <<conn, window, cwnd, dupAckCount, at, stack, err, written, acked, heard>>

\* A Syn cannot be written, a read fails, or the answer is no packet.
ConnectFails ==
    /\ call = "connect"
    /\ call' = "failed"
    /\ UNCHANGED <<socket, window, cwnd, remoteWndSize, lastAcked, dupAckCount, at, stack,
                   retries, err, written, acked, heard>>

-----------------------------------------------------------------------------

Types == {"Data", "Fin", "State", "Reset", "Syn", "Invalid"}

Calls == \/ \E k \in 0 .. MaxMade : SendTo(k)
         \/ RecvFrom \/ Flush \/ Close

Computes == \/ SendNext \/ SendEnds \/ WaitForRoom \/ ReadMore \/ LoopEnds
            \/ \E ok \in BOOLEAN : Transmit(ok) \/ WriteFin(ok)

Hearing ==
    \/ HearsJunk
    \/ \E ty \in Types \ {"Syn"}, ok \in BOOLEAN : HearsStray(ty, ok)
    \/ \E wnd \in Wnds :
         \/ \E nr \in FirstNrs, ok \in BOOLEAN : HearsSyn(nr, wnd, ok)
         \/ \E ty \in Types : HearsRefused(ty, wnd)
         \/ \E ok \in BOOLEAN : HearsData(wnd, ok) \/ HearsFin(wnd, ok)
         \/ \E n \in -1 .. made : HearsState(n, wnd)
         \/ HearsSynReply(wnd)

Connecting == \/ SynTimeout \/ ConnectFails
              \/ \E ty \in Types, wnd \in Wnds : SynAnswered(ty, wnd)

Next == \/ Calls \/ Computes \/ Hearing \/ Connecting
        \/ ReadFails
        \/ \E ok \in BOOLEAN : Timeout(ok)

Spec == Init /\ [][Next]_vars

\* The caller's goroutine runs, and deadlines pass.  The remote owes nothing.
Fairness ==
    /\ WF_vars(Computes)
    /\ WF_vars(SynTimeout)
    /\ WF_vars(\E ok \in BOOLEAN : Timeout(ok))

FairSpec == Spec /\ Fairness

-----------------------------------------------------------------------------

TypeOK ==
    /\ conn \in {"dialed", "listening"}
    /\ state \in {"New", "Connected", "SynSent", "FinSent", "ResetReceived", "Closed"}
    /\ base \in 0 .. W - 1 /\ made \in 0 .. MaxMade
    /\ unsentQueue \in Seq(0 .. MaxMade) /\ sendWdw \in Seq(0 .. MaxMade)
    /\ currWdw \in Nat /\ cwnd \in Nat /\ remoteWndSize \in Nat
    /\ lastAcked \in 0 .. W - 1 /\ dupAckCount \in 0 .. 4
    /\ call \in {"connect", "SendTo", "RecvFrom", "Flush", "Close", "Fin", "none", "failed", "panicked"}
    /\ at \in {"test", "read"}
    /\ stack \in Seq([n : 0 .. MaxMade, limit : Nat, loss : BOOLEAN])
    /\ retries \in 0 .. 4 /\ err \in BOOLEAN
    /\ sent \subseteq 0 .. MaxMade /\ written \subseteq Numbered \X (0 .. MaxMade)
    /\ acked \in -1 .. MaxMade /\ heard \in 0 .. MaxHeard

\* What is counted as in flight is what the window holds, although packets are
\* sent again in the middle of handling acknowledgements that empty it.
InFlightCounted == currWdw = Len(sendWdw)

\* Packets are in the window in the order of the caller's data, no packet twice,
\* and those that wait to be sent come after them.
WindowInOrder ==
    LET q == sendWdw \o unsentQueue
    IN  \A i, j \in 1 .. Len(q) : i < j => q[i] < q[j]

\* Another packet than n had the number of n and was written: the reply to the
\* Syn, or a FIN that was followed by more data.
NrBorrowed(n) == <<"SynReply", n>> \in written \/ <<"Fin", n>> \in written

\* The remote has acknowledged the number of packet n, and packet n was written,
\* or something else that has its number.
Acknowledged(n) == n <= acked /\ (<<"Data", n>> \in written \/ NrBorrowed(n))

\* A packet that was put in the window stays there until a number no smaller is
\* acknowledged: old, doubled and reordered acknowledgements never take a packet
\* for another of the window.  (They may take it for the reply to the Syn.)
UnackedKept ==
    \A n \in sent : Acknowledged(n) \/ \E i \in 1 .. Len(sendWdw) : sendWdw[i] = n

\* When Flush returns no error, all that SendTo has put in the window is
\* acknowledged, by number.
FlushMeansAcked ==
    [][call = "Flush" /\ call' = "none" /\ ~err' => \A n \in sent : Acknowledged(n)]_vars

\* Every call returns when the remote falls silent, however many sendPackets are
\* active, unless the socket waits for a connection or the program panics.
CallEnds ==
    [](call \notin {"none", "failed", "panicked"} =>
         <>(call \in {"none", "failed", "panicked"} \/ state = "New"))

\* socket.go:91, "Sent but not yet acknowledged packets": what is in the send
\* window has been written to the network.
WindowWasWritten == \A i \in 1 .. Len(sendWdw) : <<"Data", sendWdw[i]>> \in written
=============================================================================
