--------------------------- MODULE UtpSocketProofs ---------------------------
(***************************************************************************)
(* Theorems about UtpSocket for every modulus, window and bound: the send  *)
(* window is counted rightly and in order, and a packet leaves it only   *)
(* when its number, or a later one, is acknowledged, whichever sendPackets *)
(* are active when acknowledgements come.                                  *)
(***************************************************************************)
EXTENDS UtpSocket, SequenceTheorems, TLAPS

Sorted(s) == \A i, j \in 1 .. Len(s) : i < j => s[i] < s[j]

\* What was sent is in the window unless a number no smaller is acknowledged.
Kept == \A n \in sent : n > acked => \E i \in 1 .. Len(sendWdw) : sendWdw[i] = n

\* The window, with the queue behind it.
Window ==
    /\ InFlightCounted
    /\ Sorted(sendWdw) /\ Sorted(unsentQueue)
    /\ \A j \in 1 .. Len(sendWdw) : sendWdw[j] < made
    /\ \A j \in 1 .. Len(unsentQueue) : unsentQueue[j] < made
    /\ \A i \in 1 .. Len(sendWdw), j \in 1 .. Len(unsentQueue) : sendWdw[i] < unsentQueue[j]
    /\ Kept

\* Which sendPackets can be active in which call.
Control ==
    /\ call \in {"none", "failed", "panicked", "connect"} => stack = <<>> /\ at = "test"
    /\ call = "SendTo" /\ at = "read" => stack # <<>>
    /\ call = "SendTo" /\ stack # <<>> => unsentQueue # <<>>

\* A socket that is not connected has sent nothing.
Fresh == state \in {"New", "SynSent"} =>
             /\ stack = <<>> /\ sendWdw = <<>> /\ unsentQueue = <<>> /\ sent = {}
             /\ call # "SendTo"

\* While handleStatePacket is active, lastAcked is a number the remote has sent.
LastAckedHeard == stack # <<>> /\ ~InSend => \E m \in -1 .. acked : lastAcked = Nr(m)

IInv == TypeOK /\ Window /\ Control /\ Fresh /\ LastAckedHeard

\* Whatever was acknowledged, a packet of that number was written.
AckedCarried == Received(acked)

-----------------------------------------------------------------------------
(* Arithmetic modulo W. *)

\* Numbers that are less than W apart have different sequence numbers.
LEMMA NumbersDiffer ==
    ASSUME base \in 0 .. W - 1, NEW m \in -1 .. MaxMade, NEW n \in -1 .. MaxMade, Nr(m) = Nr(n)
    PROVE  m = n
  <1> USE UtpAssumption
  <1> DEFINE a == base + m + W
             b == base + n + W
  <1>1. a \in Nat /\ b \in Nat /\ W \in Nat \ {0} /\ a % W = b % W
    BY DEF Nr
  <1>2. /\ a \div W \in Nat /\ a % W \in 0 .. W - 1 /\ a = W * (a \div W) + (a % W)
        /\ b \div W \in Nat /\ b % W \in 0 .. W - 1 /\ b = W * (b \div W) + (b % W)
    BY <1>1, SMT
  <1>3. a - b < W /\ b - a < W
    BY SMT
  <1> DEFINE p == a \div W
             q == b \div W
  <1>4. a - b = W * p - W * q
    BY <1>1, <1>2, SMT
  <1>5. \A x, y \in Nat : x < y => W * x + W <= W * y
    <2> SUFFICES ASSUME NEW x \in Nat, NEW y \in Nat, x < y
                 PROVE  W * x + W <= W * y
      OBVIOUS
    <2>1. PICK d \in Nat : y = x + 1 + d
      BY SMT
    <2>2. W * y = W * x + W + W * d /\ W * d >= 0
      BY <1>1, <2>1, SMT
    <2> QED
      BY <1>1, <2>2, SMT
  <1>6. p \in Nat /\ q \in Nat /\ ~(p < q) /\ ~(q < p)
    <2> HIDE DEF p, q, a, b
    <2>1. p \in Nat /\ q \in Nat
      BY <1>2 DEF p, q
    <2>2. W * p \in Nat /\ W * q \in Nat /\ a \in Nat /\ b \in Nat
      BY <1>1, <2>1, SMT
    <2> QED
      BY <1>1, <1>3, <1>4, <1>5, <2>1, <2>2, SMT
  <1>7. a = b
    <2>1. p = q
      BY <1>6, SMT
    <2> QED
      BY <1>1, <1>2, <2>1
  <1> QED
    BY <1>7, SMT

\* Sequence numbers stay below W.
LEMMA NrType ==
    ASSUME base \in 0 .. W - 1, NEW n \in -1 .. MaxMade
    PROVE  Nr(n) \in 0 .. W - 1
  BY UtpAssumption, SMT DEF Nr

-----------------------------------------------------------------------------
(* The send window. *)

\* advanceSendWindow removes a prefix that ends at the acknowledged packet.
LEMMA AckedPrefix ==
    ASSUME TypeOK, NEW m \in -1 .. MaxMade
    PROVE  /\ Acked(Nr(m)) \in 0 .. Len(sendWdw)
           /\ Acked(Nr(m)) # 0 => sendWdw[Acked(Nr(m))] = m
  <1>1. At(Nr(m)) \subseteq 1 .. Len(sendWdw) /\ Len(sendWdw) \in Nat
    BY DEF At, TypeOK
  <1>2. CASE At(Nr(m)) = {}
    BY <1>1, <1>2 DEF Acked
  <1>3. CASE At(Nr(m)) # {}
    <2>1. Acked(Nr(m)) \in At(Nr(m))
      BY <1>3 DEF Acked
    <2> DEFINE k == Acked(Nr(m))
    <2>2. k \in 1 .. Len(sendWdw) /\ Nr(sendWdw[k]) = Nr(m)
      BY <2>1 DEF At
    <2>3. sendWdw[k] \in -1 .. MaxMade /\ base \in 0 .. W - 1
      BY <2>2, UtpAssumption DEF TypeOK
    <2>4. sendWdw[k] = m
      BY <2>2, <2>3, NumbersDiffer
    <2> QED
      BY <2>2, <2>4
  <1> QED
    BY <1>2, <1>3

\* The end of handleStatePacket keeps the window right when the number by which it
\* is advanced has been acknowledged.
LEMMA EndOfStateKeeps ==
    ASSUME TypeOK, Window, NEW loss \in BOOLEAN, NEW c \in Nat, NEW m \in -1 .. MaxMade,
           EndOfState(loss, c, Nr(m)), made' = made, unsentQueue' = unsentQueue, sent' = sent,
           acked' \in Int, m <= acked', acked <= acked'
    PROVE  /\ Window'
           /\ sendWdw' \in Seq(0 .. MaxMade) /\ currWdw' \in Nat /\ cwnd' \in Nat
  <1> DEFINE k == Acked(Nr(m))
             len == Len(sendWdw)
  <1>1. k \in 0 .. len /\ (k # 0 => sendWdw[k] = m) /\ len \in Nat
    BY AckedPrefix DEF TypeOK
  <1> HIDE DEF k
  <1>2. sendWdw' = SubSeq(sendWdw, k + 1, len) /\ currWdw' = currWdw - k
    BY DEF EndOfState, k
  <1>6. made \in Nat /\ \A i \in 1 .. len : sendWdw[i] \in 0 .. MaxMade /\ sendWdw[i] \in Int
    BY UtpAssumption DEF TypeOK
  <1>3. /\ sendWdw' \in Seq(0 .. MaxMade) /\ Len(sendWdw') = len - k
        /\ \A j \in 1 .. len - k : sendWdw'[j] = sendWdw[j + k]
    <2>1. k + 1 \in Int /\ len \in Int /\ \A i \in k + 1 .. len : sendWdw[i] \in 0 .. MaxMade
      BY <1>1, <1>6
    <2>2. /\ sendWdw' \in Seq(0 .. MaxMade)
          /\ Len(sendWdw') = IF k + 1 <= len THEN len - (k + 1) + 1 ELSE 0
          /\ \A j \in 1 .. len - (k + 1) + 1 : sendWdw'[j] = sendWdw[k + 1 + j - 1]
      BY <1>2, <2>1, SubSeqProperties, SMTT(30)
    <2> HIDE DEF len
    <2>3. Len(sendWdw') = len - k
      BY <1>1, <2>2
    <2>4. ASSUME NEW j \in 1 .. len - k
          PROVE  sendWdw'[j] = sendWdw[j + k]
      <3>1. j \in 1 .. len - (k + 1) + 1 /\ k + 1 + j - 1 = j + k
        BY <1>1
      <3> QED
        BY <2>2, <3>1
    <2> QED
      BY <2>2, <2>3, <2>4
  <1>4. cwnd' \in Nat
    BY DEF EndOfState, Larger
  <1>5. currWdw' \in Nat /\ InFlightCounted'
    BY <1>1, <1>2, <1>3 DEF Window, InFlightCounted
  <1>7. Sorted(sendWdw)'
    <2> SUFFICES ASSUME NEW i \in 1 .. len - k, NEW j \in 1 .. len - k, i < j
                 PROVE  sendWdw'[i] < sendWdw'[j]
      BY <1>3 DEF Sorted
    <2>1. i + k \in 1 .. len /\ j + k \in 1 .. len /\ i + k < j + k
      BY <1>1
    <2>2. sendWdw[i + k] < sendWdw[j + k]
      BY <2>1 DEF Window, Sorted
    <2> QED
      BY <1>3, <2>2
  <1>8. /\ \A j \in 1 .. Len(sendWdw') : sendWdw'[j] < made'
        /\ \A i \in 1 .. Len(sendWdw'), j \in 1 .. Len(unsentQueue') : sendWdw'[i] < unsentQueue'[j]
    <2>1. ASSUME NEW j \in 1 .. len - k
          PROVE  sendWdw'[j] = sendWdw[j + k] /\ j + k \in 1 .. len
      BY <1>1, <1>3
    <2> QED
      BY <1>3, <2>1 DEF Window
  <1>9. Kept'
    <2> SUFFICES ASSUME NEW n \in sent, n > acked'
                 PROVE  \E i \in 1 .. Len(sendWdw') : sendWdw'[i] = n
      BY DEF Kept
    <2>1. n \in 0 .. MaxMade /\ acked \in -1 .. MaxMade
      BY DEF TypeOK
    <2>2. PICK i \in 1 .. len : sendWdw[i] = n
      BY <2>1 DEF Window, Kept
    <2>3. i > k
      BY <1>1, <1>6, <2>1, <2>2 DEF Window, Sorted
    <2>4. i - k \in 1 .. len - k /\ sendWdw'[i - k] = n
      BY <1>1, <1>3, <2>2, <2>3
    <2> QED
      BY <1>3, <2>4
  <1> QED
    <2>1. Sorted(unsentQueue)' /\ \A j \in 1 .. Len(unsentQueue') : unsentQueue'[j] < made'
      BY DEF Window, Sorted
    <2> QED
      BY <2>1, <1>3, <1>4, <1>5, <1>7, <1>8, <1>9 DEF Window

\* What send does with the packet it has sent: it leaves the queue and enters the
\* window.
LEMMA SendKeeps ==
    ASSUME TypeOK, Window, unsentQueue # <<>>, made' = made, acked' = acked,
           unsentQueue' = Tail(unsentQueue), sendWdw' = Append(sendWdw, Head(unsentQueue)),
           currWdw' = currWdw + 1, sent' = sent \cup {Head(unsentQueue)}
    PROVE  /\ Window'
           /\ unsentQueue' \in Seq(0 .. MaxMade) /\ sendWdw' \in Seq(0 .. MaxMade)
           /\ currWdw' \in Nat /\ sent' \subseteq 0 .. MaxMade
  <1> DEFINE len == Len(sendWdw)
             rest == Len(unsentQueue) - 1
             h == Head(unsentQueue)
  <1>1. /\ len \in Nat /\ rest \in Nat /\ made \in Nat
        /\ \A i \in 1 .. len : sendWdw[i] \in 0 .. MaxMade /\ sendWdw[i] \in Int
        /\ \A i \in 1 .. rest + 1 : unsentQueue[i] \in 0 .. MaxMade /\ unsentQueue[i] \in Int
    <2>1. /\ sendWdw \in Seq(0 .. MaxMade) /\ unsentQueue \in Seq(0 .. MaxMade)
          /\ made \in Nat /\ MaxMade \in Nat
      BY UtpAssumption DEF TypeOK
    <2>2. Len(unsentQueue) \in Nat /\ Len(unsentQueue) # 0
      BY <2>1
    <2> QED
      BY <2>1, <2>2, SMTT(30)
  <1>2. /\ unsentQueue' \in Seq(0 .. MaxMade) /\ Len(unsentQueue') = rest
        /\ \A j \in 1 .. rest : unsentQueue'[j] = unsentQueue[j + 1]
        /\ h = unsentQueue[1] /\ h \in 0 .. MaxMade /\ h \in Int
    BY <1>1, HeadTailProperties DEF TypeOK
  <1>3. /\ sendWdw' \in Seq(0 .. MaxMade) /\ Len(sendWdw') = len + 1
        /\ \A i \in 1 .. len : sendWdw'[i] = sendWdw[i]
        /\ sendWdw'[len + 1] = h
    BY <1>1, <1>2, AppendProperties DEF TypeOK
  <1>4. InFlightCounted' /\ currWdw' \in Nat /\ sent' \subseteq 0 .. MaxMade
    <2>1. sent \subseteq 0 .. MaxMade /\ currWdw = len
      BY DEF TypeOK, Window, InFlightCounted
    <2>2. currWdw' = len + 1
      BY <2>1
    <2>3. InFlightCounted'
      BY <1>3, <2>2 DEF InFlightCounted
    <2>4. currWdw' \in Nat
      BY <1>1, <2>2
    <2>5. sent' \subseteq 0 .. MaxMade
      BY <1>2, <2>1
    <2> QED
      BY <2>3, <2>4, <2>5
  <1> HIDE DEF h, len, rest
  <1>5. /\ \A i \in 1 .. len : sendWdw[i] < h /\ sendWdw[i] < made
        /\ \A j \in 1 .. rest : h < unsentQueue'[j] /\ unsentQueue'[j] < made
        /\ \A i \in 1 .. len, j \in 1 .. rest : sendWdw[i] < unsentQueue'[j]
        /\ h < made
    <2>1. 1 \in 1 .. Len(unsentQueue) /\ \A j \in 1 .. rest : j + 1 \in 1 .. Len(unsentQueue) /\ 1 < j + 1
      BY <1>1 DEF rest
    <2> QED
      BY <1>2, <2>1 DEF Window, Sorted, len
  <1>6. Sorted(sendWdw)'
    <2> SUFFICES ASSUME NEW i \in 1 .. len + 1, NEW j \in 1 .. len + 1, i < j
                 PROVE  sendWdw'[i] < sendWdw'[j]
      BY <1>3 DEF Sorted
    <2>1. CASE j = len + 1
      <3>1. i \in 1 .. len
        BY <1>1, <2>1
      <3> QED
        BY <1>3, <1>5, <2>1, <3>1
    <2>2. CASE j \in 1 .. len
      <3>1. i \in 1 .. len /\ sendWdw[i] < sendWdw[j]
        BY <1>1, <2>2 DEF Window, Sorted, len
      <3> QED
        BY <1>3, <2>2, <3>1
    <2>3. j = len + 1 \/ j \in 1 .. len
      BY <1>1
    <2> QED
      BY <2>1, <2>2, <2>3
  <1>7. Sorted(unsentQueue)'
    <2> SUFFICES ASSUME NEW i \in 1 .. rest, NEW j \in 1 .. rest, i < j
                 PROVE  unsentQueue'[i] < unsentQueue'[j]
      BY <1>2 DEF Sorted
    <2>1. i + 1 \in 1 .. Len(unsentQueue) /\ j + 1 \in 1 .. Len(unsentQueue) /\ i + 1 < j + 1
      BY <1>1 DEF rest
    <2>2. unsentQueue[i + 1] < unsentQueue[j + 1]
      BY <2>1 DEF Window, Sorted
    <2> QED
      BY <1>2, <2>2
  <1>8. Kept'
    <2> SUFFICES ASSUME NEW n \in sent', n > acked
                 PROVE  \E i \in 1 .. Len(sendWdw') : sendWdw'[i] = n
      BY DEF Kept
    <2>1. CASE n = h
      BY <1>1, <1>3, <2>1
    <2>2. CASE n \in sent
      <3>1. PICK i \in 1 .. len : sendWdw[i] = n
        BY <2>2 DEF Window, Kept, len
      <3> QED
        BY <1>1, <1>3, <3>1
    <2> QED
      BY <2>1, <2>2 DEF h
  <1>9. /\ \A j \in 1 .. Len(sendWdw') : sendWdw'[j] < made'
        /\ \A j \in 1 .. Len(unsentQueue') : unsentQueue'[j] < made'
        /\ \A i \in 1 .. Len(sendWdw'), j \in 1 .. Len(unsentQueue') : sendWdw'[i] < unsentQueue'[j]
    <2>1. ASSUME NEW i \in 1 .. len + 1
          PROVE  sendWdw'[i] < made /\ \A j \in 1 .. rest : sendWdw'[i] < unsentQueue'[j]
      <3>1. i \in 1 .. len \/ i = len + 1
        BY <1>1
      <3> QED
        BY <1>3, <1>5, <3>1
    <2> QED
      BY <1>2, <1>3, <1>5, <2>1
  <1> QED
    BY <1>2, <1>3, <1>4, <1>6, <1>7, <1>8, <1>9 DEF Window

\* A packet that cannot be sent leaves the queue, and nothing else changes.
LEMMA SendFailureKeeps ==
    ASSUME TypeOK, Window, unsentQueue # <<>>, made' = made, acked' = acked,
           unsentQueue' = Tail(unsentQueue), sendWdw' = sendWdw, currWdw' = currWdw, sent' = sent
    PROVE  Window' /\ unsentQueue' \in Seq(0 .. MaxMade)
  <1> DEFINE rest == Len(unsentQueue) - 1
  <1>1. /\ unsentQueue' \in Seq(0 .. MaxMade) /\ Len(unsentQueue') = rest /\ rest \in Nat
        /\ \A j \in 1 .. rest : unsentQueue'[j] = unsentQueue[j + 1]
    BY HeadTailProperties DEF TypeOK
  <1>2. \A j \in 1 .. rest : j + 1 \in 1 .. Len(unsentQueue)
    BY <1>1
  <1> HIDE DEF rest
  <1>3. Sorted(unsentQueue)'
    <2> SUFFICES ASSUME NEW i \in 1 .. rest, NEW j \in 1 .. rest, i < j
                 PROVE  unsentQueue'[i] < unsentQueue'[j]
      BY <1>1 DEF Sorted
    <2>1. i + 1 \in 1 .. Len(unsentQueue) /\ j + 1 \in 1 .. Len(unsentQueue) /\ i + 1 < j + 1
      BY <1>2
    <2>2. unsentQueue[i + 1] < unsentQueue[j + 1]
      BY <2>1 DEF Window, Sorted
    <2> QED
      BY <1>1, <2>2
  <1>4. InFlightCounted' /\ Sorted(sendWdw)' /\ Kept'
    BY DEF Window, InFlightCounted, Sorted, Kept
  <1>5. /\ \A j \in 1 .. Len(sendWdw') : sendWdw'[j] < made'
        /\ \A j \in 1 .. Len(unsentQueue') : unsentQueue'[j] < made'
        /\ \A i \in 1 .. Len(sendWdw'), j \in 1 .. Len(unsentQueue') : sendWdw'[i] < unsentQueue'[j]
    BY <1>1, <1>2 DEF Window
  <1> QED
    BY <1>1, <1>3, <1>4, <1>5 DEF Window

-----------------------------------------------------------------------------
(* Returns of sendPacket and recv. *)

\* The two halves of TypeOK: what returns change, and the rest.
LocalTypes ==
    /\ made \in 0 .. MaxMade
    /\ unsentQueue \in Seq(0 .. MaxMade) /\ sendWdw \in Seq(0 .. MaxMade)
    /\ currWdw \in Nat /\ cwnd \in Nat /\ sent \subseteq 0 .. MaxMade
    /\ call \in {"connect", "SendTo", "RecvFrom", "Flush", "Close", "Fin", "none", "failed", "panicked"}
    /\ at \in {"test", "read"}
    /\ stack \in Seq([n : 0 .. MaxMade, limit : Nat, loss : BOOLEAN])
    /\ retries \in 0 .. 4 /\ err \in BOOLEAN

OtherTypes ==
    /\ conn \in {"dialed", "listening"}
    /\ state \in {"New", "Connected", "SynSent", "FinSent", "ResetReceived", "Closed"}
    /\ base \in 0 .. W - 1 /\ remoteWndSize \in Nat
    /\ lastAcked \in 0 .. W - 1 /\ dupAckCount \in 0 .. 4
    /\ written \subseteq Numbered \X (0 .. MaxMade) /\ acked \in -1 .. MaxMade /\ heard \in 0 .. MaxHeard

Local == LocalTypes /\ Window /\ Control /\ LastAckedHeard

LEMMA Halves == TypeOK <=> LocalTypes /\ OtherTypes
  BY DEF TypeOK, LocalTypes, OtherTypes

\* Frames on the stack.
LEMMA StackFacts ==
    ASSUME LocalTypes, stack # <<>>
    PROVE  /\ Tail(stack) \in Seq([n : 0 .. MaxMade, limit : Nat, loss : BOOLEAN])
           /\ Len(Tail(stack)) = Len(stack) - 1 /\ Len(stack) \in Nat \ {0}
           /\ Head(stack).n \in 0 .. MaxMade /\ Head(stack).limit \in Nat
           /\ Head(stack).loss \in BOOLEAN
           /\ Len(stack) = 1 <=> Tail(stack) = <<>>
  <1> DEFINE F == [n : 0 .. MaxMade, limit : Nat, loss : BOOLEAN]
  <1>1. stack \in Seq(F)
    BY DEF LocalTypes
  <1> HIDE DEF F
  <1>2. /\ Tail(stack) \in Seq(F) /\ Len(Tail(stack)) = Len(stack) - 1
        /\ Len(stack) \in Nat \ {0} /\ Head(stack) \in F
    BY <1>1, HeadTailProperties
  <1>3. Len(stack) = 1 <=> Tail(stack) = <<>>
    <2> DEFINE t == Tail(stack)
    <2>1. t \in Seq(F) /\ Len(t) = Len(stack) - 1
      BY <1>2
    <2> HIDE DEF t
    <2>2. Len(t) = 0 <=> t = <<>>
      BY <2>1, EmptySeq
    <2>3. Len(stack) = 1 <=> Len(t) = 0
      BY <1>2, <2>1
    <2> QED
      BY <2>2, <2>3 DEF t
  <1>4. Head(stack).n \in 0 .. MaxMade /\ Head(stack).limit \in Nat /\ Head(stack).loss \in BOOLEAN
    BY <1>2 DEF F
  <1> QED
    BY <1>2, <1>3, <1>4 DEF F

LEMMA SendPacketReturnsKeeps ==
    ASSUME IInv, stack # <<>>, NEW ok \in BOOLEAN, NEW c \in Nat, SendPacketReturns(ok, c),
           UNCHANGED <<base, lastAcked, acked>>
    PROVE  Local'
  <1>1. TypeOK /\ Window /\ Control /\ LastAckedHeard /\ LocalTypes /\ OtherTypes
    BY Halves DEF IInv
  <1>2. /\ Tail(stack) \in Seq([n : 0 .. MaxMade, limit : Nat, loss : BOOLEAN])
        /\ Head(stack).loss \in BOOLEAN
        /\ Len(stack) = 1 <=> Tail(stack) = <<>>
    BY <1>1, StackFacts
  <1>3. stack' = Tail(stack) /\ retries' = 0 /\ made' = made
    BY DEF SendPacketReturns
  <1>4. call \notin {"none", "failed", "panicked", "connect"}
    BY <1>1 DEF Control
  <1>5. LastAckedHeard'
    <2> SUFFICES ASSUME stack' # <<>>
                 PROVE  \E m \in -1 .. acked : lastAcked = Nr(m)
      BY DEF LastAckedHeard, Nr
    <2>1. ~InSend
      BY <1>2, <1>3 DEF InSend
    <2> QED
      BY <1>1, <2>1 DEF LastAckedHeard
  <1>6. CASE InSend
    <2>1. unsentQueue # <<>> /\ stack' = <<>>
      BY <1>1, <1>2, <1>3, <1>6 DEF InSend, Control
    <2>2. CASE ok
      <3>1. /\ unsentQueue' = Tail(unsentQueue) /\ sendWdw' = Append(sendWdw, Head(unsentQueue))
            /\ currWdw' = currWdw + 1 /\ sent' = sent \cup {Head(unsentQueue)}
            /\ cwnd' = c /\ at' = "test" /\ call' = call /\ err' = err
        BY <1>6, <2>2 DEF SendPacketReturns
      <3>2. /\ Window'
            /\ unsentQueue' \in Seq(0 .. MaxMade) /\ sendWdw' \in Seq(0 .. MaxMade)
            /\ currWdw' \in Nat /\ sent' \subseteq 0 .. MaxMade
        BY <1>1, <1>3, <2>1, <3>1, SendKeeps
      <3>3. LocalTypes'
        <4>1. /\ at' \in {"test", "read"} /\ retries' \in 0 .. 4 /\ cwnd' \in Nat
              /\ made' \in 0 .. MaxMade
          BY <1>1, <1>3, <3>1 DEF LocalTypes
        <4>2. /\ call' \in {"connect", "SendTo", "RecvFrom", "Flush", "Close", "Fin", "none", "failed",
                             "panicked"}
              /\ err' \in BOOLEAN
          BY <1>1, <3>1 DEF LocalTypes
        <4>3. stack' \in Seq([n : 0 .. MaxMade, limit : Nat, loss : BOOLEAN])
          BY <1>2, <1>3
        <4> QED
          BY <3>2, <4>1, <4>2, <4>3 DEF LocalTypes
      <3>4. Control'
        BY <1>4, <2>1, <3>1 DEF Control
      <3> QED
        BY <1>5, <3>2, <3>3, <3>4 DEF Local
    <2>3. CASE ~ok
      <3>1. /\ unsentQueue' = Tail(unsentQueue) /\ sendWdw' = sendWdw /\ currWdw' = currWdw
            /\ sent' = sent /\ cwnd' = c /\ call' = "none" /\ at' = "test" /\ err' = TRUE
        BY <1>6, <2>3 DEF SendPacketReturns, Returns
      <3>2. Window' /\ unsentQueue' \in Seq(0 .. MaxMade)
        BY <1>1, <1>3, <2>1, <3>1, SendFailureKeeps
      <3>3. LocalTypes'
        BY <1>1, <1>2, <1>3, <3>1, <3>2 DEF LocalTypes
      <3>4. Control'
        BY <2>1, <3>1 DEF Control
      <3> QED
        BY <1>5, <3>2, <3>3, <3>4 DEF Local
    <2> QED
      BY <2>2, <2>3
  <1>7. CASE ~InSend
    <2>1. /\ EndOfState(Head(stack).loss, c, lastAcked) /\ at' = "test"
          /\ unsentQueue' = unsentQueue /\ sent' = sent /\ call' = call /\ err' = err
      BY <1>7 DEF SendPacketReturns
    <2>2. PICK m \in -1 .. acked : lastAcked = Nr(m)
      BY <1>1, <1>7 DEF LastAckedHeard
    <2>3. m \in -1 .. MaxMade /\ acked' \in Int /\ m <= acked' /\ acked <= acked'
      BY <1>1, <2>2, UtpAssumption DEF OtherTypes
    <2>4. EndOfState(Head(stack).loss, c, Nr(m))
      BY <2>1, <2>2
    <2>5. /\ Window'
          /\ sendWdw' \in Seq(0 .. MaxMade) /\ currWdw' \in Nat /\ cwnd' \in Nat
      BY <1>1, <1>2, <1>3, <2>1, <2>3, <2>4, EndOfStateKeeps
    <2>6. LocalTypes'
      BY <1>1, <1>2, <1>3, <2>1, <2>5 DEF LocalTypes
    <2>7. Control'
      BY <1>1, <1>4, <2>1 DEF Control
    <2> QED
      BY <1>5, <2>5, <2>6, <2>7 DEF Local
  <1> QED
    BY <1>6, <1>7

LEMMA RecvFailsKeeps ==
    ASSUME IInv, NEW c \in Nat, RecvFails(c), UNCHANGED <<lastAcked, acked>>,
           stack # <<>> => base' = base
    PROVE  Local' /\ (stack = <<>> => stack' = <<>> /\ UNCHANGED <<sendWdw, unsentQueue, sent>>
                                      /\ call' # "SendTo")
  <1>1. CASE stack # <<>>
    BY <1>1, SendPacketReturnsKeeps DEF RecvFails
  <1>2. CASE stack = <<>>
    <2>1. /\ call' = "none" /\ at' = "test" /\ err' = TRUE /\ cwnd' = c /\ retries' = 0
          /\ UNCHANGED <<made, unsentQueue, sendWdw, currWdw, sent, stack>>
      BY <1>2 DEF RecvFails, Returns, window
    <2>2. LocalTypes /\ Window
      BY Halves DEF IInv
    <2>3. LocalTypes'
      BY <2>1, <2>2 DEF LocalTypes
    <2>4. Window'
      BY <2>1, <2>2 DEF Window, Sorted, InFlightCounted, Kept
    <2>5. Control' /\ LastAckedHeard'
      BY <1>2, <2>1 DEF Control, LastAckedHeard
    <2> QED
      BY <1>2, <2>1, <2>3, <2>4, <2>5 DEF Local
  <1> QED
    BY <1>1, <1>2

LEMMA RecvReturnsKeeps ==
    ASSUME IInv, RecvReturns, UNCHANGED <<lastAcked, acked>>, stack # <<>> => base' = base
    PROVE  Local' /\ UNCHANGED <<stack, sendWdw, unsentQueue, sent, call>>
  <1>1. LocalTypes /\ Window /\ Control /\ LastAckedHeard
    BY Halves DEF IInv
  <1>2. /\ at' = "test" /\ retries' = 0
        /\ UNCHANGED <<made, unsentQueue, sendWdw, currWdw, sent, cwnd, call, stack, err>>
    BY DEF RecvReturns, window
  <1>3. LocalTypes'
    BY <1>1, <1>2 DEF LocalTypes
  <1>4. Window'
    BY <1>1, <1>2 DEF Window, Sorted, InFlightCounted, Kept
  <1>5. Control'
    BY <1>1, <1>2 DEF Control
  <1>6. LastAckedHeard'
    BY <1>1, <1>2 DEF LastAckedHeard, InSend, Nr
  <1> QED
    BY <1>2, <1>3, <1>4, <1>5, <1>6 DEF Local

-----------------------------------------------------------------------------
(* The invariant. *)

\* Reassembling the invariant.
LEMMA Assembled ==
    ASSUME Local', OtherTypes', Fresh'
    PROVE  IInv'
  <1>1. TypeOK'
    BY DEF TypeOK, Local, LocalTypes, OtherTypes
  <1> QED
    BY <1>1 DEF Local, IInv

\* Steps that leave the window and the stack alone, and do not begin a read in a
\* send without a packet.
LEMMA QuietStep ==
    ASSUME IInv, UNCHANGED <<window, acked, stack>>,
           stack # <<>> => UNCHANGED <<base, lastAcked>>,
           retries' \in 0 .. 4, cwnd' \in Nat, err' \in BOOLEAN,
           \/ at' = at
           \/ at' = "read" /\ call' = call /\ (stack # <<>> \/ call \in {"RecvFrom", "Flush", "Close", "Fin"}),
           \/ call' = call
           \/ /\ stack = <<>> /\ at = "test"
              /\ call' \in {"RecvFrom", "Flush", "Close", "Fin", "none", "failed"}
    PROVE  Local'
  <1>1. LocalTypes /\ Window /\ Control /\ LastAckedHeard
    BY Halves DEF IInv
  <1>2. LocalTypes'
    <2>1. /\ call' \in {"connect", "SendTo", "RecvFrom", "Flush", "Close", "Fin", "none", "failed",
                         "panicked"}
          /\ at' \in {"test", "read"}
      BY <1>1 DEF LocalTypes
    <2> QED
      BY <1>1, <2>1 DEF LocalTypes, window
  <1>3. Window'
    BY <1>1 DEF Window, Sorted, InFlightCounted, Kept, window
  <1>4. Control'
    BY <1>1 DEF Control, window
  <1>5. LastAckedHeard'
    <2>1. CASE stack = <<>>
      BY <2>1 DEF LastAckedHeard
    <2>2. CASE stack # <<>>
      BY <1>1, <2>2 DEF LastAckedHeard, InSend, Nr
    <2> QED
      BY <2>1, <2>2
  <1> QED
    BY <1>2, <1>3, <1>4, <1>5 DEF Local

LEMMA InitIInv == Init => IInv
  <1> SUFFICES ASSUME Init
               PROVE  IInv
    OBVIOUS
  <1>1. LocalTypes /\ OtherTypes
    <2>1. /\ <<>> \in Seq(0 .. MaxMade)
          /\ <<>> \in Seq([n : 0 .. MaxMade, limit : Nat, loss : BOOLEAN])
      BY EmptySeq
    <2>2. LocalTypes
      <3>1. MaxMade \in Nat /\ 0 \in 0 .. MaxMade /\ 0 \in 0 .. 4 /\ 2 \in Nat /\ 0 \in Nat
        BY UtpAssumption
      <3>2. /\ made = 0 /\ unsentQueue = <<>> /\ sendWdw = <<>> /\ currWdw = 0 /\ cwnd = 2
            /\ sent = {} /\ at = "test" /\ stack = <<>> /\ retries = 0 /\ err = FALSE
            /\ call \in {"connect", "none"}
        BY DEF Init
      <3> QED
        BY <2>1, <3>1, <3>2 DEF LocalTypes
    <2>3. 1 \in 0 .. W - 1 /\ 0 \in 0 .. W - 1 /\ -1 \in -1 .. MaxMade /\ 0 \in 0 .. MaxHeard
      BY UtpAssumption
    <2>4. OtherTypes
      BY <2>3 DEF Init, OtherTypes
    <2> QED
      BY <2>2, <2>4
  <1>2. Window
    BY DEF Init, Window, Sorted, InFlightCounted, Kept
  <1>3. Control /\ Fresh /\ LastAckedHeard
    BY DEF Init, Control, Fresh, LastAckedHeard
  <1> QED
    BY <1>1, <1>2, <1>3, Halves DEF IInv

\* The calls and what they do between reads.
LEMMA SendToKeeps ==
    ASSUME IInv, NEW k \in 0 .. MaxMade, SendTo(k)
    PROVE  IInv'
  <1>1. LocalTypes /\ OtherTypes /\ Window /\ Control /\ Fresh /\ LastAckedHeard
    BY Halves DEF IInv
  <1>2. /\ UNCHANGED <<socket, sendWdw, currWdw, cwnd, remoteWndSize, lastAcked, dupAckCount, at,
                       stack, retries, sent, written, acked, heard>>
        /\ call = "none" /\ state \notin {"New", "SynSent"} /\ made + k <= MaxMade
    BY DEF SendTo, Idle
  <1>3. OtherTypes' /\ Fresh'
    BY <1>1, <1>2 DEF OtherTypes, Fresh, socket
  <1>4. stack = <<>> /\ at = "test" /\ LastAckedHeard'
    BY <1>1, <1>2 DEF Control, LastAckedHeard
  <1>5. CASE state = "Closed"
    <2>1. err' = TRUE /\ UNCHANGED <<made, unsentQueue, call>>
      BY <1>5 DEF SendTo
    <2>2. LocalTypes' /\ Control'
      BY <1>1, <1>2, <2>1 DEF LocalTypes, Control
    <2>3. Window'
      BY <1>1, <1>2, <2>1 DEF Window, Sorted, InFlightCounted, Kept
    <2> QED
      BY <1>3, <1>4, <2>2, <2>3, Assembled DEF Local
  <1>6. CASE state # "Closed"
    <2>1. unsentQueue' = unsentQueue \o Chunks(k) /\ made' = made + k /\ call' = "SendTo" /\ err' = FALSE
      BY <1>6 DEF SendTo
    <2> DEFINE len == Len(unsentQueue)
    <2>2. /\ made \in Nat /\ k \in Nat /\ MaxMade \in Nat /\ len \in Nat
          /\ unsentQueue \in Seq(0 .. MaxMade) /\ sendWdw \in Seq(0 .. MaxMade)
          /\ \A i \in 1 .. Len(sendWdw) : sendWdw[i] \in Int
          /\ \A i \in 1 .. len : unsentQueue[i] \in Int
      BY <1>1, UtpAssumption DEF LocalTypes
    <2>3. Chunks(k) \in Seq(0 .. MaxMade) /\ Len(Chunks(k)) = k
      BY <1>2, <2>2 DEF Chunks
    <2>4. /\ unsentQueue' \in Seq(0 .. MaxMade) /\ Len(unsentQueue') = len + k
          /\ \A j \in 1 .. len : unsentQueue'[j] = unsentQueue[j]
          /\ \A j \in len + 1 .. len + k : unsentQueue'[j] = Chunks(k)[j - len]
      <3>1. /\ unsentQueue' \in Seq(0 .. MaxMade)
            /\ Len(unsentQueue') = Len(unsentQueue) + Len(Chunks(k))
            /\ \A j \in 1 .. Len(unsentQueue) + Len(Chunks(k)) :
                 unsentQueue'[j] = IF j <= Len(unsentQueue) THEN unsentQueue[j]
                                                            ELSE Chunks(k)[j - Len(unsentQueue)]
        BY <2>1, <2>2, <2>3, ConcatProperties
      <3> HIDE DEF len
      <3>2. Len(unsentQueue') = len + k
        BY <2>3, <3>1 DEF len
      <3>3. ASSUME NEW j \in 1 .. len
            PROVE  unsentQueue'[j] = unsentQueue[j]
        <4>1. j \in 1 .. len + k /\ j <= len
          BY <2>2
        <4> QED
          BY <2>3, <3>1, <4>1 DEF len
      <3>4. ASSUME NEW j \in len + 1 .. len + k
            PROVE  unsentQueue'[j] = Chunks(k)[j - len]
        <4>1. j \in 1 .. len + k /\ ~(j <= len)
          BY <2>2
        <4> QED
          BY <2>3, <3>1, <4>1 DEF len
      <3> QED
        BY <3>1, <3>2, <3>3, <3>4
    <2> HIDE DEF len
    <2>5. \A j \in len + 1 .. len + k : unsentQueue'[j] = made + (j - len) - 1
      <3>1. ASSUME NEW j \in len + 1 .. len + k
            PROVE  j - len \in 1 .. k
        BY <2>2
      <3> QED
        BY <2>4, <3>1 DEF Chunks
    <2>6. LocalTypes' /\ Control'
      <3>1. made' \in 0 .. MaxMade
        BY <1>2, <2>1, <2>2
      <3>2. LocalTypes'
        BY <1>1, <1>2, <2>1, <2>4, <3>1 DEF LocalTypes
      <3> QED
        BY <1>2, <1>4, <2>1, <3>2 DEF Control
    <2>7. Sorted(unsentQueue)' /\ \A j \in 1 .. Len(unsentQueue') : unsentQueue'[j] < made'
      <3>1. ASSUME NEW j \in 1 .. len + k
            PROVE  \/ j \in 1 .. len /\ unsentQueue'[j] = unsentQueue[j] /\ unsentQueue[j] < made
                   \/ j \in len + 1 .. len + k /\ unsentQueue'[j] = made + (j - len) - 1
        <4>1. j \in 1 .. len \/ j \in len + 1 .. len + k
          BY <2>2
        <4>2. CASE j \in 1 .. len
          BY <1>1, <2>4, <4>2 DEF Window, len
        <4>3. CASE j \in len + 1 .. len + k
          BY <2>5, <4>3
        <4> QED
          BY <4>1, <4>2, <4>3
      <3>2. ASSUME NEW j \in 1 .. len + k
            PROVE  unsentQueue'[j] < made + k
        <4>1. CASE j \in 1 .. len /\ unsentQueue'[j] = unsentQueue[j] /\ unsentQueue[j] < made
          <5>1. unsentQueue[j] \in Int /\ made \in Int /\ k \in Nat
            BY <2>2, <4>1
          <5> QED
            BY <4>1, <5>1
        <4>2. CASE j \in len + 1 .. len + k /\ unsentQueue'[j] = made + (j - len) - 1
          <5>1. made \in Int /\ k \in Nat /\ len \in Int /\ j \in Int /\ j - len <= k
            BY <2>2, <4>2
          <5> HIDE DEF len
          <5> QED
            BY <4>2, <5>1
        <4> QED
          BY <3>1, <4>1, <4>2
      <3>3. ASSUME NEW i \in 1 .. len + k, NEW j \in 1 .. len + k, i < j
            PROVE  unsentQueue'[i] < unsentQueue'[j]
        <4>1. CASE j \in 1 .. len
          <5>1. i \in 1 .. len
            BY <2>2, <3>3, <4>1
          <5>2. unsentQueue[i] < unsentQueue[j]
            BY <1>1, <3>3, <4>1, <5>1 DEF Window, Sorted, len
          <5> QED
            BY <2>4, <4>1, <5>1, <5>2
        <4>2. CASE j \in len + 1 .. len + k
          <5>1. unsentQueue'[j] = made + (j - len) - 1 /\ j - len >= 1
            BY <2>2, <2>5, <4>2
          <5>2. CASE unsentQueue'[i] = unsentQueue[i] /\ unsentQueue[i] < made /\ i \in 1 .. len
            <6>1. unsentQueue[i] \in Int
              BY <2>2, <5>2
            <6> QED
              BY <2>2, <5>1, <5>2, <6>1
          <5>3. CASE unsentQueue'[i] = made + (i - len) - 1
            BY <2>2, <3>3, <5>1, <5>3
          <5> QED
            BY <3>1, <5>2, <5>3
        <4> QED
          BY <2>2, <4>1, <4>2
      <3> QED
        BY <2>1, <2>4, <3>2, <3>3 DEF Sorted
    <2>8. /\ \A j \in 1 .. Len(sendWdw') : sendWdw'[j] < made'
          /\ \A i \in 1 .. Len(sendWdw'), j \in 1 .. Len(unsentQueue') : sendWdw'[i] < unsentQueue'[j]
      <3>1. ASSUME NEW i \in 1 .. Len(sendWdw)
            PROVE  sendWdw[i] < made + k /\ \A j \in 1 .. len + k : sendWdw[i] < unsentQueue'[j]
        <4>1. sendWdw[i] < made /\ \A j \in 1 .. len : sendWdw[i] < unsentQueue[j]
          BY <1>1 DEF Window, len
        <4>2. ASSUME NEW j \in 1 .. len + k
              PROVE  sendWdw[i] < unsentQueue'[j]
          <5>1. j \in 1 .. len \/ j \in len + 1 .. len + k
            BY <2>2
          <5>2. CASE j \in 1 .. len
            BY <2>4, <4>1, <5>2
          <5>3. CASE j \in len + 1 .. len + k
            <6>1. unsentQueue'[j] = made + (j - len) - 1 /\ j - len >= 1 /\ sendWdw[i] \in Int
              BY <2>2, <2>5, <5>3
            <6> QED
              BY <2>2, <4>1, <6>1
          <5> QED
            BY <5>1, <5>2, <5>3
        <4> QED
          BY <2>2, <4>1, <4>2
      <3> QED
        BY <1>2, <2>1, <2>4, <3>1
    <2>9. Window'
      <3>1. InFlightCounted' /\ Sorted(sendWdw)' /\ Kept'
        BY <1>1, <1>2 DEF Window, InFlightCounted, Sorted, Kept
      <3> QED
        BY <2>7, <2>8, <3>1 DEF Window
    <2> QED
      BY <1>3, <1>4, <2>6, <2>9, Assembled DEF Local
  <1> QED
    BY <1>5, <1>6

\* send takes the next packet.
LEMMA SendNextKeeps ==
    ASSUME IInv, SendNext
    PROVE  IInv'
  <1>1. LocalTypes /\ OtherTypes /\ Window /\ Control /\ Fresh /\ LastAckedHeard
    BY Halves DEF IInv
  <1> DEFINE frame == [n |-> Head(unsentQueue), limit |-> MaxInFlight(cwnd, remoteWndSize),
                       loss |-> FALSE]
  <1>2. /\ call = "SendTo" /\ stack = <<>> /\ unsentQueue # <<>> /\ stack' = <<frame>>
        /\ UNCHANGED <<socket, window, cwnd, remoteWndSize, lastAcked, dupAckCount, call, at,
                       retries, err, written, acked, heard>>
    BY DEF SendNext
  <1>3. frame \in [n : 0 .. MaxMade, limit : Nat, loss : BOOLEAN]
    <2>1. Head(unsentQueue) \in 0 .. MaxMade
      BY <1>1, <1>2, HeadTailProperties DEF LocalTypes
    <2>2. MaxInFlight(cwnd, remoteWndSize) \in Nat
      BY <1>1 DEF LocalTypes, OtherTypes, MaxInFlight, Larger, Smaller
    <2> QED
      BY <2>1, <2>2
  <1> HIDE DEF frame
  <1>4. stack' \in Seq([n : 0 .. MaxMade, limit : Nat, loss : BOOLEAN]) /\ Len(stack') = 1 /\ stack' # <<>>
    BY <1>2, <1>3
  <1>5. LocalTypes' /\ OtherTypes'
    BY <1>1, <1>2, <1>4 DEF LocalTypes, OtherTypes, window, socket
  <1>6. Window'
    BY <1>1, <1>2 DEF Window, Sorted, InFlightCounted, Kept, window
  <1>7. Control' /\ Fresh' /\ LastAckedHeard'
    BY <1>1, <1>2, <1>4 DEF Control, Fresh, LastAckedHeard, InSend, window, socket
  <1> QED
    BY <1>5, <1>6, <1>7, Assembled DEF Local

\* The calls and loops that change neither window nor stack.
LEMMA CallsKeep ==
    ASSUME IInv, RecvFrom \/ Flush \/ Close \/ SendEnds \/ WaitForRoom \/ ReadMore \/ LoopEnds
    PROVE  IInv'
  <1>1. LocalTypes /\ OtherTypes /\ Window /\ Control /\ Fresh /\ LastAckedHeard
    BY Halves DEF IInv
  <1>2. UNCHANGED <<socket, window, cwnd, remoteWndSize, lastAcked, dupAckCount, stack, retries,
                    written, acked, heard>>
    BY DEF RecvFrom, Flush, Close, SendEnds, WaitForRoom, ReadMore, LoopEnds, Read
  <1>3. OtherTypes' /\ retries' \in 0 .. 4 /\ cwnd' \in Nat
    BY <1>1, <1>2 DEF OtherTypes, LocalTypes, socket
  <1>4. /\ err' \in BOOLEAN
        /\ \/ at' = at
           \/ at' = "read" /\ call' = call /\ (stack # <<>> \/ call \in {"RecvFrom", "Flush", "Close", "Fin"})
        /\ \/ call' = call
           \/ /\ stack = <<>> /\ at = "test"
              /\ call' \in {"RecvFrom", "Flush", "Close", "Fin", "none", "failed"}
        /\ call' # "SendTo" \/ call' = call
    <2>1. err \in BOOLEAN /\ at \in {"test", "read"}
      BY <1>1 DEF LocalTypes
    <2>2. CASE RecvFrom \/ Flush \/ Close
      BY <1>1, <2>1, <2>2 DEF RecvFrom, Flush, Close, Idle, Control
    <2>3. CASE SendEnds \/ LoopEnds
      BY <1>1, <2>1, <2>3 DEF SendEnds, LoopEnds, Returns, Control
    <2>4. CASE WaitForRoom \/ ReadMore
      BY <2>1, <2>4 DEF WaitForRoom, ReadMore, Read
    <2> QED
      BY <2>2, <2>3, <2>4
  <1>5. Local'
    BY <1>2, <1>3, <1>4, QuietStep DEF socket
  <1>6. Fresh'
    BY <1>1, <1>2, <1>4 DEF Fresh, socket, window
  <1> QED
    BY <1>3, <1>5, <1>6, Assembled

\* sendPacket returns, having written its packet or not.
LEMMA TransmitKeeps ==
    ASSUME IInv, NEW ok \in BOOLEAN, Transmit(ok)
    PROVE  IInv'
  <1>1. LocalTypes /\ OtherTypes /\ Fresh /\ cwnd \in Nat
    BY Halves DEF IInv, LocalTypes
  <1>2. /\ SendPacketReturns(TRUE, cwnd) \/ SendPacketReturns(ok, cwnd)
        /\ UNCHANGED <<socket, remoteWndSize, lastAcked, dupAckCount, acked, heard>>
        /\ written' \in {written, written \cup {<<"Data", Head(stack).n>>}}
    BY DEF Transmit
  <1>3. stack # <<>>
    BY DEF Transmit
  <1>4. Local'
    BY <1>2, <1>3, <1>1, SendPacketReturnsKeeps DEF socket
  <1>5. OtherTypes'
    <2>1. written' \subseteq Numbered \X (0 .. MaxMade)
      <3>1. Head(stack).n \in 0 .. MaxMade /\ written \subseteq Numbered \X (0 .. MaxMade)
        BY <1>1, <1>3, StackFacts DEF OtherTypes
      <3>2. <<"Data", Head(stack).n>> \in Numbered \X (0 .. MaxMade)
        BY <3>1 DEF Numbered
      <3> QED
        BY <1>2, <3>1, <3>2
    <2> QED
      BY <1>1, <1>2, <2>1 DEF OtherTypes, socket
  <1>6. Fresh'
    BY <1>1, <1>2, <1>3 DEF Fresh, socket
  <1> QED
    BY <1>4, <1>5, <1>6, Assembled

\* recv ends with an error or without data, and the socket does not become fresh.
LEMMA RecvEnds ==
    ASSUME IInv, NEW c \in Nat, RecvFails(c) \/ RecvReturns, UNCHANGED <<lastAcked, acked>>,
           stack # <<>> => base' = base, OtherTypes',
           state' \in {"New", "SynSent"} => state \in {"New", "SynSent"}
    PROVE  IInv'
  <1>1. Fresh
    BY DEF IInv
  <1>2. CASE RecvFails(c)
    <2>1. Local' /\ (stack = <<>> => stack' = <<>> /\ UNCHANGED <<sendWdw, unsentQueue, sent>>
                                      /\ call' # "SendTo")
      BY <1>2, RecvFailsKeeps
    <2>2. Fresh'
      BY <1>1, <2>1 DEF Fresh
    <2> QED
      BY <2>1, <2>2, Assembled
  <1>3. CASE RecvReturns
    <2>1. Local' /\ UNCHANGED <<stack, sendWdw, unsentQueue, sent, call>>
      BY <1>3, RecvReturnsKeeps
    <2>2. Fresh'
      BY <1>1, <2>1 DEF Fresh
    <2> QED
      BY <2>1, <2>2, Assembled
  <1> QED
    BY <1>2, <1>3

LEMMA TimeoutKeeps ==
    ASSUME IInv, NEW ok \in BOOLEAN, Timeout(ok)
    PROVE  IInv'
  <1>1. LocalTypes /\ OtherTypes /\ Window /\ Control /\ Fresh /\ LastAckedHeard
    BY Halves DEF IInv
  <1>2. /\ UNCHANGED <<conn, base, remoteWndSize, lastAcked, dupAckCount, acked, heard>>
        /\ \/ written' = written
           \/ sendWdw = <<>> /\ written' = written \cup {<<"Fin", made>>}
           \/ sendWdw # <<>> /\ written' = written \cup {<<"Data", Head(sendWdw)>>}
        /\ state' \in {state, "Closed"}
    BY DEF Timeout
  <1>3. written' \subseteq Numbered \X (0 .. MaxMade)
    <2>1. <<"Fin", made>> \in Numbered \X (0 .. MaxMade)
      BY <1>1 DEF LocalTypes, Numbered
    <2>2. sendWdw # <<>> => <<"Data", Head(sendWdw)>> \in Numbered \X (0 .. MaxMade)
      <3>1. sendWdw # <<>> => Head(sendWdw) \in 0 .. MaxMade
        BY <1>1, HeadTailProperties DEF LocalTypes
      <3> QED
        BY <3>1 DEF Numbered
    <2> QED
      BY <1>1, <1>2, <2>1, <2>2 DEF OtherTypes
  <1>4. OtherTypes'
    BY <1>1, <1>2, <1>3 DEF OtherTypes
  <1>5. CASE ok /\ retries + 1 < MAX_RETRANSMISSION_RETRIES
    <2>1. retries' = retries + 1 /\ cwnd' = 1 /\ UNCHANGED <<window, state, call, at, stack, err>>
      BY <1>5 DEF Timeout
    <2>2. retries' \in 0 .. 4 /\ cwnd' \in Nat /\ err' \in BOOLEAN
      BY <1>1, <1>5, <2>1 DEF LocalTypes, MAX_RETRANSMISSION_RETRIES
    <2>3. Local'
      BY <1>2, <2>1, <2>2, QuietStep
    <2>4. Fresh'
      BY <1>1, <2>1 DEF Fresh, window
    <2> QED
      BY <1>4, <2>3, <2>4, Assembled
  <1>6. CASE ~(ok /\ retries + 1 < MAX_RETRANSMISSION_RETRIES)
    <2>1. RecvFails(1)
      BY <1>6 DEF Timeout
    <2> QED
      BY <1>2, <1>4, <2>1, RecvEnds
  <1> QED
    BY <1>5, <1>6

LEMMA ReadFailsKeeps ==
    ASSUME IInv, ReadFails
    PROVE  IInv'
  <1>1. LocalTypes /\ OtherTypes /\ cwnd \in Nat
    BY Halves DEF IInv, LocalTypes
  <1>2. /\ RecvFails(cwnd)
        /\ UNCHANGED <<socket, remoteWndSize, lastAcked, dupAckCount, written, acked, heard>>
    BY DEF ReadFails
  <1>3. OtherTypes'
    BY <1>1, <1>2 DEF OtherTypes, socket
  <1> QED
    BY <1>1, <1>2, <1>3, RecvEnds DEF socket

-----------------------------------------------------------------------------
(* What recv hears. *)

\* What hearing changes of the rest of the state.
LEMMA HearingTypes ==
    ASSUME IInv, Hears, remoteWndSize' \in Nat,
           state' \in {"New", "Connected", "SynSent", "FinSent", "ResetReceived", "Closed"},
           base' \in 0 .. W - 1, lastAcked' \in 0 .. W - 1, dupAckCount' \in 0 .. 4,
           acked' \in -1 .. MaxMade, conn' = conn,
           \/ written' = written
           \/ \E ty \in Numbered, k \in 0 .. MaxMade : written' = written \cup {<<ty, k>>}
    PROVE  OtherTypes'
  <1>1. OtherTypes
    BY Halves DEF IInv
  <1>2. heard' \in 0 .. MaxHeard
    BY <1>1, UtpAssumption DEF Hears, OtherTypes
  <1>3. written' \subseteq Numbered \X (0 .. MaxMade)
    BY <1>1 DEF OtherTypes
  <1> QED
    BY <1>1, <1>2, <1>3 DEF OtherTypes

\* handlePacket's replies to data, and the panic that follows.
LEMMA RepliesToDataKeeps ==
    ASSUME IInv, NEW ok \in BOOLEAN, RepliesToData(ok), UNCHANGED <<socket, lastAcked, acked>>,
           OtherTypes'
    PROVE  IInv'
  <1>1. LocalTypes /\ Window /\ Fresh /\ cwnd \in Nat
    BY Halves DEF IInv, LocalTypes
  <1>2. ASSUME ~Replies(ok) PROVE IInv'
    <2>1. /\ call' = "panicked" /\ at' = "test" /\ stack' = <<>> /\ retries' = 0
          /\ UNCHANGED <<made, unsentQueue, sendWdw, currWdw, sent, cwnd, err>>
      BY <1>2 DEF RepliesToData, window
    <2>2. <<>> \in Seq([n : 0 .. MaxMade, limit : Nat, loss : BOOLEAN])
      OBVIOUS
    <2>3. LocalTypes'
      BY <1>1, <2>1, <2>2 DEF LocalTypes
    <2>4. Window'
      BY <1>1, <2>1 DEF Window, Sorted, InFlightCounted, Kept
    <2>5. Control' /\ LastAckedHeard' /\ Fresh'
      BY <1>1, <2>1 DEF Control, LastAckedHeard, Fresh, socket
    <2> QED
      BY <2>3, <2>4, <2>5, Assembled DEF Local
  <1>3. CASE Replies(ok)
    BY <1>1, <1>3, RecvEnds DEF Replies, socket
  <1> QED
    BY <1>2, <1>3

\* Bytes that are no packet, and packets of no connection of this socket.
LEMMA HearsStrayKeeps ==
    ASSUME IInv, NEW ok \in BOOLEAN, NEW ty \in Types, HearsJunk \/ HearsStray(ty, ok)
    PROVE  IInv'
  <1>1. LocalTypes /\ OtherTypes
    BY Halves DEF IInv
  <1>2. /\ state \in {"New", "Connected", "SynSent", "FinSent", "ResetReceived", "Closed"}
        /\ base \in 0 .. W - 1 /\ remoteWndSize \in Nat
        /\ lastAcked \in 0 .. W - 1 /\ dupAckCount \in 0 .. 4 /\ acked \in -1 .. MaxMade
        /\ cwnd \in Nat
    BY <1>1 DEF OtherTypes, LocalTypes
  <1>3. CASE HearsJunk
    <2>1. /\ Hears /\ RecvReturns
          /\ UNCHANGED <<conn, state, base, remoteWndSize, lastAcked, dupAckCount, written, acked>>
      BY <1>3 DEF HearsJunk, socket
    <2>2. OtherTypes'
      BY <1>2, <2>1, HearingTypes
    <2> QED
      BY <1>2, <2>1, <2>2, RecvEnds
  <1>4. CASE HearsStray(ty, ok)
    <2>1. /\ Hears /\ (RepliesToData(ok) \/ Replies(ok))
          /\ UNCHANGED <<conn, state, base, remoteWndSize, lastAcked, dupAckCount, written, acked>>
      BY <1>4 DEF HearsStray, socket
    <2>2. OtherTypes'
      BY <1>2, <2>1, HearingTypes
    <2>3. CASE RepliesToData(ok)
      BY <2>1, <2>2, <2>3, RepliesToDataKeeps DEF socket
    <2>4. CASE Replies(ok)
      BY <1>2, <2>1, <2>2, <2>4, RecvEnds DEF Replies
    <2> QED
      BY <2>1, <2>3, <2>4
  <1> QED
    BY <1>3, <1>4

\* Packets of this connection, but acknowledgements.
LEMMA HearsOtherKeeps ==
    ASSUME IInv, NEW ok \in BOOLEAN, NEW ty \in Types, NEW wnd \in Wnds, NEW nr \in 0 .. W - 1,
           \/ HearsSyn(nr, wnd, ok) \/ HearsRefused(ty, wnd)
           \/ HearsData(wnd, ok) \/ HearsFin(wnd, ok) \/ HearsSynReply(wnd)
    PROVE  IInv'
  <1>1. LocalTypes /\ OtherTypes /\ Window /\ Control /\ Fresh /\ LastAckedHeard
    BY Halves DEF IInv
  <1>2. /\ conn \in {"dialed", "listening"}
        /\ state \in {"New", "Connected", "SynSent", "FinSent", "ResetReceived", "Closed"}
        /\ base \in 0 .. W - 1 /\ remoteWndSize \in Nat
        /\ lastAcked \in 0 .. W - 1 /\ dupAckCount \in 0 .. 4 /\ acked \in -1 .. MaxMade
        /\ wnd \in Nat /\ cwnd \in Nat
    BY <1>1, UtpAssumption DEF OtherTypes, LocalTypes
  <1>3. CASE HearsSyn(nr, wnd, ok)
    <2>1. /\ Hears /\ Replies(ok) /\ remoteWndSize' = wnd
          /\ \/ state = "New" /\ state' = "Connected" /\ base' = nr
             \/ UNCHANGED <<state, base>>
          /\ written' = written \/ written' = written \cup {<<"SynReply", 0>>}
          /\ UNCHANGED <<conn, lastAcked, dupAckCount, acked>>
      BY <1>3 DEF HearsSyn
    <2>2. OtherTypes'
      <3>1. "SynReply" \in Numbered /\ 0 \in 0 .. MaxMade
        BY UtpAssumption DEF Numbered
      <3> QED
        BY <1>2, <2>1, <3>1, HearingTypes
    <2>3. stack # <<>> => base' = base
      BY <1>1, <2>1 DEF Fresh
    <2> QED
      BY <1>2, <2>1, <2>2, <2>3, RecvEnds DEF Replies
  <1>4. CASE HearsRefused(ty, wnd)
    <2>1. /\ Hears /\ RecvFails(cwnd) /\ remoteWndSize' = wnd
          /\ state' \in {state, "ResetReceived"}
          /\ UNCHANGED <<conn, base, lastAcked, dupAckCount, written, acked>>
      BY <1>4 DEF HearsRefused
    <2>2. OtherTypes'
      BY <1>2, <2>1, HearingTypes
    <2> QED
      BY <1>2, <2>1, <2>2, RecvEnds
  <1>5. CASE HearsData(wnd, ok)
    <2>1. /\ Hears /\ RepliesToData(ok) /\ remoteWndSize' = wnd
          /\ written' = written \/ written' = written \cup {<<"Fin", made>>}
          /\ UNCHANGED <<conn, state, base, lastAcked, dupAckCount, acked>>
      BY <1>5 DEF HearsData, socket
    <2>2. OtherTypes'
      <3>1. "Fin" \in Numbered /\ made \in 0 .. MaxMade
        BY <1>1 DEF Numbered, LocalTypes
      <3> QED
        BY <1>2, <2>1, <3>1, HearingTypes
    <2> QED
      BY <2>1, <2>2, RepliesToDataKeeps DEF socket
  <1>6. CASE HearsFin(wnd, ok)
    <2>1. /\ Hears /\ Replies(ok) /\ remoteWndSize' = wnd /\ state' = "Closed"
          /\ UNCHANGED <<conn, base, lastAcked, dupAckCount, written, acked>>
      BY <1>6 DEF HearsFin
    <2>2. OtherTypes'
      BY <1>2, <2>1, HearingTypes
    <2> QED
      BY <1>2, <2>1, <2>2, RecvEnds DEF Replies
  <1>7. CASE HearsSynReply(wnd)
    <2>1. /\ Hears /\ RecvReturns /\ remoteWndSize' = wnd /\ state = "SynSent"
          /\ state' = "Connected" /\ base' = (base + 1) % W /\ lastAcked' = base
          /\ UNCHANGED <<conn, dupAckCount, written, acked>>
      BY <1>7 DEF HearsSynReply
    <2>2. base' \in 0 .. W - 1
      BY <1>2, <2>1, UtpAssumption
    <2>3. OtherTypes'
      BY <1>2, <2>1, <2>2, HearingTypes
    <2>4. stack = <<>>
      BY <1>1, <2>1 DEF Fresh
    <2>5. LocalTypes' /\ Window' /\ Control' /\ LastAckedHeard'
      BY <1>1, <2>1, <2>4
      DEF RecvReturns, window, LocalTypes, Window, Sorted, InFlightCounted, Kept, Control,
          LastAckedHeard
    <2>6. Fresh'
      BY <2>1 DEF Fresh
    <2> QED
      BY <2>3, <2>5, <2>6, Assembled DEF Local
  <1> QED
    BY <1>3, <1>4, <1>5, <1>6, <1>7

\* An acknowledgement: it advances the window, or a packet is sent again first.
LEMMA handleStatePacketKeeps ==
    ASSUME IInv, at = "read", NEW n \in -1 .. MaxMade, NEW wnd \in Nat,
           handleStatePacket(n, wnd), base' = base
    PROVE  /\ Local'
           /\ lastAcked' \in 0 .. W - 1 /\ dupAckCount' \in 0 .. 4 /\ acked' \in -1 .. MaxMade
  <1>1. TypeOK /\ LocalTypes /\ OtherTypes /\ Window /\ Control
    BY Halves DEF IInv
  <1> DEFINE nr == Nr(n)
             dups == IF nr = lastAcked THEN Smaller(dupAckCount + 1, 4) ELSE 1
             loss == sendWdw # <<>> /\ dups = 3
             lost == At(Nr(n + 1))
             frame(i) == [n |-> sendWdw[i], limit |-> MaxInFlight(CwndAfter(nr), wnd), loss |-> loss]
             F == [n : 0 .. MaxMade, limit : Nat, loss : BOOLEAN]
  <1>2. /\ lastAcked' = nr /\ dupAckCount' = dups /\ at' = "test" /\ retries' = 0
        /\ acked' = Larger(acked, n)
        /\ UNCHANGED <<made, unsentQueue, sent, call, err>>
    BY DEF handleStatePacket
  <1>3. lastAcked' \in 0 .. W - 1
    BY <1>1, <1>2, NrType DEF OtherTypes
  <1>4. dupAckCount' \in 0 .. 4
    BY <1>1, <1>2 DEF OtherTypes, Smaller
  <1>5. acked' \in -1 .. MaxMade /\ acked' \in Int /\ n <= acked' /\ acked <= acked'
    BY <1>1, <1>2, UtpAssumption DEF OtherTypes, Larger
  <1>6. CwndAfter(nr) \in Nat
    BY <1>1 DEF LocalTypes, CwndAfter, Larger
  <1>7. LastAckedHeard'
    <2>1. n \in -1 .. acked' /\ lastAcked' = Nr(n)'
      BY <1>2, <1>5, UtpAssumption DEF Nr
    <2> QED
      BY <2>1 DEF LastAckedHeard
  <1>8. Control'
    BY <1>1, <1>2 DEF Control
  <1>9. CASE dups # 3 /\ lost # {}
    <2>1. PICK i \in lost : stack' = <<frame(i)>> \o stack
      BY <1>9 DEF handleStatePacket
    <2>2. cwnd' = CwndAfter(nr) /\ UNCHANGED <<sendWdw, currWdw>>
      BY <1>9 DEF handleStatePacket
    <2>3. frame(i) \in F
      <3>1. sendWdw[i] \in 0 .. MaxMade
        <4>1. i \in 1 .. Len(sendWdw)
          BY <2>1 DEF At
        <4>2. sendWdw \in Seq(0 .. MaxMade)
          BY <1>1 DEF LocalTypes
        <4> QED
          BY <4>1, <4>2, ElementOfSeq
      <3>2. MaxInFlight(CwndAfter(nr), wnd) \in Nat
        BY <1>6 DEF MaxInFlight, Larger, Smaller
      <3>3. loss \in BOOLEAN
        OBVIOUS
      <3> HIDE DEF loss
      <3> QED
        BY <3>1, <3>2, <3>3
    <2>4. stack' \in Seq(F)
      <3> HIDE DEF frame, F
      <3>1. <<frame(i)>> \in Seq(F)
        BY <2>3
      <3>2. stack \in Seq(F)
        BY <1>1 DEF LocalTypes, F
      <3> QED
        BY <2>1, <3>1, <3>2, ConcatProperties
    <2>5. LocalTypes'
      BY <1>1, <1>2, <1>6, <2>2, <2>4 DEF LocalTypes
    <2>6. Window'
      <3>1. ASSUME NEW m \in sent, m > acked'
            PROVE  m > acked
        <4>1. m \in Int /\ acked \in Int
          BY <1>1 DEF LocalTypes, OtherTypes
        <4> QED
          BY <1>5, <3>1, <4>1
      <3>2. Kept'
        BY <1>1, <1>2, <2>2, <3>1 DEF Window, Kept
      <3> QED
        BY <1>1, <1>2, <2>2, <3>2 DEF Window, Sorted, InFlightCounted
    <2> QED
      BY <1>3, <1>4, <1>5, <1>7, <1>8, <2>5, <2>6 DEF Local
  <1>10. CASE ~(dups # 3 /\ lost # {})
    <2>1. EndOfState(loss, CwndAfter(nr), Nr(n)) /\ stack' = stack
      BY <1>10 DEF handleStatePacket
    <2>2. loss \in BOOLEAN
      OBVIOUS
    <2> HIDE DEF loss
    <2>3. /\ Window'
          /\ sendWdw' \in Seq(0 .. MaxMade) /\ currWdw' \in Nat /\ cwnd' \in Nat
      BY <1>1, <1>2, <1>5, <1>6, <2>1, <2>2, EndOfStateKeeps
    <2>4. LocalTypes'
      BY <1>1, <1>2, <2>1, <2>3 DEF LocalTypes
    <2> QED
      BY <1>3, <1>4, <1>5, <1>7, <1>8, <2>3, <2>4 DEF Local
  <1> QED
    BY <1>9, <1>10

LEMMA HearsStateKeeps ==
    ASSUME IInv, NEW wnd \in Wnds, NEW n \in -1 .. made, HearsState(n, wnd)
    PROVE  IInv'
  <1>1. LocalTypes /\ OtherTypes
    BY Halves DEF IInv
  <1>2. /\ conn \in {"dialed", "listening"}
        /\ state \in {"New", "Connected", "SynSent", "FinSent", "ResetReceived", "Closed"}
        /\ base \in 0 .. W - 1 /\ lastAcked \in 0 .. W - 1 /\ dupAckCount \in 0 .. 4
        /\ acked \in -1 .. MaxMade /\ wnd \in Nat /\ n \in -1 .. MaxMade
    BY <1>1, UtpAssumption DEF OtherTypes, LocalTypes
  <1>3. /\ Hears /\ at = "read" /\ state \in {"Connected", "FinSent"} /\ remoteWndSize' = wnd
        /\ UNCHANGED <<conn, base, written>>
    BY DEF HearsState, Hears, Reading
  <1>4. CASE state = "FinSent" /\ Nr(n) = seqNr
    <2>1. state' = "Closed" /\ RecvReturns /\ UNCHANGED <<lastAcked, dupAckCount, acked>>
      BY <1>4 DEF HearsState
    <2>2. OtherTypes'
      BY <1>2, <1>3, <2>1, HearingTypes
    <2> QED
      BY <1>3, <2>1, <2>2, RecvEnds
  <1>5. CASE ~(state = "FinSent" /\ Nr(n) = seqNr)
    <2>1. handleStatePacket(n, wnd) /\ state' = state
      BY <1>5 DEF HearsState
    <2>2. /\ Local'
          /\ lastAcked' \in 0 .. W - 1 /\ dupAckCount' \in 0 .. 4 /\ acked' \in -1 .. MaxMade
      BY <1>2, <1>3, <2>1, handleStatePacketKeeps
    <2>3. OtherTypes'
      BY <1>2, <1>3, <2>1, <2>2, HearingTypes
    <2>4. Fresh'
      BY <1>3, <2>1 DEF Fresh
    <2> QED
      BY <2>2, <2>3, <2>4, Assembled
  <1> QED
    BY <1>4, <1>5

\* connect, and Close's FIN.
LEMMA ConnectingKeeps ==
    ASSUME IInv, Connecting
    PROVE  IInv'
  <1>1. LocalTypes /\ OtherTypes /\ Window /\ Control /\ Fresh /\ LastAckedHeard
    BY Halves DEF IInv
  <1>2. /\ call = "connect" /\ stack = <<>> /\ at = "test"
        /\ UNCHANGED <<conn, window, cwnd, dupAckCount, at, stack, err, written, acked, heard>>
    BY <1>1 DEF Connecting, SynTimeout, ConnectFails, SynAnswered, Control, socket
  <1>3. /\ call' \in {"connect", "none", "failed"} /\ retries' \in 0 .. 4
        /\ remoteWndSize' \in Nat /\ base' \in 0 .. W - 1 /\ lastAcked' \in 0 .. W - 1
        /\ state' \in {state, "Connected"}
    <2>1. /\ retries \in 0 .. 4 /\ remoteWndSize \in Nat
          /\ base \in 0 .. W - 1 /\ lastAcked \in 0 .. W - 1 /\ (base + 1) % W \in 0 .. W - 1
      BY <1>1, UtpAssumption DEF LocalTypes, OtherTypes
    <2>2. CASE SynTimeout
      BY <1>2, <2>1, <2>2 DEF SynTimeout, MAX_SYN_RETRIES, socket
    <2>3. CASE ConnectFails
      BY <1>2, <2>1, <2>3 DEF ConnectFails, socket
    <2>4. ASSUME NEW ty \in Types, NEW wnd \in Wnds, SynAnswered(ty, wnd)
          PROVE  /\ call' \in {"connect", "none", "failed"} /\ retries' \in 0 .. 4
                 /\ remoteWndSize' \in Nat /\ base' \in 0 .. W - 1 /\ lastAcked' \in 0 .. W - 1
                 /\ state' \in {state, "Connected"}
      <3>1. /\ remoteWndSize' = wnd /\ retries' = 0
            /\ \/ /\ state' = "Connected" /\ base' = (base + 1) % W /\ lastAcked' = base
                  /\ call' = "none"
               \/ call' \in {"none", "failed"} /\ UNCHANGED <<state, base, lastAcked>>
        BY <2>4 DEF SynAnswered, Types
      <3>2. wnd \in Nat
        BY UtpAssumption
      <3> QED
        BY <1>2, <2>1, <3>1, <3>2
    <2> QED
      BY <2>2, <2>3, <2>4 DEF Connecting
  <1>4. OtherTypes'
    BY <1>1, <1>2, <1>3 DEF OtherTypes
  <1>5. Local'
    <2>1. cwnd' \in Nat /\ err' \in BOOLEAN
      BY <1>1, <1>2 DEF LocalTypes
    <2>2. call' = call \/ call' \in {"RecvFrom", "Flush", "Close", "Fin", "none", "failed"}
      BY <1>2, <1>3
    <2> QED
      BY <1>2, <1>3, <2>1, <2>2, QuietStep
  <1>6. Fresh'
    BY <1>1, <1>2, <1>3 DEF Fresh, window
  <1> QED
    BY <1>4, <1>5, <1>6, Assembled

LEMMA WriteFinKeeps ==
    ASSUME IInv, NEW ok \in BOOLEAN, WriteFin(ok)
    PROVE  IInv'
  <1>1. LocalTypes /\ OtherTypes /\ Fresh
    BY Halves DEF IInv
  <1>2. /\ stack = <<>> /\ at = "test" /\ at' = at /\ call' \in {"Fin", "none"}
        /\ state' \in {state, "FinSent"} /\ written' \in {written, written \cup {<<"Fin", made>>}}
        /\ err' \in {err, TRUE}
        /\ UNCHANGED <<conn, base, window, cwnd, remoteWndSize, lastAcked, dupAckCount, stack,
                       retries, acked, heard>>
    BY DEF WriteFin, Returns
  <1>3. OtherTypes' /\ retries' \in 0 .. 4 /\ cwnd' \in Nat /\ err' \in BOOLEAN
    <2>1. written' \subseteq Numbered \X (0 .. MaxMade)
      <3>1. <<"Fin", made>> \in Numbered \X (0 .. MaxMade)
        BY <1>1 DEF LocalTypes, Numbered
      <3> QED
        BY <1>1, <1>2, <3>1 DEF OtherTypes
    <2> QED
      BY <1>1, <1>2, <2>1 DEF OtherTypes, LocalTypes
  <1>4. Local'
    BY <1>2, <1>3, QuietStep
  <1>5. Fresh'
    BY <1>1, <1>2 DEF Fresh, window
  <1> QED
    BY <1>3, <1>4, <1>5, Assembled

LEMMA NextKeeps ==
    ASSUME IInv, [Next]_vars
    PROVE  IInv'
  <1>1. CASE UNCHANGED vars
    BY <1>1
    DEF vars, IInv, TypeOK, Window, Sorted, InFlightCounted, Kept, Control, Fresh,
        LastAckedHeard, InSend, Nr
  <1>2. CASE Calls
    BY <1>2, SendToKeeps, CallsKeep DEF Calls
  <1>3. CASE Computes
    BY <1>3, SendNextKeeps, CallsKeep, TransmitKeeps, WriteFinKeeps DEF Computes
  <1>4. CASE Hearing
    <2>1. FirstNrs \subseteq 0 .. W - 1 /\ 0 \in 0 .. W - 1 /\ TRUE \in BOOLEAN /\ "Data" \in Types
      BY UtpAssumption DEF Types
    <2>2. CASE HearsJunk
      BY <2>1, <2>2, HearsStrayKeeps
    <2>3. CASE \E ty \in Types \ {"Syn"}, ok \in BOOLEAN : HearsStray(ty, ok)
      BY <2>3, HearsStrayKeeps
    <2>4. ASSUME NEW wnd \in Wnds,
                 \/ \E nr \in FirstNrs, ok \in BOOLEAN : HearsSyn(nr, wnd, ok)
                 \/ \E ty \in Types : HearsRefused(ty, wnd)
                 \/ \E ok \in BOOLEAN : HearsData(wnd, ok) \/ HearsFin(wnd, ok)
                 \/ HearsSynReply(wnd)
          PROVE  IInv'
      BY <2>1, <2>4, HearsOtherKeeps
    <2>5. ASSUME NEW wnd \in Wnds, NEW n \in -1 .. made, HearsState(n, wnd)
          PROVE  IInv'
      BY <2>5, HearsStateKeeps
    <2> QED
      BY <1>4, <2>2, <2>3, <2>4, <2>5 DEF Hearing
  <1>5. CASE Connecting
    BY <1>5, ConnectingKeeps
  <1>6. CASE ReadFails \/ \E ok \in BOOLEAN : Timeout(ok)
    BY <1>6, ReadFailsKeeps, TimeoutKeeps
  <1> QED
    BY <1>1, <1>2, <1>3, <1>4, <1>5, <1>6 DEF Next

\* The inductive invariant holds in every state.
THEOREM Invariance == Spec => []IInv
  <1>1. Init => IInv
    BY InitIInv
  <1>2. IInv /\ [Next]_vars => IInv'
    BY NextKeeps
  <1> QED
    BY <1>1, <1>2, PTL DEF Spec

\* Every variable keeps its type: for one, dupAckCount, retries and all sequence
\* numbers stay in their ranges.
THEOREM TypeCorrect == Spec => []TypeOK
  <1>1. IInv => TypeOK
    BY DEF IInv
  <1> QED
    BY <1>1, Invariance, PTL

\* currWdw, by which sendPacket decides whether there is room, is the size of the
\* window, whichever sendPackets were active when acknowledgements came.
THEOREM InFlightCountedHolds == Spec => []InFlightCounted
  <1>1. IInv => InFlightCounted
    BY DEF IInv, Window
  <1> QED
    BY <1>1, Invariance, PTL

\* The window and the queue behind it are in the order of the caller's data.
THEOREM WindowInOrderHolds == Spec => []WindowInOrder
  <1>1. IInv => WindowInOrder
    <2> SUFFICES ASSUME IInv
                 PROVE  WindowInOrder
      OBVIOUS
    <2> DEFINE m == Len(sendWdw)
               k == Len(unsentQueue)
               q == sendWdw \o unsentQueue
    <2>1. sendWdw \in Seq(0 .. MaxMade) /\ unsentQueue \in Seq(0 .. MaxMade) /\ Window
      BY DEF IInv, TypeOK
    <2>2. m \in Nat /\ k \in Nat
      BY <2>1
    <2>3. /\ Len(q) = m + k
          /\ \A i \in 1 .. m + k : q[i] = IF i <= m THEN sendWdw[i] ELSE unsentQueue[i - m]
      BY <2>1, ConcatProperties
    <2> HIDE DEF m, k, q
    <2>4. ASSUME NEW i \in 1 .. m + k
          PROVE  \/ i \in 1 .. m /\ q[i] = sendWdw[i]
                 \/ i > m /\ i - m \in 1 .. k /\ q[i] = unsentQueue[i - m]
      BY <2>2, <2>3
    <2>5. ASSUME NEW i \in 1 .. m + k, NEW j \in 1 .. m + k, i < j
          PROVE  q[i] < q[j]
      <3>1. CASE j \in 1 .. m /\ q[j] = sendWdw[j]
        <4>1. i \in 1 .. m /\ q[i] = sendWdw[i]
          BY <2>2, <2>4, <2>5, <3>1
        <4> QED
          BY <2>1, <2>5, <3>1, <4>1 DEF Window, Sorted, m
      <3>2. CASE j - m \in 1 .. k /\ q[j] = unsentQueue[j - m]
        <4>1. CASE i \in 1 .. m /\ q[i] = sendWdw[i]
          BY <2>1, <3>2, <4>1 DEF Window, m, k
        <4>2. CASE i - m \in 1 .. k /\ q[i] = unsentQueue[i - m]
          <5>1. i - m < j - m
            BY <2>2, <2>5
          <5> QED
            BY <2>1, <3>2, <4>2, <5>1 DEF Window, Sorted, k
        <4> QED
          BY <2>4, <4>1, <4>2
      <3> QED
        BY <2>4, <3>1, <3>2
    <2> QED
      BY <2>3, <2>5 DEF WindowInOrder, q
  <1> QED
    BY <1>1, Invariance, PTL

\* What was written stays written, and only a number the remote can have received
\* is acknowledged.
LEMMA AcknowledgedOnlyCarried ==
    ASSUME TypeOK, [Next]_vars
    PROVE  /\ written \subseteq written'
           /\ acked' = acked \/ \E n \in -1 .. made : acked' = Larger(acked, n) /\ Received(n)
  <1>1. CASE UNCHANGED vars
    BY <1>1 DEF vars
  <1>2. CASE Calls
    BY <1>2 DEF Calls, SendTo, RecvFrom, Flush, Close
  <1>3. CASE Computes
    BY <1>3 DEF Computes, SendNext, SendEnds, WaitForRoom, ReadMore, Read, LoopEnds, Transmit, WriteFin
  <1>4. CASE Hearing
    <2>1. ASSUME NEW wnd \in Wnds, NEW n \in -1 .. made, HearsState(n, wnd)
          PROVE  written' = written /\ (acked' = acked \/ (acked' = Larger(acked, n) /\ Received(n)))
      BY <2>1 DEF HearsState, handleStatePacket
    <2>2. ASSUME \/ HearsJunk
                 \/ \E ty \in Types \ {"Syn"}, ok \in BOOLEAN : HearsStray(ty, ok)
                 \/ \E wnd \in Wnds :
                      \/ \E nr \in FirstNrs, ok \in BOOLEAN : HearsSyn(nr, wnd, ok)
                      \/ \E ty \in Types : HearsRefused(ty, wnd)
                      \/ \E ok \in BOOLEAN : HearsData(wnd, ok) \/ HearsFin(wnd, ok)
                      \/ HearsSynReply(wnd)
          PROVE  written \subseteq written' /\ acked' = acked
      BY <2>2 DEF HearsJunk, HearsStray, HearsSyn, HearsRefused, HearsData, HearsFin, HearsSynReply
    <2> QED
      BY <1>4, <2>1, <2>2 DEF Hearing
  <1>5. CASE Connecting
    BY <1>5 DEF Connecting, SynTimeout, ConnectFails, SynAnswered
  <1>6. CASE ReadFails \/ \E ok \in BOOLEAN : Timeout(ok)
    BY <1>6 DEF ReadFails, Timeout
  <1> QED
    BY <1>1, <1>2, <1>3, <1>4, <1>5, <1>6 DEF Next

\* Every number that is acknowledged was carried by a packet that was written.
THEOREM AckedCarriedHolds == Spec => []AckedCarried
  <1>1. Init => AckedCarried
    BY DEF Init, AckedCarried, Received
  <1>2. ASSUME TypeOK, AckedCarried, [Next]_vars
        PROVE  AckedCarried'
    <2>1. /\ written \subseteq written'
          /\ acked' = acked \/ \E n \in -1 .. made : acked' = Larger(acked, n) /\ Received(n)
      BY <1>2, AcknowledgedOnlyCarried
    <2>2. Received(acked')
      BY <1>2, <2>1 DEF AckedCarried, Larger
    <2> QED
      BY <2>1, <2>2 DEF AckedCarried, Received
  <1> QED
    BY <1>1, <1>2, TypeCorrect, PTL DEF Spec

\* An acknowledged number was that of the packet or of what borrowed it.
LEMMA CarriedIsAcknowledged ==
    ASSUME TypeOK, AckedCarried, NEW n \in sent, n <= acked
    PROVE  Acknowledged(n)
  <1>1. n \in 0 .. acked
    BY UtpAssumption DEF TypeOK
  <1>2. PICK ty \in Numbered : <<ty, n>> \in written
    BY <1>1 DEF AckedCarried, Received
  <1> QED
    BY <1>2 DEF Numbered, Acknowledged, NrBorrowed

\* A packet stays in the window until the remote has acknowledged its number, which
\* was written, in that packet or in a Syn's reply or a FIN that shares it.
THEOREM UnackedKeptHolds == Spec => []UnackedKept
  <1>1. IInv /\ AckedCarried => UnackedKept
    <2> SUFFICES ASSUME IInv, AckedCarried, NEW n \in sent
                 PROVE  Acknowledged(n) \/ \E i \in 1 .. Len(sendWdw) : sendWdw[i] = n
      BY DEF UnackedKept
    <2>1. n > acked \/ n <= acked
      BY UtpAssumption DEF IInv, TypeOK
    <2>2. CASE n > acked
      BY <2>2 DEF IInv, Window, Kept
    <2>3. CASE n <= acked
      BY <2>3, CarriedIsAcknowledged DEF IInv
    <2> QED
      BY <2>1, <2>2, <2>3
  <1> QED
    BY <1>1, Invariance, AckedCarriedHolds, PTL

\* Flush returns without an error only when the number of everything
\* sent is acknowledged.
THEOREM FlushMeansAckedHolds == Spec => FlushMeansAcked
  <1>1. ASSUME IInv, AckedCarried, [Next]_vars, call = "Flush", call' = "none", ~err'
        PROVE  \A n \in sent : Acknowledged(n)
    <2>1. sendWdw = <<>>
      <3>1. ASSUME NEW c, RecvFails(c)
            PROVE  FALSE
        BY <1>1, <3>1 DEF RecvFails, Returns, SendPacketReturns, InSend
      <3>2. ~RecvReturns
        BY <1>1 DEF RecvReturns
      <3>3. ASSUME Next
            PROVE  sendWdw = <<>>
        <4>1. CASE Calls
          BY <1>1, <4>1 DEF Calls, SendTo, RecvFrom, Flush, Close, Idle
        <4>2. CASE Computes
          <5>1. CASE LoopEnds
            BY <1>1, <5>1 DEF LoopEnds, Flushed
          <5>2. ASSUME NEW ok \in BOOLEAN, Transmit(ok)
                PROVE  FALSE
            BY <1>1, <5>2 DEF Transmit, SendPacketReturns, InSend
          <5>3. ~SendNext /\ ~SendEnds /\ ~WaitForRoom /\ ~ReadMore
            BY <1>1 DEF SendNext, SendEnds, WaitForRoom, ReadMore, Read
          <5>4. ASSUME NEW ok \in BOOLEAN, WriteFin(ok)
                PROVE  FALSE
            BY <1>1, <5>4 DEF WriteFin
          <5> QED
            BY <4>2, <5>1, <5>2, <5>3, <5>4 DEF Computes
        <4>3. CASE Hearing
          <5>1. ASSUME NEW ok \in BOOLEAN, RepliesToData(ok) \/ Replies(ok)
                PROVE  FALSE
            BY <1>1, <3>1, <3>2, <5>1 DEF RepliesToData, Replies
          <5>2. ASSUME NEW wnd \in Wnds, NEW n \in -1 .. made, HearsState(n, wnd)
                PROVE  FALSE
            BY <1>1, <3>2, <5>2 DEF HearsState, handleStatePacket
          <5> QED
            BY <4>3, <3>1, <3>2, <5>1, <5>2
            DEF Hearing, HearsJunk, HearsStray, HearsSyn, HearsRefused, HearsData, HearsFin,
                HearsSynReply
        <4>4. CASE Connecting
          BY <1>1, <4>4 DEF Connecting, SynTimeout, ConnectFails, SynAnswered
        <4>5. CASE ReadFails
          BY <3>1, <4>5 DEF ReadFails
        <4>6. ASSUME NEW ok \in BOOLEAN, Timeout(ok)
              PROVE  FALSE
          BY <1>1, <3>1, <4>6 DEF Timeout
        <4> QED
          BY <3>3, <4>1, <4>2, <4>3, <4>4, <4>5, <4>6 DEF Next
      <3> QED
        BY <1>1, <3>3 DEF vars
    <2>2. \A n \in sent : n \in Int
      BY <1>1, UtpAssumption DEF IInv, TypeOK
    <2>3. acked \in Int
      BY <1>1, UtpAssumption DEF IInv, TypeOK
    <2> QED
      <3>1. \A n \in sent : n <= acked
        BY <1>1, <2>1, <2>2, <2>3 DEF IInv, Window, Kept
      <3>2. TypeOK /\ AckedCarried
        BY <1>1 DEF IInv
      <3> QED
        BY <3>1, <3>2, CarriedIsAcknowledged
  <1>2. IInv /\ AckedCarried /\ [Next]_vars =>
          [call = "Flush" /\ call' = "none" /\ ~err' => \A n \in sent : Acknowledged(n)]_vars
    BY <1>1
  <1> QED
    BY <1>2, Invariance, AckedCarriedHolds, PTL DEF Spec, FlushMeansAcked

=============================================================================
