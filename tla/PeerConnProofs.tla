---------------------------- MODULE PeerConnProofs ----------------------------
(***************************************************************************)
(* Theorems about the two models of a PeerConn: about PeerDownload, for    *)
(* every piece of every torrent and every block length; and about Wire,    *)
(* for every torrent whose numbers fit into the four bytes that messages   *)
(* have for them, every file, every bitfield, every number of messages on  *)
(* the way, and wherever the connection breaks.                            *)
(***************************************************************************)
EXTENDS PeerDownload, Wire, GeometryProofs, SequenceTheorems

-----------------------------------------------------------------------------
(* PeerDownload. *)

NB == NumBlocksInPiece(index)

\* The length DownloadPiece computes for its n-th block, at offset
\* n * BLOCK_LEN, is the one of MetaInfo.BlockLen.
LEMMA CutsLikeBlockLen ==
    ASSUME NEW n \in BlocksOf(index)
    PROVE  LET off == n * BLOCK_LEN
               taken == IF len - off < BLOCK_LEN THEN len - off ELSE BLOCK_LEN
           IN  /\ n \in Nat /\ off \in Nat
               /\ taken = BlockLen(index, n)
               /\ taken \in 1 .. BLOCK_LEN
               /\ off + taken = IF n + 1 = NB THEN len ELSE (n + 1) * BLOCK_LEN
               /\ off + taken <= len
               /\ off < len
  <1> DEFINE B == BLOCK_LEN
             off == n * B
             l == BlockLen(index, n)
             q == len \div B
             r == len % B
  <1>1. len \in Nat \ {0} /\ B \in Nat \ {0}
    BY DownloadAssumption, PieceLenPositive, GeometryAssumption DEF len
  <1>2. /\ q \in Nat /\ r \in 0 .. B - 1 /\ len = B * q + r
        /\ NB = IF r > 0 THEN q + 1 ELSE q
    BY <1>1, DivMod DEF NB, NumBlocksInPiece, len
  <1>3. n \in 0 .. NB - 1
    BY DEF BlocksOf, NB
  <1>4. /\ l \in 1 .. B
        /\ off + l = IF n = NB - 1 THEN len ELSE (n + 1) * B
    BY DownloadAssumption, BlocksTileHolds DEF BlocksTile, NB, len
  <1> HIDE DEF q, r, l
  <1>5. n \in Nat /\ NB \in Nat /\ off \in Nat /\ (n = NB - 1 <=> n + 1 = NB)
    BY <1>1, <1>2, <1>3, SMT
  <1>6. n + 1 # NB => (n + 1) * B <= len /\ (n + 1) * B = off + B
    <2> SUFFICES ASSUME n + 1 # NB
                 PROVE  (n + 1) * B <= len /\ (n + 1) * B = off + B
      OBVIOUS
    <2>1. n < q
      BY <1>2, <1>3, <1>5, SMT
    <2>2. B * n + B <= B * q
      BY <1>1, <1>2, <1>5, <2>1, TimesMonotone
    <2>3. (n + 1) * B = n * B + B
      BY <1>1, <1>5, SMT
    <2>4. n * B = B * n
      BY <1>1, <1>5, SMT
    <2>5. B * q \in Nat /\ B * n \in Nat
      BY <1>1, <1>2, <1>5, SMT
    <2> HIDE DEF B
    <2> QED
      BY <1>1, <1>2, <2>2, <2>3, <2>4, <2>5, SMT
  <1> HIDE DEF off, B
  <1>7. CASE n + 1 = NB
    <2>1. off + l = len
      BY <1>4, <1>5, <1>7
    <2>2. l = IF len - off < B THEN len - off ELSE B
      BY <1>1, <1>4, <1>5, <2>1, SMT
    <2> QED
      BY <1>1, <1>4, <1>5, <1>7, <2>1, <2>2, SMT DEF off, B, l
  <1>8. CASE n + 1 # NB
    <2>1. off + l = (n + 1) * B
      BY <1>4, <1>5, <1>8
    <2>2. (n + 1) * B <= len /\ (n + 1) * B = off + B
      BY <1>6, <1>8
    <2>3. l = B /\ ~(len - off < B)
      BY <1>1, <1>4, <1>5, <2>1, <2>2, SMT
    <2>4. off + B <= len /\ off < len
      BY <1>1, <1>5, <2>2, SMT
    <2> QED
      BY <1>1, <1>4, <1>5, <1>8, <2>1, <2>2, <2>3, <2>4 DEF off, B, l
  <1> QED
    BY <1>7, <1>8

\* Inductive strengthening: the n requests made so far are the first n blocks,
\* and in the loop blockLen is the full length until the last block has been
\* asked for.
CutInv ==
    /\ Len(reqs) \in 0 .. NB
    /\ Len(reqs) < NB /\ pc \in {"loop", "read"} => blockLen = BLOCK_LEN
    /\ RequestsAreBlocks

Inv == TypeOK /\ CutInv

\* The piece has a length, and at least one block.
LEMMA Sizes ==
    /\ len \in Nat \ {0}
    /\ BLOCK_LEN \in Nat \ {0}
    /\ NB \in Nat \ {0}
  <1>1. len \in Nat \ {0} /\ BLOCK_LEN \in Nat \ {0}
    BY DownloadAssumption, PieceLenPositive, GeometryAssumption DEF len
  <1> DEFINE q == len \div BLOCK_LEN
             r == len % BLOCK_LEN
  <1>2. /\ q \in Nat /\ r \in 0 .. BLOCK_LEN - 1 /\ len = BLOCK_LEN * q + r
        /\ NB = IF r > 0 THEN q + 1 ELSE q
    BY <1>1, DivMod DEF NB, NumBlocksInPiece, len
  <1> HIDE DEF q, r
  <1>3. q = 0 => r > 0
    BY <1>1, <1>2, SMT
  <1> QED
    BY <1>1, <1>2, <1>3, SMT

\* What a request is, when one is made.
LEMMA NextBlock ==
    ASSUME Inv, pc = "loop", begin < len
    PROVE  LET n == Len(reqs)
           IN  /\ n \in BlocksOf(index)
               /\ begin = n * BLOCK_LEN
               /\ NextBlockLen = BlockLen(index, n)
               /\ NextBlockLen \in 1 .. BLOCK_LEN
               /\ begin + NextBlockLen = IF n + 1 = NB THEN len ELSE (n + 1) * BLOCK_LEN
               /\ begin + NextBlockLen \in 0 .. len
               /\ n + 1 < NB => NextBlockLen = BLOCK_LEN
  <1> DEFINE n == Len(reqs)
  <1>1. /\ n \in 0 .. NB
        /\ n < NB => blockLen = BLOCK_LEN
        /\ begin = IF n = NB THEN len ELSE n * BLOCK_LEN
    BY DEF Inv, CutInv, RequestsAreBlocks, NB
  <1>2. n # NB
    BY <1>1, Sizes
  <1>3. n \in BlocksOf(index)
    BY <1>1, <1>2, Sizes DEF BlocksOf, NB
  <1>4. begin = n * BLOCK_LEN /\ blockLen = BLOCK_LEN
    BY <1>1, <1>2, Sizes
  <1>5. NextBlockLen = IF len - n * BLOCK_LEN < BLOCK_LEN THEN len - n * BLOCK_LEN ELSE BLOCK_LEN
    BY <1>4 DEF NextBlockLen
  <1>6. /\ n \in Nat /\ n * BLOCK_LEN \in Nat
        /\ NextBlockLen = BlockLen(index, n)
        /\ NextBlockLen \in 1 .. BLOCK_LEN
        /\ n * BLOCK_LEN + NextBlockLen = IF n + 1 = NB THEN len ELSE (n + 1) * BLOCK_LEN
        /\ n * BLOCK_LEN + NextBlockLen <= len
    BY <1>3, <1>5, CutsLikeBlockLen
  <1>7. n + 1 < NB => NextBlockLen = BLOCK_LEN
    <2> SUFFICES ASSUME n + 1 < NB PROVE NextBlockLen = BLOCK_LEN
      OBVIOUS
    <2>1. n * BLOCK_LEN + NextBlockLen = (n + 1) * BLOCK_LEN
      BY <1>6, Sizes
    <2>2. (n + 1) * BLOCK_LEN = n * BLOCK_LEN + BLOCK_LEN
      BY <1>6, Sizes, SMT
    <2> QED
      BY <1>6, <2>1, <2>2, Sizes, SMT
  <1> QED
    BY <1>3, <1>4, <1>6, <1>7, Sizes, SMT

-----------------------------------------------------------------------------

\* The first request is of the first block.
LEMMA InitInv == Init => Inv
  <1> SUFFICES ASSUME Init PROVE Inv
    OBVIOUS
  <1>1. TypeOK
    BY Sizes, DownloadAssumption DEF Init, TypeOK, ChkdIntd, Chkd, UnChkd
  <1>2. 0 * BLOCK_LEN = 0
    BY Sizes, SMT
  <1>3. CutInv
    BY <1>2, Sizes DEF Init, CutInv, RequestsAreBlocks, NB
  <1> QED
    BY <1>1, <1>3 DEF Inv

\* The step that writes a request keeps the invariant.
LEMMA RequestStep ==
    ASSUME Inv, Request
    PROVE  Inv'
  <1> DEFINE n == Len(reqs)
             new == [begin |-> begin, len |-> NextBlockLen]
  <1>1. /\ pc = "loop" /\ begin < len
        /\ blockLen' = NextBlockLen
        /\ reqs' = Append(reqs, new)
        /\ begin' = begin + NextBlockLen
        /\ pc' = "read"
        /\ UNCHANGED <<connState, conn, b, nread, peerSaid>>
    BY DEF Request
  <1>2. /\ n \in BlocksOf(index)
        /\ begin = n * BLOCK_LEN
        /\ NextBlockLen = BlockLen(index, n)
        /\ NextBlockLen \in 1 .. BLOCK_LEN
        /\ begin + NextBlockLen = IF n + 1 = NB THEN len ELSE (n + 1) * BLOCK_LEN
        /\ begin + NextBlockLen \in 0 .. len
        /\ n + 1 < NB => NextBlockLen = BLOCK_LEN
    BY <1>1, NextBlock
  <1>3. reqs \in Seq([begin : Nat, len : Nat]) /\ begin \in Nat /\ n \in Nat /\ n + 1 \in 0 .. NB
    <2>1. reqs \in Seq([begin : Nat, len : Nat]) /\ begin \in 0 .. len
      BY DEF Inv, TypeOK
    <2>2. n \in 0 .. NB - 1
      BY <1>2 DEF BlocksOf, NB
    <2> QED
      BY <2>1, <2>2, Sizes
  <1>4. new \in [begin : Nat, len : Nat]
    BY <1>2, <1>3, Sizes
  <1> HIDE DEF new
  <1>5. /\ reqs' \in Seq([begin : Nat, len : Nat])
        /\ Len(reqs') = n + 1
        /\ DOMAIN reqs' = 1 .. n + 1 /\ DOMAIN reqs = 1 .. n
        /\ \A k \in 1 .. n : reqs'[k] = reqs[k]
        /\ reqs'[n + 1] = new
    BY <1>1, <1>3, <1>4
  <1>6. TypeOK'
    BY <1>1, <1>2, <1>5 DEF Inv, TypeOK, len
  <1>7. \A k \in DOMAIN reqs' :
          /\ k - 1 \in BlocksOf(index)
          /\ reqs'[k] = [begin |-> (k - 1) * BLOCK_LEN, len |-> BlockLen(index, k - 1)]
    <2>1. ASSUME NEW k \in 1 .. n
          PROVE  /\ k - 1 \in BlocksOf(index)
                 /\ reqs'[k] = [begin |-> (k - 1) * BLOCK_LEN, len |-> BlockLen(index, k - 1)]
      <3>1. k \in DOMAIN reqs /\ reqs'[k] = reqs[k]
        BY <1>3, <1>5
      <3> QED
        BY <3>1 DEF Inv, CutInv, RequestsAreBlocks
    <2>2. /\ (n + 1) - 1 = n
          /\ reqs'[n + 1] = [begin |-> n * BLOCK_LEN, len |-> BlockLen(index, n)]
      BY <1>2, <1>3, <1>5 DEF new
    <2>3. \A k \in 1 .. n + 1 : k \in 1 .. n \/ k = n + 1
      BY <1>3
    <2> QED
      BY <1>2, <1>5, <2>1, <2>2, <2>3
  <1>8. begin' = IF Len(reqs') = NB THEN len ELSE Len(reqs') * BLOCK_LEN
    BY <1>1, <1>2, <1>5
  <1>9. RequestsAreBlocks'
    BY <1>7, <1>8 DEF RequestsAreBlocks, NB, len
  <1>10. CutInv'
    BY <1>1, <1>2, <1>3, <1>5, <1>9 DEF CutInv, NB
  <1> QED
    BY <1>6, <1>10 DEF Inv

\* So do the others.
LEMMA Step == Inv /\ [Next]_vars => Inv'
  <1> SUFFICES ASSUME Inv, [Next]_vars PROVE Inv'
    OBVIOUS
  <1>1. CASE Request
    BY <1>1, RequestStep
  <1>2. CASE RequestFails
    <2>1. /\ pc = "loop" /\ begin < len /\ blockLen' = NextBlockLen /\ pc' = "reportWrite"
          /\ UNCHANGED <<connState, begin, conn, b, reqs, nread, peerSaid>>
      BY <1>2 DEF RequestFails
    <2>2. NextBlockLen \in 1 .. BLOCK_LEN
      BY <2>1, NextBlock
    <2>3. TypeOK'
      BY <2>1, <2>2 DEF Inv, TypeOK, len
    <2> QED
      BY <2>1, <2>2, <2>3 DEF Inv, CutInv, RequestsAreBlocks
  <1>3. ASSUME NEW m, Read(m)
        PROVE  Inv'
    <2>1. TypeOK'
      <3>1. b' \subseteq 0 .. BitfieldLen - 1
        <4>1. m \in Messages /\ b' = IF m.id = "Have" /\ m.piece < BitfieldLen THEN b \cup {m.piece} ELSE b
          BY <1>3 DEF Read
        <4>2. CASE m.id = "Have" /\ m.piece < BitfieldLen
          <5>1. m \in [id : {"Have"}, piece : Nat]
            BY <4>1, <4>2 DEF Messages
          <5>2. m.piece \in 0 .. BitfieldLen - 1
            BY <4>2, <5>1, DownloadAssumption
          <5> QED
            BY <4>1, <4>2, <5>2 DEF Inv, TypeOK
        <4>3. CASE ~(m.id = "Have" /\ m.piece < BitfieldLen)
          BY <4>1, <4>3 DEF Inv, TypeOK
        <4> QED
          BY <4>2, <4>3
      <3>2. connState' \in {Chkd, UnChkd}
        BY <1>3 DEF Read, Inv, TypeOK
      <3>3. conn' \in {"open", "expired", "closed"} /\ peerSaid' \in {"nothing", "Choke", "Unchoke"}
        BY <1>3 DEF Read, ConnAfter, Inv, TypeOK
      <3>4. nread' \in 0 .. MaxRead
        BY <1>3, DownloadAssumption DEF Read, Inv, TypeOK
      <3>5. pc' = "loop" /\ UNCHANGED <<begin, blockLen, reqs>>
        BY <1>3 DEF Read
      <3> QED
        BY <3>1, <3>2, <3>3, <3>4, <3>5 DEF Inv, TypeOK, len
    <2>2. CutInv'
      BY <1>3 DEF Read, Inv, CutInv, RequestsAreBlocks
    <2> QED
      BY <2>1, <2>2 DEF Inv
  <1>4. CASE Expire
    BY <1>4 DEF Expire, Inv, TypeOK, CutInv, RequestsAreBlocks
  <1>5. CASE Return
    BY <1>5 DEF Return, Inv, TypeOK, CutInv, RequestsAreBlocks
  <1>6. CASE SkipRequest
    BY <1>6 DEF SkipRequest, Inv, TypeOK, CutInv, RequestsAreBlocks
  <1>7. CASE ReadFails
    BY <1>7 DEF ReadFails, Inv, TypeOK, CutInv, RequestsAreBlocks
  <1>8. CASE Report
    BY <1>8 DEF Report, Inv, TypeOK, CutInv, RequestsAreBlocks
  <1>9. CASE UNCHANGED vars
    BY <1>9 DEF vars, Inv, TypeOK, CutInv, RequestsAreBlocks
  <1> QED
    BY <1>1, <1>2, <1>3, <1>4, <1>5, <1>6, <1>7, <1>8, <1>9 DEF Next

\* For every piece and block length the requests of DownloadPiece are the
\* blocks of MetaInfo.BlockLen, in order, and types are kept.
THEOREM RequestsAreBlocksHolds == Spec => [](TypeOK /\ RequestsAreBlocks)
  <1>1. Inv => TypeOK /\ RequestsAreBlocks
    BY DEF Inv, CutInv
  <1> QED
    BY <1>1, InitInv, Step, PTL DEF Spec

\* The loop of DownloadPiece is left at its head only when every block has
\* been asked for.
THEOREM ReturnMeansAllRequestedHolds == Spec => ReturnMeansAllRequested
  <1>1. Inv /\ Return => Len(reqs) = NumBlocksInPiece(index)
    <2> SUFFICES ASSUME Inv, Return, Len(reqs) # NB PROVE FALSE
      BY DEF NB
    <2>1. begin >= len /\ Len(reqs) \in 0 .. NB /\ begin = Len(reqs) * BLOCK_LEN
      BY DEF Inv, CutInv, RequestsAreBlocks, Return, NB
    <2>2. Len(reqs) \in BlocksOf(index)
      BY <2>1, Sizes DEF BlocksOf, NB
    <2>3. Len(reqs) * BLOCK_LEN < len /\ Len(reqs) * BLOCK_LEN \in Nat
      BY <2>2, CutsLikeBlockLen
    <2> QED
      BY <2>1, <2>3, Sizes
  <1> QED
    BY <1>1, InitInv, Step, PTL DEF Spec, ReturnMeansAllRequested

-----------------------------------------------------------------------------

\* Before a message has been read for the last request the loop is not at its
\* head.
AheadInv == nread < MaxRead => Len(reqs) <= nread + (IF pc = "loop" THEN 0 ELSE 1)

\* The loop reads one message for every request, whatever it is.
THEOREM OneRequestAheadHolds == Spec => []OneRequestAhead
  <1>1. Init => AheadInv
    BY DEF Init, AheadInv
  <1>2. Inv /\ AheadInv /\ [Next]_vars => AheadInv'
    <2> SUFFICES ASSUME Inv, AheadInv, [Next]_vars PROVE AheadInv'
      OBVIOUS
    <2>1. nread \in Nat /\ MaxRead \in Nat /\ reqs \in Seq([begin : Nat, len : Nat])
      BY DownloadAssumption DEF Inv, TypeOK
    <2>2. CASE Request
      <3>1. pc = "loop" /\ pc' = "read" /\ nread' = nread
            /\ reqs' = Append(reqs, [begin |-> begin, len |-> NextBlockLen])
        BY <2>2 DEF Request
      <3>2. Len(reqs') = Len(reqs) + 1 /\ Len(reqs) \in Nat
        BY <3>1, <2>1
      <3> QED BY <3>1, <3>2, <2>1 DEF AheadInv
    <2>3. ASSUME NEW m, Read(m) PROVE AheadInv'
      <3>1. /\ pc = "read" /\ pc' = "loop" /\ reqs' = reqs
            /\ nread' = IF nread < MaxRead THEN nread + 1 ELSE nread
        BY <2>3 DEF Read
      <3>2. Len(reqs) \in Nat
        BY <2>1
      <3> QED BY <3>1, <3>2, <2>1 DEF AheadInv
    <2>4. CASE Return \/ RequestFails \/ SkipRequest
      <3>1. pc = "loop" /\ pc' # "loop" /\ reqs' = reqs /\ nread' = nread
        BY <2>4 DEF Return, RequestFails, SkipRequest
      <3>2. Len(reqs) \in Nat
        BY <2>1
      <3> QED BY <3>1, <3>2, <2>1 DEF AheadInv
    <2>5. CASE Expire \/ ReadFails \/ Report \/ UNCHANGED vars
      <3>1. (pc = "loop" <=> pc' = "loop") /\ reqs' = reqs /\ nread' = nread
        BY <2>5 DEF Expire, ReadFails, Report, vars
      <3> QED BY <3>1 DEF AheadInv
    <2> QED BY <2>2, <2>3, <2>4, <2>5 DEF Next
  <1>3. Inv /\ AheadInv => OneRequestAhead
    <2> SUFFICES ASSUME Inv, AheadInv, nread < MaxRead PROVE Len(reqs) <= nread + 1
      BY DEF OneRequestAhead
    <2>1. nread \in Nat /\ Len(reqs) \in Nat
      BY DownloadAssumption DEF Inv, TypeOK
    <2> QED BY <2>1 DEF AheadInv
  <1> QED
    BY <1>1, <1>2, <1>3, InitInv, Step, PTL DEF Spec

\* handleMsg closes the connection on a Choke, and nothing opens it again.
ChokeInv == peerSaid = "Choke" => conn = "closed"

\* After a Choke no request gets through, nor does a message of the peer.
THEOREM NothingAfterChokeHolds == Spec => NothingAfterChoke
  <1>1. Init => ChokeInv
    BY DEF Init, ChokeInv
  <1>2. ChokeInv /\ [Next]_vars => ChokeInv'
    <2> SUFFICES ASSUME ChokeInv, [Next]_vars PROVE ChokeInv'
      OBVIOUS
    <2>1. ASSUME NEW m, Read(m) PROVE ChokeInv'
      BY <2>1 DEF Read, ConnAfter, ChokeInv
    <2>2. CASE Expire
      BY <2>2 DEF Expire, ChokeInv
    <2>3. CASE Return \/ Request \/ RequestFails \/ SkipRequest \/ ReadFails \/ Report \/ UNCHANGED vars
      BY <2>3 DEF Return, Request, RequestFails, SkipRequest, ReadFails, Report, vars, ChokeInv
    <2> QED BY <2>1, <2>2, <2>3 DEF Next
  <1>3. ChokeInv /\ [Next]_vars => (peerSaid = "Choke" => reqs' = reqs /\ peerSaid' = "Choke")
    <2> SUFFICES ASSUME [Next]_vars, conn = "closed", peerSaid = "Choke"
                 PROVE  reqs' = reqs /\ peerSaid' = "Choke"
      BY DEF ChokeInv
    <2>1. ~Request /\ \A m : ~Read(m)
      BY DEF Request, Read
    <2>2. CASE Expire \/ Return \/ RequestFails \/ SkipRequest \/ ReadFails \/ Report \/ UNCHANGED vars
      BY <2>2 DEF Expire, Return, RequestFails, SkipRequest, ReadFails, Report, vars
    <2> QED BY <2>1, <2>2 DEF Next
  <1> QED
    BY <1>1, <1>2, <1>3, PTL DEF Spec, NothingAfterChoke

-----------------------------------------------------------------------------
(* Wire: numbers and bytes. *)

Bytes == 0 .. 255

\* The last byte of a number, and the rest of it.
LEMMA LastByte ==
    ASSUME NEW n \in Nat
    PROVE  n \div 256 \in Nat /\ n % 256 \in Bytes /\ n = 256 * (n \div 256) + (n % 256)
  BY SMT DEF Bytes

\* Four bytes are a sequence of bytes.
LEMMA FourBytes ==
    ASSUME NEW v1 \in Bytes, NEW v2 \in Bytes, NEW v3 \in Bytes, NEW v4 \in Bytes
    PROVE  <<v1, v2, v3, v4>> \in Seq(Bytes) /\ Len(<<v1, v2, v3, v4>>) = 4
  BY SMT

\* A number below one that fits into four bytes fits as well.
LEMMA SmallerFits ==
    ASSUME NEW n \in Nat, NEW k \in Nat, k <= n, FitsUint32(n)
    PROVE  FitsUint32(k)
  <1>1. \A x, y \in Nat : x <= y => x \div 256 <= y \div 256 /\ x \div 256 \in Nat /\ y \div 256 \in Nat
    BY SMT
  <1> QED
    BY <1>1, SMT DEF FitsUint32

\* The four bytes of a number are its digits to the base of 256.
LEMMA Uint32Digits ==
    ASSUME NEW n, FitsUint32(n)
    PROVE  LET n1 == n \div 256
               n2 == n1 \div 256
               n3 == n2 \div 256
               d1 == n % 256
               d2 == n1 % 256
               d3 == n2 % 256
           IN  /\ PutUint32(n) = <<n3, d3, d2, d1>>
               /\ d1 \in Bytes /\ d2 \in Bytes /\ d3 \in Bytes /\ n3 \in Bytes
               /\ n1 \in Nat /\ n2 \in Nat
               /\ n = 256 * n1 + d1 /\ n1 = 256 * n2 + d2 /\ n2 = 256 * n3 + d3
  <1> DEFINE n1 == n \div 256
             n2 == n1 \div 256
             n3 == n2 \div 256
             d1 == n % 256
             d2 == n1 % 256
             d3 == n2 % 256
  <1>1. n \in Nat /\ n3 < 256
    BY DEF FitsUint32
  <1>2. n1 \in Nat /\ d1 \in Bytes /\ n = 256 * n1 + d1
    BY <1>1, LastByte
  <1>3. n2 \in Nat /\ d2 \in Bytes /\ n1 = 256 * n2 + d2
    BY <1>2, LastByte
  <1>4. n3 \in Nat /\ d3 \in Bytes /\ n2 = 256 * n3 + d3
    BY <1>3, LastByte
  <1>5. PutUint32(n) = <<n3 % 256, d3, d2, d1>>
    BY Zenon DEF PutUint32
  <1> HIDE DEF d1, d2, d3, n1, n2, n3
  <1>6. n3 % 256 = n3 /\ n3 \in Bytes
    BY <1>1, <1>4, SMT DEF Bytes
  <1>7. PutUint32(n) = <<n3, d3, d2, d1>>
    BY <1>5, <1>6
  <1> QED
    BY <1>2, <1>3, <1>4, <1>6, <1>7 DEF d1, d2, d3, n1, n2, n3

\* Four bytes are written for a number.
LEMMA Uint32Bytes ==
    ASSUME NEW n, FitsUint32(n)
    PROVE  PutUint32(n) \in Seq(Bytes) /\ Len(PutUint32(n)) = 4
  <1> DEFINE n1 == n \div 256
             n2 == n1 \div 256
             n3 == n2 \div 256
             d1 == n % 256
             d2 == n1 % 256
             d3 == n2 % 256
  <1>1. /\ PutUint32(n) = <<n3, d3, d2, d1>>
        /\ d1 \in Bytes /\ d2 \in Bytes /\ d3 \in Bytes /\ n3 \in Bytes
    BY Uint32Digits
  <1> HIDE DEF d1, d2, d3, n1, n2, n3
  <1> QED
    BY <1>1, FourBytes

\* binary.BigEndian reads the number it has put.
LEMMA Uint32Put ==
    ASSUME NEW n, FitsUint32(n), NEW s \in Seq(Int), \A j \in 1 .. 4 : s[j] = PutUint32(n)[j]
    PROVE  Uint32(s) = n
  <1> DEFINE n1 == n \div 256
             n2 == n1 \div 256
             n3 == n2 \div 256
             d1 == n % 256
             d2 == n1 % 256
             d3 == n2 % 256
  <1>1. /\ PutUint32(n) = <<n3, d3, d2, d1>>
        /\ d1 \in Bytes /\ d2 \in Bytes /\ d3 \in Bytes /\ n3 \in Bytes
        /\ n1 \in Nat /\ n2 \in Nat
        /\ n = 256 * n1 + d1 /\ n1 = 256 * n2 + d2 /\ n2 = 256 * n3 + d3
    BY Uint32Digits
  <1> HIDE DEF d1, d2, d3, n1, n2, n3
  <1>2. s[1] = n3 /\ s[2] = d3 /\ s[3] = d2 /\ s[4] = d1
    BY <1>1, SMT
  <1>3. s[1] * 256 + s[2] = n2
    BY <1>1, <1>2, SMT DEF Bytes
  <1>4. n2 * 256 + s[3] = n1
    BY <1>1, <1>2, SMT DEF Bytes
  <1>5. n1 * 256 + s[4] = n
    BY <1>1, <1>2, SMT DEF Bytes
  <1> QED
    BY <1>3, <1>4, <1>5 DEF Uint32

-----------------------------------------------------------------------------
(* Bits. *)

\* A byte made of weights has the bits of those that are in it.
LEMMA BitsOfSum ==
    ASSUME NEW v0 \in {0, 128}, NEW v1 \in {0, 64}, NEW v2 \in {0, 32}, NEW v3 \in {0, 16},
           NEW v4 \in {0, 8}, NEW v5 \in {0, 4}, NEW v6 \in {0, 2}, NEW v7 \in {0, 1},
           NEW byte, byte = v0 + v1 + v2 + v3 + v4 + v5 + v6 + v7
    PROVE  /\ byte \in Bytes
           /\ Bit(byte, 0) <=> v0 = 128
           /\ Bit(byte, 1) <=> v1 = 64
           /\ Bit(byte, 2) <=> v2 = 32
           /\ Bit(byte, 3) <=> v3 = 16
           /\ Bit(byte, 4) <=> v4 = 8
           /\ Bit(byte, 5) <=> v5 = 4
           /\ Bit(byte, 6) <=> v6 = 2
           /\ Bit(byte, 7) <=> v7 = 1
  <1>1. byte \in Bytes
    BY SMT DEF Bytes
  <1>2. (byte \div 128) % 2 = 1 <=> v0 = 128
    BY SMT
  <1>3. (byte \div 64) % 2 = 1 <=> v1 = 64
    BY SMT
  <1>4. (byte \div 32) % 2 = 1 <=> v2 = 32
    BY SMT
  <1>5. (byte \div 16) % 2 = 1 <=> v3 = 16
    BY SMT
  <1>6. (byte \div 8) % 2 = 1 <=> v4 = 8
    BY SMT
  <1>7. (byte \div 4) % 2 = 1 <=> v5 = 4
    BY SMT
  <1>8. (byte \div 2) % 2 = 1 <=> v6 = 2
    BY SMT
  <1>9. (byte \div 1) % 2 = 1 <=> v7 = 1
    BY SMT
  <1>10. /\ Weight[0 + 1] = 128 /\ Weight[1 + 1] = 64 /\ Weight[2 + 1] = 32 /\ Weight[3 + 1] = 16
         /\ Weight[4 + 1] = 8 /\ Weight[5 + 1] = 4 /\ Weight[6 + 1] = 2 /\ Weight[7 + 1] = 1
    BY SMT DEF Weight
  <1>11. Bit(byte, 0) <=> v0 = 128
    BY <1>2, <1>10, Zenon DEF Bit
  <1>12. Bit(byte, 1) <=> v1 = 64
    BY <1>3, <1>10, Zenon DEF Bit
  <1>13. Bit(byte, 2) <=> v2 = 32
    BY <1>4, <1>10, Zenon DEF Bit
  <1>14. Bit(byte, 3) <=> v3 = 16
    BY <1>5, <1>10, Zenon DEF Bit
  <1>15. Bit(byte, 4) <=> v4 = 8
    BY <1>6, <1>10, Zenon DEF Bit
  <1>16. Bit(byte, 5) <=> v5 = 4
    BY <1>7, <1>10, Zenon DEF Bit
  <1>17. Bit(byte, 6) <=> v6 = 2
    BY <1>8, <1>10, Zenon DEF Bit
  <1>18. Bit(byte, 7) <=> v7 = 1
    BY <1>9, <1>10, Zenon DEF Bit
  <1> QED
    BY <1>1, <1>11, <1>12, <1>13, <1>14, <1>15, <1>16, <1>17, <1>18

Worths == {1, 2, 4, 8, 16, 32, 64, 128}

\* A bit that is not in a byte is added without a change of the others.
LEMMA AddBit ==
    ASSUME NEW byte \in Bytes, NEW w \in Worths, (byte \div w) % 2 # 1
    PROVE  /\ byte + w \in Bytes
           /\ ((byte + w) \div w) % 2 = 1
           /\ \A u \in Worths : u # w => ((byte + w) \div u) % 2 = (byte \div u) % 2
  <1>1. CASE w = 1
    BY <1>1, SMTT(30) DEF Bytes, Worths
  <1>2. CASE w = 2
    BY <1>2, SMTT(30) DEF Bytes, Worths
  <1>3. CASE w = 4
    BY <1>3, SMTT(30) DEF Bytes, Worths
  <1>4. CASE w = 8
    BY <1>4, SMTT(30) DEF Bytes, Worths
  <1>5. CASE w = 16
    BY <1>5, SMTT(30) DEF Bytes, Worths
  <1>6. CASE w = 32
    BY <1>6, SMTT(30) DEF Bytes, Worths
  <1>7. CASE w = 64
    BY <1>7, SMTT(30) DEF Bytes, Worths
  <1>8. CASE w = 128
    BY <1>8, SMTT(30) DEF Bytes, Worths
  <1> QED
    BY <1>1, <1>2, <1>3, <1>4, <1>5, <1>6, <1>7, <1>8 DEF Worths

\* No two bits of a byte are worth the same.
LEMMA WeightsDiffer ==
    ASSUME NEW off \in 0 .. 7
    PROVE  /\ Weight[off + 1] \in Worths
           /\ \A o \in 0 .. 7 : Weight[o + 1] = Weight[off + 1] => o = off
  BY SMT DEF Weight, Worths

\* Where the bit of a piece is.
LEMMA PlaceOfBit ==
    ASSUME NEW i \in Nat
    PROVE  i \div 8 \in Nat /\ i % 8 \in 0 .. 7 /\ i = 8 * (i \div 8) + (i % 8)
  BY SMT

\* Bitfield.Set adds one piece, unless it is past the end.
LEMMA SetHas ==
    ASSUME NEW bf \in Seq(Bytes), NEW i \in Nat
    PROVE  /\ Set(bf, i) \in Seq(Bytes)
           /\ Len(Set(bf, i)) = Len(bf)
           /\ \A j \in Nat : Has(Set(bf, i), j) <=> Has(bf, j) \/ (j = i /\ i < 8 * Len(bf))
  <1> DEFINE pos == (i \div 8) + 1
             off == i % 8
             w == Weight[off + 1]
             new == [bf EXCEPT ![pos] = @ + w]
  <1>1. pos \in Nat \ {0} /\ off \in 0 .. 7 /\ i = 8 * (pos - 1) + off /\ w \in Worths /\ Len(bf) \in Nat
    BY PlaceOfBit, WeightsDiffer, LenProperties, SMT
  <1>2. Set(bf, i) = IF pos > Len(bf) \/ Bit(bf[pos], off) THEN bf ELSE new
    BY DEF Set
  <1>3. Has(bf, i) <=> pos - 1 < Len(bf) /\ Bit(bf[pos], off)
    BY DEF Has
  <1> HIDE DEF pos, off, w, new
  <1>4. i < 8 * Len(bf) <=> pos <= Len(bf)
    BY <1>1, SMT
  <1>5. CASE pos > Len(bf) \/ Bit(bf[pos], off)
    BY <1>1, <1>2, <1>3, <1>4, <1>5, SMT
  <1>6. CASE ~(pos > Len(bf) \/ Bit(bf[pos], off))
    <2>1. pos \in 1 .. Len(bf) /\ bf[pos] \in Bytes
      BY <1>1, <1>6, ElementOfSeq, SMT
    <2>2. (bf[pos] \div w) % 2 # 1
      BY <1>6 DEF Bit, w
    <2>3. /\ bf[pos] + w \in Bytes
          /\ ((bf[pos] + w) \div w) % 2 = 1
          /\ \A u \in Worths : u # w => ((bf[pos] + w) \div u) % 2 = (bf[pos] \div u) % 2
      BY <1>1, <2>1, <2>2, AddBit
    <2>4. /\ new \in Seq(Bytes) /\ Len(new) = Len(bf)
          /\ \A j \in 1 .. Len(bf) : new[j] = IF j = pos THEN bf[pos] + w ELSE bf[j]
      BY <2>1, <2>3, ExceptSeq DEF new
    <2>5. ASSUME NEW j \in Nat
          PROVE  Has(new, j) <=> Has(bf, j) \/ (j = i /\ i < 8 * Len(bf))
      <3> DEFINE p == (j \div 8) + 1
                 o == j % 8
      <3>1. p \in Nat \ {0} /\ o \in 0 .. 7 /\ j = 8 * (p - 1) + o
        BY PlaceOfBit, SMT
      <3>2. /\ Has(new, j) <=> p - 1 < Len(new) /\ Bit(new[p], o)
            /\ Has(bf, j) <=> p - 1 < Len(bf) /\ Bit(bf[p], o)
        BY DEF Has
      <3> HIDE DEF p, o
      <3>3. CASE p > Len(bf)
        BY <1>1, <1>4, <2>4, <3>1, <3>2, <3>3, SMT
      <3>4. CASE p # pos /\ p <= Len(bf)
        <4>1. new[p] = bf[p] /\ i # j
          BY <1>1, <2>4, <3>1, <3>4, SMT
        <4> QED
          BY <2>4, <3>2, <4>1
      <3>5. CASE p = pos /\ o = off
        <4>1. i = j /\ new[p] = bf[pos] + w
          BY <1>1, <2>1, <2>4, <3>1, <3>5, SMT
        <4>2. Bit(new[p], o)
          BY <2>3, <3>5, <4>1 DEF Bit, w
        <4>3. Has(new, j)
          BY <1>1, <2>1, <2>4, <3>1, <3>2, <3>5, <4>2, SMT
        <4> QED
          BY <1>4, <2>1, <4>1, <4>3, SMT
      <3>6. CASE p = pos /\ o # off
        <4>1. i # j /\ new[p] = bf[pos] + w /\ bf[p] = bf[pos]
          BY <1>1, <2>1, <2>4, <3>1, <3>6, SMT
        <4>2. Weight[o + 1] \in Worths /\ Weight[o + 1] # w
          BY <1>1, <3>1, <3>6, WeightsDiffer DEF w
        <4>3. Bit(new[p], o) <=> Bit(bf[p], o)
          BY <2>3, <4>1, <4>2, Zenon DEF Bit
        <4> QED
          BY <2>4, <3>2, <4>1, <4>3
      <3> QED
        BY <1>1, <3>1, <3>3, <3>4, <3>5, <3>6, SMT
    <2> QED
      BY <1>2, <1>6, <2>4, <2>5
  <1> QED
    BY <1>5, <1>6

\* The bitfield of a set of pieces has the bits of those that find room in it.
LEMMA FieldHas ==
    ASSUME NEW S
    PROVE  /\ FieldOf(S) \in Seq(Bytes)
           /\ Len(FieldOf(S)) = (NumPieces + 7) \div 8
           /\ \A i \in Nat : Has(FieldOf(S), i) <=> i \in S /\ i < 8 * Len(FieldOf(S))
  <1> DEFINE n == (NumPieces + 7) \div 8
             v(k, off) == IF 8 * (k - 1) + off \in S THEN Weight[off + 1] ELSE 0
             byte(k) == v(k, 0) + v(k, 1) + v(k, 2) + v(k, 3) + v(k, 4) + v(k, 5) + v(k, 6) + v(k, 7)
  <1>1. n \in Nat
    BY WireAssumption, SMT DEF FitsUint32
  <1>2. FieldOf(S) = [k \in 1 .. n |-> byte(k)]
    BY Zenon DEF FieldOf
  <1>3. ASSUME NEW k \in 1 .. n
        PROVE  /\ byte(k) \in Bytes
               /\ \A off \in 0 .. 7 : Bit(byte(k), off) <=> 8 * (k - 1) + off \in S
    <2>1. /\ v(k, 0) = (IF 8 * (k - 1) + 0 \in S THEN 128 ELSE 0)
          /\ v(k, 1) = (IF 8 * (k - 1) + 1 \in S THEN 64 ELSE 0)
          /\ v(k, 2) = (IF 8 * (k - 1) + 2 \in S THEN 32 ELSE 0)
          /\ v(k, 3) = (IF 8 * (k - 1) + 3 \in S THEN 16 ELSE 0)
          /\ v(k, 4) = (IF 8 * (k - 1) + 4 \in S THEN 8 ELSE 0)
          /\ v(k, 5) = (IF 8 * (k - 1) + 5 \in S THEN 4 ELSE 0)
          /\ v(k, 6) = (IF 8 * (k - 1) + 6 \in S THEN 2 ELSE 0)
          /\ v(k, 7) = (IF 8 * (k - 1) + 7 \in S THEN 1 ELSE 0)
      BY SMT DEF Weight
    <2> HIDE DEF v
    <2>2. /\ v(k, 0) \in {0, 128} /\ v(k, 1) \in {0, 64} /\ v(k, 2) \in {0, 32} /\ v(k, 3) \in {0, 16}
          /\ v(k, 4) \in {0, 8} /\ v(k, 5) \in {0, 4} /\ v(k, 6) \in {0, 2} /\ v(k, 7) \in {0, 1}
      BY <2>1, SMT
    <2>3. byte(k) = v(k, 0) + v(k, 1) + v(k, 2) + v(k, 3) + v(k, 4) + v(k, 5) + v(k, 6) + v(k, 7)
      OBVIOUS
    <2> HIDE DEF byte
    <2>4. /\ byte(k) \in Bytes
          /\ Bit(byte(k), 0) <=> v(k, 0) = 128
          /\ Bit(byte(k), 1) <=> v(k, 1) = 64
          /\ Bit(byte(k), 2) <=> v(k, 2) = 32
          /\ Bit(byte(k), 3) <=> v(k, 3) = 16
          /\ Bit(byte(k), 4) <=> v(k, 4) = 8
          /\ Bit(byte(k), 5) <=> v(k, 5) = 4
          /\ Bit(byte(k), 6) <=> v(k, 6) = 2
          /\ Bit(byte(k), 7) <=> v(k, 7) = 1
      BY <2>2, <2>3, BitsOfSum
    <2>5. ASSUME NEW off \in 0 .. 7
          PROVE  Bit(byte(k), off) <=> 8 * (k - 1) + off \in S
      BY <2>1, <2>4, SMT
    <2> QED
      BY <2>4, <2>5
  <1> HIDE DEF n, byte
  <1>4. FieldOf(S) \in Seq(Bytes) /\ Len(FieldOf(S)) = n
    BY <1>1, <1>2, <1>3, SMT
  <1>5. ASSUME NEW i \in Nat
        PROVE  Has(FieldOf(S), i) <=> i \in S /\ i < 8 * n
    <2> DEFINE p == (i \div 8) + 1
               o == i % 8
    <2>1. p \in Nat \ {0} /\ o \in 0 .. 7 /\ i = 8 * (p - 1) + o
      BY PlaceOfBit, SMT
    <2>2. Has(FieldOf(S), i) <=> p - 1 < n /\ Bit(FieldOf(S)[p], o)
      BY <1>4 DEF Has
    <2> HIDE DEF p, o
    <2>3. i < 8 * n <=> p \in 1 .. n
      BY <1>1, <2>1, SMT
    <2>4. p - 1 < n <=> p \in 1 .. n
      BY <1>1, <2>1, SMT
    <2>5. p \in 1 .. n => FieldOf(S)[p] = byte(p)
      BY <1>2
    <2> QED
      BY <1>3, <2>1, <2>2, <2>3, <2>4, <2>5
  <1> QED
    BY <1>4, <1>5 DEF n

\* Messages as they travel: what is carried of a payload, what is behind the
\* length, and the whole frame.
Carried(m) == CASE m.ID \in {RequestId, Cancel} -> CopyInto(12, m.Payload)
                [] m.ID = Port -> CopyInto(2, m.Payload)
                [] OTHER -> m.Payload

Wired(m) == IF m.ID = KepAlive THEN <<>> ELSE <<m.ID>> \o Carried(m)

Code(m) == PutUint32(Len(Wired(m))) \o Wired(m)

PiecePayload(i, k) == PutUint32(i) \o PutUint32(k * BLOCK_LEN) \o BlockBytes(i, k)

\* What is known of a message that is on its way.
OnItsWay(m) ==
    /\ m \in [ID : 0 .. 10, Payload : Seq(Int)]
    /\ FitsUint32(Len(Wired(m)))
    /\ m.ID = KepAlive => m.Payload = <<>>
    /\ m.ID = BitField => m.Payload = FieldOf(Shares)
    /\ m.ID = Have => \E i \in HavePieces : m.Payload = PutUint32(i)
    /\ m.ID = Piece => \E i \in Pieces : \E k \in BlocksOf(i) : m.Payload = PiecePayload(i, k)

\* The bytes of a block have their places in the file, and the numbers in the
\* message about it fit.
LEMMA BlockFacts ==
    ASSUME NEW i \in Pieces, NEW k \in BlocksOf(i)
    PROVE  /\ i \in Nat /\ k \in Nat /\ k * BLOCK_LEN \in Nat
           /\ FitsUint32(i) /\ FitsUint32(k * BLOCK_LEN)
           /\ BlockLen(i, k) \in Nat \ {0} /\ FitsUint32(9 + BlockLen(i, k)) /\ FitsUint32(BlockLen(i, k))
           /\ PieceBounds(i)[1] = i * InfoPieceLen /\ i * InfoPieceLen \in Nat
           /\ k * BLOCK_LEN + BlockLen(i, k) <= PieceLen(i)
           /\ i * InfoPieceLen + PieceLen(i) <= Size
  <1> DEFINE L == InfoPieceLen
             B == BLOCK_LEN
             P == PieceLen(i)
             l == BlockLen(i, k)
             N == NumBlocksInPiece(i)
             q == Size \div L
             r == Size % L
             d == P \div B
             e == P % B
  <1>1. L \in Nat \ {0} /\ B \in Nat \ {0} /\ Size \in Nat \ {0}
    BY GeometryAssumption
  <1>2. P \in Nat \ {0}
    BY PieceLenPositive
  <1>3. /\ i \in Nat /\ q \in Nat /\ r \in 0 .. L - 1
        /\ Size = L * q + r
        /\ (i < q /\ P = L) \/ (i = q /\ r > 0 /\ P = r)
        /\ NumPieces = IF r = 0 THEN q ELSE q + 1
    BY PieceCases
  <1>4. /\ l \in 1 .. B
        /\ k * B + l = IF k = N - 1 THEN P ELSE (k + 1) * B
    BY BlocksTileHolds DEF BlocksTile
  <1>5. /\ d \in Nat /\ e \in 0 .. B - 1 /\ P = B * d + e
        /\ N = IF e > 0 THEN d + 1 ELSE d
        /\ k \in 0 .. N - 1
    BY <1>1, <1>2, DivMod DEF NumBlocksInPiece, BlocksOf
  <1> HIDE DEF L, B, P, l, N, q, r, d, e
  <1>6. k \in Nat /\ N \in Nat /\ N <= d + 1 /\ (N = d + 1 => e > 0)
    BY <1>1, <1>5, SMT
  <1>7. k * B \in Nat /\ (k + 1) * B = k * B + B
    BY <1>1, <1>6, SMT
  <1>8. k * B + l <= P
    <2>1. CASE k = N - 1
      BY <1>2, <1>4, <2>1, SMT
    <2>2. CASE k # N - 1
      <3>1. k + 1 \in Nat /\ k + 1 < N /\ k + 1 <= d
        BY <1>5, <1>6, <2>2, SMT
      <3>2. d \in Nat /\ e \in Nat /\ P = B * d + e
        BY <1>1, <1>5, SMT
      <3>3. B * k + B <= B * d
        <4>1. k < d
          BY <1>6, <3>1, <3>2, SMT
        <4> QED
          BY <1>1, <1>6, <3>2, <4>1, TimesMonotone
      <3>4. B * k = k * B /\ B * d \in Nat
        BY <1>1, <1>6, <3>2, SMT
      <3> QED
        BY <1>1, <1>2, <1>4, <1>7, <2>2, <3>2, <3>3, <3>4, SMT
    <2> QED
      BY <2>1, <2>2
  <1>9. P <= L
    BY <1>1, <1>3, SMT
  <1>10. i * L \in Nat /\ i * L = L * i /\ L * q \in Nat
    BY <1>1, <1>3, SMT
  <1>11. i * L + P <= Size
    <2>1. CASE i < q
      <3>1. L * i + L <= L * q
        BY <1>1, <1>3, <2>1, TimesMonotone
      <3> QED
        BY <1>1, <1>3, <1>10, <2>1, <3>1, SMT
    <2>2. CASE i = q
      BY <1>1, <1>3, <1>10, <2>2, SMT
    <2> QED
      BY <1>3, <2>1, <2>2
  <1>12. PieceBounds(i)[1] = i * L
    BY DEF PieceBounds, L
  <1>13. FitsUint32(i)
    <2>1. NumPieces \in Nat /\ i <= NumPieces
      BY <1>3, SMT
    <2> QED
      BY <1>3, <2>1, WireAssumption, SmallerFits
  <1>14. \A n \in Nat : n <= L + 9 => FitsUint32(n)
    <2>1. L + 9 \in Nat /\ FitsUint32(L + 9)
      BY <1>1, WireAssumption, SMT DEF L
    <2> QED
      BY <2>1, SmallerFits
  <1>15. /\ l \in Nat \ {0}
         /\ k * B <= L + 9 /\ l <= L + 9 /\ 9 + l <= L + 9 /\ 9 + l \in Nat
    BY <1>1, <1>2, <1>4, <1>7, <1>8, <1>9, SMT
  <1>16. FitsUint32(k * B) /\ FitsUint32(l) /\ FitsUint32(9 + l)
    BY <1>7, <1>14, <1>15
  <1> QED
    BY <1>3, <1>6, <1>7, <1>8, <1>10, <1>11, <1>12, <1>13, <1>15, <1>16 DEF L, B, P, l

\* The bytes of a block, one by one, with their places in the file.
LEMMA BlockBytesIs ==
    ASSUME NEW i \in Pieces, NEW k \in BlocksOf(i)
    PROVE  /\ BlockBytes(i, k) \in Seq(Bytes)
           /\ Len(BlockBytes(i, k)) = BlockLen(i, k)
           /\ \A j \in 1 .. BlockLen(i, k) :
                 /\ i * InfoPieceLen + k * BLOCK_LEN + j - 1 \in 0 .. Size - 1
                 /\ BlockBytes(i, k)[j] = File[i * InfoPieceLen + k * BLOCK_LEN + j - 1]
  <1> DEFINE l == BlockLen(i, k)
             s == i * InfoPieceLen
             o == k * BLOCK_LEN
  <1>1. s \in Nat /\ o \in Nat /\ l \in Nat \ {0} /\ o + l <= PieceLen(i) /\ s + PieceLen(i) <= Size
    BY BlockFacts
  <1>2. PieceLen(i) \in Nat /\ Size \in Nat
    BY PieceLenPositive, GeometryAssumption
  <1>3. BlockBytes(i, k) = [j \in 1 .. l |-> File[s + o + j - 1]]
    BY BlockFacts, Zenon DEF BlockBytes
  <1> HIDE DEF l, s, o
  <1>4. \A j \in 1 .. l : s + o + j - 1 \in 0 .. Size - 1
    BY <1>1, <1>2, SMT
  <1>5. \A j \in 1 .. l : File[s + o + j - 1] \in Bytes
    BY <1>4, WireAssumption DEF Bytes
  <1>6. BlockBytes(i, k) \in Seq(Bytes) /\ Len(BlockBytes(i, k)) = l
    BY <1>1, <1>3, <1>5, SMT
  <1>7. \A j \in 1 .. l : BlockBytes(i, k)[j] = File[s + o + j - 1]
    BY <1>3
  <1> QED
    BY <1>4, <1>6, <1>7 DEF l, s, o

\* The elements of two sequences in the one made of them.
LEMMA ConcatParts ==
    ASSUME NEW S, NEW s \in Seq(S), NEW t \in Seq(S)
    PROVE  /\ s \o t \in Seq(S)
           /\ Len(s \o t) = Len(s) + Len(t)
           /\ Len(s) \in Nat /\ Len(t) \in Nat
           /\ \A j \in 1 .. Len(s) : (s \o t)[j] = s[j]
           /\ \A j \in 1 .. Len(t) : (s \o t)[Len(s) + j] = t[j]
  <1> DEFINE u == s \o t
             m == Len(s)
             n == Len(t)
  <1>1. /\ u \in Seq(S) /\ Len(u) = m + n
        /\ \A j \in 1 .. m + n : u[j] = IF j <= m THEN s[j] ELSE t[j - m]
    BY ConcatProperties
  <1>2. m \in Nat /\ n \in Nat
    BY LenProperties
  <1> HIDE DEF u, m, n
  <1>3. \A j \in 1 .. m : u[j] = s[j]
    BY <1>1, <1>2, SMT
  <1>4. ASSUME NEW j \in 1 .. n
        PROVE  u[m + j] = t[j]
    <2>1. m + j \in 1 .. m + n /\ ~(m + j <= m) /\ (m + j) - m = j
      BY <1>2, SMT
    <2> QED
      BY <1>1, <2>1
  <1> QED
    BY <1>1, <1>2, <1>3, <1>4 DEF u, m, n

\* The payload of a Piece: four bytes for the index, four for the offset, the block.
LEMMA PiecePayloadIs ==
    ASSUME NEW i \in Pieces, NEW k \in BlocksOf(i)
    PROVE  /\ PiecePayload(i, k) \in Seq(Bytes)
           /\ Len(PiecePayload(i, k)) = 8 + BlockLen(i, k)
           /\ \A j \in 1 .. 4 : PiecePayload(i, k)[j] = PutUint32(i)[j]
           /\ \A j \in 1 .. 4 : PiecePayload(i, k)[4 + j] = PutUint32(k * BLOCK_LEN)[j]
           /\ \A j \in 1 .. BlockLen(i, k) : PiecePayload(i, k)[8 + j] = BlockBytes(i, k)[j]
  <1> DEFINE x == PutUint32(i)
             y == PutUint32(k * BLOCK_LEN)
             z == BlockBytes(i, k)
             l == BlockLen(i, k)
  <1>1. l \in Nat \ {0} /\ FitsUint32(i) /\ FitsUint32(k * BLOCK_LEN)
    BY BlockFacts
  <1>2. /\ x \in Seq(Bytes) /\ Len(x) = 4 /\ y \in Seq(Bytes) /\ Len(y) = 4
        /\ z \in Seq(Bytes) /\ Len(z) = l
    BY <1>1, Uint32Bytes, BlockBytesIs
  <1>3. PiecePayload(i, k) = (x \o y) \o z
    BY DEF PiecePayload
  <1> DEFINE xy == x \o y
             xyz == xy \o z
  <1> HIDE DEF x, y, z, l
  <1>4. /\ xy \in Seq(Bytes) /\ Len(xy) = 8
        /\ \A j \in 1 .. 4 : xy[j] = x[j]
        /\ \A j \in 1 .. 4 : xy[4 + j] = y[j]
    <2>1. /\ xy \in Seq(Bytes) /\ Len(xy) = Len(x) + Len(y)
          /\ \A j \in 1 .. Len(x) : xy[j] = x[j]
          /\ \A j \in 1 .. Len(y) : xy[Len(x) + j] = y[j]
      <3>1. x \in Seq(Bytes) /\ y \in Seq(Bytes)
        BY <1>2
      <3> QED
        BY <3>1, ConcatParts DEF xy
    <2> QED
      BY <1>2, <2>1
  <1> HIDE DEF xy
  <1>5. /\ xyz \in Seq(Bytes) /\ Len(xyz) = 8 + l
        /\ \A j \in 1 .. 8 : xyz[j] = xy[j]
        /\ \A j \in 1 .. l : xyz[8 + j] = z[j]
    <2>1. /\ xyz \in Seq(Bytes) /\ Len(xyz) = Len(xy) + Len(z)
          /\ \A j \in 1 .. Len(xy) : xyz[j] = xy[j]
          /\ \A j \in 1 .. Len(z) : xyz[Len(xy) + j] = z[j]
      <3>1. xy \in Seq(Bytes) /\ z \in Seq(Bytes)
        BY <1>2, <1>4
      <3> QED
        BY <3>1, ConcatParts DEF xyz
    <2> QED
      BY <1>2, <1>4, <2>1
  <1>6. \A j \in 1 .. 4 : xyz[j] = x[j] /\ xyz[4 + j] = y[j]
    <2>1. \A j \in 1 .. 4 : j \in 1 .. 8 /\ 4 + j \in 1 .. 8
      BY SMT
    <2> QED
      BY <1>4, <1>5, <2>1
  <1> QED
    BY <1>3, <1>5, <1>6 DEF x, y, z, l, xy

-----------------------------------------------------------------------------
(* Frames. *)

\* copy fills what it is given.
LEMMA CopyIntoIs ==
    ASSUME NEW n \in Nat, NEW s \in Seq(Int)
    PROVE  CopyInto(n, s) \in Seq(Int) /\ Len(CopyInto(n, s)) = n
  <1>1. \A i \in 1 .. n : (IF i <= Len(s) THEN s[i] ELSE 0) \in Int
    BY LenProperties, ElementOfSeq, SMT
  <1>2. CopyInto(n, s) = [i \in 1 .. n |-> IF i <= Len(s) THEN s[i] ELSE 0]
    BY DEF CopyInto
  <1> QED
    BY <1>1, <1>2, SMT

\* What is behind a length is the id and what is carried.
LEMMA WiredIs ==
    ASSUME NEW m \in [ID : 0 .. 10, Payload : Seq(Int)]
    PROVE  /\ Carried(m) \in Seq(Int)
           /\ Wired(m) \in Seq(Int) /\ Len(Wired(m)) \in Nat
           /\ Wired(m) = <<>> <=> m.ID = KepAlive
           /\ m.ID # KepAlive => /\ Wired(m) = <<m.ID>> \o Carried(m)
                                 /\ Len(Wired(m)) = 1 + Len(Carried(m))
                                 /\ Wired(m)[1] = m.ID
                                 /\ Tail(Wired(m)) = Carried(m)
  <1>1. Carried(m) \in Seq(Int)
    BY CopyIntoIs DEF Carried
  <1>2. /\ <<m.ID>> \in Seq(Int) /\ Len(<<m.ID>>) = 1 /\ <<m.ID>>[1] = m.ID
    BY SMT
  <1>3. /\ <<m.ID>> \o Carried(m) \in Seq(Int)
        /\ Len(<<m.ID>> \o Carried(m)) = 1 + Len(Carried(m))
        /\ \A j \in 1 .. 1 + Len(Carried(m)) :
              (<<m.ID>> \o Carried(m))[j] = IF j <= 1 THEN <<m.ID>>[j] ELSE Carried(m)[j - 1]
    BY <1>1, <1>2, ConcatProperties, Zenon
  <1> DEFINE w == <<m.ID>> \o Carried(m)
             c == Carried(m)
  <1>4. Len(c) \in Nat /\ Len(w) \in Nat /\ w # <<>> /\ w[1] = m.ID
    BY <1>1, <1>2, <1>3, LenProperties, EmptySeq, SMT
  <1>5. Tail(w) = c
    <2>1. /\ Tail(w) \in Seq(Int) /\ Len(Tail(w)) = Len(w) - 1
          /\ \A j \in 1 .. Len(Tail(w)) : Tail(w)[j] = w[j + 1]
      BY <1>3, <1>4, HeadTailProperties
    <2> HIDE DEF w, c
    <2>2. Len(Tail(w)) = Len(c) /\ \A j \in 1 .. Len(c) : w[j + 1] = c[j]
      BY <1>3, <1>4, <2>1, SMT DEF w, c
    <2> QED
      BY <1>1, <2>1, <2>2, SeqEqual DEF c
  <1>6. <<>> \in Seq(Int) /\ Len(<<>>) = 0
    BY EmptySeq
  <1> QED
    BY <1>1, <1>3, <1>4, <1>5, <1>6 DEF Wired, w, c

\* A frame: four bytes of length, and what the length counts.
LEMMA CodeIs ==
    ASSUME NEW m \in [ID : 0 .. 10, Payload : Seq(Int)], FitsUint32(Len(Wired(m)))
    PROVE  /\ Code(m) \in Seq(Int)
           /\ Len(Code(m)) = 4 + Len(Wired(m))
           /\ \A j \in 1 .. 4 : Code(m)[j] = PutUint32(Len(Wired(m)))[j]
           /\ \A j \in 1 .. Len(Wired(m)) : Code(m)[4 + j] = Wired(m)[j]
  <1> DEFINE w == Wired(m)
             x == PutUint32(Len(w))
  <1>1. w \in Seq(Int) /\ Len(w) \in Nat
    BY WiredIs
  <1>2. x \in Seq(Bytes) /\ Len(x) = 4
    BY Uint32Bytes
  <1>3. x \in Seq(Int)
    <2>1. Bytes \subseteq Int
      BY SMT DEF Bytes
    <2> QED
      BY <1>2, <2>1, SeqMonotonic
  <1>4. Code(m) = x \o w
    BY DEF Code
  <1> HIDE DEF w, x
  <1>5. /\ x \o w \in Seq(Int) /\ Len(x \o w) = 4 + Len(w)
        /\ \A j \in 1 .. 4 : (x \o w)[j] = x[j]
        /\ \A j \in 1 .. Len(w) : (x \o w)[4 + j] = w[j]
    <2>1. /\ x \o w \in Seq(Int) /\ Len(x \o w) = Len(x) + Len(w)
          /\ \A j \in 1 .. Len(x) : (x \o w)[j] = x[j]
          /\ \A j \in 1 .. Len(w) : (x \o w)[Len(x) + j] = w[j]
      BY <1>1, <1>3, ConcatParts
    <2> QED
      BY <1>2, <2>1
  <1> QED
    BY <1>4, <1>5 DEF w, x

\* It does not matter which two of three parts are put together first.
LEMMA NumbersAssociate ==
    ASSUME NEW s \in Seq(Int), NEW t \in Seq(Int), NEW u \in Seq(Int)
    PROVE  s \o t \o u = s \o (t \o u)
  BY ConcatAssociative

\* The cases of Marshall, one by one.
LEMMA MarshallCases ==
    ASSUME NEW m
    PROVE  /\ m.ID \in {Choke, Unchoke, Interested} => Marshall(m) = <<>>
           /\ m.ID = Uninterested => Marshall(m) = PutUint32(1) \o <<m.ID>>
           /\ m.ID \in {BitField, Piece} =>
                 Marshall(m) = PutUint32(Len(m.Payload) + 1) \o <<m.ID>> \o m.Payload
           /\ m.ID \in {RequestId, Cancel} =>
                 Marshall(m) = PutUint32(13) \o <<m.ID>> \o CopyInto(12, m.Payload)
           /\ m.ID = Port => Marshall(m) = PutUint32(3) \o <<m.ID>> \o CopyInto(2, m.Payload)
           /\ m.ID = KepAlive => Marshall(m) = Zeros(4)
           /\ m.ID = Have /\ Len(m.Payload) # 4 => Marshall(m) = <<>>
  <1>1. CASE m.ID \in {Choke, Unchoke, Interested}
    <2>1. /\ m.ID # Uninterested
          /\ m.ID # Have
          /\ m.ID \notin {BitField, Piece}
          /\ m.ID \notin {RequestId, Cancel}
          /\ m.ID # Port
          /\ m.ID # KepAlive
      BY <1>1, SMT DEF Choke, Unchoke, Interested, Uninterested, Have, BitField, RequestId, Piece, Cancel,
                       Port, KepAlive
    <2> QED
      BY <1>1, <2>1, Zenon DEF Marshall
  <1>2. CASE m.ID = Uninterested
    <2>1. /\ m.ID \notin {Choke, Unchoke, Interested}
          /\ m.ID # Have
          /\ m.ID \notin {BitField, Piece}
          /\ m.ID \notin {RequestId, Cancel}
          /\ m.ID # Port
          /\ m.ID # KepAlive
      BY <1>2, SMT DEF Choke, Unchoke, Interested, Uninterested, Have, BitField, RequestId, Piece, Cancel,
                       Port, KepAlive
    <2> QED
      BY <1>2, <2>1, Zenon DEF Marshall
  <1>3. CASE m.ID = Have
    <2>1. /\ m.ID \notin {Choke, Unchoke, Interested}
          /\ m.ID # Uninterested
          /\ m.ID \notin {BitField, Piece}
          /\ m.ID \notin {RequestId, Cancel}
          /\ m.ID # Port
          /\ m.ID # KepAlive
      BY <1>3, SMT DEF Choke, Unchoke, Interested, Uninterested, Have, BitField, RequestId, Piece, Cancel,
                       Port, KepAlive
    <2> QED
      BY <1>3, <2>1, Zenon DEF Marshall
  <1>4. CASE m.ID \in {BitField, Piece}
    <2>1. /\ m.ID \notin {Choke, Unchoke, Interested}
          /\ m.ID # Uninterested
          /\ m.ID # Have
          /\ m.ID \notin {RequestId, Cancel}
          /\ m.ID # Port
          /\ m.ID # KepAlive
      BY <1>4, SMT DEF Choke, Unchoke, Interested, Uninterested, Have, BitField, RequestId, Piece, Cancel,
                       Port, KepAlive
    <2> QED
      BY <1>4, <2>1, Zenon DEF Marshall
  <1>5. CASE m.ID \in {RequestId, Cancel}
    <2>1. /\ m.ID \notin {Choke, Unchoke, Interested}
          /\ m.ID # Uninterested
          /\ m.ID # Have
          /\ m.ID \notin {BitField, Piece}
          /\ m.ID # Port
          /\ m.ID # KepAlive
      BY <1>5, SMT DEF Choke, Unchoke, Interested, Uninterested, Have, BitField, RequestId, Piece, Cancel,
                       Port, KepAlive
    <2> QED
      BY <1>5, <2>1, Zenon DEF Marshall
  <1>6. CASE m.ID = Port
    <2>1. /\ m.ID \notin {Choke, Unchoke, Interested}
          /\ m.ID # Uninterested
          /\ m.ID # Have
          /\ m.ID \notin {BitField, Piece}
          /\ m.ID \notin {RequestId, Cancel}
          /\ m.ID # KepAlive
      BY <1>6, SMT DEF Choke, Unchoke, Interested, Uninterested, Have, BitField, RequestId, Piece, Cancel,
                       Port, KepAlive
    <2> QED
      BY <1>6, <2>1, Zenon DEF Marshall
  <1>7. CASE m.ID = KepAlive
    <2>1. /\ m.ID \notin {Choke, Unchoke, Interested}
          /\ m.ID # Uninterested
          /\ m.ID # Have
          /\ m.ID \notin {BitField, Piece}
          /\ m.ID \notin {RequestId, Cancel}
          /\ m.ID # Port
      BY <1>7, SMT DEF Choke, Unchoke, Interested, Uninterested, Have, BitField, RequestId, Piece, Cancel,
                       Port, KepAlive
    <2> QED
      BY <1>7, <2>1, Zenon DEF Marshall
  <1> QED
    BY <1>1, <1>2, <1>3, <1>4, <1>5, <1>6, <1>7, Zenon

\* Marshall writes a message that it writes at all as one frame, with the length
\* of what is carried.  A Have with a payload, which nobody gives it, is not one.
LEMMA MarshallIsCode ==
    ASSUME NEW m \in [ID : 0 .. 10, Payload : Seq(Int)], m.ID # Have,
           FitsUint32(Len(Wired(m))),
           m.ID \in {Uninterested, KepAlive} => m.Payload = <<>>,
           Marshall(m) # <<>>
    PROVE  Marshall(m) = Code(m)
  <1> DEFINE c == Carried(m)
             id == <<m.ID>>
  <1>1. /\ c \in Seq(Int) /\ Len(c) \in Nat
        /\ m.ID # KepAlive => Wired(m) = id \o c /\ Len(Wired(m)) = 1 + Len(c)
    BY WiredIs, LenProperties
  <1>2. id \in Seq(Int)
    BY SMT
  <1>3. ASSUME NEW n, FitsUint32(n)
        PROVE  PutUint32(n) \o id \o c = PutUint32(n) \o (id \o c)
    <2>1. Bytes \subseteq Int
      BY SMT DEF Bytes
    <2>2. PutUint32(n) \in Seq(Int)
      BY <1>3, <2>1, SeqMonotonic, Uint32Bytes
    <2>3. id \in Seq(Int) /\ c \in Seq(Int)
      BY <1>1, <1>2
    <2> HIDE DEF c, id
    <2> QED
      BY <2>2, <2>3, NumbersAssociate
  <1>4. ASSUME m.ID # KepAlive, Marshall(m) = PutUint32(1 + Len(c)) \o id \o c
        PROVE  Marshall(m) = Code(m)
    <2>1. 1 + Len(c) = Len(Wired(m)) /\ Wired(m) = id \o c
      BY <1>1, <1>4
    <2> HIDE DEF c, id
    <2>2. PutUint32(Len(Wired(m))) \o id \o c = PutUint32(Len(Wired(m))) \o (id \o c)
      BY <1>3
    <2> QED
      BY <1>4, <2>1, <2>2 DEF Code
  <1>5. CASE m.ID = Uninterested
    <2>1. c = <<>> /\ Len(c) = 0
      BY <1>5, EmptySeq DEF Carried, Choke, Unchoke, Interested, Uninterested, Have, BitField, RequestId, Piece, Cancel, Port, KepAlive
    <2>2. Marshall(m) = PutUint32(1) \o id
      BY <1>5, MarshallCases
    <2>3. Len(Wired(m)) = 1 /\ Wired(m) = id
      <3>1. Wired(m) = id \o c /\ Len(Wired(m)) = 1 + Len(c)
        BY <1>1, <1>5, SMT DEF Uninterested, KepAlive
      <3>2. id \o <<>> = id
        BY <1>2, ConcatEmptySeq
      <3> HIDE DEF c, id
      <3> QED
        BY <2>1, <3>1, <3>2, SMT
    <2> QED
      BY <2>2, <2>3 DEF Code
  <1>6. CASE m.ID \in {BitField, Piece}
    <2>1. c = m.Payload
      BY <1>6 DEF Carried, Choke, Unchoke, Interested, Uninterested, Have, BitField, RequestId, Piece, Cancel, Port, KepAlive
    <2>2. Marshall(m) = PutUint32(Len(m.Payload) + 1) \o id \o m.Payload
      BY <1>6, MarshallCases
    <2>3. m.ID # KepAlive
      BY <1>6 DEF Choke, Unchoke, Interested, Uninterested, Have, BitField, RequestId, Piece, Cancel, Port, KepAlive
    <2> HIDE DEF c, id
    <2>4. Len(c) + 1 = 1 + Len(c)
      BY <1>1, SMT
    <2> QED
      BY <1>4, <2>1, <2>2, <2>3, <2>4
  <1>7. CASE m.ID \in {RequestId, Cancel}
    <2>1. c = CopyInto(12, m.Payload)
      BY <1>7 DEF Carried, Choke, Unchoke, Interested, Uninterested, Have, BitField, RequestId, Piece, Cancel, Port, KepAlive
    <2>2. Marshall(m) = PutUint32(13) \o id \o c
      BY <1>7, <2>1, MarshallCases
    <2>3. Len(c) = 12
      BY <2>1, CopyIntoIs
    <2>4. 13 = 1 + Len(c)
      BY <2>3, SMT
    <2>5. m.ID # KepAlive
      BY <1>7 DEF Choke, Unchoke, Interested, Uninterested, Have, BitField, RequestId, Piece, Cancel, Port, KepAlive
    <2> HIDE DEF c, id
    <2> QED
      BY <1>4, <2>2, <2>4, <2>5
  <1>8. CASE m.ID = Port
    <2>1. c = CopyInto(2, m.Payload)
      BY <1>8 DEF Carried, Choke, Unchoke, Interested, Uninterested, Have, BitField, RequestId, Piece, Cancel, Port, KepAlive
    <2>2. Marshall(m) = PutUint32(3) \o id \o c
      BY <1>8, <2>1, MarshallCases
    <2>3. Len(c) = 2
      BY <2>1, CopyIntoIs
    <2>4. 3 = 1 + Len(c)
      BY <2>3, SMT
    <2>5. m.ID # KepAlive
      BY <1>8 DEF Choke, Unchoke, Interested, Uninterested, Have, BitField, RequestId, Piece, Cancel, Port, KepAlive
    <2> HIDE DEF c, id
    <2> QED
      BY <1>4, <2>2, <2>4, <2>5
  <1>9. CASE m.ID = KepAlive
    <2>1. Marshall(m) = Zeros(4)
      BY <1>9, MarshallCases
    <2>2. Wired(m) = <<>> /\ Len(Wired(m)) = 0
      BY <1>9, EmptySeq DEF Wired
    <2>3. PutUint32(0) = <<0, 0, 0, 0>>
      BY SMT DEF PutUint32
    <2>4. Zeros(4) = <<0, 0, 0, 0>>
      BY SMT DEF Zeros
    <2>5. <<0, 0, 0, 0>> \in Seq(Int)
      BY SMT
    <2>6. <<0, 0, 0, 0>> \o <<>> = <<0, 0, 0, 0>>
      BY <2>5, ConcatEmptySeq
    <2> QED
      BY <2>1, <2>2, <2>3, <2>4, <2>6 DEF Code
  <1>10. CASE m.ID \in {Choke, Unchoke, Interested}
    BY <1>10, MarshallCases
  <1> QED
    BY <1>5, <1>6, <1>7, <1>8, <1>9, <1>10, SMT
    DEF Choke, Unchoke, Interested, Uninterested, Have, BitField, RequestId, Piece, Cancel, Port, KepAlive

\* The length of a message is one more than that of what it carries.
LEMMA WiredLength ==
    ASSUME NEW m \in [ID : 0 .. 10, Payload : Seq(Int)], m.ID # KepAlive, NEW n, Len(Carried(m)) = n
    PROVE  Len(Wired(m)) = 1 + n
  BY WiredIs

\* The lengths of the messages fit into four bytes.
LEMMA LengthsFit ==
    /\ \A n \in 0 .. 13 : FitsUint32(n)
    /\ FitsUint32(1 + Len(FieldOf(Shares)))
  <1> DEFINE n == (NumPieces + 7) \div 8
  <1>1. \A k \in 0 .. 13 : FitsUint32(k)
    BY SMT DEF FitsUint32
  <1>2. FitsUint32(NumPieces) /\ NumPieces \in Nat
    BY WireAssumption DEF FitsUint32
  <1>3. Len(FieldOf(Shares)) = n
    BY FieldHas
  <1>4. CASE NumPieces < 2
    <2>1. 1 + n \in 0 .. 13
      BY <1>2, <1>4, SMT
    <2> QED
      BY <1>1, <1>3, <2>1
  <1>5. CASE NumPieces >= 2
    <2>1. 1 + n \in Nat /\ 1 + n <= NumPieces
      BY <1>2, <1>5, SMT
    <2>2. FitsUint32(1 + n)
      BY <1>2, <2>1, SmallerFits
    <2> QED
      BY <1>1, <1>3, <2>2
  <1> QED
    BY <1>2, <1>4, <1>5, SMT

\* Bytes are numbers.
LEMMA BytesAreNumbers ==
    ASSUME NEW s \in Seq(Bytes)
    PROVE  s \in Seq(Int)
  <1>1. Bytes \subseteq Int
    BY SMT DEF Bytes
  <1> QED
    BY <1>1, SeqMonotonic

\* There is a first piece with a first block.
LEMMA FirstBlock == 0 \in Pieces /\ 0 \in BlocksOf(0)
  <1>1. 0 \in Pieces
    <2> DEFINE a == Size + InfoPieceLen - 1
               q == a \div InfoPieceLen
    <2>1. Size \in Nat \ {0} /\ InfoPieceLen \in Nat \ {0} /\ a \in Nat
      BY GeometryAssumption, SMT
    <2>2. q \in Nat /\ a % InfoPieceLen \in 0 .. InfoPieceLen - 1 /\ a = InfoPieceLen * q + (a % InfoPieceLen)
      BY <2>1, DivMod
    <2>3. q # 0
      BY <2>1, <2>2, SMT
    <2> QED
      BY <2>2, <2>3, SMT DEF Pieces, NumPieces
  <1>2. 0 \in BlocksOf(0)
    <2> DEFINE p == PieceLen(0)
               q == p \div BLOCK_LEN
               r == p % BLOCK_LEN
    <2>1. p \in Nat \ {0} /\ BLOCK_LEN \in Nat \ {0}
      BY <1>1, PieceLenPositive, GeometryAssumption
    <2>2. q \in Nat /\ r \in 0 .. BLOCK_LEN - 1 /\ p = BLOCK_LEN * q + r
      BY <2>1, DivMod
    <2>3. BlocksOf(0) = 0 .. (IF r > 0 THEN q + 1 ELSE q) - 1
      BY DEF BlocksOf, NumBlocksInPiece
    <2> HIDE DEF p, q, r
    <2>4. r > 0 \/ q > 0
      BY <2>1, <2>2, SMT
    <2> QED
      BY <2>1, <2>2, <2>3, <2>4, SMT
  <1> QED
    BY <1>1, <1>2

\* The payloads of a request, a cancel and NewPieceMMsg's message.
LEMMA IblIs == Ibl(0, 0) \in Seq(Int) /\ NewPieceMMsg(0, 0).Payload \in Seq(Int)
  <1> DEFINE x == PutUint32(0)
             y == PutUint32(0 * BLOCK_LEN)
             l == BlockLen(0, 0)
             z == PutUint32(l)
             o == Zeros(l)
             blk == BlockBytes(0, 0)
             all == x \o y \o o
  <1>1. FitsUint32(0) /\ FitsUint32(0 * BLOCK_LEN) /\ l \in Nat /\ FitsUint32(l)
    BY FirstBlock, BlockFacts
  <1>2. x \in Seq(Int) /\ y \in Seq(Int) /\ z \in Seq(Int) /\ blk \in Seq(Int)
    BY <1>1, Uint32Bytes, BytesAreNumbers, FirstBlock, BlockBytesIs
  <1>3. o \in Seq(Int)
    <2> HIDE DEF l
    <2>1. o = [i \in 1 .. l |-> 0]
      BY DEF Zeros
    <2> QED
      BY <1>1, <2>1, SMT
  <1>4. Ibl(0, 0) = x \o y \o z
    BY DEF Ibl
  <1>5. NewPieceMMsg(0, 0).Payload = [j \in DOMAIN all |-> IF j <= Len(blk) THEN blk[j] ELSE all[j]]
    BY DEF NewPieceMMsg
  <1> HIDE DEF x, y, z, o, blk, l
  <1>6. x \o y \in Seq(Int)
    BY <1>2, ConcatParts
  <1>7. x \o y \o z \in Seq(Int) /\ all \in Seq(Int)
    BY <1>2, <1>3, <1>6, ConcatParts
  <1> HIDE DEF all
  <1>8. [j \in DOMAIN all |-> IF j <= Len(blk) THEN blk[j] ELSE all[j]] \in Seq(Int)
    <2>1. DOMAIN all = 1 .. Len(all) /\ Len(all) \in Nat /\ Len(blk) \in Nat
      BY <1>2, <1>7, LenProperties
    <2>2. \A j \in 1 .. Len(all) : (IF j <= Len(blk) THEN blk[j] ELSE all[j]) \in Int
      BY <1>2, <1>7, <2>1, ElementOfSeq, SMT
    <2> QED
      BY <2>1, <2>2, SMT
  <1> QED
    BY <1>4, <1>5, <1>7, <1>8

\* What Marshall writes is a frame of a message as it travels.
LEMMA ConstructedOnItsWay ==
    ASSUME NEW m \in Constructed, Marshall(m) # <<>>
    PROVE  OnItsWay(m) /\ Marshall(m) = Code(m)
  <1> SUFFICES /\ m \in [ID : 0 .. 10, Payload : Seq(Int)]
               /\ FitsUint32(Len(Wired(m)))
               /\ m.ID # Have
               /\ m.ID \in {Uninterested, KepAlive} => m.Payload = <<>>
               /\ m.ID = BitField => m.Payload = FieldOf(Shares)
               /\ m.ID = Piece => \E i \in Pieces : \E k \in BlocksOf(i) : m.Payload = PiecePayload(i, k)
    BY MarshallIsCode DEF OnItsWay
  <1> USE DEF Choke, Unchoke, Interested, Uninterested, Have, BitField, RequestId, Piece, Cancel, Port, KepAlive
  <1>1. <<>> \in Seq(Int) /\ Len(<<>>) = 0
    BY EmptySeq
  <1>2. m \in {NewChoke, NewUnchoke, NewIntd, NewHave} => Marshall(m) = <<>>
    <2> SUFFICES ASSUME m \in {NewChoke, NewUnchoke, NewIntd, NewHave}
                 PROVE  Marshall(m) = <<>>
      OBVIOUS
    <2>1. m.ID \in {0, 1, 2} \/ (m.ID = 4 /\ Len(m.Payload) = 0)
      BY <1>1, SMT DEF NewChoke, NewUnchoke, NewIntd, NewHave
    <2>2. m.ID \in {0, 1, 2} \/ (m.ID = 4 /\ Len(m.Payload) # 4)
      BY <2>1, SMT
    <2> QED
      BY <2>2, MarshallCases
  <1>3. CASE m = NewUnIntd
    <2>1. m = [ID |-> 3, Payload |-> <<>>]
      BY <1>3 DEF NewUnIntd
    <2>2. m \in [ID : 0 .. 10, Payload : Seq(Int)] /\ m.ID = 3 /\ m.Payload = <<>>
      BY <1>1, <2>1, SMT
    <2>3. m.ID # KepAlive /\ Carried(m) = <<>>
      BY <2>2, SMT DEF Carried
    <2>4. Len(Wired(m)) = 1 + 0
      BY <1>1, <2>2, <2>3, WiredLength
    <2> QED
      BY <2>2, <2>4, LengthsFit, SMT
  <1>4. CASE m \in {NewRequest(0, 0), NewCancel(0, 0), NewPieceMMsg(0, 0)}
    <2>1. /\ m \in [ID : 0 .. 10, Payload : Seq(Int)] /\ m.ID \in {6, 8}
      BY <1>4, IblIs, SMT DEF NewRequest, NewCancel, NewPieceMMsg
    <2>2. Carried(m) = CopyInto(12, m.Payload)
      BY <2>1 DEF Carried
    <2>3. m.ID # KepAlive /\ m.Payload \in Seq(Int)
      BY <2>1, SMT
    <2>4. Len(Carried(m)) = 12
      BY <2>2, <2>3, CopyIntoIs
    <2>5. Len(Wired(m)) = 1 + 12
      BY <2>1, <2>3, <2>4, WiredLength
    <2> QED
      BY <2>1, <2>5, LengthsFit, SMT
  <1>5. CASE m = [ID |-> KepAlive, Payload |-> <<>>]
    <2>1. m \in [ID : 0 .. 10, Payload : Seq(Int)] /\ m.ID = 10 /\ m.Payload = <<>>
      BY <1>1, <1>5, SMT
    <2>2. Len(Wired(m)) = 0
      BY <1>1, <2>1 DEF Wired
    <2> QED
      BY <2>1, <2>2, LengthsFit, SMT
  <1>6. CASE m = [ID |-> Port, Payload |-> <<26, 225>>]
    <2>1. m \in [ID : 0 .. 10, Payload : Seq(Int)] /\ m.ID = 9
      BY <1>6, SMT
    <2>2. Carried(m) = CopyInto(2, m.Payload)
      BY <2>1 DEF Carried
    <2>3. m.ID # KepAlive /\ m.Payload \in Seq(Int)
      BY <2>1, SMT
    <2>4. Len(Carried(m)) = 2
      BY <2>2, <2>3, CopyIntoIs
    <2>5. Len(Wired(m)) = 1 + 2
      BY <2>1, <2>3, <2>4, WiredLength
    <2> QED
      BY <2>1, <2>5, LengthsFit, SMT
  <1>7. CASE m = [ID |-> BitField, Payload |-> FieldOf(Shares)]
    <2>1. FieldOf(Shares) \in Seq(Int)
      BY FieldHas, BytesAreNumbers
    <2>2. m \in [ID : 0 .. 10, Payload : Seq(Int)] /\ m.ID = 5 /\ m.Payload = FieldOf(Shares)
      BY <1>7, <2>1, SMT
    <2>3. Carried(m) = FieldOf(Shares)
      BY <2>2 DEF Carried
    <2>4. Len(Wired(m)) = 1 + Len(FieldOf(Shares))
      <3>1. m.ID # KepAlive
        BY <2>2, SMT
      <3> QED
        BY <2>2, <2>3, <3>1, WiredLength
    <2> QED
      BY <2>2, <2>4, LengthsFit, SMT
  <1>8. ASSUME NEW i \in Pieces, NEW k \in BlocksOf(i), m = [ID |-> Piece, Payload |-> PiecePayload(i, k)]
        PROVE  /\ m \in [ID : 0 .. 10, Payload : Seq(Int)]
               /\ FitsUint32(Len(Wired(m)))
               /\ m.ID = 7 /\ m.Payload = PiecePayload(i, k)
    <2>1. PiecePayload(i, k) \in Seq(Int) /\ Len(PiecePayload(i, k)) = 8 + BlockLen(i, k)
      BY PiecePayloadIs, BytesAreNumbers
    <2>2. m \in [ID : 0 .. 10, Payload : Seq(Int)] /\ m.ID = 7 /\ m.Payload = PiecePayload(i, k)
      BY <1>8, <2>1, SMT
    <2>3. Carried(m) = PiecePayload(i, k)
      BY <2>2 DEF Carried
    <2>4. Len(Wired(m)) = 1 + (8 + BlockLen(i, k))
      <3>1. m.ID # KepAlive
        BY <2>2, SMT
      <3> QED
        BY <2>1, <2>2, <2>3, <3>1, WiredLength
    <2>5. BlockLen(i, k) \in Nat \ {0} /\ FitsUint32(9 + BlockLen(i, k))
      BY BlockFacts
    <2>6. 1 + (8 + BlockLen(i, k)) = 9 + BlockLen(i, k)
      BY <2>5, SMT
    <2> QED
      BY <2>2, <2>4, <2>5, <2>6
  <1>9. CASE \E i \in Pieces : \E k \in BlocksOf(i) : m = [ID |-> Piece, Payload |-> PiecePayload(i, k)]
    BY <1>8, <1>9, SMT
  <1>10. \/ m \in {NewChoke, NewUnchoke, NewIntd, NewHave} \/ m = NewUnIntd
         \/ m \in {NewRequest(0, 0), NewCancel(0, 0), NewPieceMMsg(0, 0)}
         \/ m = [ID |-> KepAlive, Payload |-> <<>>] \/ m = [ID |-> Port, Payload |-> <<26, 225>>]
         \/ m = [ID |-> BitField, Payload |-> FieldOf(Shares)]
         \/ \E i \in Pieces : \E k \in BlocksOf(i) : m = [ID |-> Piece, Payload |-> PiecePayload(i, k)]
    BY DEF Constructed, PiecePayload
  <1> QED
    BY <1>2, <1>3, <1>4, <1>5, <1>6, <1>7, <1>9, <1>10

\* So is what other clients write.
LEMMA ForeignOnItsWay ==
    ASSUME NEW m \in Foreign
    PROVE  OnItsWay(m) /\ Frame(m) = Code(m)
  <1>1. /\ m \in [ID : 0 .. 10, Payload : Seq(Int)] /\ m.ID \in {Choke, Have} /\ Len(m.Payload) \in {0, 4}
        /\ m.ID = Have => \E i \in HavePieces : m.Payload = PutUint32(i)
    <2>1. CASE m = NewChoke
      BY <2>1, EmptySeq, SMT DEF NewChoke, Choke, Have
    <2>2. ASSUME NEW i \in HavePieces, m = [ID |-> Have, Payload |-> PutUint32(i)]
          PROVE  /\ m \in [ID : 0 .. 10, Payload : Seq(Int)] /\ m.ID = Have /\ Len(m.Payload) = 4
                 /\ m.Payload = PutUint32(i)
      <3>1. PutUint32(i) \in Seq(Int) /\ Len(PutUint32(i)) = 4
        BY WireAssumption, Uint32Bytes, BytesAreNumbers
      <3> QED
        BY <2>2, <3>1, SMT DEF Have
    <2> QED
      BY <2>1, <2>2 DEF Foreign
  <1>2. m.ID # KepAlive /\ m.ID # BitField /\ m.ID # Piece /\ m.ID \notin {RequestId, Cancel} /\ m.ID # Port
    BY <1>1, SMT DEF Choke, Have, BitField, Piece, RequestId, Cancel, Port, KepAlive
  <1>3. Carried(m) = m.Payload
    BY <1>2, Zenon DEF Carried
  <1>4. /\ Wired(m) = <<m.ID>> \o m.Payload /\ Len(Wired(m)) = 1 + Len(m.Payload)
    BY <1>1, <1>2, <1>3, WiredIs
  <1>5. FitsUint32(Len(Wired(m)))
    <2> DEFINE l == Len(m.Payload)
    <2>1. l \in {0, 4} /\ Len(Wired(m)) = 1 + l
      BY <1>1, <1>4
    <2> HIDE DEF l
    <2>2. Len(Wired(m)) \in 0 .. 13
      BY <2>1, SMT
    <2> QED
      BY <2>2, LengthsFit
  <1>6. Frame(m) = Code(m)
    <2> DEFINE n == Len(Wired(m))
    <2>1. <<m.ID>> \in Seq(Int) /\ m.Payload \in Seq(Int)
      BY <1>1, SMT
    <2>2. PutUint32(n) \in Seq(Int)
      BY <1>5, Uint32Bytes, BytesAreNumbers
    <2>3. Len(m.Payload) + 1 = n
      BY <1>1, <1>4, SMT
    <2> HIDE DEF n
    <2>4. Frame(m) = PutUint32(n) \o <<m.ID>> \o m.Payload
      BY <2>3 DEF Frame
    <2>5. PutUint32(n) \o <<m.ID>> \o m.Payload = PutUint32(n) \o (<<m.ID>> \o m.Payload)
      BY <2>1, <2>2, NumbersAssociate
    <2> QED
      BY <1>4, <2>4, <2>5 DEF Code, n
  <1> QED
    BY <1>1, <1>2, <1>5, <1>6 DEF OnItsWay

Travelling == {m \in [ID : 0 .. 10, Payload : Seq(Int)] : OnItsWay(m)}

\* The bytes on the way are those of the messages on the way: the frame of the
\* k-th message of p begins behind byte at[k] of s, less four if its length has
\* been read (then w is not zero), and if the connection has not been cut nothing
\* is missing at the end.
Before(w) == IF w = 0 THEN 0 ELSE -4

Aligned(at, p, s, w, broken) ==
    /\ at \in [1 .. Len(p) + 1 -> Int]
    /\ at[1] = Before(w)
    /\ \A k \in 1 .. Len(p) :
         /\ at[k + 1] = at[k] + Len(Code(p[k]))
         /\ at[k + 1] <= at[Len(p) + 1]
         /\ \A j \in 1 .. Len(Code(p[k])) :
              at[k] + j \in 1 .. Len(s) => s[at[k] + j] = Code(p[k])[j]
    /\ Len(s) <= at[Len(p) + 1]
    /\ ~broken => Len(s) = at[Len(p) + 1]

\* A frame is put behind the others.
LEMMA AlignedPut ==
    ASSUME NEW p \in Seq(Travelling), NEW s \in Seq(Int), NEW w, NEW at, Aligned(at, p, s, w, FALSE),
           NEW m \in Travelling
    PROVE  \E to : Aligned(to, Append(p, m), s \o Code(m), w, FALSE)
  <1> DEFINE n == Len(p)
             c == Code(m)
             q == Append(p, m)
             t == s \o c
             to == [k \in 1 .. n + 2 |-> IF k <= n + 1 THEN at[k] ELSE at[n + 1] + Len(c)]
  <1>1. n \in Nat /\ Len(q) = n + 1 /\ (\A k \in 1 .. n : q[k] = p[k]) /\ q[n + 1] = m
    BY AppendProperties, LenProperties
  <1>2. c \in Seq(Int)
    BY CodeIs DEF Travelling, OnItsWay
  <1>3. /\ Len(t) = Len(s) + Len(c) /\ Len(s) \in Nat /\ Len(c) \in Nat
        /\ \A j \in 1 .. Len(s) : t[j] = s[j]
        /\ \A j \in 1 .. Len(c) : t[Len(s) + j] = c[j]
    BY <1>2, ConcatParts
  <1>4. /\ at \in [1 .. n + 1 -> Int]
        /\ at[1] = Before(w)
        /\ Len(s) = at[n + 1]
        /\ \A k \in 1 .. n :
             /\ at[k + 1] = at[k] + Len(Code(p[k]))
             /\ at[k + 1] <= at[n + 1]
             /\ \A j \in 1 .. Len(Code(p[k])) :
                  at[k] + j \in 1 .. Len(s) => s[at[k] + j] = Code(p[k])[j]
    BY DEF Aligned
  <1> HIDE DEF n, c, q, t
  <1>5. /\ to \in [1 .. n + 2 -> Int]
        /\ \A k \in 1 .. n + 1 : to[k] = at[k]
        /\ to[n + 2] = at[n + 1] + Len(c)
    BY <1>1, <1>3, <1>4, SMT
  <1> HIDE DEF to
  <1>6. to[1] = Before(w)
    BY <1>1, <1>4, <1>5, SMT
  <1>7. Len(t) = to[n + 2]
    BY <1>3, <1>4, <1>5
  <1>8. ASSUME NEW k \in 1 .. n + 1
        PROVE  /\ to[k + 1] = to[k] + Len(Code(q[k]))
               /\ to[k + 1] <= to[n + 2]
               /\ \A j \in 1 .. Len(Code(q[k])) :
                    to[k] + j \in 1 .. Len(t) => t[to[k] + j] = Code(q[k])[j]
    <2>1. CASE k = n + 1
      <3>1. q[k] = m /\ to[k] = Len(s) /\ to[k + 1] = Len(s) + Len(c)
        <4>1. n + 1 + 1 = n + 2 /\ n + 1 \in 1 .. n + 1
          BY <1>1, SMT
        <4>2. to[n + 1] = at[n + 1] /\ to[n + 1 + 1] = at[n + 1] + Len(c)
          BY <1>5, <4>1
        <4>3. q[k] = m /\ to[k] = to[n + 1] /\ to[k + 1] = to[n + 1 + 1]
          BY <1>1, <2>1
        <4> QED
          BY <1>4, <4>2, <4>3
      <3>2. to[k + 1] <= to[n + 2]
        BY <1>1, <1>3, <1>4, <1>5, <3>1, SMT
      <3> QED
        BY <1>3, <3>1, <3>2 DEF c
    <2>2. CASE k \in 1 .. n
      <3> DEFINE d == Code(p[k])
      <3>1. q[k] = p[k] /\ to[k] = at[k] /\ to[k + 1] = at[k + 1] /\ at[k] \in Int /\ at[k + 1] \in Int
        <4>1. k \in 1 .. n + 1 /\ k + 1 \in 1 .. n + 1
          BY <1>1, <2>2, SMT
        <4>2. at[k] \in Int /\ at[k + 1] \in Int
          BY <1>4, <4>1
        <4> QED
          BY <1>1, <1>5, <2>2, <4>1, <4>2
      <3>2. at[k + 1] = at[k] + Len(d) /\ at[k + 1] <= Len(s)
        BY <1>4, <2>2
      <3>3. \A j \in 1 .. Len(d) : at[k] + j \in 1 .. Len(s) => s[at[k] + j] = d[j]
        BY <1>4, <2>2
      <3>4. Len(d) \in Nat
        <4>1. p[k] \in Travelling
          BY <2>2, ElementOfSeq DEF n
        <4>2. Code(p[k]) \in Seq(Int)
          BY <4>1, CodeIs DEF Travelling, OnItsWay
        <4> QED
          BY <4>2, LenProperties
      <3> HIDE DEF d
      <3>5. ASSUME NEW j \in 1 .. Len(d), at[k] + j \in 1 .. Len(t)
            PROVE  t[at[k] + j] = d[j]
        <4>1. at[k] + j \in 1 .. Len(s)
          BY <1>3, <3>1, <3>2, <3>4, <3>5, SMT
        <4> QED
          BY <1>3, <3>3, <4>1
      <3>6. at[k + 1] <= to[n + 2]
        BY <1>3, <1>4, <1>5, <3>1, <3>2, SMT
      <3> QED
        BY <3>1, <3>2, <3>5, <3>6 DEF d
    <2> QED
      BY <1>1, <2>1, <2>2, SMT
  <1>9. Len(q) + 1 = n + 2
    BY <1>1, SMT
  <1>10. Aligned(to, q, t, w, FALSE)
    <2>1. to[Len(q) + 1] = to[n + 2] /\ to \in [1 .. Len(q) + 1 -> Int] /\ 1 .. Len(q) = 1 .. n + 1
      BY <1>1, <1>5, <1>9
    <2>2. Len(t) <= to[n + 2]
      BY <1>3, <1>7, SMT
    <2> QED
      BY <1>6, <1>7, <1>8, <2>1, <2>2, Zenon DEF Aligned
  <1> QED
    BY <1>10 DEF q, t, c

\* A break takes bytes off the end.
LEMMA AlignedBreak ==
    ASSUME NEW p \in Seq(Travelling), NEW s \in Seq(Int), NEW w, NEW at, NEW broken, Aligned(at, p, s, w, broken),
           NEW t \in Seq(Int), Len(t) <= Len(s), \A j \in 1 .. Len(t) : t[j] = s[j]
    PROVE  Aligned(at, p, t, w, TRUE)
  <1> DEFINE n == Len(p)
  <1>1. /\ at \in [1 .. n + 1 -> Int]
        /\ at[1] = Before(w)
        /\ Len(s) <= at[n + 1]
        /\ \A k \in 1 .. n :
             /\ at[k + 1] = at[k] + Len(Code(p[k]))
             /\ at[k + 1] <= at[n + 1]
             /\ \A j \in 1 .. Len(Code(p[k])) :
                  at[k] + j \in 1 .. Len(s) => s[at[k] + j] = Code(p[k])[j]
    BY DEF Aligned
  <1>2. n \in Nat /\ Len(s) \in Nat /\ Len(t) \in Nat
    BY LenProperties
  <1> HIDE DEF n
  <1>3. at[n + 1] \in Int
    BY <1>1, <1>2, SMT
  <1>4. Len(t) <= at[n + 1]
    BY <1>1, <1>2, <1>3, SMT
  <1>5. \A j \in 1 .. Len(t) : j \in 1 .. Len(s)
    BY <1>2, SMT
  <1>6. \A k \in 1 .. n : \A j \in 1 .. Len(Code(p[k])) :
           at[k] + j \in 1 .. Len(t) => t[at[k] + j] = Code(p[k])[j]
    BY <1>1, <1>5, Zenon
  <1> QED
    BY <1>1, <1>4, <1>6, Zenon DEF Aligned, n

\* The reader takes c bytes off the front, and the first e messages with them.
Taken(p, s, q, t, e, c) ==
    /\ Len(q) = Len(p) - e
    /\ \A k \in 1 .. Len(q) : q[k] = p[k + e]
    /\ Len(t) = Len(s) - c
    /\ \A j \in 1 .. Len(t) : t[j] = s[c + j]

Starts(at, e, c, v) == at[e + 1] - c = Before(v)

Shifted(at, q, e, c) == [k \in 1 .. Len(q) + 1 |-> at[k + e] - c]

\* What is left is in step as well.
LEMMA AlignedTake ==
    ASSUME NEW p \in Seq(Travelling), NEW s \in Seq(Int), NEW w, NEW at, NEW broken,
           NEW c \in Nat, NEW e \in {0, 1}, NEW q \in Seq(Travelling), NEW t \in Seq(Int), NEW v,
           Aligned(at, p, s, w, broken), Taken(p, s, q, t, e, c), Starts(at, e, c, v)
    PROVE  Aligned(Shifted(at, q, e, c), q, t, v, broken)
  <1> DEFINE n == Len(p)
             l == Len(q)
             to == [k \in 1 .. l + 1 |-> at[k + e] - c]
  <1>1. /\ at \in [1 .. n + 1 -> Int]
        /\ Len(s) <= at[n + 1]
        /\ ~broken => Len(s) = at[n + 1]
        /\ \A k \in 1 .. n :
             /\ at[k + 1] = at[k] + Len(Code(p[k]))
             /\ at[k + 1] <= at[n + 1]
             /\ \A j \in 1 .. Len(Code(p[k])) :
                  at[k] + j \in 1 .. Len(s) => s[at[k] + j] = Code(p[k])[j]
    BY DEF Aligned
  <1>2. n \in Nat /\ l \in Nat /\ l = n - e /\ Len(s) \in Nat /\ Len(t) \in Nat
    BY LenProperties DEF Taken
  <1> HIDE DEF n, l
  <1>3. \A k \in 1 .. l + 1 : k + e \in 1 .. n + 1 /\ at[k + e] \in Int
    <2>1. \A k \in 1 .. l + 1 : k + e \in 1 .. n + 1
      BY <1>2, SMT
    <2>2. \A i \in 1 .. n + 1 : at[i] \in Int
      BY <1>1
    <2> QED
      BY <2>1, <2>2
  <1>4. /\ to \in [1 .. l + 1 -> Int]
        /\ \A k \in 1 .. l + 1 : to[k] = at[k + e] - c
    BY <1>3, SMT
  <1> HIDE DEF to
  <1>5. to[1] = Before(v)
    <2>1. to[1] = at[1 + e] - c
      BY <1>2, <1>4, SMT
    <2>2. 1 + e = e + 1
      BY SMT
    <2> QED
      BY <2>1, <2>2 DEF Starts
  <1>6. to[l + 1] = at[n + 1] - c /\ at[n + 1] \in Int
    <2>1. (l + 1) + e = n + 1 /\ l + 1 \in 1 .. l + 1
      BY <1>2, SMT
    <2> QED
      BY <1>3, <1>4, <2>1
  <1>7. Len(t) <= to[l + 1] /\ (~broken => Len(t) = to[l + 1])
    <2> DEFINE z == at[n + 1]
               ls == Len(s)
    <2>1. /\ z \in Int /\ ls \in Nat /\ to[l + 1] = z - c /\ Len(t) = ls - c
          /\ ls <= z /\ (~broken => ls = z)
      BY <1>1, <1>2, <1>6 DEF Taken
    <2> HIDE DEF z, ls
    <2>2. ls - c <= z - c
      BY <2>1, SMT
    <2>3. ~broken => ls - c = z - c
      BY <2>1
    <2> QED
      BY <2>1, <2>2, <2>3
  <1>8. ASSUME NEW k \in 1 .. l
        PROVE  /\ to[k + 1] = to[k] + Len(Code(q[k]))
               /\ to[k + 1] <= to[l + 1]
               /\ \A j \in 1 .. Len(Code(q[k])) :
                    to[k] + j \in 1 .. Len(t) => t[to[k] + j] = Code(q[k])[j]
    <2> DEFINE i == k + e
               d == Code(p[i])
    <2>1. /\ i \in 1 .. n /\ at[i] \in Int /\ at[i + 1] \in Int
          /\ to[k] = at[i] - c /\ to[k + 1] = at[i + 1] - c
      <3>1. i \in 1 .. n /\ (k + 1) + e = i + 1 /\ k \in 1 .. l + 1 /\ k + 1 \in 1 .. l + 1
        BY <1>2, SMT
      <3> QED
        BY <1>3, <1>4, <3>1
    <2>2. q[k] = p[i]
      BY DEF l, Taken
    <2>3. /\ at[i + 1] = at[i] + Len(d)
          /\ at[i + 1] <= at[n + 1]
          /\ \A j \in 1 .. Len(d) : at[i] + j \in 1 .. Len(s) => s[at[i] + j] = d[j]
      BY <1>1, <2>1
    <2>4. Len(d) \in Nat
      <3>1. p[i] \in Travelling
        BY <2>1, ElementOfSeq DEF n
      <3>2. d \in Seq(Int)
        BY <3>1, CodeIs DEF Travelling, OnItsWay
      <3> QED
        BY <3>2, LenProperties
    <2> HIDE DEF i, d
    <2>5. ASSUME NEW j \in 1 .. Len(d), to[k] + j \in 1 .. Len(t)
          PROVE  t[to[k] + j] = d[j]
      <3>1. at[i] + j \in 1 .. Len(s) /\ c + (to[k] + j) = at[i] + j
        <4> DEFINE x == at[i]
                   ls == Len(s)
                   y == to[k]
        <4>1. x \in Int /\ ls \in Nat /\ j \in Nat /\ y = x - c
          BY <1>2, <2>1, <2>4
        <4>2. y + j \in 1 .. ls - c
          BY <1>2, <2>5 DEF Taken
        <4> HIDE DEF x, y, ls
        <4>3. x + j \in 1 .. ls /\ c + (y + j) = x + j
          BY <4>1, <4>2, SMT
        <4> QED
          BY <4>3 DEF x, y, ls
      <3>2. t[to[k] + j] = s[c + (to[k] + j)]
        BY <2>5 DEF Taken
      <3> QED
        BY <2>3, <3>1, <3>2
    <2>6. to[k + 1] = to[k] + Len(d) /\ to[k + 1] <= to[l + 1]
      <3> DEFINE x == at[i]
                 y == at[i + 1]
                 z == at[n + 1]
                 ld == Len(d)
      <3>1. /\ x \in Int /\ y \in Int /\ z \in Int /\ ld \in Nat /\ y = x + ld /\ y <= z
            /\ to[k] = x - c /\ to[k + 1] = y - c /\ to[l + 1] = z - c
        BY <1>6, <2>1, <2>3, <2>4
      <3> HIDE DEF x, y, z, ld
      <3>2. y - c = (x - c) + ld /\ y - c <= z - c
        BY <3>1, SMT
      <3> QED
        BY <3>1, <3>2 DEF ld
    <2> QED
      BY <2>2, <2>5, <2>6 DEF d
  <1>9. Aligned(to, q, t, v, broken)
    BY <1>4, <1>5, <1>7, <1>8, Zenon DEF Aligned, l
  <1> QED
    BY <1>9 DEF Shifted, to, l

\* What arrives of a message is what was carried.
LEMMA ArrivesIs ==
    ASSUME NEW m \in [ID : 0 .. 10, Payload : Seq(Int)]
    PROVE  /\ Arrives(m) = [ID |-> m.ID, Payload |-> Carried(m)]
           /\ m = [ID |-> m.ID, Payload |-> m.Payload]
  <1>1. m = [ID |-> m.ID, Payload |-> m.Payload]
    BY SMT
  <1>2. \A x : [m EXCEPT !.Payload = x] = [ID |-> m.ID, Payload |-> x]
    BY <1>1, SMT
  <1>3. CASE m.ID \in {RequestId, Cancel}
    <2>1. m.ID # Port
      BY <1>3, SMT DEF RequestId, Cancel, Port
    <2>2. Arrives(m) = [m EXCEPT !.Payload = CopyInto(12, m.Payload)]
      BY <1>3, <2>1, Zenon DEF Arrives
    <2>3. Carried(m) = CopyInto(12, m.Payload)
      BY <1>3, <2>1, Zenon DEF Carried
    <2> QED
      BY <1>1, <1>2, <2>2, <2>3
  <1>4. CASE m.ID = Port
    <2>1. m.ID \notin {RequestId, Cancel}
      BY <1>4, SMT DEF RequestId, Cancel, Port
    <2>2. Arrives(m) = [m EXCEPT !.Payload = CopyInto(2, m.Payload)]
      BY <1>4, <2>1, Zenon DEF Arrives
    <2>3. Carried(m) = CopyInto(2, m.Payload)
      BY <1>4, <2>1, Zenon DEF Carried
    <2> QED
      BY <1>1, <1>2, <2>2, <2>3
  <1>5. CASE m.ID \notin {RequestId, Cancel} /\ m.ID # Port
    BY <1>1, <1>5, Zenon DEF Arrives, Carried
  <1> QED
    BY <1>1, <1>3, <1>4, <1>5

-----------------------------------------------------------------------------
(* The frames stay in step. *)

FrameInv ==
    /\ stream \in Seq(Int) /\ pending \in Seq(Travelling) /\ want \in Nat /\ cut \in BOOLEAN
    /\ \E at : Aligned(at, pending, stream, want, cut)
    /\ want > 0 => pending # <<>> /\ want = Len(Wired(pending[1]))

\* Before the first message, or behind its length, the reader finds what belongs
\* there.
LEMMA FirstFrame ==
    ASSUME FrameInv, stream # <<>>, NEW at, Aligned(at, pending, stream, want, cut)
    PROVE  LET first == pending[1]
               l     == Len(Wired(first))
           IN  /\ pending # <<>> /\ first \in Travelling /\ l \in Nat
               /\ at[1] = Before(want)
               /\ at[2] = IF want = 0 THEN 4 + l ELSE l
               /\ want = 0 => \A j \in 1 .. 4 : j <= Len(stream) => stream[j] = PutUint32(l)[j]
               /\ want # 0 => \A j \in 1 .. l : j <= Len(stream) => stream[j] = Wired(first)[j]
  <1> DEFINE n == Len(pending)
             first == pending[1]
             l == Len(Wired(first))
             ls == Len(stream)
             c == Code(first)
  <1>1. n \in Nat /\ ls \in Nat /\ ls > 0
    BY LenProperties, EmptySeq, SMT DEF FrameInv
  <1>2. pending # <<>> /\ n > 0
    <2> SUFFICES ASSUME pending = <<>>
                 PROVE  FALSE
      BY EmptySeq, SMT DEF FrameInv
    <2>1. n = 0 /\ want = 0
      BY EmptySeq, SMT DEF FrameInv
    <2>2. ls <= at[n + 1] /\ at[1] = 0
      BY <2>1 DEF Aligned, Before
    <2> QED
      BY <1>1, <2>1, <2>2, SMT
  <1>3. first \in Travelling
    BY <1>1, <1>2, ElementOfSeq, SMT DEF FrameInv
  <1>4. /\ first \in [ID : 0 .. 10, Payload : Seq(Int)] /\ FitsUint32(l)
    BY <1>3 DEF Travelling, OnItsWay
  <1>5. l \in Nat
    BY <1>4, WiredIs
  <1>6. /\ Len(c) = 4 + l
        /\ \A j \in 1 .. 4 : c[j] = PutUint32(l)[j]
        /\ \A j \in 1 .. l : c[4 + j] = Wired(first)[j]
    BY <1>4, CodeIs
  <1>7. /\ at[1] = Before(want)
        /\ at[1 + 1] = at[1] + Len(c)
        /\ \A j \in 1 .. Len(c) : at[1] + j \in 1 .. ls => stream[at[1] + j] = c[j]
    <2>1. 1 \in 1 .. n
      BY <1>1, <1>2, SMT
    <2> QED
      BY <2>1, Zenon DEF Aligned
  <1> DEFINE a == at[1]
             a2 == at[2]
  <1>8. /\ a = Before(want)
        /\ a2 = a + (4 + l)
        /\ \A j \in 1 .. 4 + l : a + j \in 1 .. ls => stream[a + j] = c[j]
    BY <1>6, <1>7, SMT
  <1> HIDE DEF a, a2, c, l, ls, first
  <1>9. a2 = IF want = 0 THEN 4 + l ELSE l
    BY <1>5, <1>8, SMT DEF Before
  <1>10. ASSUME want = 0, NEW j \in 1 .. 4, j <= ls
         PROVE  stream[j] = PutUint32(l)[j]
    <2>1. j \in 1 .. 4 + l /\ a + j = j /\ j \in 1 .. ls
      BY <1>1, <1>5, <1>8, <1>10, SMT DEF Before
    <2> QED
      BY <1>6, <1>8, <2>1
  <1>11. ASSUME want # 0, NEW j \in 1 .. l, j <= ls
         PROVE  stream[j] = Wired(first)[j]
    <2>1. 4 + j \in 1 .. 4 + l /\ a + (4 + j) = j /\ j \in 1 .. ls
      BY <1>1, <1>5, <1>8, <1>11, SMT DEF Before
    <2> QED
      BY <1>6, <1>8, <2>1
  <1> QED
    BY <1>2, <1>3, <1>5, <1>8, <1>9, <1>10, <1>11 DEF first, l, ls, a, a2

\* The length read is that of the first message.
LEMMA LengthIs ==
    ASSUME FrameInv, want = 0, Len(stream) >= 4
    PROVE  /\ stream # <<>> /\ pending # <<>> /\ pending[1] \in Travelling
           /\ Uint32(stream) = Len(Wired(pending[1]))
  <1>1. stream # <<>>
    BY EmptySeq, SMT
  <1>2. PICK at : Aligned(at, pending, stream, want, cut)
    BY DEF FrameInv
  <1> DEFINE l == Len(Wired(pending[1]))
  <1>3. /\ pending # <<>> /\ pending[1] \in Travelling
        /\ \A j \in 1 .. 4 : j <= Len(stream) => stream[j] = PutUint32(l)[j]
    BY <1>1, <1>2, FirstFrame
  <1>4. FitsUint32(l)
    BY <1>3 DEF Travelling, OnItsWay
  <1>5. Len(stream) \in Nat /\ stream \in Seq(Int)
    BY LenProperties DEF FrameInv
  <1> HIDE DEF l
  <1>6. \A j \in 1 .. 4 : stream[j] = PutUint32(l)[j]
    BY <1>3, <1>5, SMT
  <1>7. Uint32(stream) = l
    BY <1>4, <1>5, <1>6, Uint32Put
  <1> QED
    BY <1>1, <1>3, <1>7 DEF l

\* The message read is the first one, as it arrives.
LEMMA DeliveredIs ==
    ASSUME FrameInv, NEW m,
           \/ want = 0 /\ Len(stream) >= 4 /\ Uint32(stream) = 0 /\ m = [ID |-> KepAlive, Payload |-> <<>>]
           \/ want > 0 /\ Len(stream) >= want /\ m = Body(SubSeq(stream, 1, want))
    PROVE  pending # <<>> /\ pending[1] \in Travelling /\ m = Arrives(pending[1])
  <1> DEFINE first == pending[1]
             w == Wired(first)
  <1>1. CASE want = 0 /\ Len(stream) >= 4 /\ Uint32(stream) = 0 /\ m = [ID |-> KepAlive, Payload |-> <<>>]
    <2>1. pending # <<>> /\ first \in Travelling /\ Len(w) = 0
      BY <1>1, LengthIs
    <2>2. first \in [ID : 0 .. 10, Payload : Seq(Int)] /\ (first.ID = KepAlive => first.Payload = <<>>)
      BY <2>1 DEF Travelling, OnItsWay
    <2>3. w \in Seq(Int) /\ (w = <<>> <=> first.ID = KepAlive)
      BY <2>2, WiredIs
    <2>4. w = <<>>
      BY <2>1, <2>3, EmptySeq, SMT
    <2>5. first.ID = KepAlive /\ first.Payload = <<>>
      BY <2>2, <2>3, <2>4
    <2>6. Carried(first) = <<>>
      <3>1. first.ID \notin {RequestId, Cancel} /\ first.ID # Port
        BY <2>5, SMT DEF RequestId, Cancel, Port, KepAlive
      <3> QED
        BY <2>5, <3>1, Zenon DEF Carried
    <2>7. Arrives(first) = [ID |-> first.ID, Payload |-> Carried(first)]
      BY <2>2, ArrivesIs
    <2> QED
      BY <1>1, <2>1, <2>5, <2>6, <2>7
  <1>2. CASE want > 0 /\ Len(stream) >= want /\ m = Body(SubSeq(stream, 1, want))
    <2> DEFINE s == SubSeq(stream, 1, want)
    <2>1. stream \in Seq(Int) /\ want \in Nat /\ Len(stream) \in Nat /\ want # 0 /\ want = Len(w)
      BY <1>2, LenProperties, SMT DEF FrameInv
    <2>2. stream # <<>>
      BY <1>2, <2>1, EmptySeq, SMT
    <2>3. PICK at : Aligned(at, pending, stream, want, cut)
      BY DEF FrameInv
    <2>4. /\ pending # <<>> /\ first \in Travelling
          /\ \A j \in 1 .. Len(w) : j <= Len(stream) => stream[j] = w[j]
      BY <2>1, <2>2, <2>3, FirstFrame
    <2>5. first \in [ID : 0 .. 10, Payload : Seq(Int)]
      BY <2>4 DEF Travelling
    <2>6. w \in Seq(Int) /\ (w = <<>> <=> first.ID = KepAlive)
      BY <2>5, WiredIs
    <2>7. first.ID # KepAlive
      BY <2>1, <2>6, EmptySeq
    <2>8. w[1] = first.ID /\ Tail(w) = Carried(first)
      BY <2>5, <2>7, WiredIs
    <2>9. s = w
      <3> HIDE DEF w
      <3>1. \A i \in 1 .. want : stream[i] \in Int
        BY <1>2, <2>1, ElementOfSeq, SMT
      <3>2. /\ s \in Seq(Int) /\ Len(s) = (IF 1 <= want THEN want - 1 + 1 ELSE 0)
            /\ \A i \in 1 .. want - 1 + 1 : s[i] = stream[1 + i - 1]
        BY <2>1, <3>1, SubSeqProperties, SMT
      <3> HIDE DEF s
      <3>3. Len(s) = Len(w) /\ \A i \in 1 .. Len(s) : s[i] = w[i]
        BY <1>2, <2>1, <2>4, <3>2, SMT
      <3> QED
        BY <2>6, <3>2, <3>3, SeqEqual
    <2>10. m = [ID |-> first.ID, Payload |-> Carried(first)]
      BY <1>2, <2>8, <2>9 DEF Body
    <2> QED
      BY <2>4, <2>5, <2>10, ArrivesIs
  <1> QED
    BY <1>1, <1>2

\* The tail of the stream, taken by SubSeq.
LEMMA RestIs ==
    ASSUME NEW s \in Seq(Int), NEW c \in Nat, c <= Len(s)
    PROVE  /\ SubSeq(s, c + 1, Len(s)) \in Seq(Int)
           /\ Len(SubSeq(s, c + 1, Len(s))) = Len(s) - c
           /\ \A j \in 1 .. Len(s) - c : SubSeq(s, c + 1, Len(s))[j] = s[c + j]
  <1> DEFINE l == Len(s)
             t == SubSeq(s, c + 1, l)
  <1>1. l \in Nat
    BY LenProperties
  <1>2. \A i \in c + 1 .. l : s[i] \in Int
    BY <1>1, ElementOfSeq, SMT
  <1>3. c + 1 \in Int /\ l \in Int
    BY <1>1, SMT
  <1>4. /\ t \in Seq(Int) /\ Len(t) = (IF c + 1 <= l THEN l - (c + 1) + 1 ELSE 0)
        /\ \A i \in 1 .. l - (c + 1) + 1 : t[i] = s[(c + 1) + i - 1]
    BY <1>2, <1>3, SubSeqProperties
  <1> HIDE DEF t, l
  <1>5. l - (c + 1) + 1 = l - c /\ Len(t) = l - c
    BY <1>1, <1>4, SMT DEF l
  <1>6. \A i \in 1 .. l - c : (c + 1) + i - 1 = c + i
    BY <1>1, SMT
  <1>7. \A i \in 1 .. l - c : t[i] = s[c + i]
    BY <1>4, <1>5, <1>6
  <1> QED
    BY <1>4, <1>5, <1>7 DEF t, l

\* A message is written.
LEMMA PutsFrame ==
    ASSUME FrameInv, NEW m, OnItsWay(m), Puts(m, Code(m))
    PROVE  FrameInv'
  <1>1. /\ ~cut /\ stream' = stream \o Code(m) /\ pending' = Append(pending, m)
        /\ cut' = cut /\ want' = want
    BY DEF Puts
  <1>2. m \in Travelling /\ Code(m) \in Seq(Int)
    BY CodeIs DEF Travelling, OnItsWay
  <1>3. stream' \in Seq(Int)
    BY <1>1, <1>2, ConcatParts DEF FrameInv
  <1>4. pending' \in Seq(Travelling)
    BY <1>1, <1>2, AppendProperties DEF FrameInv
  <1>5. PICK at : Aligned(at, pending, stream, want, FALSE)
    BY <1>1 DEF FrameInv
  <1>6. \E to : Aligned(to, pending', stream', want', cut')
    <2>1. cut' = FALSE
      BY <1>1 DEF FrameInv
    <2> QED
      BY <1>1, <1>2, <1>5, <2>1, AlignedPut DEF FrameInv
  <1>7. want' > 0 => pending' # <<>> /\ want' = Len(Wired(pending'[1]))
    <2> SUFFICES ASSUME want > 0
                 PROVE  pending' # <<>> /\ want' = Len(Wired(pending'[1]))
      BY <1>1
    <2>1. pending \in Seq(Travelling) /\ pending # <<>> /\ want = Len(Wired(pending[1]))
      BY DEF FrameInv
    <2>2. 1 \in 1 .. Len(pending)
      BY <2>1, EmptySeq, SMT
    <2>3. pending' # <<>> /\ pending'[1] = pending[1]
      BY <1>1, <1>2, <2>1, <2>2, AppendProperties
    <2> QED
      BY <1>1, <2>1, <2>3
  <1> QED
    BY <1>1, <1>3, <1>4, <1>6, <1>7 DEF FrameInv

\* The connection breaks.
LEMMA BreakFrame ==
    ASSUME FrameInv, NEW n \in Nat, Break(n)
    PROVE  FrameInv'
  <1> DEFINE ls == Len(stream)
             t == SubSeq(stream, 1, ls - n)
  <1>1. /\ cut' = TRUE /\ stream' = t /\ pending' = pending /\ want' = want /\ n <= ls
    BY DEF Break
  <1>2. stream \in Seq(Int) /\ ls \in Nat
    BY LenProperties DEF FrameInv
  <1>3. /\ t \in Seq(Int) /\ Len(t) <= ls
        /\ \A j \in 1 .. Len(t) : t[j] = stream[j]
    <2>1. ls - n \in Int
      BY <1>2, SMT
    <2>2. \A i \in 1 .. ls - n : stream[i] \in Int
      <3>1. \A i \in 1 .. ls - n : i \in 1 .. Len(stream)
        BY <1>2, SMT
      <3> QED
        BY <1>2, <3>1, ElementOfSeq
    <2>3. /\ t \in Seq(Int) /\ Len(t) = (IF 1 <= ls - n THEN ls - n - 1 + 1 ELSE 0)
          /\ \A i \in 1 .. ls - n - 1 + 1 : t[i] = stream[1 + i - 1]
      BY <2>1, <2>2, SubSeqProperties
    <2> HIDE DEF t, ls
    <2>4. Len(t) = ls - n
      BY <1>1, <1>2, <2>3, SMT
    <2>5. \A i \in 1 .. ls - n : t[i] = stream[i]
      BY <1>2, <2>1, <2>3, SMT
    <2> QED
      BY <1>2, <2>3, <2>4, <2>5, SMT
  <1>4. PICK at : Aligned(at, pending, stream, want, cut)
    BY DEF FrameInv
  <1>5. Aligned(at, pending, t, want, TRUE)
    <2> HIDE DEF t
    <2> QED
      BY <1>2, <1>3, <1>4, AlignedBreak DEF FrameInv, ls
  <1> HIDE DEF t
  <1> QED
    BY <1>1, <1>3, <1>5 DEF FrameInv

\* A message is delivered: its bytes are gone, and so is it.
LEMMA DeliversFrame ==
    ASSUME FrameInv, NEW m, NEW c \in Nat, c <= Len(stream),
           \/ /\ want = 0 /\ Len(stream) >= 4 /\ Uint32(stream) = 0 /\ m = [ID |-> KepAlive, Payload |-> <<>>]
              /\ c = 4
           \/ want > 0 /\ Len(stream) >= want /\ m = Body(SubSeq(stream, 1, want)) /\ c = want,
           stream' = SubSeq(stream, c + 1, Len(stream)), cut' = cut, Delivers(m)
    PROVE  FrameInv'
  <1>1. pending # <<>> /\ pending[1] \in Travelling /\ m = Arrives(pending[1])
    BY DeliveredIs
  <1>2. want' = 0 /\ pending' = Tail(pending)
    BY <1>1 DEF Delivers
  <1>3. /\ stream' \in Seq(Int) /\ Len(stream') = Len(stream) - c
        /\ \A j \in 1 .. Len(stream) - c : stream'[j] = stream[c + j]
    BY RestIs DEF FrameInv
  <1>4. /\ pending' \in Seq(Travelling) /\ Len(pending') = Len(pending) - 1
        /\ \A k \in 1 .. Len(pending') : pending'[k] = pending[k + 1]
    BY <1>1, <1>2, HeadTailProperties DEF FrameInv
  <1>5. PICK at : Aligned(at, pending, stream, want, cut)
    BY DEF FrameInv
  <1>6. stream # <<>>
    BY EmptySeq, SMT DEF FrameInv
  <1>7. at[2] = c
    <2> DEFINE l == Len(Wired(pending[1]))
    <2>1. at[2] = (IF want = 0 THEN 4 + l ELSE l) /\ l \in Nat
      BY <1>5, <1>6, FirstFrame
    <2>2. CASE want = 0
      <3>1. l = 0 /\ c = 4
        BY <2>2, LengthIs, SMT
      <3> QED
        BY <2>1, <2>2, <3>1, SMT
    <2>3. CASE want # 0
      <3>1. l = want /\ c = want
        BY <2>3, SMT DEF FrameInv
      <3> QED
        BY <2>1, <2>3, <3>1
    <2> QED
      BY <2>2, <2>3
  <1>8. \E to : Aligned(to, pending', stream', 0, cut)
    <2> DEFINE e == 1
               v == 0
    <2>1. Starts(at, e, c, v) /\ e \in {0, 1}
      <3>1. e + 1 = 2 /\ c - c = 0
        BY SMT
      <3> QED
        BY <1>7, <3>1 DEF Starts, Before
    <2>2. \A j \in 1 .. Len(stream') : stream'[j] = stream[c + j]
      BY <1>3
    <2>3. pending \in Seq(Travelling) /\ stream \in Seq(Int)
      BY DEF FrameInv
    <2>4. Taken(pending, stream, pending', stream', e, c)
      BY <1>3, <1>4, <2>2 DEF Taken
    <2> HIDE DEF e, v
    <2>5. Aligned(Shifted(at, pending', e, c), pending', stream', v, cut)
      BY <1>3, <1>4, <1>5, <2>1, <2>3, <2>4, AlignedTake
    <2> QED
      BY <2>5 DEF v
  <1> QED
    BY <1>2, <1>3, <1>4, <1>8, SMT DEF FrameInv

\* A length is read, and the body is next.
LEMMA LengthFrame ==
    ASSUME FrameInv, want = 0, Len(stream) >= 4, stream' = SubSeq(stream, 5, Len(stream)),
           Uint32(stream) # 0, want' = Uint32(stream), pending' = pending, cut' = cut
    PROVE  FrameInv'
  <1>1. /\ stream # <<>> /\ pending # <<>> /\ pending[1] \in Travelling
        /\ Uint32(stream) = Len(Wired(pending[1]))
    BY LengthIs
  <1>2. want' \in Nat
    BY <1>1, WiredIs DEF Travelling
  <1>3. /\ stream' \in Seq(Int) /\ Len(stream') = Len(stream) - 4
        /\ \A j \in 1 .. Len(stream) - 4 : stream'[j] = stream[4 + j]
    <2> DEFINE c == 4
    <2>1. c + 1 = 5 /\ c \in Nat /\ c <= Len(stream) /\ stream \in Seq(Int)
      BY LenProperties, SMT DEF FrameInv
    <2>2. stream' = SubSeq(stream, c + 1, Len(stream))
      BY <2>1
    <2> HIDE DEF c
    <2>3. /\ stream' \in Seq(Int) /\ Len(stream') = Len(stream) - c
          /\ \A j \in 1 .. Len(stream) - c : stream'[j] = stream[c + j]
      BY <2>1, <2>2, RestIs
    <2> QED
      BY <2>3 DEF c
  <1>4. PICK at : Aligned(at, pending, stream, want, cut)
    BY DEF FrameInv
  <1>5. \E to : Aligned(to, pending', stream', want', cut)
    <2> DEFINE e == 0
               c == 4
    <2>1. Starts(at, e, c, want') /\ e \in {0, 1} /\ c \in Nat
      <3>1. at[1] = 0 /\ want' # 0
        BY <1>4 DEF Aligned, Before
      <3>2. e + 1 = 1 /\ 0 - c = -4
        BY SMT
      <3> QED
        BY <3>1, <3>2 DEF Starts, Before
    <2>2. Len(stream') = Len(stream) - c /\ \A j \in 1 .. Len(stream') : stream'[j] = stream[c + j]
      BY <1>3
    <2>3. pending \in Seq(Travelling) /\ stream \in Seq(Int)
      BY DEF FrameInv
    <2>4. Len(pending) = Len(pending) - e
      BY <2>3, LenProperties, SMT
    <2>5. \A k \in 1 .. Len(pending) : pending[k] = pending[k + e]
      BY <2>3, LenProperties, SMT
    <2>6. Taken(pending, stream, pending, stream', e, c)
      BY <2>2, <2>4, <2>5 DEF Taken
    <2> HIDE DEF e, c
    <2>7. Aligned(Shifted(at, pending, e, c), pending, stream', want', cut)
      BY <1>3, <1>4, <2>1, <2>3, <2>6, AlignedTake
    <2> QED
      BY <2>7
  <1> QED
    BY <1>1, <1>2, <1>3, <1>5 DEF FrameInv

\* The order of two numbers is that of their quotients, then of their remainders.
LEMMA DivLess ==
    ASSUME NEW x \in Nat, NEW y \in Nat, NEW c \in Nat \ {0}, x < y
    PROVE  \/ x \div c < y \div c
           \/ x \div c = y \div c /\ x % c < y % c
  <1> DEFINE q == x \div c
             r == x % c
             u == y \div c
             v == y % c
  <1>1. q \in Nat /\ u \in Nat /\ r \in 0 .. c - 1 /\ v \in 0 .. c - 1 /\ x = c * q + r /\ y = c * u + v
    BY DivMod
  <1> HIDE DEF q, r, u, v
  <1>2. c * q \in Nat /\ c * u \in Nat
    BY <1>1, SMT
  <1>3. ~(u < q)
    <2> SUFFICES ASSUME u < q PROVE FALSE
      OBVIOUS
    <2>1. c * u + c <= c * q
      BY <1>1, TimesMonotone
    <2> QED
      BY <1>1, <1>2, <2>1, SMT
  <1>4. q = u => r < v
    BY <1>1, <1>2, SMT
  <1>5. q < u \/ q = u
    BY <1>1, <1>3, SMT
  <1> QED
    BY <1>4, <1>5 DEF q, r, u, v

\* The place of a byte tells which piece and which block it belongs to.
LEMMA PlaceDivides ==
    ASSUME NEW i \in Pieces, NEW k \in BlocksOf(i), NEW j \in 1 .. BlockLen(i, k),
           NEW x, x = i * InfoPieceLen + k * BLOCK_LEN + j - 1
    PROVE  x \div InfoPieceLen = i /\ (x % InfoPieceLen) \div BLOCK_LEN = k
  <1> DEFINE L == InfoPieceLen
             B == BLOCK_LEN
             l == BlockLen(i, k)
             s == i * L
             o == k * B
             P == PieceLen(i)
             y == o + j - 1
  <1>1. L \in Nat \ {0} /\ B \in Nat \ {0} /\ i \in Nat /\ k \in Nat
    BY GeometryAssumption, BlockFacts
  <1>2. s \in Nat /\ o \in Nat /\ l \in Nat \ {0} /\ o + l <= P /\ P \in Nat
    BY BlockFacts, PieceLenPositive
  <1>3. P <= L
    <2> DEFINE q == Size \div L
               r == Size % L
    <2>1. r \in 0 .. L - 1 /\ ((i < q /\ P = L) \/ (i = q /\ r > 0 /\ P = r))
      BY PieceCases
    <2> HIDE DEF q, r, L, P
    <2> QED
      BY <1>1, <2>1, SMT
  <1>4. l <= B
    BY BlocksTileHolds DEF BlocksTile
  <1>5. s = L * i /\ o = B * k
    BY <1>1, SMT
  <1> HIDE DEF L, B, l, s, o, P
  <1>6. y \in 0 .. L - 1 /\ x = s + y /\ y = o + (j - 1) /\ j - 1 \in 0 .. B - 1
    BY <1>1, <1>2, <1>3, <1>4, SMT DEF s, o, L, B, l
  <1> HIDE DEF y
  <1>7. x \div L = i
    <2>1. (L * i + y) \div L = i
      BY <1>1, <1>6, DivUnique
    <2> QED
      BY <1>5, <1>6, <2>1
  <1>8. x % L = y
    <2>1. x \in Nat
      BY <1>2, <1>6, SMT
    <2> DEFINE z == x % L
    <2>2. x = L * i + z /\ z \in 0 .. L - 1
      BY <1>1, <1>7, <2>1, DivMod
    <2> HIDE DEF z
    <2>3. z = y
      BY <1>1, <1>2, <1>5, <1>6, <2>2, SMT
    <2> QED
      BY <2>3 DEF z
  <1>9. y \div B = k
    <2> DEFINE h == j - 1
    <2>1. h \in 0 .. B - 1 /\ y = B * k + h
      BY <1>5, <1>6
    <2> HIDE DEF h
    <2> QED
      BY <1>1, <2>1, DivUnique
  <1> QED
    BY <1>7, <1>8, <1>9 DEF L, B

\* Every byte of the file has its place in a block of a piece.
LEMMA PlaceExists ==
    ASSUME NEW x \in 0 .. Size - 1
    PROVE  LET i == x \div InfoPieceLen
               y == x % InfoPieceLen
               k == y \div BLOCK_LEN
               j == (y % BLOCK_LEN) + 1
           IN  /\ i \in Pieces /\ k \in BlocksOf(i) /\ j \in 1 .. BlockLen(i, k)
               /\ x = i * InfoPieceLen + k * BLOCK_LEN + j - 1
  <1> DEFINE L == InfoPieceLen
             B == BLOCK_LEN
             i == x \div L
             y == x % L
             k == y \div B
             h == y % B
             q == Size \div L
             r == Size % L
             P == PieceLen(i)
             d == P \div B
             e == P % B
  <1>1. L \in Nat \ {0} /\ B \in Nat \ {0} /\ Size \in Nat \ {0} /\ x \in Nat /\ x < Size
    BY GeometryAssumption, SMT
  <1>2. i \in Nat /\ y \in 0 .. L - 1 /\ x = L * i + y
    BY <1>1, DivMod
  <1>3. q \in Nat /\ r \in 0 .. L - 1
    BY <1>1, DivMod
  <1>4. i < q \/ (i = q /\ y < r)
    BY <1>1, DivLess
  <1>5. NumPieces = IF r = 0 THEN q ELSE q + 1
    BY <1>1, RoundUp DEF NumPieces
  <1>6. P = IF q = i THEN r ELSE L
    BY DEF PieceLen
  <1>7. i \in Pieces
    <2> HIDE DEF L, i, y, q, r
    <2>1. i \in 0 .. (IF r = 0 THEN q ELSE q + 1) - 1
      BY <1>2, <1>3, <1>4, SMT
    <2> QED
      BY <1>5, <2>1 DEF Pieces
  <1>8. P \in Nat /\ y < P /\ y \in Nat
    <2> HIDE DEF L, i, y, q, r, P
    <2> QED
      BY <1>1, <1>2, <1>3, <1>4, <1>6, SMT
  <1>9. /\ k \in Nat /\ h \in 0 .. B - 1 /\ y = B * k + h
        /\ d \in Nat /\ e \in 0 .. B - 1
    BY <1>1, <1>8, DivMod
  <1>10. k < d \/ (k = d /\ h < e)
    BY <1>1, <1>8, DivLess
  <1>11. k \in BlocksOf(i)
    <2>1. BlocksOf(i) = 0 .. (IF e > 0 THEN d + 1 ELSE d) - 1
      BY DEF BlocksOf, NumBlocksInPiece
    <2> HIDE DEF B, k, h, d, e
    <2>2. k \in 0 .. (IF e > 0 THEN d + 1 ELSE d) - 1
      BY <1>9, <1>10, SMT
    <2> QED
      BY <2>1, <2>2
  <1>12. BlockLen(i, k) = IF k = d THEN e ELSE B
    BY DEF BlockLen
  <1>13. h + 1 \in 1 .. BlockLen(i, k)
    <2> HIDE DEF B, k, h, d, e
    <2>1. h \in Nat /\ e \in Nat /\ B \in Nat /\ k \in Nat /\ d \in Nat /\ h < B
      BY <1>1, <1>9, SMT
    <2>2. h + 1 \in 1 .. (IF k = d THEN e ELSE B)
      BY <1>10, <2>1, SMT
    <2> QED
      BY <1>12, <2>2
  <1>14. x = i * L + k * B + (h + 1) - 1
    <2> HIDE DEF L, B, i, y, k, h
    <2>1. L * i = i * L /\ B * k = k * B /\ i * L \in Nat /\ k * B \in Nat
      BY <1>1, <1>2, <1>9, SMT
    <2> QED
      BY <1>1, <1>2, <1>9, <2>1, SMT
  <1> QED
    BY <1>7, <1>11, <1>13, <1>14

-----------------------------------------------------------------------------
(* The blocks. *)

BlockOf(i, k) == [Index |-> i, Begin |-> k * BLOCK_LEN, Block |-> BlockBytes(i, k)]

\* Every block that has come is a block of a piece.
BlocksInv == \A p \in blocks : \E i \in Pieces : \E k \in BlocksOf(i) : p = BlockOf(i, k)

\* A block that has come is at its place, byte by byte.
LEMMA BlockOfIs ==
    ASSUME NEW i \in Pieces, NEW k \in BlocksOf(i), NEW p, p = BlockOf(i, k)
    PROVE  /\ p.Index = i /\ p.Begin = k * BLOCK_LEN
           /\ p.Block # <<>> /\ DOMAIN p.Block = 1 .. BlockLen(i, k)
           /\ \A j \in DOMAIN p.Block :
                 /\ Place(p, j) = i * InfoPieceLen + k * BLOCK_LEN + j - 1
                 /\ Place(p, j) \in 0 .. Size - 1
                 /\ p.Block[j] = File[Place(p, j)]
  <1>1. p.Index = i /\ p.Begin = k * BLOCK_LEN /\ p.Block = BlockBytes(i, k)
    BY DEF BlockOf
  <1>2. BlockLen(i, k) \in Nat \ {0} /\ PieceBounds(i)[1] = i * InfoPieceLen
    BY BlockFacts
  <1>3. /\ BlockBytes(i, k) \in Seq(Bytes)
        /\ Len(BlockBytes(i, k)) = BlockLen(i, k)
        /\ \A j \in 1 .. BlockLen(i, k) :
             /\ i * InfoPieceLen + k * BLOCK_LEN + j - 1 \in 0 .. Size - 1
             /\ BlockBytes(i, k)[j] = File[i * InfoPieceLen + k * BLOCK_LEN + j - 1]
    BY BlockBytesIs
  <1>4. DOMAIN p.Block = 1 .. BlockLen(i, k)
    BY <1>1, <1>3, LenProperties
  <1>5. p.Block # <<>>
    BY <1>1, <1>2, <1>3, EmptySeq
  <1>6. \A j \in 1 .. BlockLen(i, k) : Place(p, j) = i * InfoPieceLen + k * BLOCK_LEN + j - 1
    BY <1>1, <1>2, Zenon DEF Place
  <1> QED
    BY <1>1, <1>3, <1>4, <1>5, <1>6

\* Blocks of pieces are in place, apart, and together the file.
LEMMA BlocksGiveBytes ==
    ASSUME BlocksInv
    PROVE  BytesInPlace
  <1>1. ASSUME NEW p \in blocks
        PROVE  /\ p.Block # <<>>
               /\ \A j \in DOMAIN p.Block : Place(p, j) \in 0 .. Size - 1 /\ p.Block[j] = File[Place(p, j)]
    <2>1. PICK i \in Pieces : \E k \in BlocksOf(i) : p = BlockOf(i, k)
      BY DEF BlocksInv
    <2>2. PICK k \in BlocksOf(i) : p = BlockOf(i, k)
      BY <2>1
    <2> QED
      BY <2>2, BlockOfIs
  <1>2. ASSUME NEW p \in blocks, NEW q \in blocks, NEW j \in DOMAIN p.Block, NEW h \in DOMAIN q.Block,
               Place(p, j) = Place(q, h)
        PROVE  p = q
    <2>1. PICK i \in Pieces : \E k \in BlocksOf(i) : p = BlockOf(i, k)
      BY DEF BlocksInv
    <2>2. PICK k \in BlocksOf(i) : p = BlockOf(i, k)
      BY <2>1
    <2>3. PICK m \in Pieces : \E k1 \in BlocksOf(m) : q = BlockOf(m, k1)
      BY DEF BlocksInv
    <2>4. PICK n \in BlocksOf(m) : q = BlockOf(m, n)
      BY <2>3
    <2>5. j \in 1 .. BlockLen(i, k) /\ Place(p, j) = i * InfoPieceLen + k * BLOCK_LEN + j - 1
      <3>1. /\ DOMAIN p.Block = 1 .. BlockLen(i, k)
            /\ \A a \in DOMAIN p.Block : Place(p, a) = i * InfoPieceLen + k * BLOCK_LEN + a - 1
        BY <2>2, BlockOfIs
      <3> QED
        BY <3>1
    <2>6. h \in 1 .. BlockLen(m, n) /\ Place(q, h) = m * InfoPieceLen + n * BLOCK_LEN + h - 1
      <3>1. /\ DOMAIN q.Block = 1 .. BlockLen(m, n)
            /\ \A a \in DOMAIN q.Block : Place(q, a) = m * InfoPieceLen + n * BLOCK_LEN + a - 1
        BY <2>4, BlockOfIs
      <3> QED
        BY <3>1
    <2> DEFINE x == Place(p, j)
    <2>7. x \div InfoPieceLen = i /\ (x % InfoPieceLen) \div BLOCK_LEN = k
      <3> HIDE DEF x
      <3>1. x = i * InfoPieceLen + k * BLOCK_LEN + j - 1
        BY <2>5 DEF x
      <3> QED
        BY <2>5, <3>1, PlaceDivides
    <2>8. x \div InfoPieceLen = m /\ (x % InfoPieceLen) \div BLOCK_LEN = n
      <3>1. x = m * InfoPieceLen + n * BLOCK_LEN + h - 1
        BY <1>2, <2>6
      <3> HIDE DEF x
      <3> QED
        BY <2>6, <3>1, PlaceDivides
    <2>9. i = m /\ k = n
      BY <2>7, <2>8
    <2> QED
      BY <2>2, <2>4, <2>9
  <1>3. ASSUME \A i \in Pieces : \A k \in BlocksOf(i) :
                  \E p \in blocks : p.Index = i /\ p.Begin = k * BLOCK_LEN,
               NEW x \in 0 .. Size - 1
        PROVE  \E p \in blocks : \E j \in DOMAIN p.Block : x = Place(p, j)
    <2> DEFINE i == x \div InfoPieceLen
               y == x % InfoPieceLen
               k == y \div BLOCK_LEN
               j == (y % BLOCK_LEN) + 1
    <2>1. /\ i \in Pieces /\ k \in BlocksOf(i) /\ j \in 1 .. BlockLen(i, k)
          /\ x = i * InfoPieceLen + k * BLOCK_LEN + j - 1
      BY PlaceExists
    <2> HIDE DEF i, y, k, j
    <2>2. PICK p \in blocks : p.Index = i /\ p.Begin = k * BLOCK_LEN
      BY <1>3, <2>1
    <2>3. PICK m \in Pieces : \E k1 \in BlocksOf(m) : p = BlockOf(m, k1)
      BY DEF BlocksInv
    <2>4. PICK n \in BlocksOf(m) : p = BlockOf(m, n)
      BY <2>3
    <2>5. m = i /\ n * BLOCK_LEN = k * BLOCK_LEN
      BY <2>2, <2>4, BlockOfIs
    <2>6. n = k
      <3>1. n \in Nat /\ k \in Nat /\ BLOCK_LEN \in Nat \ {0}
        BY <2>1, <2>4, BlockFacts, GeometryAssumption
      <3>2. n * BLOCK_LEN = BLOCK_LEN * n + 0 /\ k * BLOCK_LEN = BLOCK_LEN * k + 0 /\ 0 \in 0 .. BLOCK_LEN - 1
        BY <3>1, SMT
      <3>3. (BLOCK_LEN * n + 0) \div BLOCK_LEN = n /\ (BLOCK_LEN * k + 0) \div BLOCK_LEN = k
        BY <3>1, <3>2, DivUnique
      <3> QED
        BY <2>5, <3>2, <3>3
    <2>7. p = BlockOf(i, k)
      BY <2>4, <2>5, <2>6
    <2>8. j \in DOMAIN p.Block /\ Place(p, j) = i * InfoPieceLen + k * BLOCK_LEN + j - 1
      <3>1. /\ DOMAIN p.Block = 1 .. BlockLen(i, k)
            /\ \A a \in DOMAIN p.Block : Place(p, a) = i * InfoPieceLen + k * BLOCK_LEN + a - 1
        BY <2>1, <2>7, BlockOfIs
      <3> QED
        BY <2>1, <3>1
    <2> QED
      BY <2>1, <2>8
  <1> QED
    BY <1>1, <1>2, <1>3, Zenon DEF BytesInPlace

\* The bitfield of bytes is a set of pieces, as far as it has bits.
BitsInv ==
    /\ opened \in BOOLEAN
    /\ said \subseteq HavePieces
    /\ ~opened => said = {}
    /\ opened => /\ bits \in Seq(Bytes)
                 /\ \A i \in Nat : Has(bits, i) <=> i \in Shares \cup said /\ i < 8 * Len(bits)

\* What the run checks of the bitfield follows from what is kept.
LEMMA BitsGiveSet ==
    ASSUME BitsInv
    PROVE  BitfieldIsSet
  <1> SUFFICES ASSUME opened PROVE BitfieldIsSet
    BY DEF BitfieldIsSet
  <1>1. bits \in Seq(Bytes) /\ \A i \in Nat : Has(bits, i) <=> i \in Shares \cup said /\ i < 8 * Len(bits)
    BY DEF BitsInv
  <1>2. HavePieces \subseteq Nat
    BY WireAssumption DEF FitsUint32
  <1>3. Pieces \subseteq Nat
    BY PieceCases
  <1>4. 0 .. 8 * Len(bits) \subseteq Nat
    BY <1>1, LenProperties, SMT
  <1> QED
    BY <1>1, <1>2, <1>3, <1>4, Zenon DEF BitfieldIsSet, Bytes

\* What is known of a message that has been read.
HasArrived(m) ==
    /\ m.ID = BitField => m.Payload = FieldOf(Shares)
    /\ m.ID = Have => \E i \in HavePieces : m.Payload = PutUint32(i)
    /\ m.ID = Piece => \E i \in Pieces : \E k \in BlocksOf(i) : m.Payload = PiecePayload(i, k)

\* What is known of a message is known when it has been read.
LEMMA ArrivedIs ==
    ASSUME NEW first \in Travelling, NEW m, m = Arrives(first)
    PROVE  HasArrived(m)
  <1>1. first \in [ID : 0 .. 10, Payload : Seq(Int)] /\ OnItsWay(first)
    BY DEF Travelling
  <1>2. m = [ID |-> first.ID, Payload |-> Carried(first)]
    BY <1>1, ArrivesIs
  <1>3. m.ID = first.ID /\ m.Payload = Carried(first)
    BY <1>2
  <1>4. first.ID \in {BitField, Have, Piece} => Carried(first) = first.Payload
    <2> SUFFICES ASSUME first.ID \in {BitField, Have, Piece}
                 PROVE  Carried(first) = first.Payload
      OBVIOUS
    <2>1. first.ID \notin {RequestId, Cancel} /\ first.ID # Port
      BY SMT DEF RequestId, Cancel, Port, BitField, Have, Piece
    <2> QED
      BY <2>1, Zenon DEF Carried
  <1> QED
    BY <1>1, <1>3, <1>4 DEF HasArrived, OnItsWay

\* A block that is parsed is the one that was sent.
LEMMA ParsedIs ==
    ASSUME NEW i \in Pieces, NEW k \in BlocksOf(i), NEW m, m.Payload = PiecePayload(i, k)
    PROVE  ParsePieceMsg(m) = BlockOf(i, k)
  <1> DEFINE s == PiecePayload(i, k)
             l == BlockLen(i, k)
             blk == BlockBytes(i, k)
             o == k * BLOCK_LEN
             x == SubSeq(s, 1, 4)
             y == SubSeq(s, 5, 8)
             z == SubSeq(s, 9, Len(s))
  <1>1. /\ s \in Seq(Bytes) /\ Len(s) = 8 + l
        /\ \A j \in 1 .. 4 : s[j] = PutUint32(i)[j]
        /\ \A j \in 1 .. 4 : s[4 + j] = PutUint32(o)[j]
        /\ \A j \in 1 .. l : s[8 + j] = blk[j]
    BY PiecePayloadIs
  <1>2. l \in Nat \ {0} /\ FitsUint32(i) /\ FitsUint32(o)
    BY BlockFacts
  <1>3. blk \in Seq(Bytes) /\ Len(blk) = l
    BY BlockBytesIs
  <1>4. s \in Seq(Int) /\ blk \in Seq(Int)
    BY <1>1, <1>3, BytesAreNumbers
  <1>5. ParsePieceMsg(m) = [Index |-> Uint32(x), Begin |-> Uint32(y), Block |-> z]
    BY Zenon DEF ParsePieceMsg
  <1>6. BlockOf(i, k) = [Index |-> i, Begin |-> o, Block |-> blk]
    BY DEF BlockOf
  <1> HIDE DEF s, l, blk, o
  <1>7. \A j \in 1 .. 8 + l : s[j] \in Int
    BY <1>1, <1>4, ElementOfSeq
  <1>8. x \in Seq(Int) /\ \A j \in 1 .. 4 : x[j] = s[j]
    <2>1. \A j \in 1 .. 4 : s[j] \in Int
      BY <1>2, <1>7, SMT
    <2>2. x \in Seq(Int) /\ \A j \in 1 .. 4 - 1 + 1 : x[j] = s[1 + j - 1]
      BY <2>1, SubSeqProperties
    <2> QED
      BY <2>2, SMT
  <1>9. y \in Seq(Int) /\ \A j \in 1 .. 4 : y[j] = s[4 + j]
    <2>1. \A j \in 5 .. 8 : s[j] \in Int
      BY <1>2, <1>7, SMT
    <2>2. y \in Seq(Int) /\ \A j \in 1 .. 8 - 5 + 1 : y[j] = s[5 + j - 1]
      BY <2>1, SubSeqProperties
    <2> HIDE DEF y
    <2>3. \A j \in 1 .. 4 : j \in 1 .. 8 - 5 + 1 /\ 5 + j - 1 = 4 + j
      BY SMT
    <2> QED
      BY <2>2, <2>3
  <1>10. z = blk
    <2> DEFINE c == 8
    <2> HIDE DEF c
    <2>1. c + 1 = 9 /\ c \in Nat /\ c <= 8 + l /\ 8 + l - c = l
      BY <1>2, SMT DEF c
    <2>2. z = SubSeq(s, c + 1, Len(s))
      BY <2>1
    <2> HIDE DEF z
    <2>3. c \in Nat /\ c <= Len(s)
      BY <1>1, <2>1
    <2>4. Len(s) - c = l
      <3> DEFINE n == Len(s)
      <3>1. n = 8 + l
        BY <1>1
      <3> HIDE DEF n
      <3>2. n - c = l
        BY <1>2, <3>1, SMT DEF c
      <3> QED
        BY <3>2 DEF n
    <2>5. z \in Seq(Int) /\ Len(z) = l /\ \A j \in 1 .. l : z[j] = s[c + j]
      BY <1>4, <2>3, <2>2, <2>4, RestIs
    <2>6. \A j \in 1 .. l : z[j] = blk[j]
      BY <1>1, <2>5 DEF c
    <2> QED
      BY <1>3, <1>4, <2>5, <2>6, SeqEqual
  <1> HIDE DEF x, y, z
  <1>11. Uint32(x) = i /\ Uint32(y) = o
    <2>1. Uint32(x) = i
      BY <1>1, <1>2, <1>8, Uint32Put
    <2>2. \A j \in 1 .. 4 : y[j] = PutUint32(o)[j]
      BY <1>1, <1>9
    <2> QED
      BY <1>2, <1>9, <2>1, <2>2, Uint32Put
  <1> QED
    BY <1>5, <1>6, <1>10, <1>11

\* The index in a Have is read as it was written.
LEMMA HaveIs ==
    ASSUME NEW i \in HavePieces, NEW s, s = PutUint32(i)
    PROVE  Len(s) = 4 /\ Uint32(s) = i /\ i \in Nat
  <1>1. FitsUint32(i)
    BY WireAssumption
  <1>2. s \in Seq(Bytes) /\ Len(s) = 4
    BY <1>1, Uint32Bytes
  <1>3. s \in Seq(Int)
    BY <1>2, BytesAreNumbers
  <1> QED
    BY <1>1, <1>2, <1>3, Uint32Put DEF FitsUint32

\* A message is handled.
LEMMA HandleKeepsBits ==
    ASSUME BitsInv, NEW m, HasArrived(m), Handle(m)
    PROVE  BitsInv'
  <1>1. CASE ~opened
    <2>1. /\ opened' = (m.ID = BitField) /\ bits' = (IF m.ID = BitField THEN m.Payload ELSE bits)
          /\ said' = said
      BY <1>1, Zenon DEF Handle
    <2>2. said' = {} /\ said' \subseteq HavePieces
      BY <1>1, <2>1 DEF BitsInv
    <2>3. CASE m.ID = BitField
      <3>1. opened' = TRUE /\ bits' = FieldOf(Shares)
        BY <2>1, <2>3 DEF HasArrived
      <3>2. /\ bits' \in Seq(Bytes)
            /\ \A i \in Nat : Has(bits', i) <=> i \in Shares /\ i < 8 * Len(bits')
        BY <3>1, FieldHas
      <3> QED
        BY <2>2, <3>1, <3>2 DEF BitsInv
    <2>4. CASE m.ID # BitField
      <3>1. opened' = FALSE
        BY <2>1, <2>4
      <3> QED
        BY <2>2, <3>1 DEF BitsInv
    <2> QED
      BY <2>3, <2>4
  <1>2. CASE opened
    <2>1. /\ bits' = (IF m.ID = Have /\ Len(m.Payload) = 4 THEN Set(bits, Uint32(m.Payload)) ELSE bits)
          /\ said' = (IF m.ID = Have /\ Len(m.Payload) = 4 THEN said \cup {Uint32(m.Payload)} ELSE said)
          /\ opened' = opened
      BY <1>2, Zenon DEF Handle
    <2>2. CASE m.ID = Have
      <3>1. PICK i \in HavePieces : m.Payload = PutUint32(i)
        BY <2>2 DEF HasArrived
      <3>2. Len(m.Payload) = 4 /\ Uint32(m.Payload) = i /\ i \in Nat
        BY <3>1, HaveIs
      <3>3. bits' = Set(bits, i) /\ said' = said \cup {i} /\ opened' = opened
        BY <2>1, <2>2, <3>2
      <3>4. /\ bits \in Seq(Bytes)
            /\ \A j \in Nat : Has(bits, j) <=> j \in Shares \cup said /\ j < 8 * Len(bits)
        BY <1>2 DEF BitsInv
      <3>5. /\ bits' \in Seq(Bytes) /\ Len(bits') = Len(bits)
            /\ \A j \in Nat : Has(bits', j) <=> Has(bits, j) \/ (j = i /\ i < 8 * Len(bits))
        BY <3>2, <3>3, <3>4, SetHas
      <3>6. \A j \in Nat : Has(bits', j) <=> j \in Shares \cup said' /\ j < 8 * Len(bits')
        <4> TAKE j \in Nat
        <4>1. Has(bits', j) <=> Has(bits, j) \/ (j = i /\ i < 8 * Len(bits))
          BY <3>5
        <4>2. Has(bits, j) <=> j \in Shares \cup said /\ j < 8 * Len(bits)
          BY <3>4
        <4>3. j \in Shares \cup said' <=> j \in Shares \cup said \/ j = i
          BY <3>3
        <4> QED
          BY <3>5, <4>1, <4>2, <4>3, Zenon
      <3> QED
        BY <1>2, <3>3, <3>5, <3>6 DEF BitsInv
    <2>3. CASE m.ID # Have
      BY <1>2, <2>1, <2>3 DEF BitsInv
    <2> QED
      BY <2>2, <2>3
  <1> QED
    BY <1>1, <1>2

\* What ParsePieceMsg returns is a block of a piece.
LEMMA HandleKeepsBlocks ==
    ASSUME BlocksInv, NEW m, HasArrived(m), Handle(m)
    PROVE  BlocksInv'
  <1>1. blocks' = blocks \/ (m.ID = Piece /\ blocks' = blocks \cup {ParsePieceMsg(m)})
    BY Zenon DEF Handle
  <1>2. CASE blocks' = blocks
    BY <1>2 DEF BlocksInv
  <1>3. CASE m.ID = Piece /\ blocks' = blocks \cup {ParsePieceMsg(m)}
    <2>1. PICK i \in Pieces : \E k \in BlocksOf(i) : m.Payload = PiecePayload(i, k)
      BY <1>3 DEF HasArrived
    <2>2. PICK k \in BlocksOf(i) : m.Payload = PiecePayload(i, k)
      BY <2>1
    <2>3. ParsePieceMsg(m) = BlockOf(i, k)
      BY <2>2, ParsedIs
    <2> QED
      BY <1>3, <2>3 DEF BlocksInv
  <1> QED
    BY <1>1, <1>2, <1>3

WireInv == FrameInv /\ BitsInv /\ BlocksInv

\* A connection on which nothing has been written is in step.
LEMMA WireInitInv ==
    ASSUME WireInit
    PROVE  WireInv
  <1>1. FrameInv
    <2> DEFINE at == [k \in 1 .. 1 |-> 0]
    <2>1. stream = <<>> /\ pending = <<>> /\ want = 0 /\ cut = FALSE
      BY DEF WireInit
    <2>2. stream \in Seq(Int) /\ pending \in Seq(Travelling) /\ Len(stream) = 0 /\ Len(pending) = 0
      BY <2>1, EmptySeq
    <2>3. at \in [1 .. 1 -> Int] /\ at[1] = 0
      BY SMT
    <2> HIDE DEF at
    <2>4. 0 + 1 = 1 /\ 1 .. 0 = {}
      BY SMT
    <2>5. Aligned(at, pending, stream, want, cut)
      <3>1. at[1] = Before(want)
        BY <2>1, <2>3 DEF Before
      <3>2. \A k : k \notin 1 .. Len(pending)
        BY <2>2, <2>4
      <3>3. at \in [1 .. Len(pending) + 1 -> Int] /\ at[Len(pending) + 1] = 0 /\ Len(stream) <= 0
        BY <2>2, <2>3, <2>4, SMT
      <3> QED
        BY <2>2, <3>1, <3>2, <3>3, Zenon DEF Aligned
    <2>6. ~(want > 0) /\ want \in Nat
      BY <2>1, SMT
    <2>7. cut \in BOOLEAN
      BY <2>1
    <2> QED
      BY <2>2, <2>5, <2>6, <2>7 DEF FrameInv
  <1>2. BitsInv
    BY DEF WireInit, BitsInv
  <1>3. BlocksInv
    BY DEF WireInit, BlocksInv
  <1> QED
    BY <1>1, <1>2, <1>3 DEF WireInv

-----------------------------------------------------------------------------
(* The channel. *)

ChannelOf(p) == [k \in DOMAIN p |-> Arrives(p[k])]

\* The messages of the abstract channel.
LEMMA ChannelIs ==
    ASSUME NEW p \in Seq(Travelling)
    PROVE  /\ ChannelOf(p) \in Seq([ID : 0 .. 10, Payload : Seq(Int)])
           /\ Len(ChannelOf(p)) = Len(p) /\ Len(p) \in Nat
           /\ \A k \in 1 .. Len(p) : ChannelOf(p)[k] = Arrives(p[k])
  <1> DEFINE S == [ID : 0 .. 10, Payload : Seq(Int)]
             n == Len(p)
  <1>1. DOMAIN p = 1 .. n /\ n \in Nat
    BY LenProperties
  <1>2. \A k \in 1 .. n : Arrives(p[k]) \in S
    <2> SUFFICES ASSUME NEW k \in 1 .. n PROVE Arrives(p[k]) \in S
      OBVIOUS
    <2> DEFINE m == p[k]
    <2>1. m \in Travelling
      BY <1>1, ElementOfSeq
    <2> HIDE DEF m
    <2>2. m \in S
      BY <2>1 DEF Travelling
    <2>3. Arrives(m) = [ID |-> m.ID, Payload |-> Carried(m)] /\ Carried(m) \in Seq(Int)
      BY <2>2, ArrivesIs, WiredIs
    <2>4. m.ID \in 0 .. 10
      BY <2>2
    <2>5. Arrives(m) \in S
      BY <2>3, <2>4
    <2> QED
      BY <2>5 DEF m
  <1>3. ChannelOf(p) = [k \in 1 .. n |-> Arrives(p[k])]
    BY <1>1 DEF ChannelOf
  <1> HIDE DEF S, n
  <1>4. ChannelOf(p) \in Seq(S) /\ Len(ChannelOf(p)) = n
    <2> DEFINE to == ChannelOf(p)
    <2>1. to \in [1 .. n -> S] /\ DOMAIN to = 1 .. n
      BY <1>2, <1>3
    <2> HIDE DEF to
    <2>2. to \in Seq(S)
      BY <1>1, <2>1, SeqDef
    <2>3. Len(to) = n
      BY <1>1, <2>1, <2>2, SMT
    <2> QED
      BY <2>2, <2>3 DEF to
  <1> QED
    BY <1>1, <1>3, <1>4 DEF S, n

\* A message written goes to the end of the abstract channel.
LEMMA ChannelAppend ==
    ASSUME NEW p \in Seq(Travelling), NEW m \in Travelling
    PROVE  /\ Len(ChannelOf(Append(p, m))) = Len(ChannelOf(p)) + 1
           /\ SubSeq(ChannelOf(Append(p, m)), 1, Len(ChannelOf(p))) = ChannelOf(p)
  <1> DEFINE S == [ID : 0 .. 10, Payload : Seq(Int)]
             q == Append(p, m)
             n == Len(p)
             x == ChannelOf(p)
             y == ChannelOf(q)
             z == SubSeq(y, 1, n)
  <1>1. q \in Seq(Travelling) /\ Len(q) = n + 1 /\ \A k \in 1 .. n : q[k] = p[k]
    BY AppendProperties
  <1>2. x \in Seq(S) /\ Len(x) = n /\ n \in Nat /\ \A k \in 1 .. n : x[k] = Arrives(p[k])
    BY ChannelIs
  <1> HIDE DEF q, n
  <1>3. y \in Seq(S) /\ Len(y) = n + 1 /\ \A k \in 1 .. n + 1 : y[k] = Arrives(q[k])
    <2>1. /\ y \in Seq(S) /\ Len(y) = Len(q)
          /\ \A k \in 1 .. Len(q) : y[k] = Arrives(q[k])
      BY <1>1, ChannelIs
    <2> QED
      BY <1>1, <2>1
  <1> HIDE DEF S, x, y
  <1>4. \A k \in 1 .. n : k \in 1 .. n + 1 /\ y[k] = x[k]
    <2> TAKE k \in 1 .. n
    <2>1. k \in 1 .. n + 1
      BY <1>2, SMT
    <2> QED
      BY <1>1, <1>2, <1>3, <2>1
  <1>5. z \in Seq(S) /\ Len(z) = n /\ \A k \in 1 .. n : z[k] = y[k]
    <2>1. \A k \in 1 .. n : y[k] \in S
      BY <1>3, <1>4, ElementOfSeq
    <2>2. 1 \in Int /\ n \in Int
      BY <1>2, SMT
    <2>3. /\ z \in Seq(S) /\ Len(z) = (IF 1 <= n THEN n - 1 + 1 ELSE 0)
          /\ \A k \in 1 .. n - 1 + 1 : z[k] = y[1 + k - 1]
      BY <2>1, <2>2, SubSeqProperties
    <2> HIDE DEF z
    <2>4. Len(z) = n
      BY <1>2, <2>3, SMT
    <2>5. \A k \in 1 .. n : k \in 1 .. n - 1 + 1 /\ 1 + k - 1 = k
      BY <1>2, SMT
    <2> QED
      BY <2>3, <2>4, <2>5
  <1> HIDE DEF z
  <1>6. z = x
    BY <1>2, <1>4, <1>5, SeqEqual
  <1> QED
    BY <1>2, <1>3, <1>6 DEF x, y, z, q

\* The first message read is the first of the abstract channel.
LEMMA ChannelTail ==
    ASSUME NEW p \in Seq(Travelling), p # <<>>
    PROVE  /\ ChannelOf(p) # <<>>
           /\ Head(ChannelOf(p)) = Arrives(p[1])
           /\ Tail(ChannelOf(p)) = ChannelOf(Tail(p))
  <1> DEFINE S == [ID : 0 .. 10, Payload : Seq(Int)]
             q == Tail(p)
             n == Len(p)
             x == ChannelOf(p)
             y == ChannelOf(q)
             z == Tail(x)
  <1>1. /\ q \in Seq(Travelling) /\ Len(q) = n - 1
        /\ \A k \in 1 .. Len(q) : q[k] = p[k + 1]
    BY HeadTailProperties
  <1>2. x \in Seq(S) /\ Len(x) = n /\ n \in Nat /\ \A k \in 1 .. n : x[k] = Arrives(p[k])
    BY ChannelIs
  <1>3. n \in Nat \ {0}
    BY EmptySeq
  <1> HIDE DEF q, n
  <1>4. y \in Seq(S) /\ Len(y) = n - 1 /\ \A k \in 1 .. n - 1 : y[k] = Arrives(q[k])
    <2>1. /\ y \in Seq(S) /\ Len(y) = Len(q)
          /\ \A k \in 1 .. Len(q) : y[k] = Arrives(q[k])
      BY <1>1, ChannelIs
    <2> QED
      BY <1>1, <2>1
  <1> HIDE DEF S, x, y
  <1>5. x # <<>>
    <2>1. n # 0 /\ Len(x) = n
      BY <1>2, <1>3
    <2> QED
      BY <2>1, EmptySeq
  <1>6. z \in Seq(S) /\ Len(z) = n - 1 /\ \A k \in 1 .. n - 1 : z[k] = x[k + 1]
    <2>1. /\ z \in Seq(S) /\ Len(z) = Len(x) - 1 /\ \A k \in 1 .. Len(z) : z[k] = x[k + 1]
      BY <1>2, <1>5, HeadTailProperties
    <2> HIDE DEF z
    <2> QED
      BY <1>2, <2>1
  <1> HIDE DEF z
  <1>7. \A k \in 1 .. n - 1 : z[k] = y[k]
    <2> TAKE k \in 1 .. n - 1
    <2>1. k + 1 \in 1 .. n
      BY <1>3, SMT
    <2>2. z[k] = Arrives(p[k + 1])
      BY <1>2, <1>6, <2>1
    <2>3. y[k] = Arrives(p[k + 1])
      BY <1>1, <1>4
    <2> QED
      BY <2>2, <2>3
  <1>8. z = y
    BY <1>4, <1>6, <1>7, SeqEqual
  <1>9. Head(x) = Arrives(p[1])
    <2>1. 1 \in 1 .. n
      BY <1>3, SMT
    <2>2. Head(x) = x[1]
      BY <1>2, <1>5, SMT
    <2> QED
      BY <1>2, <2>1, <2>2
  <1> QED
    BY <1>5, <1>8, <1>9 DEF x, y, z, q

-----------------------------------------------------------------------------
(* The steps. *)

\* Writing is sending.
LEMMA PutsStep ==
    ASSUME WireInv, NEW m, OnItsWay(m), Puts(m, Code(m))
    PROVE  WireInv' /\ Channel!Send
  <1>1. FrameInv'
    BY PutsFrame DEF WireInv
  <1>2. BitsInv' /\ BlocksInv'
    BY DEF WireInv, BitsInv, BlocksInv, Puts
  <1>3. m \in Travelling /\ pending \in Seq(Travelling)
    BY DEF WireInv, FrameInv, Travelling, OnItsWay
  <1>4. pending' = Append(pending, m) /\ ~cut /\ last' = last /\ cut' = cut
    BY DEF Puts
  <1>5. /\ Len(ChannelOf(pending')) = Len(ChannelOf(pending)) + 1
        /\ SubSeq(ChannelOf(pending'), 1, Len(ChannelOf(pending))) = ChannelOf(pending)
    BY <1>3, <1>4, ChannelAppend
  <1>6. Channel!Send
    BY <1>4, <1>5, Zenon DEF Channel!Send, ChannelOf
  <1> QED
    BY <1>1, <1>2, <1>6 DEF WireInv

\* A break is a break, and costs no message that was sent before it.
LEMMA BreakStep ==
    ASSUME WireInv, NEW n \in Nat, Break(n)
    PROVE  WireInv' /\ Channel!Break
  <1>1. FrameInv'
    BY BreakFrame DEF WireInv
  <1>2. BitsInv' /\ BlocksInv'
    BY DEF WireInv, BitsInv, BlocksInv, Break
  <1>3. Channel!Break
    BY Zenon DEF Channel!Break, Break
  <1> QED
    BY <1>1, <1>2, <1>3 DEF WireInv

\* Reading the last byte of a message is receiving it.
LEMMA DeliversStep ==
    ASSUME WireInv, NEW m, NEW c \in Nat, c <= Len(stream),
           \/ /\ want = 0 /\ Len(stream) >= 4 /\ Uint32(stream) = 0 /\ m = [ID |-> KepAlive, Payload |-> <<>>]
              /\ c = 4
           \/ want > 0 /\ Len(stream) >= want /\ m = Body(SubSeq(stream, 1, want)) /\ c = want,
           stream' = SubSeq(stream, c + 1, Len(stream)), cut' = cut, Delivers(m)
    PROVE  WireInv' /\ Channel!Receive
  <1>1. FrameInv'
    BY DeliversFrame DEF WireInv
  <1>2. pending # <<>> /\ pending[1] \in Travelling /\ m = Arrives(pending[1])
    BY DeliveredIs DEF WireInv
  <1>3. HasArrived(m)
    BY <1>2, ArrivedIs
  <1>4. BitsInv' /\ BlocksInv'
    BY <1>3, HandleKeepsBits, HandleKeepsBlocks DEF WireInv, Delivers
  <1>5. pending' = Tail(pending) /\ last' = {m}
    BY <1>2 DEF Delivers
  <1>6. /\ ChannelOf(pending) # <<>>
        /\ Head(ChannelOf(pending)) = m
        /\ Tail(ChannelOf(pending)) = ChannelOf(pending')
    BY <1>2, <1>5, ChannelTail DEF WireInv, FrameInv
  <1>7. Channel!Receive
    BY <1>5, <1>6, Zenon DEF Channel!Receive, ChannelOf
  <1> QED
    BY <1>1, <1>4, <1>7 DEF WireInv

\* A length read is the end of the message before, or a keep-alive.
LEMMA ReadLengthStep ==
    ASSUME WireInv, ReadLength
    PROVE  WireInv' /\ [Channel!Next]_Channel!vars
  <1>1. want = 0 /\ Len(stream) >= 4 /\ cut' = cut /\ stream' = SubSeq(stream, 5, Len(stream))
    BY Zenon DEF ReadLength
  <1>2. CASE Uint32(stream) = 0
    <2> DEFINE m == [ID |-> KepAlive, Payload |-> <<>>]
               c == 4
    <2>1. Delivers(m)
      BY <1>2, Zenon DEF ReadLength
    <2> HIDE DEF c, m
    <2>2. c \in Nat /\ c <= Len(stream) /\ c = 4 /\ c + 1 = 5
      BY <1>1, SMT DEF c
    <2>3. stream' = SubSeq(stream, c + 1, Len(stream)) /\ m = [ID |-> KepAlive, Payload |-> <<>>]
      BY <1>1, <2>2 DEF m
    <2>4. WireInv' /\ Channel!Receive
      BY <1>1, <1>2, <2>1, <2>2, <2>3, DeliversStep
    <2> QED
      BY <2>4, Zenon DEF Channel!Next
  <1>3. CASE Uint32(stream) # 0
    <2>1. want' = Uint32(stream) /\ last' = {} /\ pending' = pending
      BY <1>3, Zenon DEF ReadLength
    <2>2. opened' = opened /\ bits' = bits /\ said' = said /\ blocks' = blocks
      BY <1>3, Zenon DEF ReadLength
    <2>3. FrameInv'
      BY <1>1, <1>3, <2>1, LengthFrame DEF WireInv
    <2>4. BitsInv' /\ BlocksInv'
      BY <2>2 DEF WireInv, BitsInv, BlocksInv
    <2>5. Channel!Handle
      BY <1>1, <2>1, Zenon DEF Channel!Handle
    <2> QED
      BY <2>3, <2>4, <2>5, Zenon DEF Channel!Next, WireInv
  <1> QED
    BY <1>2, <1>3

\* A body read is a message received.
LEMMA ReadBodyStep ==
    ASSUME WireInv, ReadBody
    PROVE  WireInv' /\ Channel!Receive
  <1> DEFINE m == Body(SubSeq(stream, 1, want))
  <1>1. /\ want > 0 /\ Len(stream) >= want /\ cut' = cut
        /\ stream' = SubSeq(stream, want + 1, Len(stream)) /\ Delivers(m)
    BY Zenon DEF ReadBody
  <1>2. want \in Nat
    BY DEF WireInv, FrameInv
  <1> DEFINE c == want
  <1>3. want <= Len(stream)
    BY <1>1, <1>2, LenProperties, SMT DEF WireInv, FrameInv
  <1>4. m = Body(SubSeq(stream, 1, want))
    OBVIOUS
  <1> HIDE DEF m
  <1> QED
    BY <1>1, <1>2, <1>3, <1>4, DeliversStep

\* The invariant is kept, and every step is one of the channel.
LEMMA WireStep ==
    ASSUME WireInv, [WireNext]_wireVars
    PROVE  WireInv' /\ [Channel!Next]_Channel!vars
  <1>1. ASSUME NEW m \in Constructed, Write(m)
        PROVE  WireInv' /\ Channel!Send
    <2>1. OnItsWay(m) /\ Puts(m, Code(m))
      BY <1>1, ConstructedOnItsWay DEF Write
    <2> QED
      BY <2>1, PutsStep
  <1>2. ASSUME NEW m \in Foreign, WriteForeign(m)
        PROVE  WireInv' /\ Channel!Send
    <2>1. OnItsWay(m) /\ Puts(m, Code(m))
      BY <1>2, ForeignOnItsWay DEF WriteForeign
    <2> QED
      BY <2>1, PutsStep
  <1>3. ASSUME NEW n \in 0 .. MaxLost, Break(n)
        PROVE  WireInv' /\ Channel!Break
    <2>1. n \in Nat
      BY SMT
    <2> QED
      BY <1>3, <2>1, BreakStep
  <1>4. CASE ReadLength
    BY <1>4, ReadLengthStep
  <1>5. CASE ReadBody
    BY <1>5, ReadBodyStep, Zenon DEF Channel!Next
  <1>6. CASE ReadBreaks \/ UNCHANGED wireVars
    <2>1. /\ stream' = stream /\ pending' = pending /\ cut' = cut /\ want' = want /\ last' = last
          /\ opened' = opened /\ bits' = bits /\ said' = said /\ blocks' = blocks
      BY <1>6, Zenon DEF ReadBreaks, wireVars
    <2>2. WireInv'
      BY <2>1 DEF WireInv, FrameInv, BitsInv, BlocksInv
    <2>3. Channel!vars' = Channel!vars
      BY <2>1, Zenon DEF Channel!vars
    <2> QED
      BY <2>2, <2>3
  <1> QED
    BY <1>1, <1>2, <1>3, <1>4, <1>5, <1>6, Zenon DEF WireNext, Channel!Next

\* The bytes on the way are those of the messages on the way, the reader is where one
\* of them begins or where its length ends, the bitfield is the set of the pieces
\* announced, and every block is a block of a piece: each of ReadMessage's and
\* Marshall's steps keeps all three.
THEOREM WireInvariant == WireSpec => []WireInv
  <1>1. WireInit => WireInv
    BY WireInitInv
  <1>2. WireInv /\ [WireNext]_wireVars => WireInv'
    BY WireStep
  <1> QED
    BY <1>1, <1>2, PTL DEF WireSpec

\* For every bitfield and whatever pieces are announced: Bitfield.Set and Has keep a set
\* of pieces in bytes, and a Have for a piece past the end changes nothing.
THEOREM BitfieldIsSetHolds == WireSpec => []BitfieldIsSet
  <1>1. WireInv => BitfieldIsSet
    BY BitsGiveSet DEF WireInv
  <1> QED
    BY <1>1, WireInvariant, PTL

\* For every file and every way to cut it: the blocks ParsePieceMsg returns hold the
\* bytes of the file where PieceBounds and the offset say, no two overlap, and all of
\* them are the whole file.
THEOREM BytesInPlaceHolds == WireSpec => []BytesInPlace
  <1>1. WireInv => BytesInPlace
    BY BlocksGiveBytes DEF WireInv
  <1> QED
    BY <1>1, WireInvariant, PTL

\* For every torrent and any number of messages on the way: ReadMessage returns the
\* messages that Marshall or other clients have written, whole and in order, however
\* many bytes a break takes off the end.
THEOREM WireImplementsChannel == WireSpec => ImplementsChannel
  <1>1. WireInit => Channel!Init
    <2> SUFFICES ASSUME WireInit PROVE Channel!Init
      OBVIOUS
    <2>1. pending = <<>> /\ last = {} /\ cut = FALSE
      BY DEF WireInit
    <2>2. pending \in Seq(Travelling) /\ Len(pending) = 0
      BY <2>1, EmptySeq
    <2>3. ChannelOf(pending) \in Seq([ID : 0 .. 10, Payload : Seq(Int)]) /\ Len(ChannelOf(pending)) = 0
      BY <2>2, ChannelIs
    <2>4. ChannelOf(pending) = <<>>
      BY <2>3, EmptySeq
    <2> QED
      BY <2>1, <2>4, Zenon DEF Channel!Init, ChannelOf
  <1>2. WireInv /\ [WireNext]_wireVars => [Channel!Next]_Channel!vars
    BY WireStep
  <1> QED
    BY <1>1, <1>2, WireInvariant, PTL DEF WireSpec, ImplementsChannel, Channel!Spec
=============================================================================
