------------------------- MODULE BlockRequestsProofs -------------------------
(***************************************************************************)
(* Theorems about BlockRequests, for every torrent and every number of     *)
(* connections.                                                            *)
(***************************************************************************)
EXTENDS BlockRequests, GeometryProofs

\* Every piece has a positive number of blocks, each of a natural length.
LEMMA BlockCounts ==
    ASSUME NEW i \in Pieces
    PROVE  /\ NumBlocksInPiece(i) \in Nat \ {0}
           /\ \A k \in BlocksOf(i) : BlockLen(i, k) \in Nat
  <1>1. PieceLen(i) \in Nat \ {0} /\ BLOCK_LEN \in Nat \ {0}
    BY PieceLenPositive, GeometryAssumption
  <1>2. /\ PieceLen(i) \div BLOCK_LEN \in Nat
        /\ PieceLen(i) % BLOCK_LEN \in 0 .. BLOCK_LEN - 1
        /\ PieceLen(i) = BLOCK_LEN * (PieceLen(i) \div BLOCK_LEN) + (PieceLen(i) % BLOCK_LEN)
    BY <1>1, DivMod
  <1> DEFINE P == PieceLen(i)
             q == P \div BLOCK_LEN
             r == P % BLOCK_LEN
  <1>3. NumBlocksInPiece(i) = IF r > 0 THEN q + 1 ELSE q
    BY DEF NumBlocksInPiece
  <1> HIDE DEF P, q, r
  <1>4. P \in Nat \ {0} /\ q \in Nat /\ r \in 0 .. BLOCK_LEN - 1 /\ P = BLOCK_LEN * q + r
    BY <1>1, <1>2 DEF P, q, r
  <1>5. q = 0 => r > 0
    BY <1>1, <1>4, SMT
  <1>6. NumBlocksInPiece(i) \in Nat \ {0}
    BY <1>1, <1>3, <1>4, <1>5, SMT
  <1>7. \A k \in BlocksOf(i) : BlockLen(i, k) \in Nat
    BY BlocksTileHolds, <1>1, SMT DEF BlocksTile
  <1> QED
    BY <1>6, <1>7

\* The block at offset k * BLOCK_LEN is block k: the division in the code that
\* turns Ibl.Begin into a position undoes the multiplication in enq.
LEMMA BeginIsPosition ==
    ASSUME NEW k \in Nat
    PROVE  k * BLOCK_LEN \in Nat /\ (k * BLOCK_LEN) \div BLOCK_LEN = k
  <1>1. BLOCK_LEN \in Nat \ {0} /\ 0 \in 0 .. BLOCK_LEN - 1
    BY GeometryAssumption, SMT
  <1>2. (BLOCK_LEN * k + 0) \div BLOCK_LEN = k
    BY <1>1, DivUnique
  <1>3. BLOCK_LEN * k + 0 = k * BLOCK_LEN /\ k * BLOCK_LEN \in Nat
    BY <1>1, SMT
  <1> QED
    BY <1>2, <1>3

\* What enq appends is a sequence of Ibls, each naming a block of the torrent.
LEMMA EnqueuedIbls ==
    ASSUME NEW i \in Pieces
    PROVE  /\ BlocksAsIbls(i) \in Seq(Ibl)
           /\ \A k \in DOMAIN BlocksAsIbls(i) : BlockOf(BlocksAsIbls(i)[k]) \in Block
  <1> DEFINE N == NumBlocksInPiece(i)
  <1>1. N \in Nat \ {0} /\ \A k \in BlocksOf(i) : BlockLen(i, k) \in Nat
    BY BlockCounts
  <1>2. i \in Nat
    BY PieceCases
  <1>3. ASSUME NEW k \in 1 .. N
        PROVE  /\ BlocksAsIbls(i)[k] \in Ibl
               /\ BlockOf(BlocksAsIbls(i)[k]) \in Block
    <2>1. k - 1 \in Nat /\ k - 1 \in BlocksOf(i)
      BY <1>1, <1>3, SMT DEF BlocksOf
    <2>2. (k - 1) * BLOCK_LEN \in Nat /\ ((k - 1) * BLOCK_LEN) \div BLOCK_LEN = k - 1
      BY <2>1, BeginIsPosition
    <2>3. BlockLen(i, k - 1) \in Nat
      BY <1>1, <2>1
    <2>4. BlocksAsIbls(i)[k] =
            [index |-> i, begin |-> (k - 1) * BLOCK_LEN, len |-> BlockLen(i, k - 1)]
      BY <1>3 DEF BlocksAsIbls
    <2>5. BlockOf(BlocksAsIbls(i)[k]) = <<i, k - 1>>
      BY <2>2, <2>4 DEF BlockOf
    <2>6. BlocksAsIbls(i)[k] \in Ibl
      BY <1>2, <2>2, <2>3, <2>4 DEF Ibl
    <2>7. <<i, k - 1>> \in Block
      BY <2>1 DEF Block
    <2> QED
      BY <2>5, <2>6, <2>7
  <1>4. DOMAIN BlocksAsIbls(i) = 1 .. N /\ BlocksAsIbls(i) = [k \in 1 .. N |-> BlocksAsIbls(i)[k]]
    BY DEF BlocksAsIbls
  <1> HIDE DEF N
  <1>5. BlocksAsIbls(i) \in [1 .. N -> Ibl]
    BY <1>3, <1>4
  <1>6. BlocksAsIbls(i) \in Seq(Ibl)
    BY <1>1, <1>5, SMT
  <1> QED
    BY <1>3, <1>4, <1>6

\* The zero Ibl NeWQ leaves in the queue names block 0 of piece 0.
LEMMA NewQueueInRange ==
    /\ NewQueue \in Seq(Ibl)
    /\ \A k \in DOMAIN NewQueue : BlockOf(NewQueue[k]) \in Block
  <1>1. 0 \in Pieces
    <2> DEFINE q == Size \div InfoPieceLen
               r == Size % InfoPieceLen
    <2>1. /\ Size \in Nat \ {0} /\ InfoPieceLen \in Nat \ {0}
          /\ q \in Nat /\ r \in 0 .. InfoPieceLen - 1 /\ Size = InfoPieceLen * q + r
      BY GeometryAssumption, DivMod
    <2>2. NumPieces = IF r = 0 THEN q ELSE q + 1
      BY <2>1, RoundUp DEF NumPieces
    <2> HIDE DEF q, r
    <2>3. q = 0 => r # 0
      BY <2>1, SMT
    <2> QED
      BY <2>1, <2>2, <2>3, SMT DEF Pieces
  <1>2. 0 \in BlocksOf(0)
    BY <1>1, BlockCounts, SMT DEF BlocksOf
  <1>3. 0 * BLOCK_LEN = 0
    BY GeometryAssumption, SMT
  <1>4. BlockOf([index |-> 0, begin |-> 0, len |-> 0]) = <<0, 0>>
    BY <1>3, BeginIsPosition DEF BlockOf
  <1>5. <<0, 0>> \in Block
    BY <1>1, <1>2 DEF Block
  <1>6. [index |-> 0, begin |-> 0, len |-> 0] \in Ibl
    BY DEF Ibl
  <1> QED
    BY <1>4, <1>5, <1>6 DEF NewQueue

-----------------------------------------------------------------------------

\* needed() leaves Reqd a set of blocks, whether or not it copies Recvd.
LEMMA ReqdAfterNeededType ==
    ASSUME reqd \subseteq Block, recvd \subseteq Block
    PROVE  ReqdAfterNeeded \subseteq Block
  BY DEF ReqdAfterNeeded

\* Every variable keeps its type: in particular reqd, recvd and overtaken only
\* ever name blocks of the torrent.
THEOREM TypeCorrect == Spec => [](TypeOK /\ IndicesInRange)
  <1>1. Init => TypeOK /\ IndicesInRange
    <2> SUFFICES ASSUME Init PROVE TypeOK /\ IndicesInRange
      OBVIOUS
    <2>1. \A c \in Conns : queue[c] = NewQueue /\ inFlight[c] = {}
      BY DEF Init
    <2>2. TypeOK
      BY NewQueueInRange DEF Init, TypeOK
    <2>3. IndicesInRange
      BY <2>1, NewQueueInRange DEF IndicesInRange, Asked
    <2> QED
      BY <2>2, <2>3
  <1>2. TypeOK /\ IndicesInRange /\ [Next]_vars => TypeOK' /\ IndicesInRange'
    <2> SUFFICES ASSUME TypeOK, IndicesInRange, [Next]_vars
                 PROVE  TypeOK' /\ IndicesInRange'
      OBVIOUS
    <2>1. ASSUME NEW c \in Conns, NEW index \in Pieces, Enq(c, index)
          PROVE  TypeOK' /\ IndicesInRange'
      <3> DEFINE new == BlocksAsIbls(index)
      <3>1. new \in Seq(Ibl) /\ \A k \in DOMAIN new : BlockOf(new[k]) \in Block
        BY EnqueuedIbls
      <3>2. queue' = [queue EXCEPT ![c] = queue[c] \o new] /\ UNCHANGED <<reqd, recvd, chocked, inFlight, asked, overtaken>>
        BY <2>1 DEF Enq
      <3> HIDE DEF new
      <3>3. queue[c] \in Seq(Ibl) /\ queue[c] \o new \in Seq(Ibl)
        BY <3>1 DEF TypeOK
      <3>4. TypeOK'
        BY <3>2, <3>3 DEF TypeOK
      <3>5. \A k \in DOMAIN (queue[c] \o new) : BlockOf((queue[c] \o new)[k]) \in Block
        <4> SUFFICES ASSUME NEW k \in DOMAIN (queue[c] \o new)
                     PROVE  BlockOf((queue[c] \o new)[k]) \in Block
          OBVIOUS
        <4>1. \/ k \in DOMAIN queue[c] /\ (queue[c] \o new)[k] = queue[c][k]
              \/ /\ k - Len(queue[c]) \in DOMAIN new
                 /\ (queue[c] \o new)[k] = new[k - Len(queue[c])]
          BY <3>1, <3>3, SMT
        <4> QED
          BY <3>1, <4>1 DEF IndicesInRange
      <3>6. \A d \in Conns : /\ queue'[d] = IF d = c THEN queue[c] \o new ELSE queue[d]
                             /\ Asked(d)' = Asked(d)
        BY <3>2 DEF TypeOK, Asked
      <3>7. IndicesInRange'
        BY <3>5, <3>6 DEF IndicesInRange
      <3> QED
        BY <3>4, <3>7
    <2>2. ASSUME NEW c \in Conns, NEW choke \in BOOLEAN, SetChocked(c, choke)
          PROVE  TypeOK' /\ IndicesInRange'
      <3>1. TypeOK'
        BY <2>2 DEF SetChocked, TypeOK
      <3>2. IndicesInRange'
        BY <2>2 DEF SetChocked, IndicesInRange, Asked
      <3> QED
        BY <3>1, <3>2
    <2>3. ASSUME NEW c \in Conns, NEW b \in Block, NEW written \in BOOLEAN,
                 ReqPieceSends(c, b, written)
          PROVE  TypeOK' /\ IndicesInRange'
      <3>1. PICK k \in NeededAt(c) :
              /\ BlockOf(queue[c][k]) = b
              /\ inFlight' = [inFlight EXCEPT ![c] =
                                IF written THEN @ \cup {queue[c][k]} ELSE @]
        BY <2>3 DEF ReqPieceSends
      <3>2. queue[c] \in Seq(Ibl) /\ k \in DOMAIN queue[c]
        BY DEF TypeOK, NeededAt
      <3>3. queue[c][k] \in Ibl
        BY <3>2
      <3>4. inFlight' \in [Conns -> SUBSET Ibl]
        BY <3>1, <3>3 DEF TypeOK
      <3>5. reqd' \subseteq Block /\ recvd' \subseteq Block
        BY <2>3, ReqdAfterNeededType DEF ReqPieceSends, TypeOK
      <3>6. asked' \in [Block -> Nat]
        <4>1. asked' = [asked EXCEPT ![b] = IF asked[b] < MaxAsked THEN asked[b] + 1 ELSE asked[b]]
          BY <2>3 DEF ReqPieceSends
        <4>2. asked[b] \in Nat /\ asked[b] + 1 \in Nat
          BY DEF TypeOK
        <4> QED
          BY <4>1, <4>2 DEF TypeOK
      <3>7. overtaken' \subseteq Block
        BY <2>3 DEF ReqPieceSends, TypeOK, AllInFlight, IndicesInRange
      <3>8. queue' = queue /\ chocked' = chocked
        BY <2>3 DEF ReqPieceSends
      <3>9. \A d \in Conns : Asked(d)' \subseteq Block
        BY <3>1 DEF IndicesInRange, Asked, TypeOK
      <3> QED
        BY <3>4, <3>5, <3>6, <3>7, <3>8, <3>9 DEF TypeOK, IndicesInRange
    <2>4. ASSUME NEW c \in Conns, ReqPieceFindsNothing(c)
          PROVE  TypeOK' /\ IndicesInRange'
      <3>1. reqd' \subseteq Block
        BY <2>4, ReqdAfterNeededType DEF ReqPieceFindsNothing, TypeOK
      <3>2. overtaken' \subseteq Block
        BY <2>4 DEF ReqPieceFindsNothing, TypeOK, AllInFlight, IndicesInRange
      <3>3. UNCHANGED <<recvd, queue, chocked, inFlight, asked>>
        BY <2>4 DEF ReqPieceFindsNothing
      <3> QED
        BY <3>1, <3>2, <3>3 DEF TypeOK, IndicesInRange, Asked
    <2>5. ASSUME NEW c \in Conns, NEW ibl \in inFlight[c], AssertRecvd(c, ibl)
          PROVE  TypeOK' /\ IndicesInRange'
      <3>1. inFlight' = [inFlight EXCEPT ![c] = @ \ {ibl}]
        BY <2>5 DEF AssertRecvd
      <3>2. BlockOf(ibl) \in Block
        BY DEF IndicesInRange, Asked
      <3>3. recvd' \subseteq Block /\ inFlight' \in [Conns -> SUBSET Ibl]
        BY <2>5, <3>1, <3>2 DEF AssertRecvd, TypeOK
      <3>4. UNCHANGED <<reqd, queue, chocked, asked, overtaken>>
        BY <2>5 DEF AssertRecvd
      <3>5. \A d \in Conns : Asked(d)' \subseteq Asked(d)
        BY <3>1 DEF Asked, TypeOK
      <3> QED
        BY <3>3, <3>4, <3>5 DEF TypeOK, IndicesInRange
    <2>6. CASE UNCHANGED vars
      BY <2>6 DEF vars, TypeOK, IndicesInRange, Asked
    <2> QED
      BY <2>1, <2>2, <2>3, <2>4, <2>5, <2>6 DEF Next
  <1> QED
    BY <1>1, <1>2, PTL DEF Spec

-----------------------------------------------------------------------------

\* Inductive strengthening of OnlyOvertakenAskedAgain: a request on the wire
\* is marked in Reqd, unless the last copy of Recvd over Reqd forgot it.
OvertakenInv ==
    /\ AllInFlight \subseteq reqd \cup overtaken
    /\ recvd \ reqd \subseteq overtaken

\* A block needed() calls needed though it has arrived was in flight when
\* Reqd was last reset: no other order of calls and answers leads there.
THEOREM OnlyOvertakenAskedAgainHolds == Spec => []OnlyOvertakenAskedAgain
  <1>1. Init => OvertakenInv
    BY DEF Init, OvertakenInv, AllInFlight, Asked
  <1>2. TypeOK /\ OvertakenInv /\ [Next]_vars => OvertakenInv'
    <2> SUFFICES ASSUME TypeOK, OvertakenInv, [Next]_vars
                 PROVE  OvertakenInv'
      OBVIOUS
    <2>1. ASSUME NEW c \in Conns, NEW index \in Pieces, Enq(c, index)
          PROVE  OvertakenInv'
      BY <2>1 DEF Enq, OvertakenInv, AllInFlight, Asked
    <2>2. ASSUME NEW c \in Conns, NEW choke \in BOOLEAN, SetChocked(c, choke)
          PROVE  OvertakenInv'
      BY <2>2 DEF SetChocked, OvertakenInv, AllInFlight, Asked
    <2>3. ASSUME NEW c \in Conns, NEW b \in Block, NEW written \in BOOLEAN,
                 ReqPieceSends(c, b, written)
          PROVE  OvertakenInv'
      <3>1. PICK k \in NeededAt(c) :
              /\ BlockOf(queue[c][k]) = b
              /\ inFlight' = [inFlight EXCEPT ![c] =
                                IF written THEN @ \cup {queue[c][k]} ELSE @]
        BY <2>3 DEF ReqPieceSends
      <3>2. AllInFlight' \subseteq AllInFlight \cup {b}
        BY <3>1 DEF AllInFlight, Asked, TypeOK
      <3>3. /\ reqd' = ReqdAfterNeeded \cup {b}
            /\ recvd' = recvd
            /\ overtaken' = IF reqd = Block THEN AllInFlight ELSE overtaken
        BY <2>3 DEF ReqPieceSends
      <3> QED
        BY <3>2, <3>3 DEF OvertakenInv, ReqdAfterNeeded
    <2>4. ASSUME NEW c \in Conns, ReqPieceFindsNothing(c)
          PROVE  OvertakenInv'
      <3>1. AllInFlight' = AllInFlight
        BY <2>4 DEF ReqPieceFindsNothing, AllInFlight, Asked
      <3>2. /\ reqd' = ReqdAfterNeeded
            /\ recvd' = recvd
            /\ overtaken' = IF reqd = Block THEN AllInFlight ELSE overtaken
        BY <2>4 DEF ReqPieceFindsNothing
      <3> QED
        BY <3>1, <3>2 DEF OvertakenInv, ReqdAfterNeeded
    <2>5. ASSUME NEW c \in Conns, NEW ibl \in inFlight[c], AssertRecvd(c, ibl)
          PROVE  OvertakenInv'
      <3>1. BlockOf(ibl) \in AllInFlight
        BY DEF AllInFlight, Asked
      <3>2. AllInFlight' \subseteq AllInFlight
        BY <2>5 DEF AssertRecvd, AllInFlight, Asked, TypeOK
      <3>3. recvd' = recvd \cup {BlockOf(ibl)} /\ UNCHANGED <<reqd, overtaken>>
        BY <2>5 DEF AssertRecvd
      <3> QED
        BY <3>1, <3>2, <3>3 DEF OvertakenInv
    <2>6. CASE UNCHANGED vars
      BY <2>6 DEF vars, OvertakenInv, AllInFlight, Asked
    <2> QED
      BY <2>1, <2>2, <2>3, <2>4, <2>5, <2>6 DEF Next
  <1>3. OvertakenInv => OnlyOvertakenAskedAgain
    BY DEF OvertakenInv, OnlyOvertakenAskedAgain
  <1> QED
    BY <1>1, <1>2, <1>3, TypeCorrect, PTL DEF Spec

-----------------------------------------------------------------------------

\* A count saturates at MaxAsked.
Saturated(n) == IF n < MaxAsked THEN n ELSE MaxAsked

\* ReqPiece goes through the missing blocks in rounds: in round m every missing
\* block was asked for m times before the round, and once more if it is marked.
InRound(m) ==
    \A b \in Block \ recvd : asked[b] = Saturated(IF b \in reqd THEN m + 1 ELSE m)

BalancedInv == \E m \in Nat : InRound(m)

\* What needed() does keeps the rounds: the copy of Recvd over Reqd, made when
\* every block is marked, begins the next one.
LEMMA NeededKeepsRounds ==
    ASSUME TypeOK, NEW m \in Nat, InRound(m)
    PROVE  \E n \in Nat : \A b \in Block \ recvd :
              asked[b] = Saturated(IF b \in ReqdAfterNeeded THEN n + 1 ELSE n)
  <1>1. CASE reqd = Block
    <2>1. \A b \in Block \ recvd : asked[b] = Saturated(m + 1) /\ b \notin ReqdAfterNeeded
      BY <1>1 DEF InRound, ReqdAfterNeeded
    <2>2. m + 1 \in Nat
      OBVIOUS
    <2> QED
      BY <2>1, <2>2
  <1>2. CASE reqd # Block
    BY <1>2 DEF InRound, ReqdAfterNeeded
  <1> QED
    BY <1>1, <1>2

\* No missing block is asked for twice more than another missing block,
\* whatever was queued, lost, answered late or failed to be written.
THEOREM BalancedRequestsHolds == Spec => []BalancedRequests
  <1>1. Init => BalancedInv
    <2> SUFFICES ASSUME Init PROVE InRound(0)
      BY DEF BalancedInv
    <2>1. \A b \in Block : asked[b] = 0 /\ b \notin reqd
      BY DEF Init
    <2>2. Saturated(0) = 0
      BY ConnsAssumption, SMT DEF Saturated
    <2> QED
      BY <2>1, <2>2 DEF InRound
  <1>2. TypeOK /\ BalancedInv /\ [Next]_vars => BalancedInv'
    <2> SUFFICES ASSUME TypeOK, BalancedInv, [Next]_vars
                 PROVE  BalancedInv'
      OBVIOUS
    <2>1. PICK m \in Nat : InRound(m)
      BY DEF BalancedInv
    <2>2. ASSUME NEW c \in Conns, NEW b \in Block, NEW written \in BOOLEAN,
                 ReqPieceSends(c, b, written)
          PROVE  BalancedInv'
      <3>1. PICK n \in Nat : \A d \in Block \ recvd :
              asked[d] = Saturated(IF d \in ReqdAfterNeeded THEN n + 1 ELSE n)
        BY <2>1, NeededKeepsRounds
      <3>2. /\ reqd' = ReqdAfterNeeded \cup {b}
            /\ recvd' = recvd
            /\ asked' = [asked EXCEPT ![b] = IF asked[b] < MaxAsked THEN asked[b] + 1 ELSE asked[b]]
        BY <2>2 DEF ReqPieceSends
      <3>3. b \notin ReqdAfterNeeded
        BY <2>2 DEF ReqPieceSends, NeededAt
      <3>4. ASSUME NEW d \in Block \ recvd
            PROVE  asked'[d] = Saturated(IF d \in reqd' THEN n + 1 ELSE n)
        <4>1. CASE d # b
          BY <3>1, <3>2, <4>1 DEF TypeOK
        <4>2. CASE d = b
          <5>1. asked[b] = Saturated(n)
            BY <3>1, <3>3, <4>2
          <5>2. asked'[b] = IF asked[b] < MaxAsked THEN asked[b] + 1 ELSE asked[b]
            BY <3>2 DEF TypeOK
          <5>3. asked'[b] = Saturated(n + 1)
            BY <5>1, <5>2, ConnsAssumption, SMT DEF Saturated
          <5> QED
            BY <3>2, <4>2, <5>3
        <4> QED
          BY <4>1, <4>2
      <3>5. InRound(n)'
        BY <3>2, <3>4 DEF InRound, Saturated
      <3> QED
        BY <3>5 DEF BalancedInv
    <2>3. ASSUME NEW c \in Conns, ReqPieceFindsNothing(c)
          PROVE  BalancedInv'
      <3>1. PICK n \in Nat : \A d \in Block \ recvd :
              asked[d] = Saturated(IF d \in ReqdAfterNeeded THEN n + 1 ELSE n)
        BY <2>1, NeededKeepsRounds
      <3>2. reqd' = ReqdAfterNeeded /\ recvd' = recvd /\ asked' = asked
        BY <2>3 DEF ReqPieceFindsNothing
      <3>3. InRound(n)'
        BY <3>1, <3>2 DEF InRound, Saturated
      <3> QED
        BY <3>3 DEF BalancedInv
    <2>4. ASSUME NEW c \in Conns, NEW ibl \in inFlight[c], AssertRecvd(c, ibl)
          PROVE  BalancedInv'
      <3>1. recvd \subseteq recvd' /\ reqd' = reqd /\ asked' = asked
        BY <2>4 DEF AssertRecvd
      <3>2. InRound(m)'
        BY <2>1, <3>1 DEF InRound, Saturated
      <3> QED
        BY <3>2 DEF BalancedInv
    <2>5. CASE UNCHANGED <<reqd, recvd, asked>>
      <3>1. InRound(m)'
        BY <2>1, <2>5 DEF InRound, Saturated
      <3> QED
        BY <3>1 DEF BalancedInv
    <2>6. ASSUME NEW c \in Conns, NEW index \in Pieces, Enq(c, index)
          PROVE  BalancedInv'
      BY <2>5, <2>6 DEF Enq
    <2>7. ASSUME NEW c \in Conns, NEW choke \in BOOLEAN, SetChocked(c, choke)
          PROVE  BalancedInv'
      BY <2>5, <2>7 DEF SetChocked
    <2>8. CASE UNCHANGED vars
      BY <2>5, <2>8 DEF vars
    <2> QED
      BY <2>2, <2>3, <2>4, <2>6, <2>7, <2>8 DEF Next
  <1>3. TypeOK /\ BalancedInv => BalancedRequests
    <2> SUFFICES ASSUME TypeOK, NEW m \in Nat, InRound(m),
                        NEW b \in Block \ recvd, NEW d \in Block \ recvd,
                        asked[b] > asked[d] + 1
                 PROVE  asked[d] = MaxAsked
      BY DEF BalancedInv, BalancedRequests
    <2>1. /\ asked[b] = Saturated(m) \/ asked[b] = Saturated(m + 1)
          /\ asked[d] = Saturated(m) \/ asked[d] = Saturated(m + 1)
      BY DEF InRound
    <2> QED
      BY <2>1, ConnsAssumption, SMT DEF Saturated
  <1> QED
    BY <1>1, <1>2, <1>3, TypeCorrect, PTL DEF Spec
=============================================================================
