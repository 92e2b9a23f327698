--------------------------- MODULE GeometryProofs ---------------------------
(***************************************************************************)
(* The arithmetic of formats/metainfo.go is right for torrents, pieces and *)
(* blocks of every size.  The provers know little of products and          *)
(* quotients of variables, so the facts needed about them come first.      *)
(***************************************************************************)
EXTENDS Geometry, TLAPS

\* What \div and % mean for the operands the code gives them.
LEMMA DivMod ==
    ASSUME NEW a \in Nat, NEW b \in Nat \ {0}
    PROVE  /\ a \div b \in Nat
           /\ a % b \in 0 .. b - 1
           /\ a = b * (a \div b) + (a % b)
  BY SMT

\* A quotient and a remainder in range are the quotient and the remainder.
LEMMA DivUnique ==
    ASSUME NEW b \in Nat \ {0}, NEW q \in Nat, NEW r \in 0 .. b - 1
    PROVE  (b * q + r) \div b = q
  <1>1. b * q + r \in Nat
    BY SMT
  <1>2. /\ (b * q + r) \div b \in Nat
        /\ (b * q + r) % b \in 0 .. b - 1
        /\ b * q + r = b * ((b * q + r) \div b) + ((b * q + r) % b)
    BY <1>1, DivMod
  <1> QED
    BY <1>2, SMT

\* Multiplication by a positive number is monotone.
LEMMA TimesMonotone ==
    ASSUME NEW b \in Nat \ {0}, NEW m \in Nat, NEW n \in Nat, m < n
    PROVE  b * m + b <= b * n
  <1>1. PICK d \in Nat : n = m + 1 + d
    BY SMT
  <1>2. b * n = b * m + b + b * d
    BY <1>1, SMT
  <1>3. b * d >= 0
    BY SMT
  <1> QED
    BY <1>2, <1>3, SMT

\* ceil(a / b), the way a torrent's pieces and a piece's blocks are counted.
LEMMA RoundUp ==
    ASSUME NEW a \in Nat, NEW b \in Nat \ {0}
    PROVE  (a + b - 1) \div b = IF a % b = 0 THEN a \div b ELSE a \div b + 1
  <1> DEFINE q == a \div b
             r == a % b
  <1>1. q \in Nat /\ r \in 0 .. b - 1 /\ a = b * q + r
    BY DivMod
  <1> HIDE DEF q, r
  <1>2. CASE r = 0
    <2>1. a + b - 1 = b * q + (b - 1) /\ b - 1 \in 0 .. b - 1
      BY <1>1, <1>2, SMT
    <2>2. (b * q + (b - 1)) \div b = q
      BY <1>1, <2>1, DivUnique
    <2> QED
      BY <1>2, <2>1, <2>2 DEF q, r
  <1>3. CASE r # 0
    <2>1. a + b - 1 = b * (q + 1) + (r - 1) /\ r - 1 \in 0 .. b - 1 /\ q + 1 \in Nat
      BY <1>1, <1>3, SMT
    <2>2. (b * (q + 1) + (r - 1)) \div b = q + 1
      BY <2>1, DivUnique
    <2> QED
      BY <1>3, <2>1, <2>2 DEF q, r
  <1> QED
    BY <1>2, <1>3

-----------------------------------------------------------------------------

\* What the proofs use of a piece: it is a full one before the q-th, and the
\* q-th exists only when bytes are left over for it.
LEMMA PieceCases ==
    ASSUME NEW i \in Pieces
    PROVE  LET q == Size \div InfoPieceLen
               r == Size % InfoPieceLen
           IN  /\ i \in Nat
               /\ q \in Nat
               /\ r \in 0 .. InfoPieceLen - 1
               /\ Size = InfoPieceLen * q + r
               /\ \/ i < q /\ PieceLen(i) = InfoPieceLen
                  \/ i = q /\ r > 0 /\ PieceLen(i) = r
               /\ NumPieces = IF r = 0 THEN q ELSE q + 1
  <1> DEFINE q == Size \div InfoPieceLen
             r == Size % InfoPieceLen
  <1>1. /\ Size \in Nat /\ InfoPieceLen \in Nat \ {0}
        /\ q \in Nat /\ r \in 0 .. InfoPieceLen - 1 /\ Size = InfoPieceLen * q + r
    BY GeometryAssumption, DivMod
  <1>2. NumPieces = IF r = 0 THEN q ELSE q + 1
    BY <1>1, RoundUp DEF NumPieces
  <1>3. PieceLen(i) = IF q = i THEN r ELSE InfoPieceLen
    BY DEF PieceLen
  <1>4. i \in 0 .. NumPieces - 1
    BY DEF Pieces
  <1> HIDE DEF q, r
  <1>5. /\ i \in Nat
        /\ \/ i < q /\ PieceLen(i) = InfoPieceLen
           \/ i = q /\ r > 0 /\ PieceLen(i) = r
    BY <1>1, <1>2, <1>3, <1>4, SMT
  <1> QED
    BY <1>1, <1>2, <1>5 DEF q, r

\* No piece of the torrent is empty, so none is without blocks.
LEMMA PieceLenPositive ==
    ASSUME NEW i \in Pieces
    PROVE  PieceLen(i) \in Nat \ {0}
  BY PieceCases, GeometryAssumption, SMT

\* PieceLen and PieceBounds agree and cover the file exactly once, whatever the
\* sizes: what Start relies on when it checks a piece's length with the one
\* and writes the piece at the offset the other gives.
THEOREM PiecesTileHolds == PiecesTile
  <1> SUFFICES ASSUME NEW i \in Pieces
               PROVE  LET b == PieceBounds(i)
                      IN  /\ PieceLen(i) > 0
                          /\ b[2] - b[1] = PieceLen(i)
                          /\ b[1] = IF i = 0 THEN 0 ELSE PieceBounds(i - 1)[2]
                          /\ i = NumPieces - 1 => b[2] = Size
    BY DEF PiecesTile
  <1> DEFINE L == InfoPieceLen
             q == Size \div L
             r == Size % L
             end(j) == IF j * L + L > Size THEN Size ELSE j * L + L
  <1>1. /\ i \in Nat /\ q \in Nat /\ r \in 0 .. L - 1
        /\ Size = L * q + r
        /\ \/ i < q /\ PieceLen(i) = L
           \/ i = q /\ r > 0 /\ PieceLen(i) = r
        /\ NumPieces = IF r = 0 THEN q ELSE q + 1
    BY PieceCases
  <1>2. L \in Nat \ {0} /\ Size \in Nat
    BY GeometryAssumption
  <1>3. \A j : PieceBounds(j)[1] = j * L /\ PieceBounds(j)[2] = end(j)
    BY DEF PieceBounds
  <1>4. \A j \in Nat : j < q => end(j) = j * L + L
    <2> SUFFICES ASSUME NEW j \in Nat, j < q
                 PROVE  j * L + L <= Size
      BY <1>1, <1>2, SMT
    <2>1. L * j + L <= L * q
      BY <1>1, <1>2, TimesMonotone
    <2> QED
      BY <1>1, <1>2, <2>1, SMT
  <1> HIDE DEF q, r
  <1>5. i * L \in Nat /\ i * L = L * i
    BY <1>1, <1>2, SMT
  <1>6. i # 0 => end(i - 1) = i * L
    <2> SUFFICES ASSUME i # 0
                 PROVE  end(i - 1) = i * L
      OBVIOUS
    <2>1. i - 1 \in Nat /\ i - 1 < q
      BY <1>1, SMT
    <2>2. end(i - 1) = (i - 1) * L + L
      BY <1>4, <2>1
    <2>3. (i - 1) * L + L = i * L
      BY <1>1, <1>2, SMT
    <2> QED
      BY <2>2, <2>3
  <1>7. CASE i < q
    <2>1. end(i) = i * L + L /\ PieceLen(i) = L
      BY <1>1, <1>4, <1>7, SMT
    <2>2. i = NumPieces - 1 => end(i) = Size
      <3> SUFFICES ASSUME i = NumPieces - 1
                   PROVE  end(i) = Size
        OBVIOUS
      <3>1. r = 0 /\ q = i + 1
        BY <1>1, <1>7, SMT
      <3>2. Size = L * (i + 1)
        BY <1>1, <1>2, <3>1, SMT
      <3>3. L * (i + 1) = i * L + L
        BY <1>1, <1>2, SMT
      <3> QED
        BY <2>1, <3>2, <3>3
    <2> HIDE DEF end
    <2> QED
      BY <1>2, <1>3, <1>5, <1>6, <2>1, <2>2, SMT
  <1>8. CASE i = q
    <2>1. Size = i * L + r /\ PieceLen(i) = r /\ r > 0
      BY <1>1, <1>5, <1>8, SMT
    <2>2. end(i) = Size
      BY <1>1, <1>2, <1>5, <2>1, SMT
    <2> HIDE DEF end
    <2> QED
      BY <1>1, <1>2, <1>3, <1>5, <1>6, <2>1, <2>2, SMT
  <1> QED
    BY <1>1, <1>7, <1>8

-----------------------------------------------------------------------------

\* The blocks enq asks for cut every piece exactly, whatever the sizes.
THEOREM BlocksTileHolds == BlocksTile
  <1> SUFFICES ASSUME NEW i \in Pieces, NEW k \in BlocksOf(i)
               PROVE  /\ BlockLen(i, k) \in 1 .. BLOCK_LEN
                      /\ k * BLOCK_LEN + BlockLen(i, k) =
                           IF k = NumBlocksInPiece(i) - 1 THEN PieceLen(i)
                                                          ELSE (k + 1) * BLOCK_LEN
    BY DEF BlocksTile
  <1> DEFINE P == PieceLen(i)
             B == BLOCK_LEN
             q == P \div B
             r == P % B
             N == NumBlocksInPiece(i)
             l == BlockLen(i, k)
  <1>1. P \in Nat \ {0} /\ B \in Nat \ {0}
    BY PieceLenPositive, GeometryAssumption
  <1>2. q \in Nat /\ r \in 0 .. B - 1 /\ P = B * q + r
    BY <1>1, DivMod
  <1>3. /\ N = IF r > 0 THEN q + 1 ELSE q
        /\ l = IF k = q THEN r ELSE B
        /\ k \in 0 .. N - 1
    BY DEF NumBlocksInPiece, BlockLen, BlocksOf
  <1> HIDE DEF P, B, q, r, N, l
  <1>4. k \in Nat /\ N \in Nat /\ (k < q \/ (k = q /\ r > 0))
    BY <1>2, <1>3, SMT
  <1>5. l \in 1 .. B
    BY <1>1, <1>2, <1>3, <1>4, SMT
  <1>6. k * B \in Nat /\ k * B = B * k /\ (k + 1) * B = k * B + B
    BY <1>1, <1>4, SMT
  <1>7. k * B + l = IF k = N - 1 THEN P ELSE (k + 1) * B
    <2>1. CASE k = q
      BY <1>2, <1>3, <1>4, <1>6, <2>1, SMT
    <2>2. CASE k < q /\ k = N - 1
      <3>1. r = 0 /\ q = k + 1 /\ l = B
        BY <1>2, <1>3, <1>4, <2>2, SMT
      <3>2. P = B * (k + 1)
        BY <1>1, <1>2, <3>1, SMT
      <3>3. B * (k + 1) = k * B + B
        BY <1>1, <1>4, SMT
      <3> QED
        BY <2>2, <3>1, <3>2, <3>3
    <2>3. CASE k < q /\ k # N - 1
      BY <1>1, <1>2, <1>3, <1>4, <1>6, <2>3, SMT
    <2> QED
      BY <1>4, <2>1, <2>2, <2>3
  <1> QED
    BY <1>5, <1>7 DEF P, B, N, l
=============================================================================
