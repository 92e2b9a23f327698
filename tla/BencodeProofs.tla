---------------------------- MODULE BencodeProofs ----------------------------
(***************************************************************************)
(* Theorems about Parsec and Bencode for every input, on copies and on a   *)
(* shared reader alike.                                                    *)
(***************************************************************************)
EXTENDS BencCodec, SequenceTheorems, WellFoundedInduction, TLAPS

-----------------------------------------------------------------------------
(* Induction, over a set of numbers. *)

\* Of some numbers there is a first one.
LEMMA FirstOf ==
    ASSUME NEW T \in SUBSET Nat, T # {}
    PROVE  \E m \in T : \A k \in T : m <= k
  <1>1. IsWellFoundedOn(OpToRel(<, Nat), Nat)
    BY NatLessThanWellFounded
  <1>2. PICK m \in T : \A k \in T : ~ (<<k, m>> \in OpToRel(<, Nat))
    BY <1>1, WFMin
  <1>3. \A k \in T : <<k, m>> \in Nat \X Nat
    OBVIOUS
  <1>4. \A k \in T : ~ (k < m)
    BY <1>2, <1>3 DEF OpToRel
  <1> QED
    BY <1>4

\* What holds of zero, and of every number that follows one it holds of.
LEMMA AllNumbers ==
    ASSUME NEW S \in SUBSET Nat, 0 \in S, \A n \in S : n + 1 \in S
    PROVE  S = Nat
  <1> SUFFICES ASSUME Nat \ S # {} PROVE FALSE
    OBVIOUS
  <1>1. PICK m \in Nat \ S : \A k \in Nat \ S : m <= k
    BY FirstOf
  <1>2. m # 0 /\ m - 1 \in Nat
    BY <1>1
  <1>3. m - 1 \in S
    BY <1>1, <1>2
  <1> QED
    BY <1>1, <1>3

\* From the end of the input to its beginning.
LEMMA AllPositions ==
    ASSUME TypeOK, NEW S \in SUBSET Pos,
           \A i \in Pos : (\A j \in Pos : i < j => j \in S) => i \in S
    PROVE  S = Pos
  <1>1. Len(in) \in Nat /\ End = Len(in) + 1 /\ Pos = 1 .. End
    BY DEF TypeOK, End, Pos
  <1> DEFINE T == {n \in Nat : \A i \in Pos : End - i <= n => i \in S}
  <1>2. 0 \in T
    <2>1. \A i \in Pos : End - i <= 0 => i = End
      BY <1>1
    <2>2. End \in S
      BY <1>1
    <2> QED
      BY <2>1, <2>2
  <1>3. \A n \in T : n + 1 \in T
    <2> SUFFICES ASSUME NEW n \in T, NEW i \in Pos, End - i <= n + 1
                 PROVE  i \in S
      OBVIOUS
    <2>1. \A j \in Pos : i < j => j \in S
      BY <1>1
    <2> QED
      BY <2>1
  <1>4. T = Nat
    <2> HIDE DEF T
    <2>1. T \subseteq Nat
      BY DEF T
    <2> QED
      BY <1>2, <1>3, <2>1, AllNumbers
  <1>5. \A i \in Pos : End - i \in Nat
    BY <1>1
  <1> QED
    BY <1>4, <1>5

-----------------------------------------------------------------------------
(* Numbers. *)

\* Decimal is what its recursion says.
LEMMA DecimalIs ==
    ASSUME NEW ds, Len(ds) \in Nat
    PROVE  \E f : /\ \A k \in 0 .. Len(ds) : f[k] = IF k = 0 THEN 0 ELSE 10 * f[k - 1] + ds[k]
                 /\ Decimal(ds) = f[Len(ds)]
  <1> DEFINE Defines(f, n) == f = [k \in 0 .. n |-> IF k = 0 THEN 0 ELSE 10 * f[k - 1] + ds[k]]
             S == {n \in Nat : \E f : Defines(f, n)}
             value == CHOOSE f : Defines(f, Len(ds))
  <1>1. 0 \in S
    <2>1. Defines([k \in 0 .. 0 |-> 0], 0)
      OBVIOUS
    <2> QED
      BY <2>1
  <1>2. ASSUME NEW n \in S
        PROVE  n + 1 \in S
    <2>1. n \in Nat
      OBVIOUS
    <2>2. PICK f : Defines(f, n)
      OBVIOUS
    <2> DEFINE g == [k \in 0 .. n + 1 |-> IF k <= n THEN f[k] ELSE 10 * f[n] + ds[n + 1]]
    <2>3. \A k \in 0 .. n : f[k] = IF k = 0 THEN 0 ELSE 10 * f[k - 1] + ds[k]
      BY <2>2
    <2>4. \A k \in 0 .. n + 1 : g[k] = IF k = 0 THEN 0 ELSE 10 * g[k - 1] + ds[k]
      BY <2>1, <2>3
    <2>5. g = [k \in 0 .. n + 1 |-> g[k]]
      OBVIOUS
    <2> HIDE DEF g
    <2>6. Defines(g, n + 1)
      BY <2>4, <2>5
    <2>7. n + 1 \in Nat
      BY <2>1
    <2> HIDE DEF Defines
    <2> QED
      BY <2>6, <2>7
  <1>3. S = Nat
    <2> HIDE DEF S
    <2>1. S \subseteq Nat
      BY DEF S
    <2> QED
      BY <1>1, <1>2, <2>1, AllNumbers
  <1>4. \E f : Defines(f, Len(ds))
    BY <1>3
  <1>5. Decimal(ds) = value[Len(ds)]
    BY DEF Decimal
  <1>6. Defines(value, Len(ds))
    <2> HIDE DEF Defines
    <2> QED
      BY <1>4
  <1> HIDE DEF value
  <1> QED
    BY <1>5, <1>6

\* So is IntOf.
LEMMA IntOfIs ==
    ASSUME NEW ds, Len(ds) \in Nat
    PROVE  \E f : /\ \A k \in 0 .. Len(ds) : f[k] = IF k = 0 THEN 0 ELSE Wrap(10 * f[k - 1] + ds[k])
                 /\ IntOf(ds) = f[Len(ds)]
  <1> DEFINE Defines(f, n) == f = [k \in 0 .. n |-> IF k = 0 THEN 0 ELSE Wrap(10 * f[k - 1] + ds[k])]
             S == {n \in Nat : \E f : Defines(f, n)}
             value == CHOOSE f : Defines(f, Len(ds))
  <1>1. 0 \in S
    <2>1. Defines([k \in 0 .. 0 |-> 0], 0)
      OBVIOUS
    <2> QED
      BY <2>1
  <1>2. ASSUME NEW n \in S
        PROVE  n + 1 \in S
    <2>1. n \in Nat
      OBVIOUS
    <2>2. PICK f : Defines(f, n)
      OBVIOUS
    <2> DEFINE g == [k \in 0 .. n + 1 |-> IF k <= n THEN f[k] ELSE Wrap(10 * f[n] + ds[n + 1])]
    <2>3. \A k \in 0 .. n : f[k] = IF k = 0 THEN 0 ELSE Wrap(10 * f[k - 1] + ds[k])
      BY <2>2
    <2>4. \A k \in 0 .. n + 1 : g[k] = IF k = 0 THEN 0 ELSE Wrap(10 * g[k - 1] + ds[k])
      BY <2>1, <2>3
    <2>5. g = [k \in 0 .. n + 1 |-> g[k]]
      OBVIOUS
    <2> HIDE DEF g
    <2>6. Defines(g, n + 1)
      BY <2>4, <2>5
    <2>7. n + 1 \in Nat
      BY <2>1
    <2> HIDE DEF Defines
    <2> QED
      BY <2>6, <2>7
  <1>3. S = Nat
    <2> HIDE DEF S
    <2>1. S \subseteq Nat
      BY DEF S
    <2> QED
      BY <1>1, <1>2, <2>1, AllNumbers
  <1>4. \E f : Defines(f, Len(ds))
    BY <1>3
  <1>5. IntOf(ds) = value[Len(ds)]
    BY DEF IntOf
  <1>6. Defines(value, Len(ds))
    <2> HIDE DEF Defines
    <2> QED
      BY <1>4
  <1> HIDE DEF value
  <1> QED
    BY <1>5, <1>6

\* An int is not changed by taking it for one.
LEMMA WrapIs ==
    ASSUME MaxInt \in Nat
    PROVE  /\ \A n \in Int : Wrap(n) \in Int
           /\ \A n \in -MaxInt .. MaxInt : Wrap(n) = n
  <1> DEFINE b == 2 * MaxInt + 2
  <1>1. b \in Nat \ {0}
    BY SMT
  <1>2. ASSUME NEW n \in Int
        PROVE  Wrap(n) \in Int
    <2> DEFINE a == n + MaxInt + 1
    <2>1. a \in Int
      BY SMT
    <2> HIDE DEF a, b
    <2>2. a % b \in Int
      BY <1>1, <2>1, SMT
    <2>3. Wrap(n) = (a % b) - MaxInt - 1
      BY DEF Wrap, a, b
    <2> QED
      BY <2>2, <2>3, SMT
  <1>3. ASSUME NEW n \in -MaxInt .. MaxInt
        PROVE  Wrap(n) = n
    <2> DEFINE a == n + MaxInt + 1
               q == a \div b
               r == a % b
    <2>1. a \in Nat /\ a < b
      BY SMT
    <2>2. Wrap(n) = r - MaxInt - 1
      BY DEF Wrap
    <2> HIDE DEF a, b
    <2>3. q \in Nat /\ r \in 0 .. b - 1 /\ a = b * q + r
      BY <1>1, <2>1, SMT
    <2>4. q = 0
      <3> HIDE DEF q, r
      <3> SUFFICES ASSUME q >= 1 PROVE FALSE
        BY <2>3, SMT
      <3>1. PICK d \in Nat : q = 1 + d
        BY <2>3, SMT
      <3>2. b * q = b + b * d /\ b * d \in Nat
        BY <1>1, <3>1, SMT
      <3> QED
        BY <1>1, <2>1, <2>3, <3>2, SMT
    <2>5. r = a
      <3>1. b * 0 = 0
        BY <1>1, SMT
      <3> HIDE DEF q, r
      <3> QED
        BY <2>1, <2>3, <2>4, <3>1, SMT
    <2> QED
      BY <2>2, <2>5, SMT DEF a
  <1> QED
    BY <1>2, <1>3

\* One more digit.
LEMMA TenTimes ==
    \A d \in Nat : (\A n \in Int : 10 * n + d \in Int) /\ (\A n \in Nat : 10 * n + d \in Nat)
  OBVIOUS

\* What Decimal and IntOf are, and that they are the same for what fits.
LEMMA NumbersAre ==
    ASSUME TypeOK, NEW ds \in Seq(Nat)
    PROVE  /\ Decimal(ds) \in Nat
           /\ IntOf(ds) \in Int
           /\ Decimal(ds) <= MaxInt => IntOf(ds) = Decimal(ds)
           /\ ds = <<>> => Decimal(ds) = 0
  <1> DEFINE n == Len(ds)
  <1>1. n \in Nat /\ \A k \in 1 .. n : ds[k] \in Nat
    OBVIOUS
  <1>2. PICK f : /\ \A k \in 0 .. n : f[k] = IF k = 0 THEN 0 ELSE 10 * f[k - 1] + ds[k]
                 /\ Decimal(ds) = f[n]
    BY DecimalIs
  <1>3. PICK g : /\ \A k \in 0 .. n : g[k] = IF k = 0 THEN 0 ELSE Wrap(10 * g[k - 1] + ds[k])
                 /\ IntOf(ds) = g[n]
    BY IntOfIs
  <1>4. MaxInt \in Nat
    BY DEF TypeOK
  <1> HIDE DEF n
  <1>5. \A k \in 0 .. n : f[k] \in Nat /\ g[k] \in Int
    <2> DEFINE S == {k \in Nat : k <= n => f[k] \in Nat /\ g[k] \in Int}
    <2>1. 0 \in S
      BY <1>1, <1>2, <1>3
    <2>2. ASSUME NEW k \in S
          PROVE  k + 1 \in S
      <3> SUFFICES ASSUME k + 1 <= n PROVE f[k + 1] \in Nat /\ g[k + 1] \in Int
        OBVIOUS
      <3>1. k \in Nat /\ f[k] \in Nat /\ g[k] \in Int /\ k + 1 \in 1 .. n /\ ds[k + 1] \in Nat
        BY <1>1
      <3>2. f[k + 1] = 10 * f[k] + ds[k + 1]
        BY <1>1, <1>2, <3>1
      <3>3. g[k + 1] = Wrap(10 * g[k] + ds[k + 1])
        BY <1>1, <1>3, <3>1
      <3>4. 10 * g[k] + ds[k + 1] \in Int /\ 10 * f[k] + ds[k + 1] \in Nat
        BY <3>1, TenTimes
      <3> QED
        BY <1>4, <3>2, <3>3, <3>4, WrapIs
    <2>3. S = Nat
      <3> HIDE DEF S
      <3>1. S \subseteq Nat
        BY DEF S
      <3> QED
        BY <2>1, <2>2, <3>1, AllNumbers
    <2> QED
      BY <1>1, <2>3
  <1>6. \A k \in 0 .. n : f[k] <= f[n]
    <2> DEFINE S == {k \in Nat : k <= n => f[n - k] <= f[n]}
    <2>1. 0 \in S
      BY <1>1, <1>5
    <2>2. ASSUME NEW k \in S
          PROVE  k + 1 \in S
      <3> SUFFICES ASSUME k + 1 <= n PROVE f[n - (k + 1)] <= f[n]
        OBVIOUS
      <3> DEFINE j == n - k
      <3>1. k \in Nat /\ f[j] <= f[n] /\ j \in 1 .. n /\ j - 1 \in 0 .. n /\ ds[j] \in Nat /\ j - 1 = n - (k + 1)
        BY <1>1
      <3>2. f[j] = 10 * f[j - 1] + ds[j] /\ f[j - 1] \in Nat /\ f[j] \in Nat /\ f[n] \in Nat
        BY <1>1, <1>2, <1>5, <3>1
      <3> HIDE DEF j
      <3> QED
        BY <3>1, <3>2
    <2>3. S = Nat
      <3> HIDE DEF S
      <3>1. S \subseteq Nat
        BY DEF S
      <3> QED
        BY <2>1, <2>2, <3>1, AllNumbers
    <2>4. ASSUME NEW k \in 0 .. n
          PROVE  f[k] <= f[n]
      <3>1. n - k \in Nat /\ n - (n - k) = k /\ n - k <= n
        BY <1>1
      <3>2. n - k \in S
        <4> HIDE DEF S
        <4> QED
          BY <2>3, <3>1
      <3> QED
        BY <3>1, <3>2
    <2> QED
      BY <2>4
  <1>7. ASSUME f[n] <= MaxInt
        PROVE  g[n] = f[n]
    <2> DEFINE S == {k \in Nat : k <= n => g[k] = f[k]}
    <2>1. 0 \in S
      BY <1>1, <1>2, <1>3
    <2>2. ASSUME NEW k \in S
          PROVE  k + 1 \in S
      <3> SUFFICES ASSUME k + 1 <= n PROVE g[k + 1] = f[k + 1]
        OBVIOUS
      <3>1. k \in Nat /\ g[k] = f[k] /\ k + 1 \in 1 .. n /\ n \in 0 .. n
        BY <1>1
      <3>2. f[k + 1] = 10 * f[k] + ds[k + 1]
        BY <1>1, <1>2, <3>1
      <3>3. g[k + 1] = Wrap(10 * g[k] + ds[k + 1])
        BY <1>1, <1>3, <3>1
      <3>4. f[k + 1] \in Nat /\ f[n] \in Nat /\ f[k + 1] <= f[n]
        BY <1>5, <1>6, <3>1
      <3>5. f[k + 1] \in -MaxInt .. MaxInt
        BY <1>4, <1>7, <3>4
      <3> QED
        BY <1>4, <3>1, <3>2, <3>3, <3>5, WrapIs
    <2>3. S = Nat
      <3> HIDE DEF S
      <3>1. S \subseteq Nat
        BY DEF S
      <3> QED
        BY <2>1, <2>2, <3>1, AllNumbers
    <2> QED
      BY <1>1, <2>3
  <1>8. ds = <<>> => f[n] = 0
    BY <1>1, <1>2 DEF n
  <1>9. n \in 0 .. n
    BY <1>1
  <1> QED
    BY <1>2, <1>3, <1>5, <1>7, <1>8, <1>9

-----------------------------------------------------------------------------
(* The input. *)

\* The end, the positions and the bytes.
LEMMA InputIs ==
    ASSUME TypeOK
    PROVE  /\ Len(in) \in Nat /\ End = Len(in) + 1 /\ End \in Nat /\ Pos = 1 .. End
           /\ End \in Pos /\ 1 \in Pos
           /\ \A i \in Pos : (Empty(i) <=> i = End)
           /\ \A i \in Pos : i # End => Car(i) \in Byte /\ i + 1 \in Pos /\ i < End
  <1>1. Len(in) \in Nat /\ \A i \in 1 .. Len(in) : in[i] \in Byte
    BY DEF TypeOK
  <1> QED
    BY <1>1 DEF End, Pos, Empty, Car

\* Until finds the first byte of a set, or the end.
LEMMA UntilIs ==
    ASSUME TypeOK, NEW f, NEW i \in Pos
    PROVE  /\ Until(f, i) \in i .. End
           /\ Until(f, i) \in Pos
           /\ Until(f, i) = End \/ Car(Until(f, i)) \in f
           /\ \A k \in i .. Until(f, i) - 1 : Car(k) \notin f
  <1> DEFINE T == {j \in i .. End : j = End \/ Car(j) \in f}
             P(j) == /\ j = End \/ Car(j) \in f
                     /\ \A k \in i .. j - 1 : Car(k) \notin f
             u == CHOOSE j \in i .. End : P(j)
  <1>1. End \in Nat /\ i \in 1 .. End
    BY InputIs
  <1>2. T \in SUBSET Nat /\ End \in T
    BY <1>1
  <1>3. PICK m \in T : \A k \in T : m <= k
    <2> HIDE DEF T
    <2>1. T # {}
      BY <1>2
    <2> QED
      BY <1>2, <2>1, FirstOf
  <1>4. \A k \in i .. m - 1 : k \notin T /\ k \in i .. End
    BY <1>1, <1>3
  <1>5. m \in i .. End /\ P(m)
    BY <1>4
  <1>6. u \in i .. End /\ P(u)
    <2> HIDE DEF P
    <2> QED
      BY <1>5
  <1>7. Until(f, i) = u
    BY DEF Until, Empty
  <1>8. u \in Pos
    <2> HIDE DEF u
    <2> QED
      BY <1>1, <1>6, InputIs
  <1> HIDE DEF u
  <1> QED
    BY <1>6, <1>7, <1>8

\* There is only one such place.
LEMMA UntilFirst ==
    ASSUME TypeOK, NEW f, NEW i \in Pos, NEW j \in i .. End,
           j = End \/ Car(j) \in f, \A k \in i .. j - 1 : Car(k) \notin f
    PROVE  Until(f, i) = j
  <1> DEFINE u == Until(f, i)
  <1>1. /\ u \in i .. End
        /\ u = End \/ Car(u) \in f
        /\ \A k \in i .. u - 1 : Car(k) \notin f
    BY UntilIs
  <1>2. End \in Nat /\ i \in 1 .. End
    BY InputIs
  <1> HIDE DEF u
  <1>3. ~ (u < j)
    <2> SUFFICES ASSUME u < j PROVE FALSE
      OBVIOUS
    <2>1. u \in i .. j - 1 /\ u # End
      BY <1>1, <1>2
    <2> QED
      BY <1>1, <2>1
  <1>4. ~ (j < u)
    <2> SUFFICES ASSUME j < u PROVE FALSE
      OBVIOUS
    <2>1. j \in i .. u - 1 /\ j # End
      BY <1>1, <1>2
    <2> QED
      BY <1>1, <2>1
  <1>5. u = j
    BY <1>1, <1>2, <1>3, <1>4
  <1> QED
    BY <1>5 DEF u

\* The digits end at the first other byte.
LEMMA DigitsEndIs ==
    ASSUME TypeOK, NEW i \in Pos
    PROVE  DigitsEnd(i) = Until(Byte \ DigitByte, i)
  <1> DEFINE f == Byte \ DigitByte
             u == Until(f, i)
             T == {j \in i .. End : \A k \in i .. j - 1 : Car(k) \in DigitByte}
             m == CHOOSE x \in T : \A y \in T : x >= y
  <1>1. /\ u \in i .. End
        /\ u = End \/ Car(u) \in f
        /\ \A k \in i .. u - 1 : Car(k) \notin f
    BY UntilIs
  <1>2. /\ End \in Nat /\ i \in 1 .. End
        /\ \A k \in i .. End : k # End => Car(k) \in Byte
    BY InputIs
  <1> HIDE DEF u
  <1>3. \A k \in i .. u - 1 : Car(k) \in DigitByte
    <2> TAKE k \in i .. u - 1
    <2>1. k \in i .. End /\ k # End
      BY <1>1, <1>2
    <2> QED
      BY <1>1, <1>2, <2>1
  <1>4. u \in T
    BY <1>1, <1>3
  <1>5. \A y \in T : u >= y
    <2> TAKE y \in T
    <2> SUFFICES ASSUME y > u PROVE FALSE
      BY <1>1, <1>2
    <2>1. u \in i .. y - 1 /\ u # End
      BY <1>1, <1>2
    <2>2. Car(u) \in DigitByte
      BY <2>1
    <2> QED
      BY <1>1, <2>1, <2>2
  <1>6. \A y \in T : y \in Int
    BY <1>2
  <1> HIDE DEF T
  <1>7. m \in T /\ \A y \in T : m >= y
    BY <1>4, <1>5
  <1>8. m = u
    BY <1>4, <1>5, <1>6, <1>7
  <1>9. DigitsEnd(i) = m
    BY DEF DigitsEnd, Max, T
  <1> QED
    BY <1>8, <1>9 DEF u

\* What digits write is a sequence of numbers below ten.
LEMMA DigitsAre ==
    ASSUME TypeOK, NEW i \in Pos, NEW j \in i .. End, \A k \in i .. j - 1 : Car(k) \in DigitByte
    PROVE  /\ Digits(Bytes(i, j)) \in Seq(Nat)
           /\ Len(Digits(Bytes(i, j))) = j - i
           /\ \A k \in 1 .. j - i : Digits(Bytes(i, j))[k] = DigitOf(Car(i + k - 1))
  <1>1. \A b \in DigitByte : DigitOf(b) \in Nat
    <2> TAKE b \in DigitByte
    <2> DEFINE d == CHOOSE n \in 1 .. 10 : Dec[n] = b
    <2>1. \E n \in 1 .. 10 : Dec[n] = b
      <3>1. DOMAIN Dec = 1 .. 10
        BY DEF Dec
      <3> QED
        BY <3>1 DEF DigitByte, ToSet
    <2>2. d \in 1 .. 10
      BY <2>1
    <2> HIDE DEF d
    <2>3. d - 1 \in Nat
      BY <2>2
    <2> QED
      BY <2>3 DEF DigitOf, d
  <1> DEFINE b == Bytes(i, j)
  <1>2. End \in Nat /\ i \in 1 .. End /\ End = Len(in) + 1 /\ in \in Seq(Byte)
    BY InputIs DEF TypeOK
  <1>3. /\ Len(b) = j - i /\ j - i \in Nat /\ DOMAIN b = 1 .. j - i
        /\ \A k \in 1 .. j - i : b[k] = in[i + k - 1]
    BY <1>2 DEF Bytes
  <1>4. \A k \in 1 .. j - i : i + k - 1 \in i .. j - 1
    BY <1>2
  <1>5. \A k \in 1 .. j - i : b[k] \in DigitByte /\ b[k] = Car(i + k - 1)
    BY <1>3, <1>4 DEF Car
  <1> HIDE DEF b
  <1>6. Digits(b) = [k \in 1 .. j - i |-> DigitOf(b[k])]
    BY <1>3 DEF Digits
  <1>7. \A k \in 1 .. j - i : DigitOf(b[k]) \in Nat
    BY <1>1, <1>5
  <1>8. Digits(b) \in [1 .. j - i -> Nat]
    BY <1>6, <1>7
  <1>9. Digits(b) \in Seq(Nat) /\ Len(Digits(b)) = j - i
    <2> DEFINE n == j - i
               d == Digits(b)
    <2>1. n \in Nat /\ d \in [1 .. n -> Nat]
      BY <1>3, <1>8
    <2> HIDE DEF n, d
    <2>2. d \in Seq(Nat) /\ Len(d) = n
      BY <2>1
    <2> QED
      BY <2>2 DEF n, d
  <1> QED
    BY <1>5, <1>6, <1>9 DEF b

-----------------------------------------------------------------------------
(* Parsers. *)

\* A result is a record whose position is not before the one it was asked for at.
IsResult(r, i) == r = [err |-> r.err, val |-> r.val, at |-> r.at] /\ r.at \in i .. End

IsParser(p) == \A i \in Pos : IsResult(p[i], i)

\* Nothing is found at the end of the input.
WantsInput(p) == Failed(p[End])

\* On copies, a parser that refuses leaves its input.
KeepsInput(p) == ~shared => \A i \in Pos : Refuses(p[i]) => p[i].at = i

\* What the helpers make of results.
LEMMA ResultsAre ==
    ASSUME TypeOK, NEW i \in Pos
    PROVE  /\ \A v : \A j \in i .. End : IsResult(Ok(v, j), i) /\ ~Failed(Ok(v, j))
           /\ \A e : \A j \in i .. End :
                /\ IsResult(Stuck(e, j), i)
                /\ IsResult(Fails(e, i, j), i)
                /\ Fails(e, i, j).err = e
                /\ Stuck(e, j).err = e
                /\ ~shared => Fails(e, i, j).at = i
                /\ j = i => Fails(e, i, j).at = i
                /\ shared => Fails(e, i, j).at = j
  <1>1. End \in Nat /\ i \in 1 .. End /\ i \in i .. End
    BY InputIs
  <1> QED
    BY <1>1 DEF IsResult, Ok, Stuck, Fails, Kept, Failed

\* Whoever gives up has failed, and as what it called if that ended the parse.
LEMMA GivesUpIs ==
    ASSUME TypeOK, NEW i \in Pos, NEW j \in i .. End, NEW r, IsResult(r, j), Failed(r), NEW e, e # "none"
    PROVE  /\ IsResult(GivesUp(e, i, r), i)
           /\ Failed(GivesUp(e, i, r))
           /\ Ends(r) => GivesUp(e, i, r) = r
           /\ ~Ends(r) => GivesUp(e, i, r).err = e
           /\ ~shared /\ Refuses(GivesUp(e, i, r)) => GivesUp(e, i, r).at = i
           /\ ~Ends(r) /\ shared => GivesUp(e, i, r).at = r.at
  <1>1. End \in Nat /\ i \in 1 .. End /\ j \in Nat
    BY InputIs
  <1>2. r = [err |-> r.err, val |-> r.val, at |-> r.at] /\ r.at \in j .. End /\ r.err # "none"
    BY DEF IsResult, Failed
  <1>3. r.at \in i .. End
    BY <1>1, <1>2
  <1>4. CASE Ends(r)
    BY <1>2, <1>3, <1>4 DEF GivesUp, IsResult, Failed, Refuses
  <1>5. CASE ~Ends(r)
    <2>1. GivesUp(e, i, r) = Fails(e, i, r.at)
      BY <1>5 DEF GivesUp
    <2> QED
      BY <1>3, <1>5, <2>1, ResultsAre DEF Failed
  <1> QED
    BY <1>4, <1>5

\* One more element in front.
LEMMA PrependIs ==
    ASSUME TypeOK, NEW i \in Pos, NEW j \in i .. End, NEW r, IsResult(r, j), NEW v
    PROVE  /\ IsResult(Prepend(v, r), i)
           /\ Failed(r) => Prepend(v, r) = r
           /\ ~Failed(r) => Prepend(v, r) = Ok(<<v>> \o r.val, r.at)
  <1>1. End \in Nat /\ i \in 1 .. End /\ j \in Nat
    BY InputIs
  <1>2. r = [err |-> r.err, val |-> r.val, at |-> r.at] /\ r.at \in j .. End
    BY DEF IsResult
  <1>3. r.at \in i .. End
    BY <1>1, <1>2
  <1>4. ~Failed(r) => Prepend(v, r) = Ok(<<v>> \o r.val, r.at)
    BY <1>2 DEF Prepend, Ok, Failed
  <1>5. Failed(r) => Prepend(v, r) = r
    BY DEF Prepend
  <1> QED
    BY <1>2, <1>3, <1>4, <1>5, ResultsAre DEF IsResult

\* One byte of some.
LEMMA OneOfIs ==
    ASSUME TypeOK, NEW any
    PROVE  /\ IsParser(OneOf(any)) /\ WantsInput(OneOf(any)) /\ KeepsInput(OneOf(any))
           /\ OneOf(any)[End] = Fails("Incomplete", End, End)
           /\ \A i \in Pos : i # End =>
                OneOf(any)[i] = IF Car(i) \in any THEN Ok(Car(i), i + 1) ELSE Fails("Unmatched", i, i)
           /\ \A i \in Pos : Failed(OneOf(any)[i]) => Refuses(OneOf(any)[i]) /\ OneOf(any)[i].at = i
  <1>1. /\ End \in Nat /\ Pos = 1 .. End /\ End \in Pos
        /\ \A i \in Pos : (Empty(i) <=> i = End)
        /\ \A i \in Pos : i # End => i + 1 \in i .. End
    BY InputIs
  <1>2. OneOf(any)[End] = Fails("Incomplete", End, End)
    BY <1>1 DEF OneOf
  <1>3. \A i \in Pos : i # End =>
           OneOf(any)[i] = IF Car(i) \in any THEN Ok(Car(i), i + 1) ELSE Fails("Unmatched", i, i)
    BY <1>1 DEF OneOf
  <1>4. ASSUME NEW i \in Pos
        PROVE  /\ IsResult(OneOf(any)[i], i)
               /\ Failed(OneOf(any)[i]) => Refuses(OneOf(any)[i]) /\ OneOf(any)[i].at = i
               /\ i = End => Failed(OneOf(any)[i])
    <2>1. i \in i .. End /\ (i # End => i + 1 \in i .. End)
      BY <1>1
    <2>2. CASE i = End
      <3>1. OneOf(any)[i] = Fails("Incomplete", i, i)
        BY <1>2, <2>2
      <3> QED
        BY <2>1, <3>1, ResultsAre DEF Failed, Refuses, Ends
    <2>3. CASE i # End /\ Car(i) \in any
      <3>1. OneOf(any)[i] = Ok(Car(i), i + 1)
        BY <1>3, <2>3
      <3> QED
        BY <2>1, <2>3, <3>1, ResultsAre
    <2>4. CASE i # End /\ Car(i) \notin any
      <3>1. OneOf(any)[i] = Fails("Unmatched", i, i)
        BY <1>3, <2>4
      <3> QED
        BY <2>1, <2>4, <3>1, ResultsAre DEF Failed, Refuses, Ends
    <2> QED
      BY <2>2, <2>3, <2>4
  <1>5. IsParser(OneOf(any))
    BY <1>4 DEF IsParser
  <1>6. WantsInput(OneOf(any))
    BY <1>1, <1>4 DEF WantsInput
  <1>7. \A i \in Pos : Failed(OneOf(any)[i]) => Refuses(OneOf(any)[i]) /\ OneOf(any)[i].at = i
    BY <1>4
  <1>8. KeepsInput(OneOf(any))
    BY <1>7 DEF KeepsInput, Refuses
  <1> QED
    BY <1>2, <1>3, <1>5, <1>6, <1>7, <1>8

\* A digit, with its value.
LEMMA DigitIs ==
    ASSUME TypeOK
    PROVE  /\ IsParser(Digit) /\ WantsInput(Digit)
           /\ \A i \in Pos : i # End =>
                Digit[i] = IF Car(i) \in DigitByte THEN Ok(DigitOf(Car(i)), i + 1) ELSE Fails("Unmatched", i, i)
  <1>1. /\ End \in Nat /\ Pos = 1 .. End /\ End \in Pos
        /\ \A i \in Pos : i # End => i + 1 \in i .. End
    BY InputIs
  <1> DEFINE one == OneOf(DigitByte)
  <1>2. /\ IsParser(one) /\ WantsInput(one)
        /\ \A i \in Pos : i # End =>
                one[i] = IF Car(i) \in DigitByte THEN Ok(Car(i), i + 1) ELSE Fails("Unmatched", i, i)
    BY OneOfIs
  <1>3. \A i \in Pos : Digit[i] = IF Failed(one[i]) THEN one[i] ELSE Ok(DigitOf(one[i].val), one[i].at)
    BY DEF Digit
  <1> HIDE DEF one
  <1>4. \A i \in Pos : i # End =>
           Digit[i] = IF Car(i) \in DigitByte THEN Ok(DigitOf(Car(i)), i + 1) ELSE Fails("Unmatched", i, i)
    <2> TAKE i \in Pos
    <2> HAVE i # End
    <2>1. CASE Car(i) \in DigitByte
      <3>1. one[i] = Ok(Car(i), i + 1)
        BY <1>2, <2>1
      <3>2. ~Failed(one[i]) /\ one[i].val = Car(i) /\ one[i].at = i + 1
        BY <3>1 DEF Ok, Failed
      <3> QED
        BY <1>3, <2>1, <3>2
    <2>2. CASE Car(i) \notin DigitByte
      <3>1. one[i] = Fails("Unmatched", i, i)
        BY <1>2, <2>2
      <3>2. Failed(one[i])
        BY <3>1 DEF Fails, Failed
      <3> QED
        BY <1>3, <2>2, <3>1, <3>2
    <2> QED
      BY <2>1, <2>2
  <1>5. Digit[End] = one[End] /\ Failed(one[End])
    BY <1>1, <1>2, <1>3 DEF WantsInput
  <1>6. \A i \in Pos : IsResult(Digit[i], i)
    <2> TAKE i \in Pos
    <2>1. CASE Failed(one[i])
      BY <1>2, <1>3, <2>1 DEF IsParser
    <2>2. CASE ~Failed(one[i])
      <3>1. one[i].at \in i .. End
        BY <1>2 DEF IsParser, IsResult
      <3> QED
        BY <1>3, <2>2, <3>1, ResultsAre
    <2> QED
      BY <2>1, <2>2
  <1> QED
    BY <1>4, <1>5, <1>6 DEF IsParser, WantsInput

-----------------------------------------------------------------------------
(* The parsers of bytes in a row. *)

\* The letters of the formats are no digits.
LEMMA NoDigit ==
    "-" \notin DigitByte /\ ":" \notin DigitByte /\ "i" \notin DigitByte /\ "e" \notin DigitByte
  <1>1. DOMAIN Dec = 1 .. 10 /\ \A d \in 1 .. 10 : Dec[d] \notin {"-", ":", "i", "e"}
    BY DEF Dec
  <1> QED
    BY <1>1 DEF DigitByte, ToSet

\* As many bytes as there are to be, or none.
LEMMA TakeNIs ==
    ASSUME TypeOK, NEW n \in Nat \ {0}
    PROVE  /\ IsParser(TakeN(n)) /\ WantsInput(TakeN(n)) /\ KeepsInput(TakeN(n))
           /\ \A i \in Pos : i + n <= End => TakeN(n)[i] = Ok(Bytes(i, i + n), i + n)
           /\ \A i \in Pos : i + n > End => Refuses(TakeN(n)[i])
  <1>1. /\ End \in Nat /\ Pos = 1 .. End /\ End \in Pos
        /\ \A i \in Pos : (Empty(i) <=> i = End)
    BY InputIs
  <1>2. ASSUME NEW i \in Pos, i + n <= End
        PROVE  /\ TakeN(n)[i] = Ok(Bytes(i, i + n), i + n)
               /\ IsResult(TakeN(n)[i], i) /\ ~Failed(TakeN(n)[i])
    <2>1. i # End /\ i + n \in i .. End /\ ~(i + n > End)
      BY <1>1, <1>2
    <2>2. TakeN(n)[i] = Ok(Bytes(i, i + n), i + n)
      BY <1>1, <2>1 DEF TakeN
    <2> QED
      BY <2>1, <2>2, ResultsAre
  <1>3. ASSUME NEW i \in Pos, i + n > End
        PROVE  /\ IsResult(TakeN(n)[i], i) /\ Refuses(TakeN(n)[i])
               /\ ~shared => TakeN(n)[i].at = i
    <2>1. End \in i .. End /\ i \in i .. End
      BY <1>1
    <2>2. TakeN(n)[i] \in {Fails("Incomplete", i, i), Fails("Incomplete", i, End)}
      BY <1>1, <1>3 DEF TakeN
    <2> QED
      BY <2>1, <2>2, ResultsAre DEF Refuses, Failed, Ends
  <1>4. \A i \in Pos : i + n <= End \/ i + n > End
    BY <1>1
  <1>5. IsParser(TakeN(n))
    BY <1>2, <1>3, <1>4 DEF IsParser
  <1>6. WantsInput(TakeN(n))
    <2>1. End + n > End
      BY <1>1
    <2> QED
      BY <1>1, <1>3, <2>1 DEF WantsInput, Refuses
  <1>7. KeepsInput(TakeN(n))
    BY <1>2, <1>3, <1>4 DEF KeepsInput, Refuses
  <1> QED
    BY <1>2, <1>3, <1>5, <1>6, <1>7

\* The same for StrN, which refuses to take less than one.
LEMMA StrNIs ==
    ASSUME TypeOK, NEW n \in Int
    PROVE  /\ IsParser(StrN(n)) /\ WantsInput(StrN(n))
           /\ n >= 1 => KeepsInput(StrN(n))
           /\ n >= 1 => \A i \in Pos : i + n <= End => StrN(n)[i] = Ok(Bytes(i, i + n), i + n)
           /\ \A i \in Pos : n < 1 \/ i + n > End => Refuses(StrN(n)[i])
  <1> DEFINE m == IF n < 1 THEN 1 ELSE n
             take == TakeN(m)
  <1>1. /\ End \in Nat /\ Pos = 1 .. End /\ End \in Pos
        /\ m \in Nat \ {0} /\ (n >= 1 => m = n) /\ (n >= 1 <=> ~(n < 1)) /\ (n < 1 => m = 1)
    BY InputIs
  <1>2. \A i \in Pos :
           StrN(n)[i] = IF n < 1 /\ ~Failed(take[i]) THEN [take[i] EXCEPT !.err = "Exceeded"] ELSE take[i]
    BY DEF StrN
  <1> HIDE DEF m
  <1>3. /\ IsParser(take) /\ WantsInput(take) /\ KeepsInput(take)
        /\ \A i \in Pos : i + m <= End => take[i] = Ok(Bytes(i, i + m), i + m)
        /\ \A i \in Pos : i + m > End => Refuses(take[i])
    BY <1>1, TakeNIs
  <1> HIDE DEF take
  <1>4. ASSUME NEW i \in Pos, n < 1
        PROVE  IsResult(StrN(n)[i], i) /\ Refuses(StrN(n)[i])
    <2>1. IsResult(take[i], i)
      BY <1>3 DEF IsParser
    <2>2. CASE Failed(take[i])
      <3>1. StrN(n)[i] = take[i]
        BY <1>2, <2>2
      <3>2. i + 1 > End
        <4> SUFFICES ASSUME i + 1 <= End PROVE FALSE
          BY <1>1
        <4>1. take[i] = Ok(Bytes(i, i + m), i + m)
          BY <1>1, <1>3, <1>4
        <4> QED
          BY <2>2, <4>1 DEF Ok, Failed
      <3>3. Refuses(take[i])
        BY <1>1, <1>3, <1>4, <3>2
      <3> QED
        BY <2>1, <3>1, <3>3
    <2>3. CASE ~Failed(take[i])
      <3> DEFINE r == take[i]
      <3>1. StrN(n)[i] = [r EXCEPT !.err = "Exceeded"]
        BY <1>2, <1>4, <2>3
      <3>2. r = [err |-> r.err, val |-> r.val, at |-> r.at] /\ r.at \in i .. End
        BY <2>1 DEF IsResult
      <3> HIDE DEF r
      <3>3. StrN(n)[i] = [err |-> "Exceeded", val |-> r.val, at |-> r.at]
        BY <3>1, <3>2
      <3> QED
        BY <3>2, <3>3 DEF IsResult, Refuses, Failed, Ends
    <2> QED
      BY <2>2, <2>3
  <1>5. CASE n < 1
    <2>1. IsParser(StrN(n))
      BY <1>4, <1>5 DEF IsParser
    <2>2. WantsInput(StrN(n))
      BY <1>1, <1>4, <1>5 DEF WantsInput, Refuses
    <2> QED
      BY <1>1, <1>4, <1>5, <2>1, <2>2
  <1>6. CASE n >= 1
    <2>1. \A i \in Pos : StrN(n)[i] = take[i]
      BY <1>1, <1>2, <1>6
    <2>2. m = n
      BY <1>1, <1>6
    <2>3. IsParser(StrN(n))
      BY <1>3, <2>1 DEF IsParser
    <2>4. WantsInput(StrN(n))
      BY <1>1, <1>3, <2>1 DEF WantsInput
    <2>5. KeepsInput(StrN(n))
      BY <1>3, <2>1 DEF KeepsInput
    <2> QED
      BY <1>1, <1>3, <1>6, <2>1, <2>2, <2>3, <2>4, <2>5
  <1> QED
    BY <1>1, <1>5, <1>6

\* The digits after a sign, and their number unless that is zero.
LEMMA NumberIs ==
    ASSUME TypeOK
    PROVE  /\ IsParser(Number) /\ WantsInput(Number) /\ KeepsInput(Number)
           /\ \A i \in Pos : i # End =>
                LET s == IF Car(i) = "-" THEN i + 1 ELSE i
                    j == DigitsEnd(s)
                    num == IntOf(Digits(Bytes(s, j)))
                IN  /\ s \in Pos /\ j \in s .. End /\ num \in Int
                    /\ num = 0 => Number[i] = Fails(IF j = End THEN "none" ELSE "Unmatched", i, j)
                    /\ num # 0 => Number[i] = Ok(IF Car(i) = "-" THEN Wrap(-num) ELSE num, j)
  <1>1. /\ End \in Nat /\ Pos = 1 .. End /\ End \in Pos
        /\ \A i \in Pos : (Empty(i) <=> i = End)
        /\ \A i \in Pos : i # End => i + 1 \in Pos
    BY InputIs
  <1>2. ASSUME NEW i \in Pos, i # End,
               NEW s, s = IF Car(i) = "-" THEN i + 1 ELSE i,
               NEW j, j = DigitsEnd(s),
               NEW num, num = IntOf(Digits(Bytes(s, j)))
        PROVE  /\ s \in Pos /\ j \in s .. End /\ num \in Int
               /\ num = 0 => Number[i] = Fails(IF j = End THEN "none" ELSE "Unmatched", i, j)
               /\ num # 0 => Number[i] = Ok(IF Car(i) = "-" THEN Wrap(-num) ELSE num, j)
               /\ IsResult(Number[i], i)
               /\ Refuses(Number[i]) /\ ~shared => Number[i].at = i
    <2>1. s \in Pos /\ s \in i .. End
      BY <1>1, <1>2
    <2>2. j = Until(Byte \ DigitByte, s)
      BY <1>2, <2>1, DigitsEndIs
    <2>3. j \in s .. End /\ j \in Pos /\ \A k \in s .. j - 1 : Car(k) \notin Byte \ DigitByte
      BY <2>1, <2>2, UntilIs
    <2>4. \A k \in s .. j - 1 : Car(k) \in DigitByte
      <3> TAKE k \in s .. j - 1
      <3>1. k \in Pos /\ k # End
        BY <1>1, <2>1, <2>3
      <3>2. Car(k) \in Byte
        BY <3>1, InputIs
      <3> QED
        BY <2>3, <3>2
    <2>5. Digits(Bytes(s, j)) \in Seq(Nat)
      BY <2>1, <2>3, <2>4, DigitsAre
    <2>6. num \in Int
      BY <1>2, <2>5, NumbersAre
    <2> DEFINE sign == Tag("-")[i]
    <2>7. sign.at = s /\ (Failed(sign) <=> Car(i) # "-")
      <3>1. sign = IF Car(i) \in {"-"} THEN Ok(Car(i), i + 1) ELSE Fails("Unmatched", i, i)
        BY <1>2, OneOfIs DEF Tag
      <3> QED
        BY <1>1, <1>2, <3>1 DEF Ok, Fails, Failed, Kept
    <2>8. Number[i] = IF num = 0 THEN Fails(IF j = End THEN "none" ELSE "Unmatched", i, j)
                                 ELSE Ok(IF Car(i) = "-" THEN Wrap(-num) ELSE num, j)
      <3> HIDE DEF sign
      <3>1. Number[i] = IF Empty(i) THEN Fails("Incomplete", i, i)
                        ELSE IF num = 0 THEN Fails(IF Empty(j) THEN "none" ELSE "Unmatched", i, j)
                        ELSE Ok(IF Failed(sign) THEN num ELSE Wrap(-num), j)
        BY <1>2, <2>2, <2>7 DEF Number, sign
      <3> QED
        BY <1>1, <1>2, <2>3, <2>7, <3>1
    <2>9. j \in i .. End
      BY <1>1, <2>1, <2>3
    <2>10. IsResult(Number[i], i) /\ (Refuses(Number[i]) /\ ~shared => Number[i].at = i)
      <3>1. CASE num = 0
        BY <2>8, <2>9, <3>1, ResultsAre
      <3>2. CASE num # 0
        BY <2>8, <2>9, <3>2, ResultsAre DEF Refuses
      <3> QED
        BY <3>1, <3>2
    <2> QED
      BY <2>1, <2>3, <2>6, <2>8, <2>10
  <1>3. Number[End] = Fails("Incomplete", End, End) /\ End \in End .. End
    BY <1>1 DEF Number
  <1>4. IsParser(Number)
    <2> SUFFICES ASSUME NEW i \in Pos PROVE IsResult(Number[i], i)
      BY DEF IsParser
    <2>1. CASE i = End
      BY <1>1, <1>3, <2>1, ResultsAre
    <2>2. CASE i # End
      BY <1>2, <2>2
    <2> QED
      BY <2>1, <2>2
  <1>5. WantsInput(Number)
    BY <1>1, <1>3, ResultsAre DEF WantsInput, Failed
  <1>6. KeepsInput(Number)
    <2> SUFFICES ASSUME ~shared, NEW i \in Pos, Refuses(Number[i]) PROVE Number[i].at = i
      BY DEF KeepsInput
    <2>1. CASE i = End
      BY <1>1, <1>3, <2>1, ResultsAre
    <2>2. CASE i # End
      BY <1>2, <2>2
    <2> QED
      BY <2>1, <2>2
  <1> QED
    BY <1>2, <1>4, <1>5, <1>6

\* The digits, and the byte after them.
LEMMA DigitsEndAt ==
    ASSUME TypeOK, NEW i \in Pos
    PROVE  /\ DigitsEnd(i) \in i .. End /\ DigitsEnd(i) \in Pos
           /\ \A k \in i .. DigitsEnd(i) - 1 : Car(k) \in DigitByte
           /\ DigitsEnd(i) # End => Car(DigitsEnd(i)) \notin DigitByte
           /\ Digits(Bytes(i, DigitsEnd(i))) \in Seq(Nat)
           /\ i = DigitsEnd(i) => Digits(Bytes(i, DigitsEnd(i))) = <<>>
  <1> DEFINE j == DigitsEnd(i)
  <1>1. j = Until(Byte \ DigitByte, i)
    BY DigitsEndIs
  <1> HIDE DEF j
  <1>2. /\ j \in i .. End /\ j \in Pos
        /\ j = End \/ Car(j) \notin DigitByte
        /\ \A k \in i .. j - 1 : Car(k) \notin Byte \ DigitByte
    BY <1>1, UntilIs
  <1>3. End \in Nat /\ i \in 1 .. End
    BY InputIs
  <1>4. \A k \in i .. j - 1 : Car(k) \in DigitByte
    <2> TAKE k \in i .. j - 1
    <2>1. k \in Pos /\ k # End
      BY <1>2, <1>3, InputIs
    <2>2. Car(k) \in Byte
      BY <2>1, InputIs
    <2> QED
      BY <1>2, <2>2
  <1>5. Digits(Bytes(i, j)) \in Seq(Nat) /\ Len(Digits(Bytes(i, j))) = j - i
    BY <1>2, <1>4, DigitsAre
  <1>6. i = j => Digits(Bytes(i, j)) = <<>>
    <2> HAVE i = j
    <2>1. Len(Digits(Bytes(i, j))) = 0
      BY <1>3, <1>5
    <2> QED
      BY <1>5, <2>1
  <1> QED
    BY <1>2, <1>4, <1>5, <1>6 DEF j

\* A number that a colon follows is an int, though Number may return nil.
LEMMA ColonAfterInt ==
    ASSUME TypeOK, NEW i \in Pos, ~Failed(Number[i]), ~Failed(Tag(":")[Number[i].at])
    PROVE  Number[i].val \in Int
  <1> DEFINE s == IF Car(i) = "-" THEN i + 1 ELSE i
             j == DigitsEnd(s)
             num == IntOf(Digits(Bytes(s, j)))
  <1>1. End \in Nat /\ i \in 1 .. End /\ i # End /\ MaxInt \in Nat
    BY InputIs, NumberIs DEF WantsInput, TypeOK
  <1>2. /\ s \in Pos /\ j \in s .. End /\ num \in Int
        /\ num = 0 => Number[i] = Fails(IF j = End THEN "none" ELSE "Unmatched", i, j)
        /\ num # 0 => Number[i] = Ok(IF Car(i) = "-" THEN Wrap(-num) ELSE num, j)
    BY <1>1, NumberIs
  <1>3. (\A k \in s .. j - 1 : Car(k) \in DigitByte)
    BY <1>2, DigitsEndAt
  <1>4. num # 0
    <2> SUFFICES ASSUME num = 0 PROVE FALSE
      OBVIOUS
    <2> HIDE DEF num
    <2>1. Number[i] = Fails(IF j = End THEN "none" ELSE "Unmatched", i, j)
      BY <1>2
    <2> HIDE DEF j
    <2>2. j = End
      BY <2>1 DEF Fails, Failed
    <2>3. Number[i].at = Kept(i, End)
      BY <2>1, <2>2 DEF Fails
    <2>4. CASE shared
      <3>1. Number[i].at = End
        BY <2>3, <2>4 DEF Kept
      <3> QED
        BY <3>1, OneOfIs DEF Tag, WantsInput
    <2>5. CASE ~shared
      <3>1. Number[i].at = i
        BY <2>3, <2>5 DEF Kept
      <3>2. Car(i) = ":"
        <4>1. Tag(":")[i] = IF Car(i) \in {":"} THEN Ok(Car(i), i + 1) ELSE Fails("Unmatched", i, i)
          BY <1>1, OneOfIs DEF Tag
        <4> QED
          BY <3>1, <4>1 DEF Fails, Failed
      <3>3. s = i
        BY <3>2
      <3>4. i \in s .. j - 1
        BY <1>1, <2>2, <3>3
      <3> QED
        BY <1>3, <3>2, <3>4, NoDigit
    <2> QED
      BY <2>4, <2>5
  <1>5. Number[i].val = IF Car(i) = "-" THEN Wrap(-num) ELSE num
    BY <1>2, <1>4 DEF Ok
  <1> HIDE DEF num
  <1>6. -num \in Int
    BY <1>2
  <1> QED
    BY <1>1, <1>2, <1>5, <1>6, WrapIs

\* A string's parser gives up or finds a string, and never fails to return.
LEMMA BencStrIs ==
    ASSUME TypeOK
    PROVE  /\ IsParser(BencStr) /\ WantsInput(BencStr) /\ KeepsInput(BencStr)
           /\ \A i \in Pos : ~Ends(BencStr[i])
           /\ \A i \in Pos : Failed(Number[i]) => Failed(BencStr[i])
           /\ \A i \in Pos : ~Failed(Number[i]) /\ Failed(Tag(":")[Number[i].at]) => Failed(BencStr[i])
           /\ \A i \in Pos : ~Failed(Number[i]) /\ ~Failed(Tag(":")[Number[i].at]) =>
                LET s == StrN(Number[i].val)[Tag(":")[Number[i].at].at]
                IN  IF Failed(s) THEN Failed(BencStr[i]) ELSE BencStr[i] = s
  <1>1. End \in Nat /\ Pos = 1 .. End /\ End \in Pos /\ \A i \in Pos : (Empty(i) <=> i = End)
    BY InputIs
  <1>2. ASSUME NEW i \in Pos,
               NEW n, n = Number[i],
               NEW c, c = Tag(":")[n.at],
               NEW s, s = StrN(n.val)[c.at]
        PROVE  /\ IsResult(BencStr[i], i)
               /\ ~Ends(BencStr[i])
               /\ ~shared /\ Failed(BencStr[i]) => BencStr[i].at = i
               /\ i = End => Failed(BencStr[i])
               /\ Failed(n) => Failed(BencStr[i])
               /\ ~Failed(n) /\ Failed(c) => Failed(BencStr[i])
               /\ ~Failed(n) /\ ~Failed(c) => IF Failed(s) THEN Failed(BencStr[i]) ELSE BencStr[i] = s
    <2>1. BencStr[i] = IF Empty(i) THEN Fails("Incomplete", i, i)
                       ELSE IF Failed(n) THEN GivesUp(n.err, i, n)
                       ELSE IF Failed(c) THEN GivesUp(c.err, i, c)
                       ELSE IF Failed(s) THEN GivesUp(s.err, i, s)
                       ELSE s
      BY <1>2 DEF BencStr
    <2>2. i \in i .. End /\ IsResult(n, i) /\ n.at \in i .. End /\ n.at \in Pos
      <3>1. IsResult(n, i)
        BY <1>2, NumberIs DEF IsParser
      <3> QED
        BY <1>1, <3>1 DEF IsResult
    <2>3. IsResult(c, n.at) /\ c.at \in n.at .. End /\ c.at \in Pos /\ c.at \in i .. End
      <3>1. IsResult(c, n.at)
        BY <1>2, <2>2, OneOfIs DEF IsParser, Tag
      <3> QED
        BY <1>1, <2>2, <3>1 DEF IsResult
    <2>4. ASSUME NEW e, NEW r, Failed(r), ~Ends(r), BencStr[i] = GivesUp(e, i, r), e = r.err,
                 NEW j \in i .. End, IsResult(r, j)
          PROVE  /\ IsResult(BencStr[i], i) /\ ~Ends(BencStr[i]) /\ Failed(BencStr[i])
                 /\ ~shared => BencStr[i].at = i
      <3>1. e # "none"
        BY <2>4 DEF Failed
      <3>2. BencStr[i].err = e /\ IsResult(BencStr[i], i) /\ Failed(BencStr[i])
        BY <2>4, <3>1, GivesUpIs
      <3>3. ~Ends(BencStr[i])
        BY <2>4, <3>2 DEF Ends
      <3>4. ~shared => BencStr[i].at = i
        BY <2>4, <3>1, <3>2, <3>3, GivesUpIs DEF Refuses
      <3> QED
        BY <3>2, <3>3, <3>4
    <2>5. CASE i = End
      <3>1. BencStr[i] = Fails("Incomplete", i, i)
        BY <1>1, <2>1, <2>5
      <3>2. IsResult(BencStr[i], i) /\ BencStr[i].at = i /\ BencStr[i].err = "Incomplete"
        BY <2>2, <3>1, ResultsAre
      <3>3. Failed(n)
        BY <1>2, <2>5, NumberIs DEF WantsInput
      <3> QED
        BY <3>2, <3>3 DEF Failed, Ends
    <2>6. CASE i # End /\ Failed(n)
      <3>1. BencStr[i] = GivesUp(n.err, i, n)
        BY <1>1, <2>1, <2>6
      <3>2. ~Ends(n)
        <4> DEFINE t == IF Car(i) = "-" THEN i + 1 ELSE i
                   j == DigitsEnd(t)
                   num == IntOf(Digits(Bytes(t, j)))
        <4>1. num = 0 => n = Fails(IF j = End THEN "none" ELSE "Unmatched", i, j)
          BY <1>2, <2>6, NumberIs
        <4>2. num # 0 => n = Ok(IF Car(i) = "-" THEN Wrap(-num) ELSE num, j)
          BY <1>2, <2>6, NumberIs
        <4> HIDE DEF num, j
        <4> QED
          BY <4>1, <4>2 DEF Fails, Ok, Ends
      <3> QED
        BY <2>2, <2>4, <2>6, <3>1, <3>2
    <2>7. CASE i # End /\ ~Failed(n) /\ Failed(c)
      <3>1. BencStr[i] = GivesUp(c.err, i, c)
        BY <1>1, <2>1, <2>7
      <3>2. ~Ends(c)
        BY <1>2, <2>2, <2>7, OneOfIs DEF Tag, Refuses
      <3> QED
        BY <2>2, <2>3, <2>4, <2>7, <3>1, <3>2
    <2>8. CASE i # End /\ ~Failed(n) /\ ~Failed(c)
      <3>1. n.val \in Int
        BY <1>2, <2>8, ColonAfterInt
      <3>2. IsResult(s, c.at) /\ (Failed(s) => ~Ends(s))
        <4>1. IsParser(StrN(n.val))
          BY <3>1, StrNIs
        <4>2. n.val < 1 \/ c.at + n.val > End => Refuses(s)
          BY <1>2, <2>3, <3>1, StrNIs
        <4>3. n.val >= 1 /\ c.at + n.val <= End => s = Ok(Bytes(c.at, c.at + n.val), c.at + n.val)
          BY <1>2, <2>3, <3>1, StrNIs
        <4>4. (n.val < 1 \/ c.at + n.val > End) \/ (n.val >= 1 /\ c.at + n.val <= End)
          BY <1>1, <2>3, <3>1
        <4>5. IsResult(s, c.at)
          BY <1>2, <2>3, <4>1 DEF IsParser
        <4> QED
          BY <4>2, <4>3, <4>4, <4>5 DEF Ok, Failed, Refuses
      <3>3. CASE Failed(s)
        <4>1. BencStr[i] = GivesUp(s.err, i, s)
          BY <1>1, <2>1, <2>8, <3>3
        <4> QED
          BY <2>3, <2>4, <2>8, <3>2, <3>3, <4>1
      <3>4. CASE ~Failed(s)
        <4>1. BencStr[i] = s
          BY <1>1, <2>1, <2>8, <3>4
        <4>2. IsResult(s, i)
          BY <1>1, <2>3, <3>2 DEF IsResult
        <4> QED
          BY <2>8, <3>4, <4>1, <4>2 DEF Failed, Ends
      <3> QED
        BY <3>3, <3>4
    <2> QED
      BY <2>5, <2>6, <2>7, <2>8
  <1>3. IsParser(BencStr)
    BY <1>2 DEF IsParser
  <1>4. WantsInput(BencStr)
    BY <1>1, <1>2 DEF WantsInput
  <1>5. KeepsInput(BencStr)
    BY <1>2 DEF KeepsInput, Refuses
  <1> QED
    BY <1>2, <1>3, <1>4, <1>5

\* The number at i is an int.
FitsAt(i) == Decimal(Digits(Bytes(i, DigitsEnd(i)))) <= MaxInt

\* Of numbers that fit, what the string's parser finds at i is what is written there.
LEMMA StringIs ==
    ASSUME TypeOK, NEW i \in Pos, FitsAt(i), i # End /\ Car(i) = "-" => FitsAt(i + 1)
    PROVE  LET colon == DigitsEnd(i)
               n == Decimal(Digits(Bytes(i, colon)))
           IN  IF n > 0 /\ colon + n < End /\ Car(colon) = ":"
                 THEN BencStr[i] = Ok(Bytes(colon + 1, colon + n + 1), colon + n + 1)
                 ELSE Refuses(BencStr[i])
  <1> DEFINE colon == DigitsEnd(i)
             n == Decimal(Digits(Bytes(i, colon)))
             written == n > 0 /\ colon + n < End /\ Car(colon) = ":"
  <1>1. End \in Nat /\ Pos = 1 .. End /\ End \in Pos /\ i \in 1 .. End /\ MaxInt \in Nat
    BY InputIs DEF TypeOK
  <1>2. /\ colon \in i .. End /\ colon \in Pos
        /\ \A k \in i .. colon - 1 : Car(k) \in DigitByte
        /\ i = colon => n = 0
        /\ n \in Nat
        /\ IntOf(Digits(Bytes(i, colon))) = n
    <2>1. /\ colon \in i .. End /\ colon \in Pos
          /\ \A k \in i .. colon - 1 : Car(k) \in DigitByte
          /\ Digits(Bytes(i, colon)) \in Seq(Nat)
          /\ i = colon => Digits(Bytes(i, colon)) = <<>>
      BY DigitsEndAt
    <2>2. n <= MaxInt
      BY DEF FitsAt
    <2> QED
      BY <2>1, <2>2, NumbersAre
  <1>3. /\ ~Ends(BencStr[i])
        /\ Failed(Number[i]) => Failed(BencStr[i])
        /\ ~Failed(Number[i]) /\ Failed(Tag(":")[Number[i].at]) => Failed(BencStr[i])
        /\ ~Failed(Number[i]) /\ ~Failed(Tag(":")[Number[i].at]) =>
              LET s == StrN(Number[i].val)[Tag(":")[Number[i].at].at]
              IN  IF Failed(s) THEN Failed(BencStr[i]) ELSE BencStr[i] = s
    BY BencStrIs
  <1>4. CASE i = End
    <2>1. ~written
      <3>1. n = 0
        BY <1>1, <1>2, <1>4
      <3> QED
        BY <3>1
    <2>2. Failed(Number[i])
      BY <1>4, NumberIs DEF WantsInput
    <2> QED
      BY <1>3, <2>1, <2>2 DEF Refuses
  <1>5. CASE i # End /\ Car(i) = "-"
    <2> DEFINE j == DigitsEnd(i + 1)
               num == IntOf(Digits(Bytes(i + 1, j)))
    <2>1. i = colon
      <3> SUFFICES ASSUME i # colon PROVE FALSE
        OBVIOUS
      <3>1. i \in i .. colon - 1
        BY <1>1, <1>2
      <3> QED
        BY <1>2, <1>5, <3>1, NoDigit
    <2>2. ~written
      <3>1. n = 0
        BY <1>2, <2>1
      <3> QED
        BY <3>1
    <2>3. /\ i + 1 \in Pos /\ j \in (i + 1) .. End /\ num \in Int
          /\ num = 0 => Number[i] = Fails(IF j = End THEN "none" ELSE "Unmatched", i, j)
          /\ num # 0 => Number[i] = Ok(Wrap(-num), j)
      BY <1>5, NumberIs
    <2>4. num \in 0 .. MaxInt
      <3>1. Digits(Bytes(i + 1, j)) \in Seq(Nat)
        BY <2>3, DigitsEndAt
      <3>2. Decimal(Digits(Bytes(i + 1, j))) <= MaxInt
        BY <1>5 DEF FitsAt
      <3> QED
        BY <1>1, <3>1, <3>2, NumbersAre
    <2> HIDE DEF num, j
    <2>5. Failed(BencStr[i])
      <3>1. CASE Failed(Number[i])
        BY <1>3, <3>1
      <3>2. CASE ~Failed(Number[i]) /\ Failed(Tag(":")[Number[i].at])
        BY <1>3, <3>2
      <3>3. CASE ~Failed(Number[i]) /\ ~Failed(Tag(":")[Number[i].at])
        <4> DEFINE c == Tag(":")[Number[i].at]
        <4>1. Number[i].val \in Int
          BY <3>3, ColonAfterInt
        <4>2. Number[i].at \in i .. End /\ c.at \in Pos
          <5>1. Number[i].at \in i .. End
            BY NumberIs DEF IsParser, IsResult
          <5>2. Number[i].at \in Pos
            BY <1>1, <5>1
          <5>3. c.at \in Number[i].at .. End
            BY <5>2, OneOfIs DEF Tag, IsParser, IsResult
          <5> QED
            BY <1>1, <5>1, <5>3
        <4>3. num # 0
          <5> SUFFICES ASSUME num = 0 PROVE FALSE
            OBVIOUS
          <5>1. Number[i].val = Nil /\ Number[i].at = Kept(i, j) /\ (j = End)
            BY <2>3, <3>3 DEF Fails, Failed
          <5>2. CASE shared
            BY <3>3, <5>1, <5>2, OneOfIs DEF Tag, WantsInput, Kept
          <5>3. CASE ~shared
            <6>1. Number[i].at = i
              BY <5>1, <5>3 DEF Kept
            <6>2. Tag(":")[i] = Fails("Unmatched", i, i)
              BY <1>5, OneOfIs DEF Tag
            <6> QED
              BY <3>3, <6>1, <6>2 DEF Fails, Failed
          <5> QED
            BY <5>2, <5>3
        <4>4. Number[i].val = Wrap(-num)
          BY <2>3, <4>3 DEF Ok
        <4>5. -num \in -MaxInt .. MaxInt /\ -num < 1
          BY <1>1, <2>4
        <4>6. Number[i].val < 1
          BY <1>1, <4>4, <4>5, WrapIs
        <4>7. Refuses(StrN(Number[i].val)[c.at])
          BY <4>1, <4>2, <4>6, StrNIs
        <4> QED
          BY <1>3, <3>3, <4>7 DEF Refuses
      <3> QED
        BY <3>1, <3>2, <3>3
    <2> QED
      BY <1>3, <2>2, <2>5 DEF Refuses
  <1>6. CASE i # End /\ Car(i) # "-"
    <2>1. /\ n = 0 => Number[i] = Fails(IF colon = End THEN "none" ELSE "Unmatched", i, colon)
          /\ n # 0 => Number[i] = Ok(n, colon)
      BY <1>2, <1>6, NumberIs
    <2>2. CASE n = 0
      <3> HIDE DEF n, colon
      <3>1. ~(n > 0)
        BY <2>2
      <3>2. Failed(BencStr[i])
        <4>1. CASE Failed(Number[i])
          BY <1>3, <4>1
        <4>2. CASE ~Failed(Number[i])
          <5>1. colon = End /\ Number[i].at = Kept(i, End)
            BY <2>1, <2>2, <4>2 DEF Fails, Failed
          <5>2. Failed(Tag(":")[Number[i].at])
            <6>1. CASE shared
              BY <5>1, <6>1, OneOfIs DEF Kept, Tag, WantsInput
            <6>2. CASE ~shared
              <7>1. Number[i].at = i
                BY <5>1, <6>2 DEF Kept
              <7>2. i \in i .. colon - 1
                BY <1>1, <1>6, <5>1
              <7>3. Car(i) # ":"
                BY <1>2, <7>2, NoDigit
              <7>4. Tag(":")[i] = Fails("Unmatched", i, i)
                BY <1>6, <7>3, OneOfIs DEF Tag
              <7> QED
                BY <7>1, <7>4 DEF Fails, Failed
            <6> QED
              BY <6>1, <6>2
          <5> QED
            BY <1>3, <4>2, <5>2
        <4> QED
          BY <4>1, <4>2
      <3> QED
        BY <1>3, <3>1, <3>2 DEF Refuses, n, colon
    <2>3. CASE n # 0
      <3> HIDE DEF n, colon
      <3>1. Number[i].val = n /\ Number[i].at = colon /\ ~Failed(Number[i]) /\ n >= 1 /\ n \in Int
        BY <1>2, <2>1, <2>3 DEF Ok, Failed
      <3>2. CASE colon = End \/ Car(colon) # ":"
        <4>1. Failed(Tag(":")[colon])
          <5>1. CASE colon = End
            BY <5>1, OneOfIs DEF Tag, WantsInput
          <5>2. CASE colon # End
            <6>1. Tag(":")[colon] = Fails("Unmatched", colon, colon)
              BY <1>2, <3>2, <5>2, OneOfIs DEF Tag
            <6> QED
              BY <6>1 DEF Fails, Failed
          <5> QED
            BY <5>1, <5>2
        <4>2. Failed(BencStr[i])
          BY <1>3, <3>1, <4>1
        <4>3. ~(colon + n < End /\ Car(colon) = ":")
          BY <1>1, <1>2, <3>1, <3>2
        <4> QED
          BY <1>3, <4>2, <4>3 DEF Refuses, n, colon
      <3>3. CASE colon # End /\ Car(colon) = ":"
        <4>1. Tag(":")[colon] = Ok(":", colon + 1)
          BY <1>2, <3>3, OneOfIs DEF Tag
        <4>2. ~Failed(Tag(":")[colon]) /\ Tag(":")[colon].at = colon + 1
          BY <4>1 DEF Ok, Failed
        <4> DEFINE s == StrN(n)[colon + 1]
        <4>3. IF Failed(s) THEN Failed(BencStr[i]) ELSE BencStr[i] = s
          BY <1>3, <3>1, <4>2
        <4>4. colon + 1 \in Pos
          BY <1>1, <1>2, <3>3
        <4>5. CASE colon + n < End
          <5>1. (colon + 1) + n <= End /\ (colon + 1) + n = colon + n + 1
            BY <1>1, <1>2, <3>1, <4>5
          <5>2. s = Ok(Bytes(colon + 1, colon + n + 1), colon + n + 1)
            BY <3>1, <4>4, <5>1, StrNIs
          <5>3. ~Failed(s)
            BY <5>2 DEF Ok, Failed
          <5>4. n > 0
            BY <3>1
          <5> QED
            BY <3>3, <4>3, <4>5, <5>2, <5>3, <5>4 DEF n, colon
        <4>6. CASE ~(colon + n < End)
          <5>1. (colon + 1) + n > End
            BY <1>1, <1>2, <3>1, <4>6
          <5>2. Refuses(s)
            BY <3>1, <4>4, <5>1, StrNIs
          <5>3. Refuses(BencStr[i])
            BY <1>3, <4>3, <5>2 DEF Refuses
          <5> QED
            BY <4>6, <5>3 DEF n, colon
        <4> QED
          BY <4>5, <4>6
      <3> QED
        BY <3>2, <3>3
    <2> QED
      BY <2>2, <2>3
  <1> QED
    BY <1>4, <1>5, <1>6

\* Every string whose numbers fit an int is parsed as it is written: a length, a
\* colon and as many bytes, from a shared reader and from copies
\* (bencode_parser.go:33 to :98).
THEOREM StringsAsWrittenHolds == TypeOK => StringsAsWritten
  <1> SUFFICES ASSUME TypeOK, NumbersFit
               PROVE  LET colon == DigitsEnd(1)
                          n == Decimal(Digits(Bytes(1, colon)))
                      IN  IF n > 0 /\ colon + n < End /\ Car(colon) = ":"
                            THEN Takes(BencStr[1], Bytes(colon + 1, colon + n + 1), colon + n + 1)
                            ELSE Refuses(BencStr[1])
    BY DEF StringsAsWritten
  <1>1. 1 \in Pos
    BY InputIs
  <1>2. \A v, j : Takes(Ok(v, j), v, j)
    BY DEF Takes, Ok
  <1>3. FitsAt(1) /\ (1 # End /\ Car(1) = "-" => FitsAt(1 + 1))
    <2>1. 1 # End => 1 + 1 \in Pos
      BY InputIs
    <2> QED
      BY <1>1, <2>1 DEF NumbersFit, FitsAt
  <1> QED
    BY <1>1, <1>2, <1>3, StringIs

-----------------------------------------------------------------------------
(* Parsers made of parsers. *)

\* A result that, on copies, leaves the input if it is a refusal.
Leaves(r, i) == IsResult(r, i) /\ (~shared /\ Refuses(r) => r.at = i)

\* Of such results a parser is made.
LEMMA LeavesIs ==
    ASSUME TypeOK, NEW p, \A i \in Pos : Leaves(p[i], i)
    PROVE  IsParser(p) /\ KeepsInput(p)
  BY DEF Leaves, IsParser, KeepsInput

\* Successes, failures and what gives up are such results.
LEMMA AllLeave ==
    ASSUME TypeOK, NEW i \in Pos, NEW j \in i .. End
    PROVE  /\ \A v : Leaves(Ok(v, j), i)
           /\ \A e : Leaves(Fails(e, i, j), i)
           /\ \A e : Leaves(Stuck(e, i), i)
           /\ \A e, r : IsResult(r, j) /\ Failed(r) /\ e # "none" => Leaves(GivesUp(e, i, r), i) /\ Failed(GivesUp(e, i, r))
           /\ \A r : IsResult(r, j) => IsResult(r, i) /\ r.at \in i .. End /\ r.at \in Pos
           /\ \A r : IsResult(r, j) /\ ~Failed(r) => Leaves(r, i)
           /\ \A r : IsResult(r, j) /\ Ends(r) => Leaves(r, i)
  <1>1. End \in Nat /\ i \in 1 .. End /\ Pos = 1 .. End /\ i \in i .. End /\ j \in Pos
    BY InputIs
  <1>2. \A v : Leaves(Ok(v, j), i)
    BY ResultsAre DEF Leaves, Refuses
  <1>3. \A e : Leaves(Fails(e, i, j), i)
    BY ResultsAre DEF Leaves
  <1>4. \A e : Leaves(Stuck(e, i), i)
    BY <1>1, ResultsAre DEF Leaves, Stuck
  <1>5. ASSUME NEW e, NEW r, IsResult(r, j), Failed(r), e # "none"
        PROVE  Leaves(GivesUp(e, i, r), i) /\ Failed(GivesUp(e, i, r))
    BY <1>5, GivesUpIs DEF Leaves
  <1>6. ASSUME NEW r, IsResult(r, j)
        PROVE  IsResult(r, i) /\ r.at \in i .. End /\ r.at \in Pos
    BY <1>1, <1>6 DEF IsResult
  <1>7. ASSUME NEW r, IsResult(r, j), ~Failed(r) \/ Ends(r)
        PROVE  Leaves(r, i)
    BY <1>6, <1>7 DEF Leaves, Refuses
  <1> QED
    BY <1>2, <1>3, <1>4, <1>5, <1>6, <1>7

\* An error of a failure is one.
LEMMA FailureHasError ==
    \A r : Failed(r) <=> r.err # "none"
  BY DEF Failed

\* A parser, and another one where that ended.
LEMMA ThenIs ==
    ASSUME TypeOK, NEW p, NEW sec, IsParser(p), IsParser(sec)
    PROVE  /\ IsParser(Then(p, sec)) /\ KeepsInput(Then(p, sec))
           /\ WantsInput(p) => WantsInput(Then(p, sec))
           /\ \A i \in Pos :
                /\ Failed(p[i]) => Then(p, sec)[i] = GivesUp("Unmatched", i, p[i])
                /\ ~Failed(p[i]) /\ p[i].at = End => Then(p, sec)[i] = Fails("Incomplete", i, End)
                /\ ~Failed(p[i]) /\ p[i].at # End /\ Failed(sec[p[i].at]) =>
                      Then(p, sec)[i] = GivesUp(sec[p[i].at].err, i, sec[p[i].at])
                /\ ~Failed(p[i]) /\ p[i].at # End /\ ~Failed(sec[p[i].at]) =>
                      Then(p, sec)[i] = sec[p[i].at]
  <1>1. End \in Nat /\ Pos = 1 .. End /\ End \in Pos /\ \A i \in Pos : (Empty(i) <=> i = End)
    BY InputIs
  <1>2. ASSUME NEW i \in Pos, NEW r, r = p[i], NEW s, s = sec[r.at], NEW t, t = Then(p, sec)[i]
        PROVE  /\ Failed(r) => t = GivesUp("Unmatched", i, r)
               /\ ~Failed(r) /\ r.at = End => t = Fails("Incomplete", i, End)
               /\ ~Failed(r) /\ r.at # End /\ Failed(s) => t = GivesUp(s.err, i, s)
               /\ ~Failed(r) /\ r.at # End /\ ~Failed(s) => t = s
               /\ Leaves(t, i)
               /\ Failed(r) => Failed(t)
    <2>1. t = IF Failed(r) THEN GivesUp("Unmatched", i, r)
              ELSE IF Empty(r.at) THEN Fails("Incomplete", i, r.at)
              ELSE IF Failed(s) THEN GivesUp(s.err, i, s)
              ELSE s
      BY <1>2 DEF Then
    <2>2. IsResult(r, i) /\ r.at \in i .. End /\ r.at \in Pos /\ i \in i .. End
      BY <1>1, <1>2 DEF IsParser, IsResult
    <2>3. IsResult(s, r.at)
      BY <1>2, <2>2 DEF IsParser
    <2>4. Empty(r.at) <=> r.at = End
      BY <1>1, <2>2
    <2>5. CASE Failed(r)
      BY <2>1, <2>2, <2>5, AllLeave
    <2>6. CASE ~Failed(r) /\ r.at = End
      BY <2>1, <2>2, <2>4, <2>6, AllLeave
    <2>7. CASE ~Failed(r) /\ r.at # End /\ Failed(s)
      <3>1. t = GivesUp(s.err, i, s)
        BY <2>1, <2>4, <2>7
      <3>2. s.err # "none"
        BY <2>7, FailureHasError
      <3>3. Leaves(GivesUp(s.err, i, s), i)
        BY <2>2, <2>3, <2>7, <3>2, AllLeave
      <3> QED
        BY <2>7, <3>1, <3>3
    <2>8. CASE ~Failed(r) /\ r.at # End /\ ~Failed(s)
      <3>1. t = s
        BY <2>1, <2>4, <2>8
      <3> QED
        BY <2>2, <2>3, <2>8, <3>1, AllLeave
    <2> QED
      BY <2>5, <2>6, <2>7, <2>8
  <1>3. IsParser(Then(p, sec)) /\ KeepsInput(Then(p, sec))
    BY <1>2, LeavesIs
  <1>4. WantsInput(p) => WantsInput(Then(p, sec))
    BY <1>1, <1>2 DEF WantsInput
  <1> QED
    BY <1>2, <1>3, <1>4

\* Bytes as long as they are of a set, and past the end if they all are.
LEMMA TakeWhileIs ==
    ASSUME TypeOK, NEW f
    PROVE  /\ IsParser(TakeWhile(f)) /\ WantsInput(TakeWhile(f)) /\ KeepsInput(TakeWhile(f))
           /\ \A i \in Pos : \A j \in i .. End : j = Until(Byte \ f, i) =>
                /\ j = i => TakeWhile(f)[i] = Fails("Unmatched", i, i)
                /\ j # i /\ j = End => TakeWhile(f)[i] = Stuck("panic", j)
                /\ j # i /\ j # End => TakeWhile(f)[i] = Ok(Bytes(i, j), j)
  <1>1. End \in Nat /\ Pos = 1 .. End /\ End \in Pos /\ \A i \in Pos : (Empty(i) <=> i = End)
    BY InputIs
  <1>2. ASSUME NEW i \in Pos, NEW j, j = Until(Byte \ f, i), NEW t, t = TakeWhile(f)[i]
        PROVE  /\ j = i => t = Fails("Unmatched", i, i)
               /\ j # i /\ j = End => t = Stuck("panic", j)
               /\ j # i /\ j # End => t = Ok(Bytes(i, j), j)
               /\ Leaves(t, i)
               /\ i = End => Failed(t)
    <2>1. j \in i .. End /\ j \in Pos /\ i \in i .. End
      BY <1>1, <1>2, UntilIs
    <2>2. t = IF j = i THEN Fails("Unmatched", i, i)
              ELSE IF Empty(j) THEN Stuck("panic", j)
              ELSE Ok(Bytes(i, j), j)
      BY <1>2 DEF TakeWhile
    <2>3. Empty(j) <=> j = End
      BY <1>1, <2>1
    <2>4. CASE j = i
      BY <2>1, <2>2, <2>4, AllLeave, ResultsAre, FailureHasError
    <2>5. CASE j # i /\ j = End
      <3>1. t = Stuck("panic", j)
        BY <2>2, <2>3, <2>5
      <3>2. IsResult(t, i) /\ Ends(t)
        BY <2>1, <3>1, ResultsAre DEF Ends
      <3> QED
        BY <2>5, <3>1, <3>2 DEF Leaves, Refuses
    <2>6. CASE j # i /\ j # End
      <3>1. t = Ok(Bytes(i, j), j)
        BY <2>2, <2>3, <2>6
      <3>2. i # End
        BY <1>1, <2>1, <2>6
      <3> QED
        BY <2>1, <2>6, <3>1, <3>2, AllLeave
    <2> QED
      BY <2>4, <2>5, <2>6
  <1>3. IsParser(TakeWhile(f)) /\ KeepsInput(TakeWhile(f))
    <2>1. \A i \in Pos : Leaves(TakeWhile(f)[i], i)
      BY <1>2
    <2> QED
      BY <2>1, LeavesIs
  <1>4. WantsInput(TakeWhile(f))
    BY <1>1, <1>2 DEF WantsInput
  <1> QED
    BY <1>2, <1>3, <1>4

\* Bytes of a set between two bytes.
LEMMA GuardedWhileIs ==
    ASSUME TypeOK, NEW left, NEW right, NEW p
    PROVE  /\ IsParser(GuardedWhile(left, right, p)) /\ WantsInput(GuardedWhile(left, right, p))
           /\ KeepsInput(GuardedWhile(left, right, p))
           /\ \A i \in Pos :
                LET g == GuardedWhile(left, right, p)[i]
                    e == Until(Byte \ p, i + 1)
                    begun == i + 1 < End /\ Car(i) = left /\ e > i + 1
                IN  /\ i + 1 < End => e \in (i + 1) .. End /\ i + 1 \in Pos
                    /\ begun /\ e = End => g.err = "panic"
                    /\ begun /\ e # End /\ Car(e) = right => g = Ok(Bytes(i + 1, e), e + 1)
                    /\ ~begun \/ (e # End /\ Car(e) # right) => Refuses(g)
  <1> DEFINE guarded == GuardedWhile(left, right, p)
             chain == Then(Tag(left), TakeWhile(p))
  <1>1. /\ End \in Nat /\ Pos = 1 .. End /\ End \in Pos /\ \A i \in Pos : (Empty(i) <=> i = End)
        /\ \A i \in Pos : i # End => i + 1 \in Pos /\ i + 1 \in i .. End
    BY InputIs
  <1>2. /\ IsParser(Tag(left)) /\ IsParser(Tag(right)) /\ IsParser(TakeWhile(p))
        /\ WantsInput(Tag(left)) /\ WantsInput(Tag(right)) /\ WantsInput(TakeWhile(p))
    BY OneOfIs, TakeWhileIs DEF Tag
  <1>3. IsParser(chain) /\ WantsInput(chain)
    BY <1>2, ThenIs
  <1>4. ASSUME NEW i \in Pos, NEW r, r = chain[i], NEW s, s = Tag(right)[r.at], NEW g, g = guarded[i]
        PROVE  /\ IsResult(r, i) /\ r.at \in Pos
               /\ Failed(r) => Failed(g) /\ g = GivesUp(r.err, i, r)
               /\ ~Failed(r) /\ Failed(s) => Refuses(g)
               /\ ~Failed(r) /\ ~Failed(s) => g = Ok(r.val, s.at)
               /\ Leaves(g, i)
    <2>1. g = IF Failed(r) THEN GivesUp(r.err, i, r)
              ELSE IF Failed(s) THEN GivesUp(s.err, i, s)
              ELSE Ok(r.val, s.at)
      <3> HIDE DEF chain
      <3> QED
        BY <1>4 DEF GuardedWhile, chain
    <2>2. IsResult(r, i) /\ r.at \in i .. End /\ r.at \in Pos /\ i \in i .. End
      BY <1>1, <1>3, <1>4 DEF IsParser, IsResult
    <2>3. IsResult(s, r.at) /\ s.at \in i .. End
      <3>1. IsResult(s, r.at)
        BY <1>2, <1>4, <2>2 DEF IsParser
      <3> QED
        BY <2>2, <3>1, AllLeave DEF IsResult
    <2>4. CASE Failed(r)
      <3>1. Leaves(GivesUp(r.err, i, r), i) /\ Failed(GivesUp(r.err, i, r))
        BY <2>2, <2>4, AllLeave, FailureHasError
      <3> QED
        BY <2>1, <2>2, <2>4, <3>1
    <2>5. CASE ~Failed(r) /\ Failed(s)
      <3>1. g = GivesUp(s.err, i, s)
        BY <2>1, <2>5
      <3>2. Leaves(GivesUp(s.err, i, s), i)
        BY <2>2, <2>3, <2>5, AllLeave, FailureHasError
      <3>3. s.err # "none" /\ ~Ends(s)
        BY <1>4, <2>2, <2>5, OneOfIs DEF Tag, Refuses, Failed
      <3>4. g.err = s.err
        BY <2>2, <2>3, <2>5, <3>1, <3>3, GivesUpIs
      <3>5. Refuses(g)
        BY <3>3, <3>4 DEF Refuses, Failed, Ends
      <3> QED
        BY <2>2, <2>5, <3>1, <3>2, <3>5
    <2>6. CASE ~Failed(r) /\ ~Failed(s)
      BY <2>1, <2>2, <2>3, <2>6, AllLeave
    <2> QED
      BY <2>4, <2>5, <2>6
  <1>5. ASSUME NEW i \in Pos, NEW e, e = Until(Byte \ p, i + 1), NEW g, g = guarded[i]
        PROVE  LET begun == i + 1 < End /\ Car(i) = left /\ e > i + 1
               IN  /\ i + 1 < End => e \in (i + 1) .. End /\ i + 1 \in Pos
                   /\ begun /\ e = End => g.err = "panic"
                   /\ begun /\ e # End /\ Car(e) = right => g = Ok(Bytes(i + 1, e), e + 1)
                   /\ ~begun \/ (e # End /\ Car(e) # right) => Refuses(g)
    <2> DEFINE begun == i + 1 < End /\ Car(i) = left /\ e > i + 1
               r == chain[i]
               tag == Tag(left)[i]
               while == TakeWhile(p)[i + 1]
    <2>1. /\ IsResult(r, i) /\ r.at \in Pos
          /\ Failed(r) => Failed(g) /\ g = GivesUp(r.err, i, r)
          /\ ~Failed(r) /\ Failed(Tag(right)[r.at]) => Refuses(g)
          /\ ~Failed(r) /\ ~Failed(Tag(right)[r.at]) => g = Ok(r.val, Tag(right)[r.at].at)
      BY <1>4, <1>5
    <2>2. /\ Failed(tag) => r = GivesUp("Unmatched", i, tag)
          /\ ~Failed(tag) /\ tag.at = End => r = Fails("Incomplete", i, End)
          /\ ~Failed(tag) /\ tag.at # End /\ Failed(TakeWhile(p)[tag.at]) =>
                r = GivesUp(TakeWhile(p)[tag.at].err, i, TakeWhile(p)[tag.at])
          /\ ~Failed(tag) /\ tag.at # End /\ ~Failed(TakeWhile(p)[tag.at]) => r = TakeWhile(p)[tag.at]
      BY <1>2, ThenIs
    <2>3. i + 1 < End => i + 1 \in Pos /\ e \in (i + 1) .. End /\ e \in Pos
      <3> HAVE i + 1 < End
      <3>1. i + 1 \in Pos
        BY <1>1
      <3> QED
        BY <1>5, <3>1, UntilIs
    <2>4. Refuses(r) => Refuses(g)
      <3> HAVE Refuses(r)
      <3>1. g = GivesUp(r.err, i, r) /\ Failed(r) /\ ~Ends(r)
        BY <2>1 DEF Refuses
      <3>2. g.err = r.err
        BY <3>1 DEF GivesUp, Fails
      <3> QED
        BY <3>1, <3>2 DEF Refuses, Failed, Ends
    <2>5. i = End \/ Car(i) # left => Failed(tag) /\ ~Ends(tag)
      <3>1. i = End => Failed(tag)
        BY <1>2 DEF WantsInput
      <3>2. i # End /\ Car(i) # left => Failed(tag)
        <4> HAVE i # End /\ Car(i) # left
        <4>1. tag = Fails("Unmatched", i, i)
          BY OneOfIs DEF Tag
        <4> QED
          BY <4>1 DEF Fails, Failed
      <3> QED
        BY <3>1, <3>2, OneOfIs DEF Tag, Refuses
    <2>6. i # End /\ Car(i) = left => ~Failed(tag) /\ tag.at = i + 1
      <3> HAVE i # End /\ Car(i) = left
      <3>1. tag = Ok(Car(i), i + 1)
        BY OneOfIs DEF Tag
      <3> QED
        BY <3>1 DEF Ok, Failed
    <2>7. CASE i = End \/ Car(i) # left
      <3>1. r = GivesUp("Unmatched", i, tag)
        BY <2>2, <2>5, <2>7
      <3>2. Refuses(r)
        BY <2>5, <2>7, <3>1 DEF GivesUp, Fails, Refuses, Failed, Ends
      <3>3. ~begun
        BY <1>1, <2>7
      <3> QED
        BY <2>3, <2>4, <3>2, <3>3
    <2>8. CASE i # End /\ Car(i) = left /\ ~(i + 1 < End)
      <3>1. tag.at = End /\ ~Failed(tag)
        BY <1>1, <2>6, <2>8
      <3>2. r = Fails("Incomplete", i, End)
        BY <2>2, <3>1
      <3>3. Refuses(r)
        BY <3>2 DEF Fails, Refuses, Failed, Ends
      <3> QED
        BY <2>4, <2>8, <3>3
    <2>9. CASE Car(i) = left /\ i + 1 < End
      <3>1. tag.at = i + 1 /\ ~Failed(tag) /\ i + 1 # End
        BY <1>1, <2>6, <2>9
      <3>2. /\ Failed(while) => r = GivesUp(while.err, i, while)
            /\ ~Failed(while) => r = while
        BY <2>2, <3>1
      <3>3. /\ e = i + 1 => while = Fails("Unmatched", i + 1, i + 1)
            /\ e # i + 1 /\ e = End => while = Stuck("panic", e)
            /\ e # i + 1 /\ e # End => while = Ok(Bytes(i + 1, e), e)
        BY <1>5, <2>3, <2>9, TakeWhileIs
      <3> HIDE DEF tag, while, r
      <3>4. CASE e = i + 1
        <4>1. Refuses(r)
          BY <3>2, <3>3, <3>4 DEF Fails, GivesUp, Refuses, Failed, Ends
        <4>2. ~begun
          BY <3>4, <1>1
        <4> QED
          BY <2>3, <2>4, <4>1, <4>2
      <3>5. CASE e # i + 1 /\ e = End
        <4>1. while = Stuck("panic", e)
          BY <3>3, <3>5
        <4>2. Failed(while) /\ Ends(while) /\ while.err = "panic"
          BY <4>1 DEF Stuck, Failed, Ends
        <4>3. r = while
          BY <3>2, <4>2 DEF GivesUp
        <4>4. g = r
          BY <2>1, <4>2, <4>3 DEF GivesUp
        <4>5. begun
          BY <1>1, <2>3, <2>9, <3>5
        <4> QED
          BY <2>3, <3>5, <4>2, <4>3, <4>4, <4>5
      <3>6. CASE e # i + 1 /\ e # End
        <4>1. r = Ok(Bytes(i + 1, e), e) /\ ~Failed(r) /\ r.at = e /\ r.val = Bytes(i + 1, e)
          BY <3>2, <3>3, <3>6 DEF Ok, Failed
        <4>2. begun
          BY <1>1, <2>3, <2>9, <3>6
        <4> DEFINE s == Tag(right)[e]
        <4>3. s = IF Car(e) \in {right} THEN Ok(Car(e), e + 1) ELSE Fails("Unmatched", e, e)
          BY <2>3, <2>9, <3>6, OneOfIs DEF Tag
        <4>4. CASE Car(e) = right
          <5>1. ~Failed(s) /\ s.at = e + 1
            BY <4>3, <4>4 DEF Ok, Failed
          <5>2. g = Ok(Bytes(i + 1, e), e + 1)
            BY <2>1, <4>1, <5>1
          <5> QED
            BY <2>3, <3>6, <4>2, <4>4, <5>2
        <4>5. CASE Car(e) # right
          <5>1. Failed(s)
            BY <4>3, <4>5 DEF Fails, Failed
          <5>2. Refuses(g)
            BY <2>1, <4>1, <5>1
          <5> QED
            BY <2>3, <3>6, <4>5, <5>2
        <4> QED
          BY <4>4, <4>5
      <3> QED
        BY <3>4, <3>5, <3>6
    <2> QED
      BY <1>1, <2>7, <2>8, <2>9
  <1>6. IsParser(guarded) /\ KeepsInput(guarded)
    <2>1. \A i \in Pos : Leaves(guarded[i], i)
      BY <1>4
    <2> HIDE DEF guarded
    <2> QED
      BY <2>1, LeavesIs
  <1>7. WantsInput(guarded)
    BY <1>1, <1>3, <1>4 DEF WantsInput
  <1> QED
    BY <1>5, <1>6, <1>7

\* Digits between i and e, or a refusal, or past the end.
LEMMA BencIntIs ==
    ASSUME TypeOK
    PROVE  /\ IsParser(BencInt) /\ WantsInput(BencInt) /\ KeepsInput(BencInt)
           /\ \A i \in Pos :
                LET e == DigitsEnd(i + 1)
                    begun == i + 1 < End /\ Car(i) = "i" /\ e > i + 1
                IN  IF begun /\ e = End THEN BencInt[i].err = "panic"
                    ELSE IF begun /\ Car(e) = "e" THEN BencInt[i] = Ok(ParseInt(Bytes(i + 1, e)), e + 1)
                    ELSE BencInt[i].err = "Unmatched"
  <1> DEFINE guarded == GuardedWhile("i", "e", DigitByte)
  <1>1. /\ End \in Nat /\ Pos = 1 .. End /\ End \in Pos
        /\ IsParser(guarded) /\ WantsInput(guarded) /\ KeepsInput(guarded)
    BY InputIs, GuardedWhileIs
  <1> HIDE DEF guarded
  <1>2. ASSUME NEW i \in Pos, NEW r, r = guarded[i], NEW t, t = BencInt[i]
        PROVE  /\ Failed(r) => Failed(t)
               /\ Ends(r) => t = r
               /\ Refuses(r) => t.err = "Unmatched"
               /\ ~Failed(r) => t = Ok(ParseInt(r.val), r.at)
               /\ Leaves(t, i)
    <2>1. t = IF Failed(r) THEN GivesUp("Unmatched", i, r) ELSE Ok(ParseInt(r.val), r.at)
      BY <1>2 DEF BencInt, guarded
    <2>2. IsResult(r, i) /\ r.at \in i .. End /\ i \in i .. End
      BY <1>1, <1>2 DEF IsParser, IsResult
    <2>3. CASE Failed(r)
      <3>1. t = GivesUp("Unmatched", i, r)
        BY <2>1, <2>3
      <3>2. Leaves(t, i) /\ Failed(t)
        BY <2>2, <2>3, <3>1, AllLeave
      <3> QED
        BY <2>3, <3>1, <3>2 DEF GivesUp, Fails, Refuses
    <2>4. CASE ~Failed(r)
      <3>1. ~Ends(r)
        BY <2>4 DEF Failed, Ends
      <3> QED
        BY <2>1, <2>2, <2>4, <3>1, AllLeave DEF Refuses
    <2> QED
      BY <2>3, <2>4
  <1>3. ASSUME NEW i \in Pos, NEW e, e = DigitsEnd(i + 1)
        PROVE  LET begun == i + 1 < End /\ Car(i) = "i" /\ e > i + 1
               IN  IF begun /\ e = End THEN BencInt[i].err = "panic"
                   ELSE IF begun /\ Car(e) = "e" THEN BencInt[i] = Ok(ParseInt(Bytes(i + 1, e)), e + 1)
                   ELSE BencInt[i].err = "Unmatched"
    <2> DEFINE u == Until(Byte \ DigitByte, i + 1)
               r == guarded[i]
               begun == i + 1 < End /\ Car(i) = "i" /\ e > i + 1
    <2>1. i + 1 < End => e = u
      <3> HAVE i + 1 < End
      <3>1. i + 1 \in Pos
        BY <1>1
      <3> QED
        BY <1>3, <3>1, DigitsEndIs
    <2>2. /\ (i + 1 < End /\ Car(i) = "i" /\ u > i + 1) /\ u = End => r.err = "panic"
          /\ (i + 1 < End /\ Car(i) = "i" /\ u > i + 1) /\ u # End /\ Car(u) = "e" => r = Ok(Bytes(i + 1, u), u + 1)
          /\ ~(i + 1 < End /\ Car(i) = "i" /\ u > i + 1) \/ (u # End /\ Car(u) # "e") => Refuses(r)
      BY GuardedWhileIs DEF guarded
    <2>3. /\ begun /\ e = End => r.err = "panic"
          /\ begun /\ e # End /\ Car(e) = "e" => r = Ok(Bytes(i + 1, e), e + 1)
          /\ ~begun \/ (begun /\ e # End /\ Car(e) # "e") => Refuses(r)
      <3> HIDE DEF u, r
      <3> QED
        BY <2>1, <2>2
    <2> HIDE DEF r, u
    <2>4. /\ Ends(r) => BencInt[i] = r
          /\ Refuses(r) => BencInt[i].err = "Unmatched"
          /\ ~Failed(r) => BencInt[i] = Ok(ParseInt(r.val), r.at)
      BY <1>2 DEF r
    <2>5. CASE begun /\ e = End
      <3>1. r.err = "panic"
        BY <2>3, <2>5
      <3> QED
        BY <2>4, <2>5, <3>1 DEF Ends
    <2>6. CASE begun /\ e # End /\ Car(e) = "e"
      <3>1. r = Ok(Bytes(i + 1, e), e + 1)
        BY <2>3, <2>6
      <3>2. ~Failed(r) /\ r.val = Bytes(i + 1, e) /\ r.at = e + 1
        BY <3>1 DEF Ok, Failed
      <3> QED
        BY <2>4, <2>6, <3>2
    <2>7. CASE ~begun \/ (begun /\ e # End /\ Car(e) # "e")
      <3>1. Refuses(r)
        BY <2>3, <2>7
      <3> QED
        BY <2>4, <2>7, <3>1
    <2> QED
      BY <2>5, <2>6, <2>7
  <1>4. IsParser(BencInt) /\ KeepsInput(BencInt)
    BY <1>2, LeavesIs
  <1>5. WantsInput(BencInt)
    BY <1>1, <1>2 DEF WantsInput
  <1> QED
    BY <1>3, <1>4, <1>5

\* The smaller of two numbers.
LEMMA SmallerIs ==
    ASSUME NEW a \in Nat, NEW b \in Nat
    PROVE  Min({a, b}) = IF a <= b THEN a ELSE b
  <1> DEFINE m == CHOOSE x \in {a, b} : \A y \in {a, b} : x <= y
  <1>1. \E x \in {a, b} : \A y \in {a, b} : x <= y
    OBVIOUS
  <1>2. m \in {a, b} /\ \A y \in {a, b} : m <= y
    BY <1>1
  <1>3. Min({a, b}) = m
    BY DEF Min
  <1> HIDE DEF m
  <1> QED
    BY <1>2, <1>3

\* Every integer is parsed as it is written, up to the largest int: digits between
\* i and e, without a sign; and the parser reads past the end of the input exactly
\* when it ends in the digits (bencode_parser.go:100, parsec.go:474).
THEOREM IntsAsWrittenHolds == TypeOK => IntsAsWritten
  <1> SUFFICES ASSUME TypeOK PROVE IntsAsWritten
    OBVIOUS
  <1> DEFINE e == DigitsEnd(2)
             n == Decimal(Digits(Bytes(2, e)))
             begun == End > 2 /\ Car(1) = "i" /\ e > 2
  <1>1. End \in Nat /\ Pos = 1 .. End /\ 1 \in Pos /\ 1 + 1 = 2 /\ MaxInt \in Nat
    BY InputIs DEF TypeOK
  <1>2. IF begun /\ e = End THEN BencInt[1].err = "panic"
        ELSE IF begun /\ Car(e) = "e" THEN BencInt[1] = Ok(ParseInt(Bytes(2, e)), e + 1)
        ELSE BencInt[1].err = "Unmatched"
    <2>1. LET f == DigitsEnd(1 + 1)
              b == 1 + 1 < End /\ Car(1) = "i" /\ f > 1 + 1
          IN  IF b /\ f = End THEN BencInt[1].err = "panic"
              ELSE IF b /\ Car(f) = "e" THEN BencInt[1] = Ok(ParseInt(Bytes(1 + 1, f)), f + 1)
              ELSE BencInt[1].err = "Unmatched"
      BY <1>1, BencIntIs
    <2>2. (2 < End) <=> (End > 2)
      BY <1>1
    <2> QED
      BY <1>1, <2>1, <2>2
  <1>3. begun => ParseInt(Bytes(2, e)) = IF n <= MaxInt THEN n ELSE MaxInt
    <2> HAVE begun
    <2>1. 2 \in Pos
      BY <1>1
    <2>2. n \in Nat
      BY <2>1, DigitsEndAt, NumbersAre
    <2>3. ParseInt(Bytes(2, e)) = Min({n, MaxInt})
      BY DEF ParseInt
    <2> HIDE DEF n
    <2> QED
      BY <1>1, <2>2, <2>3, SmallerIs
  <1>4. begun /\ e # End /\ Car(e) = "e" => Takes(BencInt[1], IF n <= MaxInt THEN n ELSE MaxInt, e + 1)
    <2> HAVE begun /\ e # End /\ Car(e) = "e"
    <2>1. BencInt[1] = Ok(IF n <= MaxInt THEN n ELSE MaxInt, e + 1)
      BY <1>2, <1>3
    <2> HIDE DEF n
    <2> QED
      BY <2>1 DEF Takes, Ok
  <1>5. IF begun /\ e = End THEN BencInt[1].err = "panic"
        ELSE IF begun /\ Car(e) = "e" THEN Takes(BencInt[1], IF n <= MaxInt THEN n ELSE MaxInt, e + 1)
        ELSE BencInt[1].err = "Unmatched"
    BY <1>2, <1>4
  <1> QED
    BY <1>5 DEF IntsAsWritten

\* Bytes up to one of a set, which is taken with them.
LEMMA TakeTillInclIs ==
    ASSUME TypeOK, NEW f
    PROVE  /\ IsParser(TakeTillIncl(f)) /\ WantsInput(TakeTillIncl(f)) /\ KeepsInput(TakeTillIncl(f))
           /\ \A i \in Pos : \A j \in i .. End : j = Until(f, i) =>
                IF i < j /\ j < End THEN TakeTillIncl(f)[i] = Ok(Bytes(i, j), j + 1)
                                    ELSE Refuses(TakeTillIncl(f)[i])
  <1>1. End \in Nat /\ Pos = 1 .. End /\ End \in Pos /\ \A i \in Pos : (Empty(i) <=> i = End)
    BY InputIs
  <1>2. ASSUME NEW i \in Pos, NEW j, j = Until(f, i), NEW t, t = TakeTillIncl(f)[i]
        PROVE  /\ IF i < j /\ j < End THEN t = Ok(Bytes(i, j), j + 1) ELSE Refuses(t)
               /\ Leaves(t, i)
    <2> DEFINE r == TakeTill(f)[i]
    <2>1. j \in i .. End /\ j \in Pos /\ i \in i .. End
      BY <1>1, <1>2, UntilIs
    <2>2. r = IF Empty(i) THEN Fails("Incomplete", i, i)
              ELSE IF Empty(j) \/ j = i THEN Fails("Unmatched", i, j)
              ELSE Ok(Bytes(i, j), j)
      BY <1>2 DEF TakeTill
    <2>3. (Empty(j) <=> j = End) /\ (Empty(i) <=> i = End)
      BY <1>1, <2>1
    <2>4. t = IF Failed(r) THEN GivesUp(r.err, i, r) ELSE Ok(r.val, r.at + 1)
      BY <1>2 DEF TakeTillIncl
    <2> HIDE DEF r
    <2>5. CASE i < j /\ j < End
      <3>1. r = Ok(Bytes(i, j), j)
        BY <1>1, <2>1, <2>2, <2>3, <2>5
      <3>2. t = Ok(Bytes(i, j), j + 1)
        BY <2>4, <3>1 DEF Ok, Failed
      <3>3. j + 1 \in i .. End
        BY <1>1, <2>1, <2>5
      <3> QED
        BY <2>5, <3>2, <3>3, AllLeave
    <2>6. CASE ~(i < j /\ j < End)
      <3>1. r \in {Fails("Incomplete", i, i), Fails("Unmatched", i, j)}
        BY <1>1, <2>1, <2>2, <2>3, <2>6
      <3>2. IsResult(r, i) /\ r.err \in {"Incomplete", "Unmatched"}
        BY <2>1, <3>1, ResultsAre
      <3>3. Failed(r) /\ ~Ends(r) /\ r.err # "none"
        BY <3>2 DEF Failed, Ends
      <3>4. t = GivesUp(r.err, i, r)
        BY <2>4, <3>3
      <3>5. Leaves(t, i) /\ Failed(t)
        BY <2>1, <3>2, <3>3, <3>4, AllLeave
      <3>6. t.err = r.err
        BY <2>1, <3>2, <3>3, <3>4, GivesUpIs
      <3> QED
        BY <2>6, <3>3, <3>5, <3>6 DEF Refuses, Ends
    <2> QED
      BY <2>5, <2>6
  <1>3. IsParser(TakeTillIncl(f)) /\ KeepsInput(TakeTillIncl(f))
    <2>1. \A i \in Pos : Leaves(TakeTillIncl(f)[i], i)
      BY <1>2
    <2> QED
      BY <2>1, LeavesIs
  <1>4. WantsInput(TakeTillIncl(f))
    <2>1. Until(f, End) \in End .. End
      BY <1>1, UntilIs
    <2>2. ~(End < Until(f, End) /\ Until(f, End) < End)
      BY <1>1, <2>1
    <2> QED
      BY <1>1, <1>2, <2>2 DEF WantsInput, Refuses
  <1> QED
    BY <1>2, <1>3, <1>4

\* The bytes from i on are those of cs.
Matches(cs, i) == i + Len(cs) <= End /\ \A k \in 1 .. Len(cs) : Car(i + k - 1) = cs[k]

\* Mismatch is after the last byte that matches, or at the first that does not.
LEMMA MismatchIs ==
    ASSUME TypeOK, NEW cs, Len(cs) \in Nat, NEW i \in Pos
    PROVE  /\ Mismatch(cs, i) \in i .. End
           /\ Mismatch(cs, i) - i = Len(cs) <=> Matches(cs, i)
  <1> DEFINE n == Len(cs)
             P(j) == /\ \A k \in i .. j - 1 : k - i < n /\ Car(k) = cs[k - i + 1]
                     /\ j - i = n \/ j = End \/ Car(j) # cs[j - i + 1]
             T == {j \in i .. End : j - i >= n \/ j = End \/ Car(j) # cs[j - i + 1]}
             u == CHOOSE j \in i .. End : P(j)
  <1>1. n \in Nat /\ End \in Nat /\ i \in 1 .. End
    BY InputIs
  <1>2. T \in SUBSET Nat /\ End \in T
    BY <1>1
  <1>3. PICK m \in T : \A k \in T : m <= k
    <2> HIDE DEF T
    <2>1. T # {}
      BY <1>2
    <2> QED
      BY <1>2, <2>1, FirstOf
  <1>4. m \in i .. End /\ \A k \in i .. m - 1 : k \notin T /\ k \in i .. End
    BY <1>1, <1>3
  <1> HIDE DEF n
  <1>5. \A k \in i .. m - 1 : k - i < n /\ Car(k) = cs[k - i + 1]
    BY <1>1, <1>4
  <1>6. m - i = n \/ m = End \/ Car(m) # cs[m - i + 1]
    <2> SUFFICES ASSUME m - i > n PROVE FALSE
      BY <1>1, <1>3, <1>4
    <2>1. m - 1 \in i .. m - 1 /\ m - 1 - i >= n
      BY <1>1, <1>4
    <2> QED
      BY <1>1, <1>4, <1>5, <2>1
  <1>7. u \in i .. End /\ P(u)
    <2>1. P(m)
      BY <1>5, <1>6
    <2> HIDE DEF P
    <2> QED
      BY <1>4, <2>1
  <1>8. Mismatch(cs, i) = u
    BY DEF Mismatch, Empty, n
  <1> HIDE DEF u
  <1>9. u - i = n <=> Matches(cs, i)
    <2>1. ASSUME u - i = n
          PROVE  Matches(cs, i)
      <3>1. i + n <= End
        BY <1>1, <1>7, <2>1
      <3>2. ASSUME NEW k \in 1 .. n
            PROVE  Car(i + k - 1) = cs[k]
        <4>1. i + k - 1 \in i .. u - 1 /\ (i + k - 1) - i + 1 = k
          BY <1>1, <1>7, <2>1
        <4> QED
          BY <1>7, <4>1
      <3> QED
        BY <3>1, <3>2 DEF Matches, n
    <2>2. ASSUME Matches(cs, i)
          PROVE  u - i = n
      <3>1. i + n <= End /\ \A k \in 1 .. n : Car(i + k - 1) = cs[k]
        BY <2>2 DEF Matches, n
      <3>2. u - i <= n
        <4> SUFFICES ASSUME u - i > n PROVE FALSE
          BY <1>1, <1>7
        <4>1. u - 1 \in i .. u - 1 /\ ~(u - 1 - i < n)
          BY <1>1, <1>7
        <4> QED
          BY <1>7, <4>1
      <3>3. ~(u - i < n)
        <4> SUFFICES ASSUME u - i < n PROVE FALSE
          OBVIOUS
        <4>1. u # End /\ u - i # n
          BY <1>1, <1>7, <3>1
        <4>2. Car(u) # cs[u - i + 1]
          BY <1>7, <4>1
        <4>3. u - i + 1 \in 1 .. n /\ i + (u - i + 1) - 1 = u
          BY <1>1, <1>7
        <4>4. Car(i + (u - i + 1) - 1) = cs[u - i + 1]
          BY <3>1, <4>3
        <4> QED
          BY <4>2, <4>3, <4>4
      <3> QED
        BY <1>1, <1>7, <3>2, <3>3
    <2> QED
      BY <2>1, <2>2
  <1> QED
    BY <1>7, <1>8, <1>9 DEF n

\* Given bytes, if there is input at all.
LEMMA LiteralIs ==
    ASSUME TypeOK, NEW cs, Len(cs) \in Nat, NEW v
    PROVE  /\ IsParser(Literal(cs, v)) /\ WantsInput(Literal(cs, v)) /\ KeepsInput(Literal(cs, v))
           /\ \A i \in Pos : IF i # End /\ Matches(cs, i) THEN Literal(cs, v)[i] = Ok(v, i + Len(cs))
                                                        ELSE Refuses(Literal(cs, v)[i])
  <1> DEFINE p == Literal(cs, v)
  <1>1. End \in Nat /\ Pos = 1 .. End /\ End \in Pos /\ \A i \in Pos : (Empty(i) <=> i = End)
    BY InputIs
  <1>2. ASSUME NEW i \in Pos
        PROVE  /\ Leaves(p[i], i)
               /\ IF i # End /\ Matches(cs, i) THEN p[i] = Ok(v, i + Len(cs)) ELSE Refuses(p[i])
    <2> DEFINE j == Mismatch(cs, i)
    <2>1. j \in i .. End /\ (j - i = Len(cs) <=> Matches(cs, i)) /\ i \in i .. End
      BY <1>1, MismatchIs
    <2>2. p[i] = IF Empty(i) THEN Fails("Incomplete", i, i)
                 ELSE IF j - i = Len(cs) THEN Ok(v, j)
                 ELSE IF Empty(j) THEN Fails("Incomplete", i, j)
                 ELSE Fails("Unmatched", i, j)
      BY DEF Literal
    <2> HIDE DEF j, p
    <2>3. CASE i # End /\ Matches(cs, i)
      <3>1. p[i] = Ok(v, j) /\ j = i + Len(cs)
        BY <1>1, <2>1, <2>2, <2>3
      <3> QED
        BY <2>1, <2>3, <3>1, AllLeave
    <2>4. CASE ~(i # End /\ Matches(cs, i))
      <3>1. p[i] \in {Fails("Incomplete", i, i), Fails("Incomplete", i, j), Fails("Unmatched", i, j)}
        BY <1>1, <2>1, <2>2, <2>4
      <3>2. Leaves(p[i], i) /\ p[i].err \in {"Incomplete", "Unmatched"}
        BY <2>1, <3>1, AllLeave, ResultsAre
      <3> QED
        BY <2>4, <3>2 DEF Refuses, Failed, Ends
    <2> QED
      BY <2>3, <2>4
  <1> HIDE DEF p
  <1>3. IsParser(p) /\ KeepsInput(p)
    BY <1>2, LeavesIs
  <1>4. WantsInput(p)
    BY <1>1, <1>2 DEF WantsInput, Refuses
  <1> QED
    BY <1>2, <1>3, <1>4 DEF p

\* Str is Chars, with another error.
LEMMA StrIs ==
    ASSUME TypeOK, NEW cs, Len(cs) \in Nat
    PROVE  /\ IsParser(Str(cs)) /\ WantsInput(Str(cs)) /\ KeepsInput(Str(cs))
           /\ \A i \in Pos : IF i # End /\ Matches(cs, i) THEN Str(cs)[i] = Ok(cs, i + Len(cs))
                                                        ELSE Refuses(Str(cs)[i])
  <1>1. End \in Nat /\ Pos = 1 .. End /\ End \in Pos
    BY InputIs
  <1>2. ASSUME NEW i \in Pos, NEW r, r = Chars(cs)[i], NEW t, t = Str(cs)[i]
        PROVE  /\ Leaves(t, i)
               /\ IF i # End /\ Matches(cs, i) THEN t = Ok(cs, i + Len(cs)) ELSE Refuses(t)
    <2>1. t = IF Failed(r) THEN GivesUp("NotConverted", i, r) ELSE r
      BY <1>2 DEF Str
    <2>2. IsResult(r, i) /\ i \in i .. End
      BY <1>1, <1>2, LiteralIs DEF Chars, IsParser
    <2>3. IF i # End /\ Matches(cs, i) THEN r = Ok(cs, i + Len(cs)) ELSE Refuses(r)
      BY <1>2, LiteralIs DEF Chars
    <2>4. CASE i # End /\ Matches(cs, i)
      <3>1. r = Ok(cs, i + Len(cs)) /\ ~Failed(r)
        BY <2>3, <2>4 DEF Ok, Failed
      <3> QED
        BY <2>1, <2>2, <2>4, <3>1, AllLeave
    <2>5. CASE ~(i # End /\ Matches(cs, i))
      <3>1. Refuses(r) /\ t = GivesUp("NotConverted", i, r)
        BY <2>1, <2>3, <2>5 DEF Refuses
      <3>2. Leaves(t, i)
        BY <2>2, <3>1, AllLeave DEF Refuses
      <3>3. Refuses(t)
        BY <3>1 DEF Refuses, GivesUp, Fails, Failed, Ends
      <3> QED
        BY <2>5, <3>2, <3>3
    <2> QED
      BY <2>4, <2>5
  <1>3. IsParser(Str(cs)) /\ KeepsInput(Str(cs))
    <2>1. \A i \in Pos : Leaves(Str(cs)[i], i)
      BY <1>2
    <2> QED
      BY <2>1, LeavesIs
  <1>4. WantsInput(Str(cs))
    BY <1>1, <1>2 DEF WantsInput, Refuses
  <1> QED
    BY <1>2, <1>3, <1>4

\* A parser, and another one of which only the input it leaves counts.
LEMMA ThenDiscardIs ==
    ASSUME TypeOK, NEW p, NEW sec, IsParser(p), IsParser(sec)
    PROVE  /\ IsParser(ThenDiscard(p, sec)) /\ KeepsInput(ThenDiscard(p, sec))
           /\ WantsInput(p) => WantsInput(ThenDiscard(p, sec))
           /\ \A i \in Pos :
                IF ~Failed(p[i]) /\ p[i].at # End /\ ~Failed(sec[p[i].at])
                  THEN ThenDiscard(p, sec)[i] = Ok(p[i].val, Kept(p[i].at, sec[p[i].at].at))
                  ELSE Failed(ThenDiscard(p, sec)[i])
  <1>1. End \in Nat /\ Pos = 1 .. End /\ End \in Pos /\ \A i \in Pos : (Empty(i) <=> i = End)
    BY InputIs
  <1>2. ASSUME NEW i \in Pos, NEW r, r = p[i], NEW s, s = sec[r.at], NEW t, t = ThenDiscard(p, sec)[i]
        PROVE  /\ IF ~Failed(r) /\ r.at # End /\ ~Failed(s) THEN t = Ok(r.val, Kept(r.at, s.at))
                                                           ELSE Failed(t)
               /\ Leaves(t, i)
               /\ Failed(r) => Failed(t)
    <2>1. t = IF Failed(r) THEN GivesUp("Unmatched", i, r)
              ELSE IF Empty(r.at) THEN Fails("Incomplete", i, r.at)
              ELSE IF Failed(s) THEN GivesUp("Unmatched", i, s)
              ELSE Ok(r.val, Kept(r.at, s.at))
      BY <1>2 DEF ThenDiscard
    <2>2. IsResult(r, i) /\ r.at \in i .. End /\ r.at \in Pos /\ i \in i .. End
      BY <1>1, <1>2 DEF IsParser, IsResult
    <2>3. IsResult(s, r.at)
      BY <1>2, <2>2 DEF IsParser
    <2>4. Empty(r.at) <=> r.at = End
      BY <1>1, <2>2
    <2>5. CASE Failed(r)
      BY <2>1, <2>2, <2>5, AllLeave
    <2>6. CASE ~Failed(r) /\ r.at = End
      <3>1. t = Fails("Incomplete", i, r.at)
        BY <2>1, <2>4, <2>6
      <3> QED
        BY <2>2, <2>6, <3>1, AllLeave, ResultsAre, FailureHasError
    <2>7. CASE ~Failed(r) /\ r.at # End /\ Failed(s)
      <3>1. t = GivesUp("Unmatched", i, s)
        BY <2>1, <2>4, <2>7
      <3> QED
        BY <2>2, <2>3, <2>7, <3>1, AllLeave
    <2>8. CASE ~Failed(r) /\ r.at # End /\ ~Failed(s)
      <3>1. t = Ok(r.val, Kept(r.at, s.at))
        BY <2>1, <2>4, <2>8
      <3>2. s.at \in i .. End
        BY <2>2, <2>3, AllLeave
      <3>3. Kept(r.at, s.at) \in i .. End
        BY <2>2, <3>2 DEF Kept
      <3> QED
        BY <2>8, <3>1, <3>3, AllLeave
    <2> QED
      BY <2>5, <2>6, <2>7, <2>8
  <1>3. IsParser(ThenDiscard(p, sec)) /\ KeepsInput(ThenDiscard(p, sec))
    <2>1. \A i \in Pos : Leaves(ThenDiscard(p, sec)[i], i)
      BY <1>2
    <2> QED
      BY <2>1, LeavesIs
  <1>4. WantsInput(p) => WantsInput(ThenDiscard(p, sec))
    BY <1>1, <1>2 DEF WantsInput
  <1> QED
    BY <1>2, <1>3, <1>4

-----------------------------------------------------------------------------
(* Repetitions. *)

\* A step of Many0, of which the rest of the input gives x.
ManyStep(p, i, x) ==
    IF i = End THEN Ok(<<>>, i)
    ELSE IF Ends(p[i]) THEN p[i]
    ELSE IF Failed(p[i]) THEN Ok(<<>>, Kept(i, p[i].at))
    ELSE IF p[i].at = i THEN Stuck("loops", i)
    ELSE Prepend(p[i].val, x)

\* Many0 is what its recursion says.
LEMMA Many0Recursion ==
    ASSUME TypeOK, NEW p, IsParser(p)
    PROVE  \A i \in Pos : Many0(p)[i] = ManyStep(p, i, Many0(p)[p[i].at])
  <1> DEFINE Defines(f, k) == f = [i \in k .. End |-> ManyStep(p, i, f[p[i].at])]
             S == {k \in Pos : \E f : Defines(f, k)}
             many == CHOOSE f : f = [i \in Pos |-> ManyStep(p, i, f[p[i].at])]
  <1>1. /\ End \in Nat /\ Pos = 1 .. End /\ End \in Pos /\ 1 \in Pos
        /\ \A i \in Pos : p[i].at \in i .. End
        /\ \A i \in Pos : (Empty(i) <=> i = End)
    BY InputIs DEF IsParser, IsResult
  <1>2. ASSUME NEW k \in Pos, \A j \in Pos : k < j => j \in S
        PROVE  k \in S
    <2>1. CASE k = End
      <3> DEFINE g == [i \in k .. End |-> Ok(<<>>, i)]
      <3>1. \A i \in k .. End : i = End
        BY <1>1, <2>1
      <3>2. \A i \in k .. End : g[i] = ManyStep(p, i, g[p[i].at])
        BY <3>1 DEF ManyStep
      <3>3. g = [i \in k .. End |-> g[i]]
        OBVIOUS
      <3> HIDE DEF g
      <3>4. Defines(g, k)
        BY <3>2, <3>3
      <3> HIDE DEF Defines
      <3> QED
        BY <3>4
    <2>2. CASE k # End
      <3>1. k + 1 \in Pos /\ k < k + 1
        BY <1>1, <2>2
      <3>2. k + 1 \in S
        <4> HIDE DEF S
        <4> QED
          BY <1>2, <3>1
      <3>3. PICK f : Defines(f, k + 1)
        BY <3>2
      <3>4. \A i \in (k + 1) .. End : f[i] = ManyStep(p, i, f[p[i].at])
        BY <3>3
      <3> HIDE DEF Defines
      <3> DEFINE g == [i \in k .. End |-> IF i = k THEN ManyStep(p, k, f[p[k].at]) ELSE f[i]]
      <3>5. g[k] = ManyStep(p, k, f[p[k].at]) /\ \A i \in (k + 1) .. End : g[i] = f[i]
        BY <1>1
      <3>6. g = [i \in k .. End |-> g[i]]
        OBVIOUS
      <3> HIDE DEF g
      <3>7. ASSUME NEW i \in k .. End
            PROVE  ManyStep(p, i, f[p[i].at]) = ManyStep(p, i, g[p[i].at])
        <4>1. p[i].at \in i .. End
          BY <1>1
        <4>2. CASE p[i].at = i
          BY <4>2 DEF ManyStep
        <4>3. CASE p[i].at # i
          <5>1. p[i].at \in (k + 1) .. End
            BY <1>1, <4>1, <4>3
          <5> QED
            BY <3>5, <5>1
        <4> QED
          BY <4>2, <4>3
      <3>8. ASSUME NEW i \in k .. End
            PROVE  g[i] = ManyStep(p, i, g[p[i].at])
        <4>1. CASE i = k
          BY <3>5, <3>7, <4>1
        <4>2. CASE i # k
          <5>1. i \in (k + 1) .. End
            BY <1>1, <4>2
          <5> QED
            BY <3>4, <3>5, <3>7, <5>1
        <4> QED
          BY <4>1, <4>2
      <3>9. Defines(g, k)
        BY <3>6, <3>8 DEF Defines
      <3> QED
        BY <3>9
    <2> QED
      BY <2>1, <2>2
  <1>3. S = Pos
    <2> HIDE DEF S
    <2>1. S \subseteq Pos
      BY DEF S
    <2> QED
      BY <1>2, <2>1, AllPositions
  <1>4. \E f : f = [i \in Pos |-> ManyStep(p, i, f[p[i].at])]
    <2>1. \E f : Defines(f, 1)
      BY <1>1, <1>3
    <2> QED
      BY <1>1, <2>1
  <1>5. many = [i \in Pos |-> ManyStep(p, i, many[p[i].at])]
    BY <1>4
  <1>6. Many0(p) = many
    <2>1. \A f : [i \in Pos |-> IF Empty(i) THEN Ok(<<>>, i)
                               ELSE IF Ends(p[i]) THEN p[i]
                               ELSE IF Failed(p[i]) THEN Ok(<<>>, Kept(i, p[i].at))
                               ELSE IF p[i].at = i THEN Stuck("loops", i)
                               ELSE Prepend(p[i].val, f[p[i].at])]
                 = [i \in Pos |-> ManyStep(p, i, f[p[i].at])]
      BY <1>1 DEF ManyStep
    <2> QED
      BY <2>1 DEF Many0
  <1> HIDE DEF many
  <1> QED
    BY <1>5, <1>6

\* What a parser finds anywhere.
Found(p) == {p[i].val : i \in Pos}

\* Many0 gives a sequence, unless it does not return.
LEMMA Many0Is ==
    ASSUME TypeOK, NEW p, IsParser(p)
    PROVE  /\ IsParser(Many0(p)) /\ KeepsInput(Many0(p))
           /\ \A i \in Pos : Failed(Many0(p)[i]) <=> Ends(Many0(p)[i])
           /\ \A i \in Pos : ~Failed(Many0(p)[i]) => Many0(p)[i].val \in Seq(Found(p))
  <1> DEFINE m == Many0(p)
             S == {i \in Pos : /\ IsResult(m[i], i)
                               /\ Failed(m[i]) => Ends(m[i])
                               /\ ~Failed(m[i]) => m[i].val \in Seq(Found(p))}
  <1>1. /\ End \in Nat /\ Pos = 1 .. End /\ End \in Pos /\ 1 \in Pos
        /\ \A i \in Pos : IsResult(p[i], i) /\ p[i].at \in i .. End
        /\ \A i \in Pos : m[i] = ManyStep(p, i, m[p[i].at])
    BY InputIs, Many0Recursion DEF IsParser, IsResult
  <1> HIDE DEF m
  <1>2. ASSUME NEW i \in Pos, \A j \in Pos : i < j => j \in S
        PROVE  i \in S
    <2>1. i \in i .. End /\ p[i].at \in i .. End /\ p[i].at \in Pos
      BY <1>1
    <2>2. m[i] = ManyStep(p, i, m[p[i].at])
      BY <1>1
    <2>3. \A j \in i .. End : /\ IsResult(Ok(<<>>, j), i) /\ ~Failed(Ok(<<>>, j))
                             /\ Ok(<<>>, j).val = <<>> /\ <<>> \in Seq(Found(p))
      BY ResultsAre DEF Ok
    <2>4. CASE i = End
      <3>1. m[i] = Ok(<<>>, i)
        BY <2>2, <2>4 DEF ManyStep
      <3> QED
        BY <2>1, <2>3, <3>1
    <2>5. CASE i # End /\ Ends(p[i])
      <3>1. m[i] = p[i]
        BY <2>2, <2>5 DEF ManyStep
      <3>2. Failed(m[i])
        BY <2>5, <3>1 DEF Ends, Failed
      <3> QED
        BY <1>1, <2>5, <3>1, <3>2
    <2>6. CASE i # End /\ ~Ends(p[i]) /\ Failed(p[i])
      <3>1. m[i] = Ok(<<>>, Kept(i, p[i].at))
        BY <2>2, <2>6 DEF ManyStep
      <3>2. Kept(i, p[i].at) \in i .. End
        BY <2>1 DEF Kept
      <3> QED
        BY <2>3, <3>1, <3>2
    <2>7. CASE i # End /\ ~Failed(p[i]) /\ p[i].at = i
      <3>1. ~Ends(p[i])
        BY <2>7 DEF Failed, Ends
      <3>2. m[i] = Stuck("loops", i)
        BY <2>2, <2>7, <3>1 DEF ManyStep
      <3>3. IsResult(m[i], i) /\ m[i].err = "loops"
        BY <2>1, <3>2, ResultsAre
      <3>4. Ends(m[i]) /\ Failed(m[i])
        BY <3>3 DEF Ends, Failed
      <3> QED
        BY <3>3, <3>4
    <2>8. CASE i # End /\ ~Failed(p[i]) /\ p[i].at # i
      <3> DEFINE j == p[i].at
                 v == p[i].val
      <3>1. ~Ends(p[i])
        BY <2>8 DEF Failed, Ends
      <3>2. m[i] = Prepend(v, m[j])
        BY <2>2, <2>8, <3>1 DEF ManyStep
      <3>3. i < j
        BY <1>1, <2>1, <2>8
      <3>4. j \in S
        BY <1>2, <2>1, <3>3
      <3>5. v \in Found(p)
        BY DEF Found
      <3>6. j \in i .. End
        BY <2>1
      <3> HIDE DEF j, v
      <3>7. /\ IsResult(m[i], i)
            /\ Failed(m[j]) => m[i] = m[j]
            /\ ~Failed(m[j]) => m[i] = Ok(<<v>> \o m[j].val, m[j].at)
        BY <3>2, <3>4, <3>6, PrependIs
      <3>8. CASE Failed(m[j])
        BY <3>4, <3>7, <3>8
      <3>9. CASE ~Failed(m[j])
        <4>1. m[j].val \in Seq(Found(p))
          BY <3>4, <3>9
        <4>2. <<v>> \o m[j].val \in Seq(Found(p))
          BY <3>5, <4>1
        <4> DEFINE w == <<v>> \o m[j].val
        <4>3. m[i] = Ok(w, m[j].at)
          BY <3>7, <3>9
        <4> HIDE DEF w
        <4>4. ~Failed(m[i]) /\ m[i].val = w
          BY <4>3 DEF Ok, Failed
        <4>5. m[i].val \in Seq(Found(p))
          BY <4>2, <4>4 DEF w
        <4> QED
          BY <3>7, <4>4, <4>5
      <3> QED
        BY <3>8, <3>9
    <2> QED
      BY <2>4, <2>5, <2>6, <2>7, <2>8
  <1>3. S = Pos
    <2> HIDE DEF S
    <2>1. S \subseteq Pos
      BY DEF S
    <2> QED
      BY <1>2, <2>1, AllPositions
  <1>4. \A i \in Pos : /\ IsResult(m[i], i)
                       /\ Failed(m[i]) <=> Ends(m[i])
                       /\ ~Failed(m[i]) => m[i].val \in Seq(Found(p))
    <2>1. \A i : Ends(m[i]) => Failed(m[i])
      BY DEF Ends, Failed
    <2> QED
      BY <1>3, <2>1
  <1>5. IsParser(m)
    BY <1>4 DEF IsParser
  <1>6. KeepsInput(m)
    BY <1>4 DEF KeepsInput, Refuses
  <1> QED
    BY <1>4, <1>5, <1>6 DEF m

\* Many1 is Many0, once the parser has found something.
LEMMA Many1Is ==
    ASSUME TypeOK, NEW p, IsParser(p)
    PROVE  /\ IsParser(Many1(p)) /\ KeepsInput(Many1(p))
           /\ WantsInput(p) => WantsInput(Many1(p))
           /\ \A i \in Pos : IF Failed(p[i]) THEN Failed(Many1(p)[i])
                                           ELSE Many1(p)[i] = Prepend(p[i].val, Many0(p)[p[i].at])
  <1> DEFINE m == Many0(p)
  <1>1. /\ End \in Nat /\ Pos = 1 .. End /\ End \in Pos
        /\ IsParser(m) /\ \A i \in Pos : Failed(m[i]) <=> Ends(m[i])
    BY InputIs, Many0Is
  <1> HIDE DEF m
  <1>2. ASSUME NEW i \in Pos, NEW r, r = p[i], NEW t, t = Many1(p)[i]
        PROVE  /\ Leaves(t, i)
               /\ IF Failed(r) THEN Failed(t) ELSE t = Prepend(r.val, m[r.at])
    <2>1. t = IF Failed(r) THEN GivesUp(r.err, i, r) ELSE Prepend(r.val, m[r.at])
      BY <1>2 DEF Many1, m
    <2>2. IsResult(r, i) /\ r.at \in i .. End /\ r.at \in Pos /\ i \in i .. End
      BY <1>1, <1>2 DEF IsParser, IsResult
    <2>3. CASE Failed(r)
      BY <2>1, <2>2, <2>3, AllLeave, FailureHasError
    <2>4. CASE ~Failed(r)
      <3>1. IsResult(m[r.at], r.at)
        BY <1>1, <2>2 DEF IsParser
      <3>2. /\ IsResult(t, i)
            /\ Failed(m[r.at]) => t = m[r.at]
            /\ ~Failed(m[r.at]) => t = Ok(<<r.val>> \o m[r.at].val, m[r.at].at)
        BY <2>1, <2>2, <2>4, <3>1, PrependIs
      <3>3. ~Refuses(t)
        BY <1>1, <2>2, <3>2 DEF Refuses, Ok, Failed
      <3> QED
        BY <2>1, <2>4, <3>2, <3>3 DEF Leaves
    <2> QED
      BY <2>3, <2>4
  <1>3. IsParser(Many1(p)) /\ KeepsInput(Many1(p))
    <2>1. \A i \in Pos : Leaves(Many1(p)[i], i)
      BY <1>2
    <2> QED
      BY <2>1, LeavesIs
  <1>4. WantsInput(p) => WantsInput(Many1(p))
    BY <1>1, <1>2 DEF WantsInput
  <1> QED
    BY <1>2, <1>3, <1>4 DEF m

\* What the folds make of a parser's result is a result, and a nil one a panic.
LEMMA AssertedIs ==
    ASSUME TypeOK, NEW p, IsParser(p)
    PROVE  /\ IsParser(Asserted(p))
           /\ \A i \in Pos : Asserted(p)[i] = IF ~Failed(p[i]) /\ p[i].val = Nil THEN Stuck("panic", p[i].at) ELSE p[i]
  <1>1. \A i \in Pos : Asserted(p)[i] = IF ~Failed(p[i]) /\ p[i].val = Nil THEN Stuck("panic", p[i].at) ELSE p[i]
    BY DEF Asserted
  <1>2. ASSUME NEW i \in Pos
        PROVE  IsResult(Asserted(p)[i], i)
    <2>1. IsResult(p[i], i) /\ p[i].at \in i .. End
      BY DEF IsParser, IsResult
    <2>2. IsResult(Stuck("panic", p[i].at), i)
      BY <2>1, ResultsAre
    <2> QED
      BY <1>1, <2>1, <2>2
  <1> QED
    BY <1>1, <1>2 DEF IsParser

\* So is FoldMany1, but for an empty input, and for nil.
LEMMA FoldMany1Is ==
    ASSUME TypeOK, NEW p, IsParser(p)
    PROVE  /\ IsParser(FoldMany1(p)) /\ KeepsInput(FoldMany1(p))
           /\ \A i \in Pos : IF i # End /\ Failed(p[i]) THEN Failed(FoldMany1(p)[i])
                                                     ELSE FoldMany1(p)[i] = Many0(Asserted(p))[i]
  <1> DEFINE m == Many0(Asserted(p))
  <1>1. /\ End \in Nat /\ Pos = 1 .. End /\ End \in Pos /\ \A i \in Pos : (Empty(i) <=> i = End)
        /\ IsParser(m) /\ KeepsInput(m)
    <2> DEFINE q == Asserted(p)
    <2>1. IsParser(q)
      BY AssertedIs
    <2> HIDE DEF q
    <2>2. IsParser(Many0(q)) /\ KeepsInput(Many0(q))
      BY <2>1, Many0Is
    <2> QED
      BY <2>2, InputIs DEF q
  <1> HIDE DEF m
  <1>2. ASSUME NEW i \in Pos, NEW r, r = p[i], NEW t, t = FoldMany1(p)[i]
        PROVE  /\ Leaves(t, i)
               /\ IF i # End /\ Failed(r) THEN Failed(t) ELSE t = m[i]
    <2>1. t = IF ~Empty(i) /\ Failed(r) THEN GivesUp("Unmatched", i, r) ELSE m[i]
      BY <1>2 DEF FoldMany1, FoldMany0, m
    <2>2. IsResult(r, i) /\ IsResult(m[i], i) /\ i \in i .. End /\ (Empty(i) <=> i = End)
      BY <1>1, <1>2 DEF IsParser
    <2>3. CASE i # End /\ Failed(r)
      <3>1. t = GivesUp("Unmatched", i, r)
        BY <2>1, <2>2, <2>3
      <3> QED
        BY <2>2, <2>3, <3>1, AllLeave
    <2>4. CASE ~(i # End /\ Failed(r))
      <3>1. t = m[i]
        BY <2>1, <2>2, <2>4
      <3> QED
        BY <1>1, <2>2, <2>4, <3>1 DEF KeepsInput, Leaves
    <2> QED
      BY <2>3, <2>4
  <1>3. IsParser(FoldMany1(p)) /\ KeepsInput(FoldMany1(p))
    <2>1. \A i \in Pos : Leaves(FoldMany1(p)[i], i)
      BY <1>2
    <2> QED
      BY <2>1, LeavesIs
  <1> QED
    BY <1>2, <1>3 DEF m

\* Some element is nil.
HasNil(s) == \E k \in DOMAIN s : s[k] = Nil

\* A sequence has nil if its first element is, or one of the others.
LEMMA HasNilIs ==
    ASSUME NEW S, NEW v \in S, NEW s \in Seq(S)
    PROVE  HasNil(<<v>> \o s) <=> v = Nil \/ HasNil(s)
  <1> DEFINE t == <<v>> \o s
  <1>1. /\ Len(s) \in Nat /\ DOMAIN s = 1 .. Len(s) /\ DOMAIN t = 1 .. Len(s) + 1
        /\ t[1] = v /\ \A k \in 1 .. Len(s) : t[k + 1] = s[k]
    OBVIOUS
  <1> HIDE DEF t
  <1>2. ASSUME NEW k \in DOMAIN t, t[k] = Nil
        PROVE  v = Nil \/ HasNil(s)
    <2>1. CASE k = 1
      BY <1>1, <1>2, <2>1
    <2>2. CASE k # 1
      <3>1. k - 1 \in 1 .. Len(s) /\ (k - 1) + 1 = k
        BY <1>1, <2>2
      <3>2. s[k - 1] = Nil
        BY <1>1, <1>2, <3>1
      <3> QED
        BY <1>1, <3>1, <3>2 DEF HasNil
    <2> QED
      BY <2>1, <2>2
  <1>3. v = Nil => HasNil(t)
    <2>1. 1 \in DOMAIN t
      BY <1>1
    <2> QED
      BY <1>1, <2>1 DEF HasNil
  <1>4. ASSUME NEW k \in DOMAIN s, s[k] = Nil
        PROVE  HasNil(t)
    <2>1. k + 1 \in DOMAIN t /\ t[k + 1] = Nil
      BY <1>1, <1>4
    <2> QED
      BY <2>1 DEF HasNil
  <1> QED
    BY <1>2, <1>3, <1>4 DEF HasNil, t

\* A fold is the repetition, if none of what it takes is nil; and a panic if one is.
LEMMA AssertedMany ==
    ASSUME TypeOK, NEW p, IsParser(p)
    PROVE  \A i \in Pos : ~Failed(Many0(p)[i]) =>
              IF HasNil(Many0(p)[i].val) THEN Many0(Asserted(p))[i].err = "panic"
                                         ELSE Many0(Asserted(p))[i] = Many0(p)[i]
  <1> DEFINE q == Asserted(p)
             m == Many0(p)
             n == Many0(q)
             Folds(i) == ~Failed(m[i]) => IF HasNil(m[i].val) THEN n[i].err = "panic" ELSE n[i] = m[i]
             S == {i \in Pos : Folds(i)}
  <1>1. /\ IsParser(q)
        /\ \A i \in Pos : q[i] = IF ~Failed(p[i]) /\ p[i].val = Nil THEN Stuck("panic", p[i].at) ELSE p[i]
    BY AssertedIs
  <1>2. /\ End \in Nat /\ Pos = 1 .. End
        /\ \A i \in Pos : p[i].at \in i .. End
        /\ \A i \in Pos : m[i] = ManyStep(p, i, m[p[i].at])
        /\ \A i \in Pos : IsResult(m[i], i)
        /\ \A i \in Pos : ~Failed(m[i]) => m[i].val \in Seq(Found(p))
    BY InputIs, Many0Recursion, Many0Is DEF IsParser, IsResult
  <1> HIDE DEF q
  <1>3. \A i \in Pos : n[i] = ManyStep(q, i, n[q[i].at])
    BY <1>1, Many0Recursion
  <1>4. \A i \in Pos : IsResult(n[i], i)
    BY <1>1, Many0Is DEF IsParser
  <1>5. ~HasNil(<<>>) /\ \A v, j : Ok(v, j).val = v /\ ~Failed(Ok(v, j))
    BY DEF HasNil, Ok, Failed
  <1> HIDE DEF m, n
  <1>6. ASSUME NEW i \in Pos, \A j \in Pos : i < j => j \in S
        PROVE  Folds(i)
    <2> SUFFICES ASSUME ~Failed(m[i])
                 PROVE  IF HasNil(m[i].val) THEN n[i].err = "panic" ELSE n[i] = m[i]
      OBVIOUS
    <2> DEFINE j == p[i].at
               v == p[i].val
    <2>1. m[i] = ManyStep(p, i, m[j]) /\ n[i] = ManyStep(q, i, n[q[i].at]) /\ j \in i .. End
      BY <1>2, <1>3
    <2>2. CASE i = End
      <3>1. m[i] = Ok(<<>>, i) /\ n[i] = Ok(<<>>, i)
        BY <2>1, <2>2 DEF ManyStep
      <3> QED
        BY <1>5, <3>1
    <2>3. CASE i # End /\ Failed(p[i])
      <3>1. ~Ends(p[i])
        <4> SUFFICES ASSUME Ends(p[i]) PROVE FALSE
          OBVIOUS
        <4>1. m[i] = p[i]
          BY <2>1, <2>3 DEF ManyStep
        <4> QED
          BY <2>3, <4>1
      <3>2. q[i] = p[i]
        BY <1>1, <2>3
      <3>3. m[i] = Ok(<<>>, Kept(i, j)) /\ n[i] = Ok(<<>>, Kept(i, j))
        BY <2>1, <2>3, <3>1, <3>2 DEF ManyStep
      <3> QED
        BY <1>5, <3>3
    <2>4. CASE i # End /\ ~Failed(p[i])
      <3>1. ~Ends(p[i])
        BY <2>4 DEF Failed, Ends
      <3>2. j # i
        <4> SUFFICES ASSUME j = i PROVE FALSE
          OBVIOUS
        <4>1. m[i] = Stuck("loops", i)
          BY <2>1, <2>4, <3>1 DEF ManyStep
        <4> QED
          BY <4>1 DEF Stuck, Failed
      <3>3. m[i] = Prepend(v, m[j])
        BY <2>1, <2>4, <3>1, <3>2 DEF ManyStep
      <3>4. j \in Pos /\ i < j /\ v \in Found(p)
        BY <1>2, <2>1, <3>2 DEF Found
      <3>5. j \in S
        BY <1>6, <3>4
      <3> HIDE DEF j, v
      <3>6. /\ Failed(m[j]) => m[i] = m[j]
            /\ ~Failed(m[j]) => m[i] = Ok(<<v>> \o m[j].val, m[j].at)
        BY <1>2, <3>3, <3>4, PrependIs
      <3>7. ~Failed(m[j]) /\ m[j].val \in Seq(Found(p)) /\ m[i].val = <<v>> \o m[j].val
        <4>1. ~Failed(m[j])
          BY <3>6
        <4> QED
          BY <1>2, <1>5, <3>4, <3>6, <4>1
      <3>8. IF HasNil(m[j].val) THEN n[j].err = "panic" ELSE n[j] = m[j]
        BY <3>5, <3>7
      <3>9. HasNil(m[i].val) <=> v = Nil \/ HasNil(m[j].val)
        BY <3>4, <3>7, HasNilIs
      <3>10. CASE v = Nil
        <4>1. q[i] = Stuck("panic", j)
          BY <1>1, <2>4, <3>10 DEF v, j
        <4>2. Ends(q[i]) /\ q[i].err = "panic"
          BY <4>1 DEF Stuck, Ends
        <4>3. n[i] = q[i]
          BY <2>1, <2>4, <4>2 DEF ManyStep
        <4> QED
          BY <3>9, <3>10, <4>2, <4>3
      <3>11. CASE v # Nil
        <4>1. q[i] = p[i]
          BY <1>1, <2>4, <3>11 DEF v
        <4>2. n[i] = Prepend(v, n[j])
          BY <2>1, <2>4, <3>1, <3>2, <4>1 DEF ManyStep, v, j
        <4>3. CASE HasNil(m[j].val)
          <5>1. n[j].err = "panic"
            BY <3>8, <4>3
          <5>2. n[i] = n[j]
            BY <4>2, <5>1 DEF Prepend, Failed
          <5> QED
            BY <3>9, <4>3, <5>1, <5>2
        <4>4. CASE ~HasNil(m[j].val)
          <5>1. n[j] = m[j]
            BY <3>8, <4>4
          <5> QED
            BY <3>3, <3>9, <3>11, <4>2, <4>4, <5>1
        <4> QED
          BY <4>3, <4>4
      <3> QED
        BY <3>10, <3>11
    <2> QED
      BY <2>2, <2>3, <2>4
  <1>7. S = Pos
    <2> HIDE DEF Folds
    <2>1. \A i \in Pos : (\A j \in Pos : i < j => j \in S) => i \in S
      BY <1>6
    <2> HIDE DEF S
    <2>2. S \subseteq Pos
      BY DEF S
    <2> QED
      BY <2>1, <2>2, AllPositions
  <1> QED
    BY <1>7 DEF m, n, q

\* The parsers from the k-th on, when those after it are x.
TurnStep(ps, k, x) ==
    [i \in Pos |-> IF k > Len(ps) THEN Ok(<<>>, i)
                   ELSE IF Empty(i) THEN Stuck("Incomplete", i)
                   ELSE IF Ends(ps[k][i]) THEN ps[k][i]
                   ELSE IF Failed(ps[k][i]) THEN Stuck("Unmatched", ps[k][i].at)
                   ELSE Prepend(ps[k][i].val, x[ps[k][i].at])]

\* InTurn is what its recursion says.
LEMMA InTurnRecursion ==
    ASSUME NEW ps, Len(ps) \in Nat
    PROVE  \E f : /\ \A k \in 1 .. Len(ps) + 1 : f[k] = TurnStep(ps, k, f[k + 1])
                 /\ InTurn(ps) = f[1]
  <1> DEFINE n == Len(ps)
             Defines(f, m) == f = [k \in m .. n + 1 |-> TurnStep(ps, k, f[k + 1])]
             S == {d \in Nat : d <= n => \E f : Defines(f, n + 1 - d)}
             first == CHOOSE f : f = [k \in 1 .. n + 1 |-> TurnStep(ps, k, f[k + 1])]
  <1>1. n \in Nat /\ \A x, y : TurnStep(ps, n + 1, x) = TurnStep(ps, n + 1, y)
    BY DEF TurnStep
  <1>2. 0 \in S
    <2> DEFINE g == [k \in (n + 1) .. n + 1 |-> TurnStep(ps, k, Nil)]
    <2>1. \A k \in (n + 1) .. n + 1 : k = n + 1
      BY <1>1
    <2>2. \A k \in (n + 1) .. n + 1 : g[k] = TurnStep(ps, k, g[k + 1])
      BY <1>1, <2>1
    <2>3. g = [k \in (n + 1) .. n + 1 |-> g[k]]
      OBVIOUS
    <2> HIDE DEF g, n
    <2>4. Defines(g, n + 1)
      BY <2>2, <2>3
    <2>5. n + 1 - 0 = n + 1
      BY <1>1
    <2> HIDE DEF Defines
    <2> QED
      BY <2>4, <2>5
  <1> HIDE DEF n
  <1>3. ASSUME NEW d \in S
        PROVE  d + 1 \in S
    <2> SUFFICES ASSUME d + 1 <= n PROVE \E g : Defines(g, n + 1 - (d + 1))
      OBVIOUS
    <2> DEFINE m == n - d
    <2>1. d \in Nat /\ m \in 1 .. n /\ n + 1 - d = m + 1 /\ n + 1 - (d + 1) = m /\ d <= n
      BY <1>1
    <2> HIDE DEF m
    <2>2. PICK f : Defines(f, m + 1)
      BY <2>1
    <2>3. \A k \in (m + 1) .. n + 1 : f[k] = TurnStep(ps, k, f[k + 1])
      BY <2>2
    <2> HIDE DEF Defines
    <2> DEFINE g == [k \in m .. n + 1 |-> IF k = m THEN TurnStep(ps, m, f[m + 1]) ELSE f[k]]
    <2>4. g[m] = TurnStep(ps, m, f[m + 1]) /\ \A k \in (m + 1) .. n + 1 : g[k] = f[k]
      BY <1>1, <2>1
    <2>5. g = [k \in m .. n + 1 |-> g[k]]
      OBVIOUS
    <2> HIDE DEF g
    <2>6. ASSUME NEW k \in m .. n + 1
          PROVE  g[k] = TurnStep(ps, k, g[k + 1])
      <3>1. CASE k = m
        <4>1. m + 1 \in (m + 1) .. n + 1
          BY <1>1, <2>1
        <4>2. g[m] = TurnStep(ps, m, g[m + 1])
          BY <2>4, <4>1
        <4> QED
          BY <3>1, <4>2
      <3>2. CASE k # m
        <4>1. k \in (m + 1) .. n + 1
          BY <1>1, <2>1, <3>2
        <4>2. g[k] = TurnStep(ps, k, f[k + 1])
          BY <2>3, <2>4, <4>1
        <4>3. CASE k = n + 1
          <5>1. TurnStep(ps, n + 1, f[k + 1]) = TurnStep(ps, n + 1, g[k + 1])
            BY <1>1
          <5>2. TurnStep(ps, k, f[k + 1]) = TurnStep(ps, k, g[k + 1])
            BY <4>3, <5>1
          <5> QED
            BY <4>2, <5>2
        <4>4. CASE k # n + 1
          <5>1. k + 1 \in (m + 1) .. n + 1
            BY <1>1, <2>1, <4>1, <4>4
          <5> QED
            BY <2>4, <4>2, <5>1
        <4> QED
          BY <4>3, <4>4
      <3> QED
        BY <3>1, <3>2
    <2>7. Defines(g, m)
      BY <2>5, <2>6 DEF Defines
    <2> QED
      BY <2>1, <2>7
  <1>4. S = Nat
    <2> HIDE DEF S
    <2>1. S \subseteq Nat
      BY DEF S
    <2> QED
      BY <1>2, <1>3, <2>1, AllNumbers
  <1>5. \E f : f = [k \in 1 .. n + 1 |-> TurnStep(ps, k, f[k + 1])]
    <2>1. n \in Nat /\ n <= n /\ n + 1 - n = 1
      BY <1>1
    <2>2. n \in S
      <3> HIDE DEF S
      <3> QED
        BY <1>4, <2>1
    <2> HIDE DEF Defines
    <2>3. \E f : Defines(f, n + 1 - n)
      BY <2>1, <2>2
    <2>4. \E f : Defines(f, 1)
      BY <2>1, <2>3
    <2> QED
      BY <2>4 DEF Defines
  <1>6. first = [k \in 1 .. n + 1 |-> TurnStep(ps, k, first[k + 1])]
    BY <1>5
  <1>7. InTurn(ps) = first[1]
    BY DEF InTurn, TurnStep, n
  <1> HIDE DEF first
  <1>8. \A k \in 1 .. n + 1 : first[k] = TurnStep(ps, k, first[k + 1])
    BY <1>6
  <1> QED
    BY <1>7, <1>8 DEF n

\* The alternatives from the k-th on, when those after it are x.
AltStep(ps, k, x) ==
    [i \in Pos |-> IF k > Len(ps) THEN Stuck("Unmatched", i)
                   ELSE IF Ends(ps[k][i]) \/ ~Failed(ps[k][i]) THEN ps[k][i]
                   ELSE x[Kept(i, ps[k][i].at)]]

\* Alt is what its recursion says.
LEMMA AltRecursion ==
    ASSUME NEW ps, Len(ps) \in Nat
    PROVE  \E f : /\ \A k \in 1 .. Len(ps) + 1 : f[k] = AltStep(ps, k, f[k + 1])
                 /\ \A i \in Pos : Alt(ps)[i] = IF Empty(i) THEN Fails("Incomplete", i, i) ELSE f[1][i]
  <1> DEFINE n == Len(ps)
             Defines(f, m) == f = [k \in m .. n + 1 |-> AltStep(ps, k, f[k + 1])]
             S == {d \in Nat : d <= n => \E f : Defines(f, n + 1 - d)}
             first == CHOOSE f : f = [k \in 1 .. n + 1 |-> AltStep(ps, k, f[k + 1])]
  <1>1. n \in Nat /\ \A x, y : AltStep(ps, n + 1, x) = AltStep(ps, n + 1, y)
    BY DEF AltStep
  <1>2. 0 \in S
    <2> DEFINE g == [k \in (n + 1) .. n + 1 |-> AltStep(ps, k, Nil)]
    <2>1. \A k \in (n + 1) .. n + 1 : k = n + 1
      BY <1>1
    <2>2. \A k \in (n + 1) .. n + 1 : g[k] = AltStep(ps, k, g[k + 1])
      BY <1>1, <2>1
    <2>3. g = [k \in (n + 1) .. n + 1 |-> g[k]]
      OBVIOUS
    <2> HIDE DEF g, n
    <2>4. Defines(g, n + 1)
      BY <2>2, <2>3
    <2>5. n + 1 - 0 = n + 1
      BY <1>1
    <2> HIDE DEF Defines
    <2> QED
      BY <2>4, <2>5
  <1> HIDE DEF n
  <1>3. ASSUME NEW d \in S
        PROVE  d + 1 \in S
    <2> SUFFICES ASSUME d + 1 <= n PROVE \E g : Defines(g, n + 1 - (d + 1))
      OBVIOUS
    <2> DEFINE m == n - d
    <2>1. d \in Nat /\ m \in 1 .. n /\ n + 1 - d = m + 1 /\ n + 1 - (d + 1) = m /\ d <= n
      BY <1>1
    <2> HIDE DEF m
    <2>2. PICK f : Defines(f, m + 1)
      BY <2>1
    <2>3. \A k \in (m + 1) .. n + 1 : f[k] = AltStep(ps, k, f[k + 1])
      BY <2>2
    <2> HIDE DEF Defines
    <2> DEFINE g == [k \in m .. n + 1 |-> IF k = m THEN AltStep(ps, m, f[m + 1]) ELSE f[k]]
    <2>4. g[m] = AltStep(ps, m, f[m + 1]) /\ \A k \in (m + 1) .. n + 1 : g[k] = f[k]
      BY <1>1, <2>1
    <2>5. g = [k \in m .. n + 1 |-> g[k]]
      OBVIOUS
    <2> HIDE DEF g
    <2>6. ASSUME NEW k \in m .. n + 1
          PROVE  g[k] = AltStep(ps, k, g[k + 1])
      <3>1. CASE k = m
        <4>1. m + 1 \in (m + 1) .. n + 1
          BY <1>1, <2>1
        <4>2. g[m] = AltStep(ps, m, g[m + 1])
          BY <2>4, <4>1
        <4> QED
          BY <3>1, <4>2
      <3>2. CASE k # m
        <4>1. k \in (m + 1) .. n + 1
          BY <1>1, <2>1, <3>2
        <4>2. g[k] = AltStep(ps, k, f[k + 1])
          BY <2>3, <2>4, <4>1
        <4>3. CASE k = n + 1
          <5>1. AltStep(ps, n + 1, f[k + 1]) = AltStep(ps, n + 1, g[k + 1])
            BY <1>1
          <5>2. AltStep(ps, k, f[k + 1]) = AltStep(ps, k, g[k + 1])
            BY <4>3, <5>1
          <5> QED
            BY <4>2, <5>2
        <4>4. CASE k # n + 1
          <5>1. k + 1 \in (m + 1) .. n + 1
            BY <1>1, <2>1, <4>1, <4>4
          <5> QED
            BY <2>4, <4>2, <5>1
        <4> QED
          BY <4>3, <4>4
      <3> QED
        BY <3>1, <3>2
    <2>7. Defines(g, m)
      BY <2>5, <2>6 DEF Defines
    <2> QED
      BY <2>1, <2>7
  <1>4. S = Nat
    <2> HIDE DEF S
    <2>1. S \subseteq Nat
      BY DEF S
    <2> QED
      BY <1>2, <1>3, <2>1, AllNumbers
  <1>5. \E f : f = [k \in 1 .. n + 1 |-> AltStep(ps, k, f[k + 1])]
    <2>1. n \in Nat /\ n <= n /\ n + 1 - n = 1
      BY <1>1
    <2>2. n \in S
      <3> HIDE DEF S
      <3> QED
        BY <1>4, <2>1
    <2> HIDE DEF Defines
    <2>3. \E f : Defines(f, n + 1 - n)
      BY <2>1, <2>2
    <2>4. \E f : Defines(f, 1)
      BY <2>1, <2>3
    <2> QED
      BY <2>4 DEF Defines
  <1>6. first = [k \in 1 .. n + 1 |-> AltStep(ps, k, first[k + 1])]
    BY <1>5
  <1>7. \A i \in Pos : Alt(ps)[i] = IF Empty(i) THEN Fails("Incomplete", i, i) ELSE first[1][i]
    BY DEF Alt, AltStep, n
  <1> HIDE DEF first
  <1>8. \A k \in 1 .. n + 1 : first[k] = AltStep(ps, k, first[k + 1])
    BY <1>6
  <1> QED
    BY <1>7, <1>8 DEF n

\* The k-th round of Times, when the one before it is x.
RoundStep(p, k, x) ==
    [i \in Pos |-> IF k = 0 THEN Ok(<<>>, i)
                   ELSE IF Failed(p[i]) THEN p[i]
                   ELSE Prepend(p[i].val, x[p[i].at])]

\* Times is what its recursion says.
LEMMA TimesRecursion ==
    ASSUME NEW p, NEW n \in Nat
    PROVE  \E f : /\ \A k \in 0 .. n : f[k] = RoundStep(p, k, f[k - 1])
                 /\ Times(p, n) = f[n]
  <1> DEFINE Defines(f, m) == f = [k \in 0 .. m |-> RoundStep(p, k, f[k - 1])]
             S == {m \in Nat : \E f : Defines(f, m)}
             last == CHOOSE f : Defines(f, n)
  <1>1. \A x, y : RoundStep(p, 0, x) = RoundStep(p, 0, y)
    BY DEF RoundStep
  <1>2. 0 \in S
    <2> DEFINE g == [k \in 0 .. 0 |-> RoundStep(p, 0, Nil)]
    <2>1. \A k \in 0 .. 0 : g[k] = RoundStep(p, k, g[k - 1])
      BY <1>1
    <2>2. g = [k \in 0 .. 0 |-> g[k]]
      OBVIOUS
    <2> HIDE DEF g
    <2>3. Defines(g, 0)
      BY <2>1, <2>2
    <2> HIDE DEF Defines
    <2> QED
      BY <2>3
  <1>3. ASSUME NEW m \in S
        PROVE  m + 1 \in S
    <2>1. m \in Nat
      OBVIOUS
    <2>2. PICK f : Defines(f, m)
      OBVIOUS
    <2> DEFINE g == [k \in 0 .. m + 1 |-> IF k <= m THEN f[k] ELSE RoundStep(p, m + 1, f[m])]
    <2>3. \A k \in 0 .. m : f[k] = RoundStep(p, k, f[k - 1])
      BY <2>2
    <2>4. \A k \in 0 .. m : g[k] = f[k]
      BY <2>1
    <2>5. g[m + 1] = RoundStep(p, m + 1, f[m])
      BY <2>1
    <2>6. g = [k \in 0 .. m + 1 |-> g[k]]
      OBVIOUS
    <2> HIDE DEF g, Defines
    <2>7. ASSUME NEW k \in 0 .. m + 1
          PROVE  g[k] = RoundStep(p, k, g[k - 1])
      <3>1. CASE k = m + 1
        <4>1. m \in 0 .. m /\ (m + 1) - 1 = m
          BY <2>1
        <4>2. g[m + 1] = RoundStep(p, m + 1, g[(m + 1) - 1])
          BY <2>4, <2>5, <4>1
        <4> QED
          BY <3>1, <4>2
      <3>2. CASE k = 0
        <4>1. g[0] = RoundStep(p, 0, f[0 - 1])
          BY <2>1, <2>3, <2>4
        <4>2. g[0] = RoundStep(p, 0, g[0 - 1])
          BY <1>1, <4>1
        <4> QED
          BY <3>2, <4>2
      <3>3. CASE k \in 1 .. m
        <4>1. k \in 0 .. m /\ k - 1 \in 0 .. m
          BY <2>1, <3>3
        <4> QED
          BY <2>3, <2>4, <4>1
      <3> QED
        BY <2>1, <3>1, <3>2, <3>3
    <2>8. Defines(g, m + 1)
      BY <2>6, <2>7 DEF Defines
    <2>9. m + 1 \in Nat
      BY <2>1
    <2> QED
      BY <2>8, <2>9
  <1>4. S = Nat
    <2> HIDE DEF S
    <2>1. S \subseteq Nat
      BY DEF S
    <2> QED
      BY <1>2, <1>3, <2>1, AllNumbers
  <1>5. Defines(last, n)
    <2>1. \E f : Defines(f, n)
      BY <1>4
    <2> HIDE DEF Defines
    <2> QED
      BY <2>1
  <1>6. Times(p, n) = last[n]
    BY DEF Times, RoundStep
  <1> HIDE DEF last
  <1>7. \A k \in 0 .. n : last[k] = RoundStep(p, k, last[k - 1])
    BY <1>5
  <1> QED
    BY <1>6, <1>7

\* Rounds of a parser are a parser.
LEMMA RoundIs ==
    ASSUME TypeOK, NEW p, IsParser(p), NEW n \in Nat, NEW f,
           \A k \in 0 .. n : f[k] = RoundStep(p, k, f[k - 1])
    PROVE  \A k \in 0 .. n : IsParser(f[k])
  <1>1. \A i \in Pos : i \in i .. End /\ IsResult(p[i], i) /\ p[i].at \in i .. End /\ p[i].at \in Pos
    <2>1. End \in Nat /\ Pos = 1 .. End
      BY InputIs
    <2> QED
      BY <2>1 DEF IsParser, IsResult
  <1> DEFINE S == {k \in Nat : k <= n => IsParser(f[k])}
  <1>2. 0 \in S
    <2> SUFFICES ASSUME NEW i \in Pos PROVE IsResult(f[0][i], i)
      BY DEF IsParser
    <2>1. 0 \in 0 .. n
      OBVIOUS
    <2>2. f[0] = RoundStep(p, 0, f[0 - 1])
      BY <2>1
    <2>3. f[0][i] = Ok(<<>>, i)
      BY <2>2 DEF RoundStep
    <2> QED
      BY <1>1, <2>3, ResultsAre
  <1>3. ASSUME NEW k \in S
        PROVE  k + 1 \in S
    <2> SUFFICES ASSUME k + 1 <= n, NEW i \in Pos PROVE IsResult(f[k + 1][i], i)
      BY DEF IsParser
    <2>1. k \in Nat /\ IsParser(f[k]) /\ k + 1 \in 0 .. n /\ (k + 1) - 1 = k /\ k + 1 # 0
      OBVIOUS
    <2>2. f[k + 1] = RoundStep(p, k + 1, f[k])
      BY <2>1
    <2>3. f[k + 1][i] = IF Failed(p[i]) THEN p[i] ELSE Prepend(p[i].val, f[k][p[i].at])
      BY <2>1, <2>2 DEF RoundStep
    <2>4. IsResult(f[k][p[i].at], p[i].at)
      BY <1>1, <2>1 DEF IsParser
    <2>5. IsResult(Prepend(p[i].val, f[k][p[i].at]), i)
      BY <1>1, <2>4, PrependIs
    <2> QED
      BY <1>1, <2>3, <2>5
  <1>4. S = Nat
    <2> HIDE DEF S
    <2>1. S \subseteq Nat
      BY DEF S
    <2> QED
      BY <1>2, <1>3, <2>1, AllNumbers
  <1> QED
    BY <1>4

\* Count is Times, but for where the input is.
LEMMA CountIs ==
    ASSUME TypeOK, NEW p, IsParser(p), NEW n \in Nat
    PROVE  /\ IsParser(Count(p, n)) /\ KeepsInput(Count(p, n))
           /\ \A i \in Pos : IF Failed(Times(p, n)[i]) THEN Failed(Count(p, n)[i])
                ELSE Count(p, n)[i] = Ok(Times(p, n)[i].val, Kept(i, Times(p, n)[i].at))
  <1> DEFINE m == Times(p, n)
  <1>1. IsParser(m)
    <2>1. PICK f : /\ \A k \in 0 .. n : f[k] = RoundStep(p, k, f[k - 1])
                   /\ m = f[n]
      BY TimesRecursion
    <2>2. n \in 0 .. n
      OBVIOUS
    <2> HIDE DEF m
    <2> QED
      BY <2>1, <2>2, RoundIs
  <1> HIDE DEF m
  <1>2. ASSUME NEW i \in Pos, NEW r, r = m[i], NEW t, t = Count(p, n)[i]
        PROVE  /\ Leaves(t, i)
               /\ IF Failed(r) THEN Failed(t) ELSE t = Ok(r.val, Kept(i, r.at))
    <2>1. t = IF Failed(r) THEN GivesUp(r.err, i, r) ELSE Ok(r.val, Kept(i, r.at))
      BY <1>2 DEF Count, m
    <2>2. IsResult(r, i) /\ r.at \in i .. End /\ i \in i .. End
      <3>1. End \in Nat /\ Pos = 1 .. End
        BY InputIs
      <3> QED
        BY <1>1, <1>2, <3>1 DEF IsParser, IsResult
    <2>3. CASE Failed(r)
      BY <2>1, <2>2, <2>3, AllLeave, FailureHasError
    <2>4. CASE ~Failed(r)
      <3>1. Kept(i, r.at) \in i .. End
        BY <2>2 DEF Kept
      <3> QED
        BY <2>1, <2>2, <2>4, <3>1, AllLeave
    <2> QED
      BY <2>3, <2>4
  <1>3. IsParser(Count(p, n)) /\ KeepsInput(Count(p, n))
    <2>1. \A i \in Pos : Leaves(Count(p, n)[i], i)
      BY <1>2
    <2> QED
      BY <2>1, LeavesIs
  <1> QED
    BY <1>2, <1>3 DEF m

\* Parsers in turn are a parser.
LEMMA InTurnIs ==
    ASSUME TypeOK, NEW ps, Len(ps) \in Nat, \A k \in 1 .. Len(ps) : IsParser(ps[k])
    PROVE  IsParser(InTurn(ps))
  <1> DEFINE n == Len(ps)
  <1>1. PICK f : /\ \A k \in 1 .. n + 1 : f[k] = TurnStep(ps, k, f[k + 1])
                 /\ InTurn(ps) = f[1]
    BY InTurnRecursion
  <1>2. n \in Nat /\ \A i \in Pos : i \in i .. End
    <2>1. End \in Nat /\ Pos = 1 .. End
      BY InputIs
    <2> QED
      BY <2>1
  <1> DEFINE S == {d \in Nat : d <= n => IsParser(f[n + 1 - d])}
  <1>3. 0 \in S
    <2>1. n + 1 \in 1 .. n + 1 /\ n + 1 - 0 = n + 1 /\ n + 1 > n
      BY <1>2
    <2> SUFFICES ASSUME NEW i \in Pos PROVE IsResult(f[n + 1][i], i)
      BY <2>1 DEF IsParser
    <2>2. f[n + 1][i] = Ok(<<>>, i)
      BY <1>1, <2>1 DEF TurnStep
    <2> QED
      BY <1>2, <2>2, ResultsAre
  <1> HIDE DEF n
  <1>4. ASSUME NEW d \in S
        PROVE  d + 1 \in S
    <2> DEFINE k == n + 1 - (d + 1)
    <2> SUFFICES ASSUME d + 1 <= n, NEW i \in Pos PROVE IsResult(f[k][i], i)
      BY DEF IsParser
    <2>1. k \in 1 .. n /\ k \in 1 .. n + 1 /\ k + 1 = n + 1 - d /\ d \in Nat /\ d <= n /\ ~(k > n)
      BY <1>2
    <2>2. IsParser(f[k + 1])
      BY <2>1
    <2> HIDE DEF k
    <2>3. f[k] = TurnStep(ps, k, f[k + 1])
      BY <1>1, <2>1
    <2> DEFINE r == ps[k][i]
    <2>4. f[k][i] = IF Empty(i) THEN Stuck("Incomplete", i)
                    ELSE IF Ends(r) THEN r
                    ELSE IF Failed(r) THEN Stuck("Unmatched", r.at)
                    ELSE Prepend(r.val, f[k + 1][r.at])
      BY <2>1, <2>3 DEF TurnStep, n
    <2>5. IsParser(ps[k])
      BY <2>1 DEF n
    <2>6. IsResult(r, i) /\ r.at \in i .. End /\ r.at \in Pos /\ i \in i .. End
      BY <1>2, <2>5, AllLeave DEF IsParser
    <2>7. IsResult(f[k + 1][r.at], r.at)
      BY <2>2, <2>6 DEF IsParser
    <2> HIDE DEF r
    <2>8. IsResult(Prepend(r.val, f[k + 1][r.at]), i)
      BY <2>6, <2>7, PrependIs
    <2>9. IsResult(Stuck("Incomplete", i), i) /\ IsResult(Stuck("Unmatched", r.at), i)
      BY <2>6, ResultsAre
    <2> QED
      BY <2>4, <2>6, <2>8, <2>9
  <1>5. S = Nat
    <2> HIDE DEF S
    <2>1. S \subseteq Nat
      BY DEF S
    <2> QED
      BY <1>3, <1>4, <2>1, AllNumbers
  <1>6. n \in S /\ n <= n /\ n + 1 - n = 1
    <2>1. n \in Nat /\ n <= n /\ n + 1 - n = 1
      BY <1>2
    <2> HIDE DEF S
    <2> QED
      BY <1>5, <2>1
  <1> QED
    BY <1>1, <1>6

\* A parser, and others in turn where it ended.
LEMMA AndThenIs ==
    ASSUME TypeOK, NEW p, IsParser(p),
           NEW ps, Len(ps) \in Nat, \A k \in 1 .. Len(ps) : IsParser(ps[k])
    PROVE  /\ IsParser(AndThen(p, ps)) /\ KeepsInput(AndThen(p, ps))
           /\ \A i \in Pos :
                LET s == Prepend(p[i].val, InTurn(ps)[p[i].at])
                IN  IF ~Failed(p[i]) /\ p[i].at # End /\ ~Failed(s)
                      THEN AndThen(p, ps)[i] = Ok(s.val, Kept(i, s.at))
                      ELSE Failed(AndThen(p, ps)[i])
  <1> DEFINE rest == InTurn(ps)
  <1>1. /\ End \in Nat /\ Pos = 1 .. End /\ End \in Pos /\ \A i \in Pos : (Empty(i) <=> i = End)
        /\ IsParser(rest)
    BY InputIs, InTurnIs
  <1> HIDE DEF rest
  <1>2. ASSUME NEW i \in Pos, NEW r, r = p[i], NEW s, s = Prepend(r.val, rest[r.at]),
               NEW t, t = AndThen(p, ps)[i]
        PROVE  /\ IF ~Failed(r) /\ r.at # End /\ ~Failed(s) THEN t = Ok(s.val, Kept(i, s.at))
                                                           ELSE Failed(t)
               /\ Leaves(t, i)
    <2>1. t = IF Ends(r) THEN r
              ELSE IF Empty(r.at) THEN Fails("Incomplete", i, r.at)
              ELSE IF Failed(r) THEN GivesUp("Unmatched", i, r)
              ELSE IF Failed(s) THEN GivesUp(s.err, i, s)
              ELSE Ok(s.val, Kept(i, s.at))
      BY <1>2 DEF AndThen, rest
    <2>2. IsResult(r, i) /\ r.at \in i .. End /\ r.at \in Pos /\ i \in i .. End
      BY <1>1, <1>2 DEF IsParser, IsResult
    <2>3. IsResult(s, i)
      <3>1. IsResult(rest[r.at], r.at)
        BY <1>1, <2>2 DEF IsParser
      <3> QED
        BY <1>2, <2>2, <3>1, PrependIs
    <2>4. Empty(r.at) <=> r.at = End
      BY <1>1, <2>2
    <2>5. CASE Ends(r)
      <3>1. t = r /\ Failed(r)
        BY <2>1, <2>5 DEF Failed, Ends
      <3> QED
        BY <2>2, <2>5, <3>1, AllLeave
    <2>6. CASE ~Ends(r) /\ r.at = End
      <3>1. t = Fails("Incomplete", i, r.at)
        BY <2>1, <2>4, <2>6
      <3> QED
        BY <2>2, <2>6, <3>1, AllLeave, ResultsAre, FailureHasError
    <2>7. CASE ~Ends(r) /\ r.at # End /\ Failed(r)
      <3>1. t = GivesUp("Unmatched", i, r)
        BY <2>1, <2>4, <2>7
      <3> QED
        BY <2>2, <2>7, <3>1, AllLeave
    <2>8. CASE r.at # End /\ ~Failed(r) /\ Failed(s)
      <3>1. t = GivesUp(s.err, i, s)
        BY <2>1, <2>4, <2>8 DEF Failed, Ends
      <3> QED
        BY <2>2, <2>3, <2>8, <3>1, AllLeave, FailureHasError
    <2>9. CASE r.at # End /\ ~Failed(r) /\ ~Failed(s)
      <3>1. t = Ok(s.val, Kept(i, s.at))
        BY <2>1, <2>4, <2>9 DEF Failed, Ends
      <3>2. Kept(i, s.at) \in i .. End
        BY <2>2, <2>3 DEF Kept, IsResult
      <3> QED
        BY <2>2, <2>9, <3>1, <3>2, AllLeave
    <2> QED
      BY <2>5, <2>6, <2>7, <2>8, <2>9
  <1>3. IsParser(AndThen(p, ps)) /\ KeepsInput(AndThen(p, ps))
    <2>1. \A i \in Pos : Leaves(AndThen(p, ps)[i], i)
      BY <1>2
    <2> QED
      BY <2>1, LeavesIs
  <1> QED
    BY <1>2, <1>3 DEF rest

\* Alternatives of parsers are a parser, and keep the input if they do.
LEMMA AltIs ==
    ASSUME TypeOK, NEW ps, Len(ps) \in Nat,
           \A k \in 1 .. Len(ps) : IsParser(ps[k]) /\ KeepsInput(ps[k])
    PROVE  IsParser(Alt(ps)) /\ KeepsInput(Alt(ps)) /\ WantsInput(Alt(ps))
  <1> DEFINE n == Len(ps)
  <1>1. PICK f : /\ \A k \in 1 .. n + 1 : f[k] = AltStep(ps, k, f[k + 1])
                 /\ \A i \in Pos : Alt(ps)[i] = IF Empty(i) THEN Fails("Incomplete", i, i) ELSE f[1][i]
    BY AltRecursion
  <1>2. /\ n \in Nat /\ End \in Nat /\ Pos = 1 .. End /\ End \in Pos
        /\ \A i \in Pos : i \in i .. End /\ (Empty(i) <=> i = End)
    <2>1. End \in Nat /\ Pos = 1 .. End /\ End \in Pos /\ \A i \in Pos : (Empty(i) <=> i = End)
      BY InputIs
    <2> QED
      BY <2>1
  <1> DEFINE S == {d \in Nat : d <= n => \A i \in Pos : Leaves(f[n + 1 - d][i], i)}
  <1>3. 0 \in S
    <2>1. n + 1 \in 1 .. n + 1 /\ n + 1 - 0 = n + 1 /\ n + 1 > n
      BY <1>2
    <2> SUFFICES ASSUME NEW i \in Pos PROVE Leaves(f[n + 1][i], i)
      BY <2>1
    <2>2. f[n + 1][i] = Stuck("Unmatched", i)
      BY <1>1, <2>1 DEF AltStep
    <2> QED
      BY <1>2, <2>2, AllLeave
  <1> HIDE DEF n
  <1>4. ASSUME NEW d \in S
        PROVE  d + 1 \in S
    <2> DEFINE k == n + 1 - (d + 1)
    <2> SUFFICES ASSUME d + 1 <= n, NEW i \in Pos PROVE Leaves(f[k][i], i)
      OBVIOUS
    <2>1. k \in 1 .. n /\ k \in 1 .. n + 1 /\ k + 1 = n + 1 - d /\ d \in Nat /\ d <= n /\ ~(k > n)
      BY <1>2
    <2>2. \A j \in Pos : Leaves(f[k + 1][j], j)
      BY <2>1
    <2> HIDE DEF k
    <2>3. f[k] = AltStep(ps, k, f[k + 1])
      BY <1>1, <2>1
    <2> DEFINE r == ps[k][i]
    <2>4. f[k][i] = IF Ends(r) \/ ~Failed(r) THEN r ELSE f[k + 1][Kept(i, r.at)]
      BY <2>1, <2>3 DEF AltStep, n
    <2>5. IsParser(ps[k]) /\ KeepsInput(ps[k])
      BY <2>1 DEF n
    <2>6. IsResult(r, i) /\ r.at \in i .. End /\ r.at \in Pos /\ i \in i .. End
      BY <1>2, <2>5, AllLeave DEF IsParser
    <2> HIDE DEF r
    <2>7. CASE Ends(r) \/ ~Failed(r)
      BY <2>4, <2>6, <2>7, AllLeave
    <2>8. CASE ~(Ends(r) \/ ~Failed(r)) /\ shared
      <3>1. f[k][i] = f[k + 1][r.at]
        BY <2>4, <2>8 DEF Kept
      <3>2. IsResult(f[k][i], r.at)
        BY <2>2, <2>6, <3>1 DEF Leaves
      <3> QED
        BY <2>6, <2>8, <3>2, AllLeave DEF Leaves
    <2>9. CASE ~(Ends(r) \/ ~Failed(r)) /\ ~shared
      <3>1. f[k][i] = f[k + 1][i]
        BY <2>4, <2>9 DEF Kept
      <3> QED
        BY <2>2, <3>1
    <2> QED
      BY <2>7, <2>8, <2>9
  <1>5. S = Nat
    <2> HIDE DEF S
    <2>1. S \subseteq Nat
      BY DEF S
    <2> QED
      BY <1>3, <1>4, <2>1, AllNumbers
  <1>6. \A i \in Pos : Leaves(f[1][i], i)
    <2>1. n \in Nat /\ n <= n /\ n + 1 - n = 1
      BY <1>2
    <2>2. n \in S
      <3> HIDE DEF S
      <3> QED
        BY <1>5, <2>1
    <2> QED
      BY <2>1, <2>2
  <1>7. \A i \in Pos : Leaves(Alt(ps)[i], i)
    <2> TAKE i \in Pos
    <2>1. Leaves(Fails("Incomplete", i, i), i)
      BY <1>2, AllLeave
    <2> QED
      BY <1>1, <1>6, <2>1
  <1>8. WantsInput(Alt(ps))
    <2>1. Alt(ps)[End] = Fails("Incomplete", End, End)
      BY <1>1, <1>2
    <2> QED
      BY <2>1 DEF Fails, Failed, WantsInput
  <1> QED
    BY <1>7, <1>8, LeavesIs

\* On copies, the parsers that Chained lists leave the input when they refuse it: the
\* combinators return the input they were given, whatever their parsers read
\* (parsec.go:35).
THEOREM FailureKeepsInputHolds == TypeOK => FailureKeepsInput
  <1> SUFFICES ASSUME TypeOK PROVE FailureKeepsInput
    OBVIOUS
  <1> DEFINE S == BencStr
             I == BencInt
             C == Chars(<<"i", "1">>)
             T == TakeTillIncl({"e"})
             A == Alt(<<S, C, I>>)
             B == Alt(<<C, S>>)
  <1>1. Len(<<"i", "1">>) \in Nat /\ Len(<<"1", ":">>) \in Nat
    OBVIOUS
  <1>2. /\ IsParser(S) /\ IsParser(I) /\ IsParser(C) /\ IsParser(T) /\ IsParser(Tag("i")) /\ IsParser(Tag("e"))
        /\ KeepsInput(S) /\ KeepsInput(I) /\ KeepsInput(C)
    BY <1>1, BencStrIs, BencIntIs, LiteralIs, TakeTillInclIs, OneOfIs DEF Chars, Tag
  <1> HIDE DEF S, I, C, T
  <1>3. KeepsInput(A)
    <2>1. /\ Len(<<S, C, I>>) = 3 /\ <<S, C, I>>[1] = S /\ <<S, C, I>>[2] = C /\ <<S, C, I>>[3] = I
          /\ \A k \in 1 .. 3 : k = 1 \/ k = 2 \/ k = 3
      OBVIOUS
    <2>2. \A k \in 1 .. 3 : IsParser(<<S, C, I>>[k]) /\ KeepsInput(<<S, C, I>>[k])
      BY <1>2, <2>1
    <2> QED
      BY <2>1, <2>2, AltIs
  <1>4. IsParser(B)
    <2>1. /\ Len(<<C, S>>) = 2 /\ <<C, S>>[1] = C /\ <<C, S>>[2] = S
          /\ \A k \in 1 .. 2 : k = 1 \/ k = 2
      OBVIOUS
    <2>2. \A k \in 1 .. 2 : IsParser(<<C, S>>[k]) /\ KeepsInput(<<C, S>>[k])
      BY <1>2, <2>1
    <2> QED
      BY <2>1, <2>2, AltIs
  <1> HIDE DEF A, B
  <1>5. /\ KeepsInput(Guarded("i", "e")) /\ KeepsInput(Then(I, S)) /\ KeepsInput(Then(S, I))
        /\ KeepsInput(Then(B, TakeN(2)))
    BY <1>2, <1>4, ThenIs, TakeNIs DEF Guarded, T
  <1>6. KeepsInput(GuardedWhile("i", "e", DigitByte))
    BY GuardedWhileIs
  <1>7. KeepsInput(ThenDiscard(C, S)) /\ KeepsInput(manyStr) /\ KeepsInput(manyInt)
    <2>1. IsParser(Many0(BencStr)) /\ IsParser(Many0(BencInt))
      BY <1>2, Many0Is DEF S, I
    <2> QED
      BY <1>2, <2>1, ThenDiscardIs DEF manyStr, manyInt
  <1>8. KeepsInput(AndThen(I, <<C, S>>))
    <2>1. /\ Len(<<C, S>>) = 2 /\ <<C, S>>[1] = C /\ <<C, S>>[2] = S
          /\ \A k \in 1 .. 2 : k = 1 \/ k = 2
      OBVIOUS
    <2>2. \A k \in 1 .. 2 : IsParser(<<C, S>>[k])
      BY <1>2, <2>1
    <2> QED
      BY <1>2, <2>1, <2>2, AndThenIs
  <1>9. KeepsInput(AndThen(C, <<I>>))
    <2>1. Len(<<I>>) = 1 /\ <<I>>[1] = I /\ \A k \in 1 .. 1 : k = 1
      OBVIOUS
    <2>2. \A k \in 1 .. 1 : IsParser(<<I>>[k])
      BY <1>2, <2>1
    <2> QED
      BY <1>2, <2>1, <2>2, AndThenIs
  <1>10. KeepsInput(Count(I, 2)) /\ KeepsInput(Many1(C)) /\ KeepsInput(FoldMany1(T)) /\ KeepsInput(Str(<<"1", ":">>))
    BY <1>1, <1>2, CountIs, Many1Is, FoldMany1Is, StrIs
  <1>11. \A p : KeepsInput(p) /\ ~shared /\ Refuses(p[1]) => p[1].at = 1
    BY InputIs DEF KeepsInput
  <1> SUFFICES ASSUME ~shared PROVE \A k \in DOMAIN Chained : Refuses(Chained[k]) => Chained[k].at = 1
    BY DEF FailureKeepsInput
  <1> DEFINE Kind(r) == Refuses(r) => r.at = 1
  <1>12. /\ Kind(Guarded("i", "e")[1]) /\ Kind(Then(I, S)[1]) /\ Kind(GuardedWhile("i", "e", DigitByte)[1])
         /\ Kind(Then(S, I)[1]) /\ Kind(ThenDiscard(C, S)[1]) /\ Kind(AndThen(I, <<C, S>>)[1])
         /\ Kind(AndThen(C, <<I>>)[1]) /\ Kind(Count(I, 2)[1]) /\ Kind(Many1(C)[1]) /\ Kind(A[1])
         /\ Kind(Then(B, TakeN(2))[1]) /\ Kind(FoldMany1(T)[1]) /\ Kind(manyStr[1]) /\ Kind(manyInt[1])
         /\ Kind(Str(<<"1", ":">>)[1])
    BY <1>3, <1>5, <1>6, <1>7, <1>8, <1>9, <1>10, <1>11
  <1>13. Chained =
          << Guarded("i", "e")[1], Then(I, S)[1], GuardedWhile("i", "e", DigitByte)[1],
             Then(S, I)[1], ThenDiscard(C, S)[1], AndThen(I, <<C, S>>)[1], AndThen(C, <<I>>)[1],
             Count(I, 2)[1], Many1(C)[1], A[1], Then(B, TakeN(2))[1],
             FoldMany1(T)[1], manyStr[1], manyInt[1], Str(<<"1", ":">>)[1] >>
    BY DEF Chained, S, I, C, A, B, T
  <1> HIDE DEF Kind
  <1>14. \A a, b, c, d, e, f, g, h, k, l, m, n, o, p, q :
           /\ Kind(a) /\ Kind(b) /\ Kind(c) /\ Kind(d) /\ Kind(e) /\ Kind(f) /\ Kind(g) /\ Kind(h)
           /\ Kind(k) /\ Kind(l) /\ Kind(m) /\ Kind(n) /\ Kind(o) /\ Kind(p) /\ Kind(q)
           => LET rs == <<a, b, c, d, e, f, g, h, k, l, m, n, o, p, q>>
              IN  \A x \in DOMAIN rs : Kind(rs[x])
    OBVIOUS
  <1>15. \A x \in DOMAIN Chained : Kind(Chained[x])
    <2>1. LET rs == << Guarded("i", "e")[1], Then(I, S)[1], GuardedWhile("i", "e", DigitByte)[1],
             Then(S, I)[1], ThenDiscard(C, S)[1], AndThen(I, <<C, S>>)[1], AndThen(C, <<I>>)[1],
             Count(I, 2)[1], Many1(C)[1], A[1], Then(B, TakeN(2))[1],
             FoldMany1(T)[1], manyStr[1], manyInt[1], Str(<<"1", ":">>)[1] >>
          IN  \A x \in DOMAIN rs : Kind(rs[x])
      BY <1>12, <1>14
    <2> QED
      BY <1>13, <2>1
  <1> QED
    BY <1>15 DEF Kind

-----------------------------------------------------------------------------
(* Choices. *)

\* Where a shared reader is when there is no integer: where it was, or behind the
\* digits after an i.
LEMMA NoIntLeavesAt ==
    ASSUME TypeOK, shared, NEW i \in Pos, Refuses(BencInt[i])
    PROVE  /\ BencInt[i].at \in Pos
           /\ \/ BencInt[i].at = i
              \/ Car(i) = "i" /\ i # End /\ (BencInt[i].at = End \/ Car(BencInt[i].at) \notin DigitByte)
  <1> DEFINE while == TakeWhile(DigitByte)
             chain == Then(Tag("i"), while)
             r == chain[i]
             s == Tag("e")[r.at]
             g == GuardedWhile("i", "e", DigitByte)[i]
             tag == Tag("i")[i]
  <1>1. /\ End \in Nat /\ Pos = 1 .. End /\ End \in Pos
        /\ IsParser(Tag("i")) /\ IsParser(Tag("e")) /\ IsParser(while) /\ IsParser(chain)
        /\ IsParser(GuardedWhile("i", "e", DigitByte))
    <2>1. IsParser(Tag("i")) /\ IsParser(Tag("e")) /\ IsParser(while)
      BY OneOfIs, TakeWhileIs DEF Tag
    <2> QED
      BY <2>1, InputIs, ThenIs, GuardedWhileIs
  <1>2. g = IF Failed(r) THEN GivesUp(r.err, i, r)
            ELSE IF Failed(s) THEN GivesUp(s.err, i, s)
            ELSE Ok(r.val, s.at)
    BY DEF GuardedWhile
  <1>3. BencInt[i] = IF Failed(g) THEN GivesUp("Unmatched", i, g) ELSE Ok(ParseInt(g.val), g.at)
    BY DEF BencInt
  <1>4. /\ Failed(tag) => r = GivesUp("Unmatched", i, tag)
        /\ ~Failed(tag) /\ tag.at = End => r = Fails("Incomplete", i, End)
        /\ ~Failed(tag) /\ tag.at # End /\ Failed(while[tag.at]) =>
              r = GivesUp(while[tag.at].err, i, while[tag.at])
        /\ ~Failed(tag) /\ tag.at # End /\ ~Failed(while[tag.at]) => r = while[tag.at]
    <2> HIDE DEF while
    <2> QED
      BY <1>1, ThenIs
  <1>5. /\ i = End \/ Car(i) # "i" => Refuses(tag) /\ tag.at = i
        /\ i # End /\ Car(i) = "i" => ~Failed(tag) /\ tag.at = i + 1 /\ i + 1 \in Pos
    <2>1. i = End => Failed(tag)
      BY OneOfIs DEF Tag, WantsInput
    <2>2. i # End /\ Car(i) # "i" => Failed(tag)
      <3> HAVE i # End /\ Car(i) # "i"
      <3>1. tag = Fails("Unmatched", i, i)
        BY OneOfIs DEF Tag
      <3> QED
        BY <3>1 DEF Fails, Failed
    <2>3. i # End /\ Car(i) = "i" => ~Failed(tag) /\ tag.at = i + 1 /\ i + 1 \in Pos
      <3> HAVE i # End /\ Car(i) = "i"
      <3>1. tag = Ok(Car(i), i + 1)
        BY OneOfIs DEF Tag
      <3> QED
        BY <3>1, InputIs DEF Ok, Failed
    <2> QED
      BY <2>1, <2>2, <2>3, OneOfIs DEF Tag
  <1>6. r.at \in Pos
    <2>1. IsResult(r, i)
      <3> HIDE DEF chain
      <3> QED
        BY <1>1 DEF IsParser
    <2> QED
      BY <1>1, <2>1 DEF IsResult
  <1>7. /\ r.at = End => Failed(s)
        /\ Failed(s) => Refuses(s) /\ s.at = r.at
    BY <1>6, OneOfIs DEF Tag, WantsInput
  <1> DEFINE w == while[i + 1]
             j == Until(Byte \ DigitByte, i + 1)
  <1>8. i + 1 \in Pos => /\ j = i + 1 => w = Fails("Unmatched", i + 1, i + 1)
                         /\ j # i + 1 /\ j = End => w = Stuck("panic", j)
                         /\ j # i + 1 /\ j # End => w = Ok(Bytes(i + 1, j), j)
                         /\ j \in Pos
                         /\ j = End \/ Car(j) \notin DigitByte
    <2> HAVE i + 1 \in Pos
    <2>1. j \in (i + 1) .. End /\ j \in Pos /\ (j = End \/ Car(j) \in Byte \ DigitByte)
      BY UntilIs
    <2> HIDE DEF j
    <2> QED
      BY <2>1, TakeWhileIs DEF j
  <1> HIDE DEF g, s, r, chain, while, tag, w, j
  <1>9. Failed(g) /\ ~Ends(g) /\ BencInt[i].at = g.at
    <2>1. Failed(g)
      BY <1>3 DEF Ok, Refuses, Failed
    <2>2. BencInt[i] = GivesUp("Unmatched", i, g)
      BY <1>3, <2>1
    <2>3. ~Ends(g)
      BY <2>2 DEF GivesUp, Refuses
    <2>4. BencInt[i] = Fails("Unmatched", i, g.at)
      BY <2>2, <2>3 DEF GivesUp
    <2> QED
      BY <2>1, <2>3, <2>4 DEF Fails, Kept
  <1>10. \A e, x : ~Ends(x) => GivesUp(e, i, x).at = x.at
    BY DEF GivesUp, Fails, Kept
  <1>11. \A e, x : Ends(x) => GivesUp(e, i, x) = x
    BY DEF GivesUp
  <1>12. CASE i = End \/ Car(i) # "i"
    <2>1. r = GivesUp("Unmatched", i, tag) /\ ~Ends(tag) /\ tag.at = i
      BY <1>4, <1>5, <1>12 DEF Refuses
    <2>2. r.at = i /\ Failed(r) /\ ~Ends(r)
      BY <1>10, <2>1 DEF GivesUp, Fails, Failed, Ends
    <2>3. g.at = i
      BY <1>2, <1>10, <2>2
    <2> QED
      BY <1>9, <2>3
  <1>13. CASE i # End /\ Car(i) = "i"
    <2>1. tag.at = i + 1 /\ ~Failed(tag) /\ i + 1 \in Pos
      BY <1>5, <1>13
    <2>2. CASE i + 1 = End
      <3>1. r = Fails("Incomplete", i, End)
        BY <1>4, <2>1, <2>2
      <3>2. r.at = End /\ Failed(r) /\ ~Ends(r)
        BY <3>1 DEF Fails, Kept, Failed, Ends
      <3>3. g.at = End
        BY <1>2, <1>10, <3>2
      <3> QED
        BY <1>1, <1>9, <1>13, <3>3
    <2>3. CASE i + 1 # End /\ j = i + 1
      <3>1. w = Fails("Unmatched", i + 1, i + 1)
        BY <1>8, <2>1, <2>3
      <3>2. Failed(w) /\ ~Ends(w) /\ w.at = i + 1
        BY <3>1 DEF Fails, Kept, Failed, Ends
      <3>3. r = GivesUp(w.err, i, w)
        BY <1>4, <2>1, <2>3, <3>2 DEF w
      <3>4. r.at = i + 1 /\ Failed(r) /\ ~Ends(r)
        BY <3>2, <3>3 DEF GivesUp, Fails, Kept, Failed, Ends
      <3>5. g.at = i + 1
        BY <1>2, <1>10, <3>4
      <3> QED
        BY <1>8, <1>9, <1>13, <2>1, <2>3, <3>5
    <2>4. CASE i + 1 # End /\ j # i + 1 /\ j = End
      <3>1. w = Stuck("panic", j)
        BY <1>8, <2>1, <2>4
      <3>2. Failed(w) /\ Ends(w)
        BY <3>1 DEF Stuck, Failed, Ends
      <3>3. r = GivesUp(w.err, i, w)
        BY <1>4, <2>1, <2>4, <3>2 DEF w
      <3>4. Failed(r) /\ Ends(r)
        BY <1>11, <3>2, <3>3
      <3>5. g = r
        BY <1>2, <1>11, <3>4
      <3> QED
        BY <1>9, <3>4, <3>5
    <2>5. CASE i + 1 # End /\ j # i + 1 /\ j # End
      <3>1. w = Ok(Bytes(i + 1, j), j)
        BY <1>8, <2>1, <2>5
      <3>2. ~Failed(w) /\ w.at = j
        BY <3>1 DEF Ok, Failed
      <3>3. r = w
        BY <1>4, <2>1, <2>5, <3>2 DEF w
      <3>4. ~Failed(r) /\ r.at = j
        BY <3>2, <3>3
      <3>5. Failed(s)
        BY <1>2, <1>9, <3>4 DEF Ok, Failed
      <3>6. g = GivesUp(s.err, i, s) /\ ~Ends(s) /\ s.at = j
        BY <1>2, <1>7, <3>4, <3>5 DEF Refuses
      <3>7. g.at = j
        BY <1>10, <3>6
      <3> QED
        BY <1>8, <1>9, <1>13, <2>1, <2>5, <3>7
    <2> QED
      BY <2>2, <2>3, <2>4, <2>5
  <1> QED
    BY <1>12, <1>13

\* Bytes between two bytes.
LEMMA GuardedIs ==
    ASSUME TypeOK, NEW left, NEW right, NEW i \in Pos
    PROVE  LET e == Until({right}, i + 1)
           IN  /\ i + 1 < End => e \in (i + 1) .. End
               /\ IF i + 1 < End /\ Car(i) = left /\ i + 1 < e /\ e < End
                    THEN Guarded(left, right)[i] = Ok(Bytes(i + 1, e), e + 1)
                    ELSE Refuses(Guarded(left, right)[i])
  <1> DEFINE e == Until({right}, i + 1)
             till == TakeTillIncl({right})
             tag == Tag(left)[i]
             g == Guarded(left, right)[i]
  <1>1. /\ End \in Nat /\ Pos = 1 .. End
        /\ IsParser(Tag(left)) /\ IsParser(till)
    BY InputIs, OneOfIs, TakeTillInclIs DEF Tag
  <1>2. /\ Failed(tag) => g = GivesUp("Unmatched", i, tag)
        /\ ~Failed(tag) /\ tag.at = End => g = Fails("Incomplete", i, End)
        /\ ~Failed(tag) /\ tag.at # End /\ Failed(till[tag.at]) =>
              g = GivesUp(till[tag.at].err, i, till[tag.at])
        /\ ~Failed(tag) /\ tag.at # End /\ ~Failed(till[tag.at]) => g = till[tag.at]
    <2> HIDE DEF till
    <2> QED
      BY <1>1, ThenIs DEF Guarded, till
  <1>3. /\ i = End \/ Car(i) # left => Refuses(tag)
        /\ i # End /\ Car(i) = left => ~Failed(tag) /\ tag.at = i + 1 /\ i + 1 \in Pos
    <2>1. i = End => Failed(tag)
      BY OneOfIs DEF Tag, WantsInput
    <2>2. i # End /\ Car(i) # left => Failed(tag)
      <3> HAVE i # End /\ Car(i) # left
      <3>1. tag = Fails("Unmatched", i, i)
        BY OneOfIs DEF Tag
      <3> QED
        BY <3>1 DEF Fails, Failed
    <2>3. i # End /\ Car(i) = left => ~Failed(tag) /\ tag.at = i + 1 /\ i + 1 \in Pos
      <3> HAVE i # End /\ Car(i) = left
      <3>1. tag = Ok(Car(i), i + 1)
        BY OneOfIs DEF Tag
      <3> QED
        BY <3>1, InputIs DEF Ok, Failed
    <2> QED
      BY <2>1, <2>2, <2>3, OneOfIs DEF Tag
  <1>4. i + 1 \in Pos => /\ e \in (i + 1) .. End
                         /\ IF i + 1 < e /\ e < End THEN till[i + 1] = Ok(Bytes(i + 1, e), e + 1) ELSE Refuses(till[i + 1])
    <2> HAVE i + 1 \in Pos
    <2>1. e \in (i + 1) .. End
      BY UntilIs
    <2> HIDE DEF e
    <2> QED
      BY <2>1, TakeTillInclIs DEF e
  <1> HIDE DEF e, till, tag, g
  <1>5. i + 1 < End => e \in (i + 1) .. End
    BY <1>1, <1>4
  <1>6. CASE i = End \/ Car(i) # left
    <2>1. g = GivesUp("Unmatched", i, tag) /\ ~Ends(tag)
      BY <1>2, <1>3, <1>6 DEF Refuses
    <2>2. Refuses(g)
      BY <2>1 DEF GivesUp, Fails, Refuses, Failed, Ends
    <2>3. ~(i + 1 < End /\ Car(i) = left)
      BY <1>1, <1>6
    <2> QED
      BY <1>5, <2>2, <2>3 DEF e, g
  <1>7. CASE i # End /\ Car(i) = left /\ i + 1 = End
    <2>1. g = Fails("Incomplete", i, End)
      BY <1>2, <1>3, <1>7
    <2>2. Refuses(g)
      BY <2>1 DEF Fails, Refuses, Failed, Ends
    <2>3. ~(i + 1 < End)
      BY <1>1, <1>7
    <2> QED
      BY <1>5, <2>2, <2>3 DEF e, g
  <1>8. CASE i # End /\ Car(i) = left /\ i + 1 # End
    <2>1. ~Failed(tag) /\ tag.at = i + 1 /\ i + 1 \in Pos /\ i + 1 < End
      BY <1>1, <1>3, <1>8
    <2>2. CASE i + 1 < e /\ e < End
      <3>1. till[i + 1] = Ok(Bytes(i + 1, e), e + 1)
        BY <1>4, <2>1, <2>2
      <3>2. g = Ok(Bytes(i + 1, e), e + 1)
        BY <1>2, <1>8, <2>1, <3>1 DEF Ok, Failed
      <3> QED
        BY <1>5, <1>8, <2>1, <2>2, <3>2 DEF e, g
    <2>3. CASE ~(i + 1 < e /\ e < End)
      <3>1. Refuses(till[i + 1])
        BY <1>4, <2>1, <2>3
      <3>2. g = GivesUp(till[i + 1].err, i, till[i + 1])
        BY <1>2, <1>8, <2>1, <3>1 DEF Refuses
      <3>3. Refuses(g)
        BY <3>1, <3>2 DEF GivesUp, Fails, Refuses, Failed, Ends
      <3> QED
        BY <1>5, <2>3, <3>3 DEF e, g
    <2> QED
      BY <2>2, <2>3
  <1> QED
    BY <1>6, <1>7, <1>8

\* The first of two alternatives, or the second from where that one left off.
LEMMA AltOfTwo ==
    ASSUME TypeOK, NEW p, NEW q, IsParser(p), IsParser(q), NEW i \in Pos
    PROVE  /\ i = End => Alt(<<p, q>>)[i] = Fails("Incomplete", i, i)
           /\ i # End => LET a == Kept(i, p[i].at)
                         IN Alt(<<p, q>>)[i] = IF ~Refuses(p[i]) THEN p[i]
                                               ELSE IF ~Refuses(q[a]) THEN q[a]
                                               ELSE Stuck("Unmatched", Kept(a, q[a].at))
  <1> DEFINE ps == <<p, q>>
             a == Kept(i, p[i].at)
             b == Kept(a, q[a].at)
  <1>1. Len(ps) = 2 /\ ps[1] = p /\ ps[2] = q
    OBVIOUS
  <1>2. PICK f : /\ \A k \in 1 .. Len(ps) + 1 : f[k] = AltStep(ps, k, f[k + 1])
                 /\ \A x \in Pos : Alt(ps)[x] = IF Empty(x) THEN Fails("Incomplete", x, x) ELSE f[1][x]
    <2> HIDE DEF ps
    <2>1. Len(ps) \in Nat
      BY <1>1
    <2> QED
      BY <2>1, AltRecursion
  <1> HIDE DEF ps
  <1>3. /\ End \in Nat /\ Pos = 1 .. End /\ (Empty(i) <=> i = End)
        /\ a \in Pos /\ b \in Pos
    <2>1. End \in Nat /\ Pos = 1 .. End /\ (Empty(i) <=> i = End)
      BY InputIs
    <2>2. p[i].at \in i .. End
      BY DEF IsParser, IsResult
    <2>3. a \in Pos
      BY <2>1, <2>2 DEF Kept
    <2> HIDE DEF a
    <2>4. q[a].at \in a .. End
      BY <2>3 DEF IsParser, IsResult
    <2>5. b \in Pos
      BY <2>1, <2>3, <2>4 DEF Kept
    <2> QED
      BY <2>1, <2>3, <2>5
  <1>4. /\ f[1] = AltStep(ps, 1, f[2]) /\ f[2] = AltStep(ps, 2, f[3]) /\ f[3] = AltStep(ps, 3, f[4])
    <2>1. 1 \in 1 .. 3 /\ 2 \in 1 .. 3 /\ 3 \in 1 .. 3 /\ 1 + 1 = 2 /\ 2 + 1 = 3 /\ 3 + 1 = 4
      OBVIOUS
    <2> QED
      BY <1>1, <1>2, <2>1
  <1>5. f[3][b] = Stuck("Unmatched", b)
    BY <1>1, <1>3, <1>4 DEF AltStep
  <1>6. f[2][a] = IF Ends(q[a]) \/ ~Failed(q[a]) THEN q[a] ELSE f[3][b]
    BY <1>1, <1>3, <1>4 DEF AltStep
  <1>7. f[1][i] = IF Ends(p[i]) \/ ~Failed(p[i]) THEN p[i] ELSE f[2][a]
    BY <1>1, <1>4 DEF AltStep
  <1>8. \A r : ~Refuses(r) <=> Ends(r) \/ ~Failed(r)
    BY DEF Refuses
  <1>9. i # End => Alt(ps)[i] = f[1][i]
    BY <1>2, <1>3
  <1>10. i = End => Alt(ps)[i] = Fails("Incomplete", i, i)
    BY <1>2, <1>3
  <1> HIDE DEF a, b
  <1>11. i # End => Alt(ps)[i] = IF ~Refuses(p[i]) THEN p[i]
                                 ELSE IF ~Refuses(q[a]) THEN q[a]
                                 ELSE Stuck("Unmatched", b)
    BY <1>5, <1>6, <1>7, <1>8, <1>9
  <1> QED
    BY <1>10, <1>11 DEF ps, a, b

\* Where no digits are, a string's parser refuses.
LEMMA NoStringAt ==
    ASSUME TypeOK, NumbersFit, NEW i \in Pos, i = End \/ Car(i) \notin DigitByte
    PROVE  Refuses(BencStr[i])
  <1> DEFINE colon == DigitsEnd(i)
             n == Decimal(Digits(Bytes(i, colon)))
  <1>1. colon = i
    <2> DEFINE d == DigitsEnd(i)
    <2>1. d \in i .. End /\ \A k \in i .. d - 1 : Car(k) \in DigitByte
      BY DigitsEndAt
    <2>2. End \in Nat /\ i \in 1 .. End
      BY InputIs
    <2> HIDE DEF d
    <2>3. d = i
      <3> SUFFICES ASSUME d # i PROVE FALSE
        OBVIOUS
      <3>1. i \in i .. d - 1 /\ i # End
        BY <2>1, <2>2
      <3> QED
        BY <2>1, <3>1
    <2> QED
      BY <2>3 DEF d
  <1>2. n = 0
    BY <1>1, DigitsEndAt, NumbersAre
  <1>3. IF n > 0 /\ colon + n < End /\ Car(colon) = ":"
          THEN BencStr[i] = Ok(Bytes(colon + 1, colon + n + 1), colon + n + 1)
          ELSE Refuses(BencStr[i])
    <2>1. FitsAt(i) /\ (i # End /\ Car(i) = "-" => FitsAt(i + 1))
      <3>1. i # End => i + 1 \in Pos
        BY InputIs
      <3> QED
        BY <3>1 DEF NumbersFit, FitsAt
    <2> QED
      BY <2>1, StringIs
  <1> HIDE DEF n
  <1>4. ~(n > 0)
    BY <1>2
  <1> QED
    BY <1>3, <1>4

\* A choice of an integer and a string finds the one that is there, though on a
\* shared reader the string's parser starts where the integer's left off; and what
\* is between two bytes is found (parsec.go:884, :480).
THEOREM InputsAgreeHolds == TypeOK => InputsAgree
  <1> SUFFICES ASSUME TypeOK PROVE InputsAgree
    OBVIOUS
  <1> DEFINE int == BencInt[1]
             str == BencStr[1]
             alt == Alt(<<BencInt, BencStr>>)[1]
             e == Until({"e"}, 2)
             found == IF ~Refuses(int) THEN alt = int
                      ELSE IF ~Refuses(str) THEN alt = str
                      ELSE Refuses(alt)
  <1>1. /\ End \in Nat /\ Pos = 1 .. End /\ 1 \in Pos
        /\ IsParser(BencInt) /\ IsParser(BencStr)
        /\ WantsInput(BencInt) /\ WantsInput(BencStr)
        /\ KeepsInput(BencInt)
        /\ ~Ends(str) /\ ~Ends(BencStr[End])
    BY InputIs, BencIntIs, BencStrIs
  <1>2. ASSUME NumbersFit
        PROVE  found
    <2> DEFINE a == Kept(1, int.at)
               next == BencStr[a]
    <2>1. /\ 1 = End => alt = Fails("Incomplete", 1, 1)
          /\ 1 # End => alt = IF ~Refuses(int) THEN int
                              ELSE IF ~Refuses(next) THEN next
                              ELSE Stuck("Unmatched", Kept(a, next.at))
      BY <1>1, AltOfTwo
    <2>2. CASE 1 = End
      <3>1. Refuses(alt)
        BY <2>1, <2>2 DEF Fails, Refuses, Failed, Ends
      <3>2. Refuses(int)
        <4> DEFINE d == DigitsEnd(1 + 1)
                   begun == 1 + 1 < End /\ Car(1) = "i" /\ d > 1 + 1
        <4>1. ~begun
          BY <2>2
        <4>2. int.err = "Unmatched"
          BY <1>1, <4>1, BencIntIs
        <4> QED
          BY <4>2 DEF Refuses, Failed, Ends
      <3>3. Refuses(str)
        BY <1>1, <2>2 DEF WantsInput, Refuses
      <3> HIDE DEF int, str, alt
      <3> QED
        BY <3>1, <3>2, <3>3
    <2>3. CASE 1 # End /\ ~Refuses(int)
      BY <2>1, <2>3
    <2>4. CASE 1 # End /\ Refuses(int) /\ a = 1
      <3>1. alt = IF ~Refuses(str) THEN str ELSE Stuck("Unmatched", Kept(1, str.at))
        BY <2>1, <2>4
      <3>2. \A x : Refuses(Stuck("Unmatched", x))
        BY DEF Stuck, Refuses, Failed, Ends
      <3> HIDE DEF int, str, alt
      <3> QED
        BY <2>4, <3>1, <3>2
    <2>5. CASE 1 # End /\ Refuses(int) /\ a # 1
      <3>1. shared /\ a = int.at
        BY <2>5 DEF Kept
      <3>2. a \in Pos /\ Car(1) = "i" /\ (a = End \/ Car(a) \notin DigitByte)
        BY <1>1, <2>5, <3>1, NoIntLeavesAt
      <3>3. Refuses(str)
        BY <1>1, <1>2, <3>2, NoDigit, NoStringAt
      <3> HIDE DEF a
      <3>4. Refuses(next)
        BY <1>2, <3>2, NoStringAt
      <3>5. alt = Stuck("Unmatched", Kept(a, next.at))
        BY <2>1, <2>5, <3>4 DEF a
      <3>6. Refuses(alt)
        BY <3>5 DEF Stuck, Refuses, Failed, Ends
      <3> HIDE DEF int, str, alt
      <3> QED
        BY <2>5, <3>3, <3>6
    <2> QED
      BY <2>2, <2>3, <2>4, <2>5
  <1>3. IF End > 2 /\ Car(1) = "i" /\ 2 < e /\ e < End
          THEN Takes(Guarded("i", "e")[1], Bytes(2, e), e + 1)
          ELSE Refuses(Guarded("i", "e")[1])
    <2>1. LET u == Until({"e"}, 1 + 1)
          IN  IF 1 + 1 < End /\ Car(1) = "i" /\ 1 + 1 < u /\ u < End
                THEN Guarded("i", "e")[1] = Ok(Bytes(1 + 1, u), u + 1)
                ELSE Refuses(Guarded("i", "e")[1])
      BY <1>1, GuardedIs
    <2>2. 1 + 1 = 2 /\ (2 < End <=> End > 2)
      BY <1>1
    <2>3. IF End > 2 /\ Car(1) = "i" /\ 2 < e /\ e < End
            THEN Guarded("i", "e")[1] = Ok(Bytes(2, e), e + 1)
            ELSE Refuses(Guarded("i", "e")[1])
      BY <2>1, <2>2
    <2> HIDE DEF e
    <2> QED
      BY <2>3 DEF Takes, Ok
  <1> QED
    BY <1>2, <1>3 DEF InputsAgree

-----------------------------------------------------------------------------
(* Laws of the combinators. *)

\* One more element in front of a prefix.
LEMMA PrefixIs ==
    ASSUME NEW S, NEW v \in S, NEW s \in Seq(S)
    PROVE  /\ <<v>> \o s # <<>> /\ Len(<<v>> \o s) = Len(s) + 1 /\ <<v>> \o s \in Seq(S)
           /\ \A k \in 0 .. Len(s) : <<v>> \o SubSeq(s, 1, k) = SubSeq(<<v>> \o s, 1, k + 1)
           /\ SubSeq(s, 1, 0) = <<>>
  <1>1. Len(<<v>> \o s) = Len(s) + 1 /\ <<v>> \o s \in Seq(S) /\ Len(s) \in Nat
    OBVIOUS
  <1>2. ASSUME NEW k \in 0 .. Len(s)
        PROVE  <<v>> \o SubSeq(s, 1, k) = SubSeq(<<v>> \o s, 1, k + 1)
    <2> DEFINE a == <<v>> \o SubSeq(s, 1, k)
               b == SubSeq(<<v>> \o s, 1, k + 1)
    <2>1. SubSeq(s, 1, k) \in Seq(S) /\ Len(SubSeq(s, 1, k)) = k /\ \A x \in 1 .. k : SubSeq(s, 1, k)[x] = s[x]
      BY <1>1
    <2>2. a \in Seq(S) /\ Len(a) = k + 1
      BY <2>1
    <2>3. b \in Seq(S) /\ Len(b) = k + 1
      BY <1>1
    <2>4. \A x \in 1 .. k + 1 : a[x] = b[x]
      <3> TAKE x \in 1 .. k + 1
      <3>1. b[x] = (<<v>> \o s)[x]
        BY <1>1
      <3>2. CASE x = 1
        BY <2>1, <3>1, <3>2
      <3>3. CASE x # 1
        <4>1. x - 1 \in 1 .. k /\ x - 1 \in 1 .. Len(s)
          BY <3>3
        <4>2. a[x] = SubSeq(s, 1, k)[x - 1] /\ b[x] = s[x - 1]
          BY <2>1, <3>1, <3>3, <4>1
        <4> QED
          BY <2>1, <4>1, <4>2
      <3> QED
        BY <3>2, <3>3
    <2> HIDE DEF a, b
    <2>5. a = b
      BY <2>2, <2>3, <2>4, SeqEqual
    <2> QED
      BY <2>5 DEF a, b
  <1>3. <<v>> \o s # <<>>
    <2>1. Len(<<v>> \o s) # 0
      BY <1>1
    <2> QED
      BY <2>1
  <1> QED
    BY <1>1, <1>2, <1>3

\* What Many0 finds is what the parser finds first, and what Many0 finds after that.
LEMMA ManyFirst ==
    ASSUME TypeOK, NEW p, IsParser(p), WantsInput(p), NEW i \in Pos, ~Failed(Many0(p)[i])
    PROVE  /\ Failed(p[i]) => Many0(p)[i].val = <<>>
           /\ ~Failed(p[i]) =>
                /\ i # End /\ p[i].at \in Pos /\ p[i].val \in Found(p)
                /\ ~Failed(Many0(p)[p[i].at]) /\ Many0(p)[p[i].at].val \in Seq(Found(p))
                /\ Many0(p)[i] = Prepend(p[i].val, Many0(p)[p[i].at])
                /\ Many0(p)[i].val = <<p[i].val>> \o Many0(p)[p[i].at].val
  <1> DEFINE m == Many0(p)
             r == p[i]
             j == r.at
             v == r.val
  <1>1. /\ m[i] = ManyStep(p, i, m[j])
        /\ \A k \in Pos : ~Failed(m[k]) => m[k].val \in Seq(Found(p))
        /\ \A k \in Pos : IsResult(m[k], k)
    BY Many0Recursion, Many0Is DEF IsParser
  <1>2. /\ Failed(p[End]) /\ IsResult(r, i) /\ j \in i .. End /\ j \in Pos /\ v \in Found(p)
    <2>1. End \in Nat /\ Pos = 1 .. End
      BY InputIs
    <2> QED
      BY <2>1 DEF IsParser, IsResult, WantsInput, Found
  <1> HIDE DEF m
  <1>3. CASE Failed(r)
    <2>1. \E x : m[i] = Ok(<<>>, x)
      <3>1. CASE i = End
        BY <1>1, <3>1 DEF ManyStep
      <3>2. CASE i # End
        <4>1. ~Ends(r)
          <5> SUFFICES ASSUME Ends(r) PROVE FALSE
            OBVIOUS
          <5>1. m[i] = r
            BY <1>1, <3>2 DEF ManyStep
          <5> QED
            BY <1>3, <5>1 DEF m
        <4> QED
          BY <1>1, <1>3, <3>2, <4>1 DEF ManyStep
      <3> QED
        BY <3>1, <3>2
    <2>2. m[i].val = <<>>
      BY <2>1 DEF Ok
    <2> QED
      BY <1>3, <2>2 DEF m
  <1>4. CASE ~Failed(r)
    <2>1. i # End /\ ~Ends(r)
      BY <1>2, <1>4 DEF Failed, Ends
    <2>2. j # i
      <3> SUFFICES ASSUME j = i PROVE FALSE
        OBVIOUS
      <3>1. m[i] = Stuck("loops", i)
        BY <1>1, <1>4, <2>1 DEF ManyStep
      <3> QED
        BY <3>1 DEF Stuck, Failed, m
    <2>3. m[i] = Prepend(v, m[j])
      BY <1>1, <1>4, <2>1, <2>2 DEF ManyStep
    <2>4. ~Failed(m[j])
      BY <2>3 DEF Prepend, m
    <2>5. m[j].val \in Seq(Found(p))
      BY <1>1, <1>2, <2>4
    <2>6. m[i] = Ok(<<v>> \o m[j].val, m[j].at)
      <3>1. IsResult(m[j], j)
        BY <1>1, <1>2
      <3> HIDE DEF j, v
      <3> QED
        BY <1>2, <2>3, <2>4, <3>1, PrependIs
    <2>7. m[i].val = <<v>> \o m[j].val
      <3> DEFINE w == <<v>> \o m[j].val
      <3>1. m[i] = Ok(w, m[j].at)
        BY <2>6
      <3> HIDE DEF w
      <3>2. m[i].val = w
        BY <3>1 DEF Ok
      <3> QED
        BY <3>2 DEF w
    <2> QED
      BY <1>2, <1>4, <2>1, <2>3, <2>4, <2>5, <2>7 DEF m
  <1> QED
    BY <1>3, <1>4

\* The rounds of Times find the first of what Many0 finds, or fail.
LEMMA RoundsOfMany ==
    ASSUME TypeOK, NEW p, IsParser(p), WantsInput(p), NEW n \in Nat, NEW f,
           \A k \in 0 .. n : f[k] = RoundStep(p, k, f[k - 1])
    PROVE  \A k \in 0 .. n : \A i \in Pos : ~Failed(Many0(p)[i]) =>
              IF k <= Len(Many0(p)[i].val)
                THEN ~Failed(f[k][i]) /\ f[k][i].val = SubSeq(Many0(p)[i].val, 1, k)
                ELSE Failed(f[k][i])
  <1> DEFINE m == Many0(p)
             Prefix(k) == \A i \in Pos : ~Failed(m[i]) =>
                             IF k <= Len(m[i].val) THEN ~Failed(f[k][i]) /\ f[k][i].val = SubSeq(m[i].val, 1, k)
                                                   ELSE Failed(f[k][i])
             S == {k \in Nat : k <= n => Prefix(k)}
  <1>1. \A i \in Pos : ~Failed(m[i]) => m[i].val \in Seq(Found(p))
    BY Many0Is
  <1>2. \A k \in 0 .. n : IsParser(f[k])
    BY RoundIs
  <1>3. \A i \in Pos : ~Failed(m[i]) =>
           /\ Failed(p[i]) => m[i].val = <<>>
           /\ ~Failed(p[i]) =>
                /\ i # End /\ p[i].at \in Pos /\ p[i].val \in Found(p)
                /\ ~Failed(m[p[i].at]) /\ m[p[i].at].val \in Seq(Found(p))
                /\ m[i].val = <<p[i].val>> \o m[p[i].at].val
    BY ManyFirst
  <1> HIDE DEF m
  <1>4. 0 \in S
    <2> SUFFICES ASSUME NEW i \in Pos, ~Failed(m[i])
                 PROVE  0 <= Len(m[i].val) /\ ~Failed(f[0][i]) /\ f[0][i].val = SubSeq(m[i].val, 1, 0)
      OBVIOUS
    <2>1. 0 \in 0 .. n
      OBVIOUS
    <2>2. f[0] = RoundStep(p, 0, f[0 - 1])
      BY <2>1
    <2>3. f[0][i] = Ok(<<>>, i)
      BY <2>2 DEF RoundStep
    <2>4. m[i].val \in Seq(Found(p))
      BY <1>1
    <2>5. SubSeq(m[i].val, 1, 0) = <<>> /\ 0 <= Len(m[i].val)
      BY <2>4
    <2> QED
      BY <2>3, <2>5 DEF Ok, Failed
  <1>5. ASSUME NEW k \in S
        PROVE  k + 1 \in S
    <2> SUFFICES ASSUME k + 1 <= n, NEW i \in Pos, ~Failed(m[i])
                 PROVE  IF k + 1 <= Len(m[i].val)
                          THEN ~Failed(f[k + 1][i]) /\ f[k + 1][i].val = SubSeq(m[i].val, 1, k + 1)
                          ELSE Failed(f[k + 1][i])
      OBVIOUS
    <2>1. k \in Nat /\ Prefix(k) /\ k \in 0 .. n /\ k + 1 \in 0 .. n /\ (k + 1) - 1 = k /\ k + 1 # 0
      OBVIOUS
    <2>2. f[k + 1] = RoundStep(p, k + 1, f[k])
      BY <2>1
    <2>3. f[k + 1][i] = IF Failed(p[i]) THEN p[i] ELSE Prepend(p[i].val, f[k][p[i].at])
      BY <2>1, <2>2 DEF RoundStep
    <2>4. CASE Failed(p[i])
      <3>1. m[i].val = <<>> /\ Failed(f[k + 1][i])
        BY <1>3, <2>3, <2>4
      <3>2. ~(k + 1 <= Len(m[i].val))
        BY <2>1, <3>1
      <3> QED
        BY <3>1, <3>2
    <2>5. CASE ~Failed(p[i])
      <3> DEFINE j == p[i].at
                 v == p[i].val
                 s == m[j].val
                 x == f[k][j]
      <3>1. /\ j \in Pos /\ v \in Found(p) /\ ~Failed(m[j]) /\ s \in Seq(Found(p))
            /\ m[i].val = <<v>> \o s
        BY <1>3, <2>5
      <3>2. f[k + 1][i] = Prepend(v, x)
        BY <2>3, <2>5
      <3>3. IF k <= Len(s) THEN ~Failed(x) /\ x.val = SubSeq(s, 1, k) ELSE Failed(x)
        BY <2>1, <3>1
      <3>4. IsResult(x, j)
        BY <1>2, <2>1, <3>1 DEF IsParser
      <3> HIDE DEF x, s, v
      <3>5. /\ Len(<<v>> \o s) = Len(s) + 1 /\ Len(s) \in Nat
            /\ \A y \in 0 .. Len(s) : <<v>> \o SubSeq(s, 1, y) = SubSeq(<<v>> \o s, 1, y + 1)
        BY <3>1, PrefixIs
      <3>6. Failed(x) => Prepend(v, x) = x
        BY DEF Prepend
      <3>7. ~Failed(x) => ~Failed(Prepend(v, x)) /\ Prepend(v, x).val = <<v>> \o x.val
        <4> HAVE ~Failed(x)
        <4> DEFINE w == <<v>> \o x.val
        <4>1. j \in j .. End
          <5>1. End \in Nat /\ Pos = 1 .. End
            BY InputIs
          <5> QED
            BY <3>1, <5>1
        <4>2. Prepend(v, x) = Ok(w, x.at)
          <5> HIDE DEF j
          <5> QED
            BY <3>1, <3>4, <4>1, PrependIs
        <4> HIDE DEF w
        <4>3. ~Failed(Prepend(v, x)) /\ Prepend(v, x).val = w
          BY <4>2 DEF Ok, Failed
        <4> QED
          BY <4>3 DEF w
      <3>8. CASE k <= Len(s)
        <4>1. k \in 0 .. Len(s) /\ k + 1 <= Len(<<v>> \o s)
          BY <2>1, <3>5, <3>8
        <4>2. <<v>> \o SubSeq(s, 1, k) = SubSeq(<<v>> \o s, 1, k + 1)
          BY <3>5, <4>1
        <4> QED
          BY <3>1, <3>2, <3>3, <3>7, <3>8, <4>1, <4>2
      <3>9. CASE ~(k <= Len(s))
        <4>1. ~(k + 1 <= Len(<<v>> \o s))
          BY <2>1, <3>5, <3>9
        <4> QED
          BY <3>1, <3>2, <3>3, <3>6, <3>9, <4>1
      <3> QED
        BY <3>8, <3>9
    <2> QED
      BY <2>4, <2>5
  <1>6. S = Nat
    <2> HIDE DEF S
    <2>1. S \subseteq Nat
      BY DEF S
    <2> QED
      BY <1>4, <1>5, <2>1, AllNumbers
  <1>7. \A k \in 0 .. n : Prefix(k)
    <2> HIDE DEF Prefix
    <2> QED
      BY <1>6
  <1> QED
    BY <1>7 DEF m

\* A parser and itself in turn are the parser counted twice.
LEMMA TwiceIs ==
    ASSUME TypeOK, NEW p, IsParser(p), WantsInput(p)
    PROVE  Same(AndThen(p, <<p>>)[1], Count(p, 2)[1])
  <1> DEFINE ps == <<p>>
             r == p[1]
             j == r.at
             q == p[j]
             one == Prepend(q.val, Ok(<<>>, q.at))
             turn == InTurn(ps)[j]
             s == Prepend(r.val, turn)
             t == Times(p, 2)[1]
  <1>1. /\ 1 \in Pos /\ End \in Nat /\ Pos = 1 .. End /\ \A i \in Pos : (Empty(i) <=> i = End)
        /\ j \in Pos /\ IsResult(q, j) /\ q.at \in Pos
    <2>1. 1 \in Pos /\ End \in Nat /\ Pos = 1 .. End /\ \A i \in Pos : (Empty(i) <=> i = End)
      BY InputIs
    <2>2. j \in Pos
      BY <2>1 DEF IsParser, IsResult
    <2> HIDE DEF j
    <2>3. IsResult(q, j)
      BY <2>2 DEF IsParser
    <2>4. q.at \in Pos
      BY <2>1, <2>2, <2>3 DEF IsResult
    <2> QED
      BY <2>1, <2>2, <2>3, <2>4
  <1>2. Len(ps) = 1 /\ ps[1] = p /\ \A k \in 1 .. 1 : k = 1
    OBVIOUS
  <1> HIDE DEF ps
  <1>3. \A k \in 1 .. Len(ps) : IsParser(ps[k])
    BY <1>2
  <1>4. IF ~Failed(r) /\ j # End /\ ~Failed(s) THEN AndThen(p, ps)[1] = Ok(s.val, Kept(1, s.at))
                                              ELSE Failed(AndThen(p, ps)[1])
    <2>1. Len(ps) \in Nat
      BY <1>2
    <2> QED
      BY <1>1, <1>3, <2>1, AndThenIs
  <1>5. IF Failed(t) THEN Failed(Count(p, 2)[1]) ELSE Count(p, 2)[1] = Ok(t.val, Kept(1, t.at))
    BY <1>1, CountIs
  <1>6. t = IF Failed(r) THEN r ELSE IF Failed(q) THEN Prepend(r.val, q) ELSE Prepend(r.val, one)
    <2>1. PICK f : /\ \A k \in 0 .. 2 : f[k] = RoundStep(p, k, f[k - 1])
                   /\ Times(p, 2) = f[2]
      BY TimesRecursion
    <2>2. f[0] = RoundStep(p, 0, f[-1]) /\ f[1] = RoundStep(p, 1, f[0]) /\ f[2] = RoundStep(p, 2, f[1])
      <3>1. 0 \in 0 .. 2 /\ 1 \in 0 .. 2 /\ 2 \in 0 .. 2 /\ 0 - 1 = -1 /\ 1 - 1 = 0 /\ 2 - 1 = 1
        OBVIOUS
      <3> QED
        BY <2>1, <3>1
    <2>3. f[0][q.at] = Ok(<<>>, q.at)
      BY <1>1, <2>2 DEF RoundStep
    <2>4. f[1][j] = IF Failed(q) THEN q ELSE Prepend(q.val, f[0][q.at])
      BY <1>1, <2>2 DEF RoundStep
    <2>5. f[2][1] = IF Failed(r) THEN r ELSE Prepend(r.val, f[1][j])
      BY <1>1, <2>2 DEF RoundStep
    <2> HIDE DEF r, j, q
    <2> QED
      BY <2>1, <2>3, <2>4, <2>5
  <1>7. j # End => turn = IF Ends(q) THEN q ELSE IF Failed(q) THEN Stuck("Unmatched", q.at) ELSE one
    <2> HAVE j # End
    <2>1. PICK f : /\ \A k \in 1 .. Len(ps) + 1 : f[k] = TurnStep(ps, k, f[k + 1])
                   /\ InTurn(ps) = f[1]
      <3>1. Len(ps) \in Nat
        BY <1>2
      <3> QED
        BY <3>1, InTurnRecursion
    <2>2. f[1] = TurnStep(ps, 1, f[2]) /\ f[2] = TurnStep(ps, 2, f[3])
      <3>1. 1 \in 1 .. 2 /\ 2 \in 1 .. 2 /\ 1 + 1 = 2 /\ 2 + 1 = 3
        OBVIOUS
      <3> QED
        BY <1>2, <2>1, <3>1
    <2>3. f[2][q.at] = Ok(<<>>, q.at)
      BY <1>1, <1>2, <2>2 DEF TurnStep
    <2>4. f[1][j] = IF Empty(j) THEN Stuck("Incomplete", j)
                    ELSE IF Ends(q) THEN q
                    ELSE IF Failed(q) THEN Stuck("Unmatched", q.at)
                    ELSE Prepend(q.val, f[2][q.at])
      BY <1>1, <1>2, <2>2 DEF TurnStep
    <2> HIDE DEF q, j
    <2> QED
      BY <1>1, <2>1, <2>3, <2>4
  <1>8. j = End => Failed(q)
    BY DEF WantsInput
  <1>9. ~Failed(q) => ~Failed(Prepend(r.val, one))
    <2>1. \A v, x : ~Failed(x) => (\E w : Prepend(v, x) = [x EXCEPT !.val = w])
      BY DEF Prepend
    <2>2. \A x, y, w : [Ok(x, y) EXCEPT !.val = w] = Ok(w, y) /\ ~Failed(Ok(x, y))
      BY DEF Ok, Failed
    <2> DEFINE two == Ok(<<>>, q.at)
    <2>3. PICK w : one = [two EXCEPT !.val = w]
      <3>1. ~Failed(two)
        BY <2>2
      <3> QED
        BY <2>1, <3>1
    <2>4. one = Ok(w, q.at)
      BY <2>2, <2>3
    <2>5. ~Failed(one)
      BY <2>2, <2>4
    <2>6. PICK u : Prepend(r.val, one) = [one EXCEPT !.val = u]
      BY <2>1, <2>5
    <2>7. [one EXCEPT !.val = u] = Ok(u, q.at)
      BY <2>2, <2>4
    <2> QED
      BY <2>2, <2>6, <2>7
  <1> HIDE DEF r, j, q, one, turn, t, s
  <1>10. CASE Failed(r)
    <2>1. Failed(Count(p, 2)[1]) /\ Failed(AndThen(p, ps)[1])
      BY <1>4, <1>5, <1>6, <1>10
    <2> QED
      BY <2>1 DEF Same, ps
  <1>11. CASE ~Failed(r) /\ Failed(q)
    <2>1. \A v, x : Failed(x) => Prepend(v, x) = x
      BY DEF Prepend
    <2>2. Failed(t)
      BY <1>6, <1>11, <2>1
    <2>3. j # End => Failed(s)
      <3> HAVE j # End
      <3>1. Failed(turn)
        BY <1>7, <1>11 DEF Stuck, Failed
      <3> QED
        BY <2>1, <3>1 DEF s
    <2>4. Failed(Count(p, 2)[1]) /\ Failed(AndThen(p, ps)[1])
      BY <1>4, <1>5, <2>2, <2>3
    <2> QED
      BY <2>4 DEF Same, ps
  <1>12. CASE ~Failed(r) /\ ~Failed(q)
    <2>1. j # End /\ ~Ends(q)
      BY <1>8, <1>12 DEF Failed, Ends
    <2>2. s = t /\ ~Failed(t)
      BY <1>6, <1>7, <1>9, <1>12, <2>1 DEF s
    <2>3. AndThen(p, ps)[1] = Ok(t.val, Kept(1, t.at)) /\ Count(p, 2)[1] = Ok(t.val, Kept(1, t.at))
      BY <1>4, <1>5, <1>12, <2>1, <2>2
    <2> QED
      BY <2>3 DEF Same, Ok, Failed, ps
  <1> QED
    BY <1>10, <1>11, <1>12

\* The five ways to repeat a parser that fails at the end of the input agree, whatever
\* parser it is, and FoldMany1 panics exactly where an element it would take is nil
\* (parsec.go:1012).
THEOREM RepeatsAgreeAlways ==
    ASSUME TypeOK, NEW p, IsParser(p), WantsInput(p)
    PROVE  RepeatsAgree(p)
  <1> DEFINE all == Many0(p)[1]
             one == Many1(p)[1]
             fold == FoldMany1(p)[1]
  <1> SUFFICES ASSUME ~Ends(all)
               PROVE  /\ IF all.val = <<>> THEN Failed(one) ELSE one = all
                      /\ CASE \E k \in DOMAIN all.val : all.val[k] = Nil -> fold.err = "panic"
                           [] Empty(1) -> fold = Ok(<<>>, 1)
                           [] OTHER -> Same(fold, one)
                      /\ Same(AndThen(p, <<p>>)[1], Count(p, 2)[1])
                      /\ \A n \in 1 .. 3 :
                           LET c == Count(p, n)[1]
                           IN IF n <= Len(all.val)
                                THEN ~Failed(c) /\ c.val = SubSeq(all.val, 1, n)
                                ELSE Failed(c)
    BY DEF RepeatsAgree
  <1>1. 1 \in Pos /\ (Empty(1) <=> 1 = End) /\ End \in Pos
    BY InputIs
  <1>2. ~Failed(all)
    BY <1>1, Many0Is
  <1>3. /\ Failed(p[1]) => all.val = <<>>
        /\ ~Failed(p[1]) => all.val # <<>> /\ all = Prepend(p[1].val, Many0(p)[p[1].at]) /\ 1 # End
    <2>1. /\ Failed(p[1]) => all.val = <<>>
          /\ ~Failed(p[1]) =>
                /\ 1 # End /\ p[1].val \in Found(p) /\ Many0(p)[p[1].at].val \in Seq(Found(p))
                /\ all = Prepend(p[1].val, Many0(p)[p[1].at])
                /\ all.val = <<p[1].val>> \o Many0(p)[p[1].at].val
      BY <1>1, <1>2, ManyFirst
    <2> QED
      BY <2>1, PrefixIs
  <1>4. IF Failed(p[1]) THEN Failed(one) ELSE one = Prepend(p[1].val, Many0(p)[p[1].at])
    BY <1>1, Many1Is
  <1>5. IF 1 # End /\ Failed(p[1]) THEN Failed(fold)
        ELSE IF HasNil(all.val) THEN fold.err = "panic" ELSE fold = all
    <2>1. IF 1 # End /\ Failed(p[1]) THEN Failed(fold) ELSE fold = Many0(Asserted(p))[1]
      BY <1>1, FoldMany1Is
    <2>2. IF HasNil(all.val) THEN Many0(Asserted(p))[1].err = "panic" ELSE Many0(Asserted(p))[1] = all
      BY <1>1, <1>2, AssertedMany
    <2> QED
      BY <2>1, <2>2
  <1>6. 1 = End => all = Ok(<<>>, 1)
    <2>1. all = ManyStep(p, 1, Many0(p)[p[1].at])
      BY <1>1, Many0Recursion
    <2> QED
      BY <2>1 DEF ManyStep
  <1>7. Same(AndThen(p, <<p>>)[1], Count(p, 2)[1])
    BY TwiceIs
  <1>8. ASSUME NEW n \in 1 .. 3, NEW c, c = Count(p, n)[1]
        PROVE  IF n <= Len(all.val) THEN ~Failed(c) /\ c.val = SubSeq(all.val, 1, n) ELSE Failed(c)
    <2>1. n \in Nat /\ n \in 0 .. n
      OBVIOUS
    <2>2. PICK f : /\ \A k \in 0 .. n : f[k] = RoundStep(p, k, f[k - 1])
                   /\ Times(p, n) = f[n]
      BY <2>1, TimesRecursion
    <2>3. IF n <= Len(all.val) THEN ~Failed(f[n][1]) /\ f[n][1].val = SubSeq(all.val, 1, n) ELSE Failed(f[n][1])
      BY <1>1, <1>2, <2>1, <2>2, RoundsOfMany
    <2>4. IF Failed(f[n][1]) THEN Failed(c) ELSE c = Ok(f[n][1].val, Kept(1, f[n][1].at))
      BY <1>1, <1>8, <2>1, <2>2, CountIs
    <2>5. \A v, x : ~Failed(Ok(v, x)) /\ Ok(v, x).val = v
      BY DEF Ok, Failed
    <2> HIDE DEF all
    <2> QED
      BY <2>3, <2>4, <2>5
  <1> HIDE DEF all, one, fold
  <1>9. IF all.val = <<>> THEN Failed(one) ELSE one = all
    BY <1>3, <1>4
  <1>10. ~HasNil(all.val) => IF Empty(1) THEN fold = Ok(<<>>, 1) ELSE Same(fold, one)
    <2> HAVE ~HasNil(all.val)
    <2>1. CASE 1 = End
      BY <1>1, <1>5, <1>6, <2>1
    <2>2. CASE 1 # End /\ Failed(p[1])
      BY <1>1, <1>4, <1>5, <2>2 DEF Same
    <2>3. CASE 1 # End /\ ~Failed(p[1])
      BY <1>1, <1>3, <1>4, <1>5, <2>3 DEF Same
    <2> QED
      BY <2>1, <2>2, <2>3
  <1>11. HasNil(all.val) => fold.err = "panic"
    <2>1. all.val = <<>> => ~HasNil(all.val)
      BY DEF HasNil
    <2> QED
      BY <1>3, <1>5, <2>1
  <1>12. (CASE \E k \in DOMAIN all.val : all.val[k] = Nil -> fold.err = "panic"
            [] Empty(1) -> fold = Ok(<<>>, 1)
            [] OTHER -> Same(fold, one))
    <2>1. CASE HasNil(all.val)
      <3>1. ~Empty(1)
        <4>1. Empty(1) => all.val = <<>>
          BY <1>1, <1>6 DEF Ok
        <4>2. all.val = <<>> => ~HasNil(all.val)
          BY DEF HasNil
        <4> QED
          BY <2>1, <4>1, <4>2
      <3> QED
        BY <1>11, <2>1, <3>1 DEF HasNil
    <2>2. CASE ~HasNil(all.val)
      <3>1. ~ \E k \in DOMAIN all.val : all.val[k] = Nil
        BY <2>2 DEF HasNil
      <3> QED
        BY <1>10, <2>2, <3>1
    <2> QED
      BY <2>1, <2>2
  <1> QED
    BY <1>7, <1>8, <1>9, <1>12

\* What is between two bytes is found either way.
LEMMA GuardsAgree ==
    ASSUME TypeOK
    PROVE  GuardsTakeTheSame
  <1> DEFINE g == Guarded("i", "e")[1]
             w == GuardedWhile("i", "e", Byte \ {"e"})[1]
             e == Until({"e"}, 1 + 1)
             u == Until(Byte \ (Byte \ {"e"}), 1 + 1)
             begun == 1 + 1 < End /\ Car(1) = "i"
  <1>1. End \in Nat /\ Pos = 1 .. End /\ 1 \in Pos
    BY InputIs
  <1>2. IF begun /\ 1 + 1 < e /\ e < End THEN g = Ok(Bytes(1 + 1, e), e + 1) ELSE Refuses(g)
    BY <1>1, GuardedIs
  <1>3. /\ begun /\ u > 1 + 1 /\ u = End => w.err = "panic"
        /\ begun /\ u > 1 + 1 /\ u # End /\ Car(u) = "e" => w = Ok(Bytes(1 + 1, u), u + 1)
        /\ ~(begun /\ u > 1 + 1) \/ (u # End /\ Car(u) # "e") => Refuses(w)
    <2> DEFINE f == Byte \ {"e"}
    <2> HIDE DEF f
    <2>1. \A i \in Pos :
             LET x == GuardedWhile("i", "e", f)[i]
                 y == Until(Byte \ f, i + 1)
                 b == i + 1 < End /\ Car(i) = "i" /\ y > i + 1
             IN  /\ i + 1 < End => y \in (i + 1) .. End /\ i + 1 \in Pos
                 /\ b /\ y = End => x.err = "panic"
                 /\ b /\ y # End /\ Car(y) = "e" => x = Ok(Bytes(i + 1, y), y + 1)
                 /\ ~b \/ (y # End /\ Car(y) # "e") => Refuses(x)
      BY GuardedWhileIs
    <2> DEFINE x == GuardedWhile("i", "e", f)[1]
               y == Until(Byte \ f, 1 + 1)
               b == 1 + 1 < End /\ Car(1) = "i" /\ y > 1 + 1
    <2>2. /\ b /\ y = End => x.err = "panic"
          /\ b /\ y # End /\ Car(y) = "e" => x = Ok(Bytes(1 + 1, y), y + 1)
          /\ ~b \/ (y # End /\ Car(y) # "e") => Refuses(x)
      BY <1>1, <2>1
    <2> QED
      BY <2>2, Zenon DEF f
  <1>4. begun => e = u /\ u \in (1 + 1) .. End /\ (u = End \/ Car(u) = "e")
    <2> HAVE begun
    <2>1. 1 + 1 \in Pos
      BY <1>1
    <2>2. /\ u \in (1 + 1) .. End
          /\ u = End \/ Car(u) \in Byte \ (Byte \ {"e"})
          /\ \A k \in (1 + 1) .. u - 1 : Car(k) \notin Byte \ (Byte \ {"e"})
      BY <2>1, UntilIs
    <2> HIDE DEF u
    <2>3. u = End \/ Car(u) \in {"e"}
      BY <2>2
    <2>4. \A k \in (1 + 1) .. u - 1 : Car(k) \notin {"e"}
      <3> TAKE k \in (1 + 1) .. u - 1
      <3>1. k \in Pos /\ k # End
        BY <1>1, <2>1, <2>2
      <3>2. Car(k) \in Byte
        BY <3>1, InputIs
      <3> QED
        BY <2>2, <3>2
    <2>5. e = u
      BY <2>1, <2>2, <2>3, <2>4, UntilFirst
    <2> QED
      BY <2>2, <2>3, <2>5
  <1> HIDE DEF g, w, e, u
  <1>5. CASE begun /\ 1 + 1 < e /\ e < End
    <2>1. u > 1 + 1 /\ u # End /\ Car(u) = "e" /\ u = e
      BY <1>1, <1>4, <1>5
    <2>2. w = Ok(Bytes(1 + 1, e), e + 1) /\ g = Ok(Bytes(1 + 1, e), e + 1)
      BY <1>2, <1>3, <1>5, <2>1
    <2>3. ~Failed(g) /\ ~Failed(w) /\ g = w
      BY <2>2 DEF Ok, Failed
    <2> QED
      BY <2>3 DEF GuardsTakeTheSame, g, w
  <1>6. CASE ~(begun /\ 1 + 1 < e /\ e < End)
    <2>1. Failed(g)
      BY <1>2, <1>6 DEF Refuses
    <2>2. Failed(w)
      <3>1. CASE ~(begun /\ u > 1 + 1)
        BY <1>3, <3>1 DEF Refuses
      <3>2. CASE begun /\ u > 1 + 1
        <4>1. u = End
          BY <1>1, <1>4, <1>6, <3>2
        <4> QED
          BY <1>3, <3>2, <4>1 DEF Failed
      <3> QED
        BY <3>1, <3>2
    <2> QED
      BY <2>1, <2>2 DEF GuardsTakeTheSame, g, w
  <1> QED
    BY <1>5, <1>6

\* Bytes one after another.
LEMMA MatchesChain ==
    ASSUME TypeOK, NEW S, NEW a \in Seq(S), NEW b \in Seq(S), b # <<>>
    PROVE  /\ Len(a \o b) = Len(a) + Len(b) /\ Len(a) \in Nat /\ Len(b) \in Nat /\ Len(b) # 0
           /\ Matches(a \o b, 1) <=> Matches(a, 1) /\ Matches(b, 1 + Len(a))
           /\ Matches(a, 1) => 1 + Len(a) \in Pos
           /\ Matches(b, 1 + Len(a)) => 1 + Len(a) # End
  <1> DEFINE m == Len(a)
             n == Len(b)
             c == a \o b
  <1>1. /\ m \in Nat /\ n \in Nat /\ n # 0 /\ Len(c) = m + n
        /\ \A k \in 1 .. m : c[k] = a[k]
        /\ \A k \in 1 .. n : c[m + k] = b[k]
    OBVIOUS
  <1>2. End \in Nat /\ Pos = 1 .. End /\ 1 \in Pos
    BY InputIs
  <1>3. \A x, i : Matches(x, i) <=> i + Len(x) <= End /\ \A k \in 1 .. Len(x) : Car(i + k - 1) = x[k]
    BY DEF Matches
  <1> HIDE DEF m, n, c
  <1>4. Matches(a, 1) <=> 1 + m <= End /\ \A k \in 1 .. m : Car(1 + k - 1) = a[k]
    BY <1>3 DEF m
  <1>5. Matches(b, 1 + m) <=> (1 + m) + n <= End /\ \A k \in 1 .. n : Car((1 + m) + k - 1) = b[k]
    BY <1>3 DEF n
  <1>6. Matches(c, 1) <=> 1 + (m + n) <= End /\ \A k \in 1 .. m + n : Car(1 + k - 1) = c[k]
    BY <1>1, <1>3
  <1>7. ASSUME Matches(c, 1)
        PROVE  Matches(a, 1) /\ Matches(b, 1 + m)
    <2>1. 1 + m <= End /\ (1 + m) + n <= End
      BY <1>1, <1>2, <1>6, <1>7
    <2>2. \A k \in 1 .. m : Car(1 + k - 1) = a[k]
      <3> TAKE k \in 1 .. m
      <3>1. k \in 1 .. m + n
        BY <1>1
      <3> QED
        BY <1>1, <1>6, <1>7, <3>1
    <2>3. \A k \in 1 .. n : Car((1 + m) + k - 1) = b[k]
      <3> TAKE k \in 1 .. n
      <3>1. m + k \in 1 .. m + n /\ 1 + (m + k) - 1 = (1 + m) + k - 1
        BY <1>1
      <3>2. Car(1 + (m + k) - 1) = c[m + k]
        BY <1>6, <1>7, <3>1
      <3> QED
        BY <1>1, <3>1, <3>2
    <2> QED
      BY <1>4, <1>5, <2>1, <2>2, <2>3
  <1>8. ASSUME Matches(a, 1), Matches(b, 1 + m)
        PROVE  Matches(c, 1)
    <2>1. 1 + (m + n) <= End
      BY <1>1, <1>2, <1>5, <1>8
    <2>2. \A k \in 1 .. m + n : Car(1 + k - 1) = c[k]
      <3> TAKE k \in 1 .. m + n
      <3>1. CASE k \in 1 .. m
        BY <1>1, <1>4, <1>8, <3>1
      <3>2. CASE k \notin 1 .. m
        <4> DEFINE x == k - m
        <4>1. x \in 1 .. n /\ m + x = k /\ (1 + m) + x - 1 = 1 + k - 1
          BY <1>1, <3>2
        <4> HIDE DEF x
        <4>2. Car((1 + m) + x - 1) = b[x] /\ c[m + x] = b[x]
          BY <1>1, <1>5, <1>8, <4>1
        <4> QED
          BY <4>1, <4>2
      <3> QED
        BY <3>1, <3>2
    <2> QED
      BY <1>6, <2>1, <2>2
  <1>9. Matches(a, 1) => 1 + m \in Pos
    BY <1>1, <1>2, <1>4
  <1>10. Matches(b, 1 + m) => 1 + m # End
    BY <1>1, <1>2, <1>5
  <1> QED
    BY <1>1, <1>7, <1>8, <1>9, <1>10 DEF m, n, c

\* Two strings in a row are found either way.
LEMMA LiteralsAgree ==
    ASSUME TypeOK, NEW S, NEW match \in Seq(S), NEW other \in Seq(S), match # <<>>, other # <<>>
    PROVE  LiteralsChain(match, other)
  <1> DEFINE t == Terminated(match, other)[1]
             d == ThenDiscard(Chars(match), Chars(other))[1]
             p == Preceded(match, other)[1]
             s == Then(Chars(other), Str(match))[1]
             m == Len(match)
             o == Len(other)
             mo == Matches(match, 1) /\ Matches(other, 1 + m)
             om == Matches(other, 1) /\ Matches(match, 1 + o)
  <1>1. 1 \in Pos /\ End \in Nat /\ Pos = 1 .. End
    BY InputIs
  <1>2. /\ m \in Nat /\ o \in Nat /\ m # 0 /\ o # 0
        /\ Len(match \o other) = m + o /\ Len(other \o match) = o + m
        /\ Matches(match \o other, 1) <=> mo
        /\ Matches(other \o match, 1) <=> om
        /\ Matches(match, 1) => 1 + m \in Pos
        /\ Matches(other, 1) => 1 + o \in Pos
        /\ Matches(other, 1 + m) => 1 + m # End
        /\ Matches(match, 1 + o) => 1 + o # End
    BY MatchesChain
  <1>3. Matches(match, 1) => 1 # End
    BY <1>1, <1>2
  <1>4. Matches(other, 1) => 1 # End
    BY <1>1, <1>2
  <1>5. IF mo THEN t = Ok(match, 1 + (m + o)) ELSE Refuses(t)
    <2>1. IF 1 # End /\ Matches(match \o other, 1) THEN t = Ok(match, 1 + Len(match \o other)) ELSE Refuses(t)
      <3> DEFINE c == match \o other
      <3>1. Len(c) \in Nat /\ t = Literal(c, match)[1]
        BY <1>2 DEF Terminated
      <3> HIDE DEF c, t
      <3>2. IF 1 # End /\ Matches(c, 1) THEN t = Ok(match, 1 + Len(c)) ELSE Refuses(t)
        BY <1>1, <3>1, LiteralIs
      <3> QED
        BY <3>2 DEF c
    <2> QED
      BY <1>2, <1>3, <2>1
  <1>6. IF om THEN p = Ok(match, 1 + (o + m)) ELSE Refuses(p)
    <2>1. IF 1 # End /\ Matches(other \o match, 1) THEN p = Ok(match, 1 + Len(other \o match)) ELSE Refuses(p)
      <3> DEFINE c == other \o match
      <3>1. Len(c) \in Nat /\ p = Literal(c, match)[1]
        BY <1>2 DEF Preceded
      <3> HIDE DEF c, p
      <3>2. IF 1 # End /\ Matches(c, 1) THEN p = Ok(match, 1 + Len(c)) ELSE Refuses(p)
        BY <1>1, <3>1, LiteralIs
      <3> QED
        BY <3>2 DEF c
    <2> QED
      BY <1>2, <1>4, <2>1
  <1>7. /\ IsParser(Chars(match)) /\ IsParser(Chars(other)) /\ IsParser(Str(match))
        /\ \A i \in Pos : IF i # End /\ Matches(match, i) THEN Chars(match)[i] = Ok(match, i + m) ELSE Refuses(Chars(match)[i])
        /\ \A i \in Pos : IF i # End /\ Matches(other, i) THEN Chars(other)[i] = Ok(other, i + o) ELSE Refuses(Chars(other)[i])
        /\ \A i \in Pos : IF i # End /\ Matches(match, i) THEN Str(match)[i] = Ok(match, i + m) ELSE Refuses(Str(match)[i])
    BY <1>2, LiteralIs, StrIs DEF Chars
  <1>8. \A v, x : ~Failed(Ok(v, x)) /\ Ok(v, x).at = x /\ Ok(v, x).val = v
    BY DEF Ok, Failed
  <1>9. IF mo THEN d = Ok(match, Kept(1 + m, (1 + m) + o)) ELSE Failed(d)
    <2> DEFINE c == Chars(match)[1]
               x == Chars(other)[c.at]
    <2>1. IF ~Failed(c) /\ c.at # End /\ ~Failed(x) THEN d = Ok(c.val, Kept(c.at, x.at)) ELSE Failed(d)
      BY <1>1, <1>7, ThenDiscardIs
    <2>2. Matches(match, 1) => c = Ok(match, 1 + m) /\ 1 + m \in Pos
      BY <1>1, <1>2, <1>3, <1>7
    <2>3. ~Matches(match, 1) => Failed(c)
      BY <1>1, <1>7 DEF Refuses
    <2>4. Matches(match, 1) => c.at = 1 + m /\ ~Failed(c) /\ c.val = match
      BY <1>8, <2>2
    <2> HIDE DEF d
    <2>5. CASE mo
      <3>1. c.at = 1 + m /\ ~Failed(c) /\ c.val = match /\ 1 + m \in Pos /\ 1 + m # End
        BY <1>2, <2>2, <2>4, <2>5
      <3> HIDE DEF c
      <3>2. x = Ok(other, (1 + m) + o)
        BY <1>7, <2>5, <3>1
      <3>3. ~Failed(x) /\ x.at = (1 + m) + o
        BY <1>8, <3>2
      <3> HIDE DEF x
      <3>4. d = Ok(match, Kept(1 + m, (1 + m) + o))
        BY <2>1, <3>1, <3>3
      <3> QED
        BY <2>5, <3>4
    <2>6. CASE ~mo
      <3>1. CASE ~Matches(match, 1)
        <4>1. Failed(d)
          BY <2>1, <2>3, <3>1
        <4> QED
          BY <2>6, <4>1
      <3>2. CASE Matches(match, 1)
        <4>1. c.at = 1 + m /\ 1 + m \in Pos /\ ~Matches(other, 1 + m)
          BY <2>2, <2>4, <2>6, <3>2
        <4> HIDE DEF c
        <4>2. c.at # End => Failed(x)
          BY <1>7, <4>1 DEF Refuses
        <4> HIDE DEF x
        <4>3. Failed(d)
          BY <2>1, <4>2
        <4> QED
          BY <2>6, <4>3
      <3> QED
        BY <3>1, <3>2
    <2> QED
      BY <2>5, <2>6
  <1>10. IF om THEN s = Ok(match, (1 + o) + m) ELSE Failed(s)
    <2> DEFINE c == Chars(other)[1]
               x == Str(match)[c.at]
    <2>1. /\ Failed(c) => s = GivesUp("Unmatched", 1, c)
          /\ ~Failed(c) /\ c.at = End => s = Fails("Incomplete", 1, End)
          /\ ~Failed(c) /\ c.at # End /\ Failed(x) => s = GivesUp(x.err, 1, x)
          /\ ~Failed(c) /\ c.at # End /\ ~Failed(x) => s = x
      BY <1>1, <1>7, ThenIs
    <2>2. Matches(other, 1) => c = Ok(other, 1 + o) /\ 1 + o \in Pos
      BY <1>1, <1>2, <1>4, <1>7
    <2>3. ~Matches(other, 1) => Failed(c)
      BY <1>1, <1>7 DEF Refuses
    <2>4. Matches(other, 1) => c.at = 1 + o /\ ~Failed(c)
      BY <1>8, <2>2
    <2>5. \A e, r : Failed(r) /\ (e = "Unmatched" \/ e = r.err) => Failed(GivesUp(e, 1, r))
      BY DEF GivesUp, Fails, Failed, Ends
    <2> HIDE DEF s
    <2>6. CASE om
      <3>1. c.at = 1 + o /\ ~Failed(c) /\ 1 + o \in Pos /\ 1 + o # End
        BY <1>2, <2>2, <2>4, <2>6
      <3> HIDE DEF c
      <3>2. x = Ok(match, (1 + o) + m)
        BY <1>7, <2>6, <3>1
      <3>3. ~Failed(x)
        BY <1>8, <3>2
      <3>4. s = x
        BY <2>1, <3>1, <3>3
      <3> QED
        BY <2>6, <3>2, <3>4
    <2>7. CASE ~om
      <3>1. CASE ~Matches(other, 1)
        <4>1. Failed(s)
          BY <2>1, <2>3, <2>5, <3>1
        <4> QED
          BY <2>7, <4>1
      <3>2. CASE Matches(other, 1)
        <4>1. c.at = 1 + o /\ ~Failed(c) /\ 1 + o \in Pos /\ ~Matches(match, 1 + o)
          BY <2>2, <2>4, <2>7, <3>2
        <4> HIDE DEF c
        <4>2. CASE c.at = End
          <5>1. s = Fails("Incomplete", 1, End)
            BY <2>1, <4>1, <4>2
          <5>2. Failed(s)
            BY <5>1 DEF Fails, Failed
          <5> QED
            BY <2>7, <5>2
        <4>3. CASE c.at # End
          <5>1. Failed(x)
            BY <1>7, <4>1, <4>3 DEF Refuses
          <5> HIDE DEF x
          <5>2. s = GivesUp(x.err, 1, x)
            BY <2>1, <4>1, <4>3, <5>1
          <5>3. Failed(s)
            BY <2>5, <5>1, <5>2
          <5> QED
            BY <2>7, <5>3
        <4> QED
          BY <4>2, <4>3
      <3> QED
        BY <3>1, <3>2
    <2> QED
      BY <2>6, <2>7
  <1>11. 1 + (m + o) = (1 + m) + o /\ 1 + (o + m) = (1 + o) + m
    BY <1>2
  <1> HIDE DEF t, d, p, s, m, o, mo, om
  <1>12. Same(p, s) /\ (~Failed(p) => p.at = s.at)
    <2>1. CASE om
      <3>1. p = s
        BY <1>6, <1>10, <1>11, <2>1
      <3> QED
        BY <3>1 DEF Same
    <2>2. CASE ~om
      BY <1>6, <1>10, <2>2 DEF Same, Refuses
    <2> QED
      BY <2>1, <2>2
  <1>13. Same(t, d)
    <2>1. CASE mo
      <3>1. ~Failed(t) /\ t.val = match /\ ~Failed(d) /\ d.val = match
        BY <1>5, <1>8, <1>9, <2>1
      <3> QED
        BY <3>1 DEF Same, Failed
    <2>2. CASE ~mo
      BY <1>5, <1>9, <2>2 DEF Same, Refuses
    <2> QED
      BY <2>1, <2>2
  <1> QED
    BY <1>12, <1>13 DEF LiteralsChain, t, d, p, s

\* No digits, no numbers.
LEMMA NoDigitsAt ==
    ASSUME TypeOK, NEW i \in Pos, i = End \/ Car(i) \notin DigitByte
    PROVE  DigitsEnd(i) = i /\ Digits(Bytes(i, DigitsEnd(i))) = <<>>
  <1> DEFINE d == DigitsEnd(i)
  <1>1. d \in i .. End /\ \A k \in i .. d - 1 : Car(k) \in DigitByte
    BY DigitsEndAt
  <1>2. End \in Nat /\ i \in 1 .. End
    BY InputIs
  <1> HIDE DEF d
  <1>3. d = i
    <2> SUFFICES ASSUME d # i PROVE FALSE
      OBVIOUS
    <2>1. i \in i .. d - 1 /\ i # End
      BY <1>1, <1>2
    <2> QED
      BY <1>1, <2>1
  <1>4. DigitsEnd(i) = i
    BY <1>3 DEF d
  <1> QED
    BY <1>4, DigitsEndAt

\* A digit, and those after it.
LEMMA OneMoreDigit ==
    ASSUME TypeOK, NEW i \in Pos, i # End, Car(i) \in DigitByte
    PROVE  /\ DigitsEnd(i) = DigitsEnd(i + 1)
           /\ Digits(Bytes(i, DigitsEnd(i))) = <<DigitOf(Car(i))>> \o Digits(Bytes(i + 1, DigitsEnd(i + 1)))
  <1> DEFINE j == DigitsEnd(i + 1)
             d == Digits(Bytes(i, j))
             ds == Digits(Bytes(i + 1, j))
             v == DigitOf(Car(i))
             e == <<v>> \o ds
  <1>1. /\ End \in Nat /\ Pos = 1 .. End /\ i \in 1 .. End /\ i + 1 \in Pos
    BY InputIs
  <1>2. /\ j \in (i + 1) .. End /\ j \in Pos
        /\ \A k \in (i + 1) .. j - 1 : Car(k) \in DigitByte
        /\ j # End => Car(j) \notin DigitByte
        /\ ds \in Seq(Nat)
    BY <1>1, DigitsEndAt
  <1>3. /\ Len(ds) = j - (i + 1)
        /\ \A k \in 1 .. j - (i + 1) : ds[k] = DigitOf(Car((i + 1) + k - 1))
    BY <1>1, <1>2, DigitsAre
  <1> HIDE DEF j, ds
  <1>4. j \in i .. End /\ \A k \in i .. j - 1 : Car(k) \in DigitByte
    <2>1. j \in i .. End
      BY <1>1, <1>2
    <2>2. \A k \in i .. j - 1 : Car(k) \in DigitByte
      <3> TAKE k \in i .. j - 1
      <3>1. k = i \/ k \in (i + 1) .. j - 1
        BY <1>1, <1>2
      <3> QED
        BY <1>2, <3>1
    <2> QED
      BY <2>1, <2>2
  <1>5. DigitsEnd(i) = j
    <2>1. j = End \/ Car(j) \in Byte \ DigitByte
      BY <1>2, InputIs
    <2>2. \A k \in i .. j - 1 : Car(k) \notin Byte \ DigitByte
      BY <1>4
    <2>3. Until(Byte \ DigitByte, i) = j
      BY <1>4, <2>1, <2>2, UntilFirst
    <2> QED
      BY <2>3, DigitsEndIs
  <1>6. /\ d \in Seq(Nat) /\ Len(d) = j - i
        /\ \A k \in 1 .. j - i : d[k] = DigitOf(Car(i + k - 1))
    BY <1>4, DigitsAre
  <1> HIDE DEF d
  <1>7. 1 \in 1 .. j - i /\ i + 1 - 1 = i /\ j - (i + 1) = (j - i) - 1 /\ j - i \in Nat
    BY <1>1, <1>2
  <1>8. v \in Nat
    <2>1. d[1] \in Nat
      BY <1>6, <1>7
    <2> QED
      BY <1>6, <1>7, <2>1
  <1> HIDE DEF v
  <1>9. /\ e \in Seq(Nat) /\ Len(e) = j - i
        /\ e[1] = v /\ \A k \in 2 .. j - i : e[k] = ds[k - 1]
    <2>1. Len(ds) = (j - i) - 1
      BY <1>3, <1>7
    <2> DEFINE n == j - i
    <2>2. n \in Nat /\ Len(ds) = n - 1 /\ n >= 1
      BY <1>7, <2>1
    <2> HIDE DEF n
    <2>3. /\ e \in Seq(Nat) /\ Len(e) = n
          /\ e[1] = v /\ \A k \in 2 .. n : e[k] = ds[k - 1]
      BY <1>2, <1>8, <2>2
    <2> QED
      BY <2>3 DEF n
  <1> HIDE DEF e
  <1>10. \A k \in 1 .. j - i : d[k] = e[k]
    <2> TAKE k \in 1 .. j - i
    <2>1. d[k] = DigitOf(Car(i + k - 1))
      BY <1>6
    <2>2. CASE k = 1
      <3>1. d[k] = v
        <4>1. i + k - 1 = i
          BY <1>1, <2>2
        <4> QED
          BY <2>1, <4>1 DEF v
      <3> QED
        BY <1>9, <2>2, <3>1
    <2>3. CASE k # 1
      <3>1. k - 1 \in 1 .. j - (i + 1) /\ (i + 1) + (k - 1) - 1 = i + k - 1 /\ k \in 2 .. j - i
        BY <1>1, <1>2, <2>3
      <3>2. ds[k - 1] = DigitOf(Car((i + 1) + (k - 1) - 1))
        BY <1>3, <3>1
      <3> QED
        BY <1>9, <2>1, <3>1, <3>2
    <2> QED
      BY <2>2, <2>3
  <1>11. d = e
    BY <1>6, <1>9, <1>10, SeqEqual
  <1> QED
    BY <1>5, <1>11 DEF d, e, ds, v, j

\* Many0 of Digit takes the digits.
LEMMA ManyDigits ==
    ASSUME TypeOK
    PROVE  \A i \in Pos : Many0(Digit)[i] = Ok(Digits(Bytes(i, DigitsEnd(i))), DigitsEnd(i))
  <1> DEFINE m == Many0(Digit)
             D(i) == Digits(Bytes(i, DigitsEnd(i)))
             S == {i \in Pos : m[i] = Ok(D(i), DigitsEnd(i))}
  <1>1. /\ End \in Nat /\ Pos = 1 .. End /\ End \in Pos /\ \A i \in Pos : i # End => i + 1 \in Pos
        /\ \A i \in Pos : m[i] = ManyStep(Digit, i, m[Digit[i].at])
    BY InputIs, DigitIs, Many0Recursion
  <1> HIDE DEF m
  <1>2. ASSUME NEW i \in Pos, \A j \in Pos : i < j => j \in S
        PROVE  i \in S
    <2>1. m[i] = ManyStep(Digit, i, m[Digit[i].at])
      BY <1>1
    <2>2. CASE i = End
      <3>1. m[i] = Ok(<<>>, i)
        BY <2>1, <2>2 DEF ManyStep
      <3>2. DigitsEnd(i) = i /\ D(i) = <<>>
        BY <2>2, NoDigitsAt
      <3> QED
        BY <3>1, <3>2
    <2>3. CASE i # End /\ Car(i) \notin DigitByte
      <3>1. Digit[i] = Fails("Unmatched", i, i)
        BY <2>3, DigitIs
      <3>2. Failed(Digit[i]) /\ ~Ends(Digit[i]) /\ Digit[i].at = i
        BY <3>1 DEF Fails, Failed, Ends, Kept
      <3>3. m[i] = Ok(<<>>, i)
        BY <2>1, <2>3, <3>2 DEF ManyStep, Kept
      <3>4. DigitsEnd(i) = i /\ D(i) = <<>>
        BY <2>3, NoDigitsAt
      <3> QED
        BY <3>3, <3>4
    <2>4. CASE i # End /\ Car(i) \in DigitByte
      <3> DEFINE v == DigitOf(Car(i))
                 ds == D(i + 1)
                 j == DigitsEnd(i + 1)
      <3>1. Digit[i] = Ok(v, i + 1)
        BY <2>4, DigitIs
      <3>2. ~Failed(Digit[i]) /\ ~Ends(Digit[i]) /\ Digit[i].at = i + 1 /\ Digit[i].val = v
        BY <3>1 DEF Ok, Failed, Ends
      <3>3. i + 1 \in Pos /\ i < i + 1 /\ i + 1 # i
        BY <1>1, <2>4
      <3>4. m[i + 1] = Ok(ds, j)
        BY <1>2, <3>3
      <3>5. m[i] = Prepend(v, m[i + 1])
        BY <2>1, <2>4, <3>2, <3>3 DEF ManyStep
      <3>6. D(i) = <<v>> \o ds /\ DigitsEnd(i) = j
        BY <2>4, OneMoreDigit
      <3>7. j \in (i + 1) .. End
        BY <3>3, DigitsEndAt
      <3>8. i + 1 \in i .. End
        BY <1>1, <3>3
      <3> HIDE DEF v, ds, j, D
      <3>9. IsResult(Ok(ds, j), i + 1) /\ ~Failed(Ok(ds, j)) /\ Ok(ds, j).val = ds /\ Ok(ds, j).at = j
        BY <3>3, <3>7, ResultsAre DEF Ok
      <3>10. Prepend(v, Ok(ds, j)) = Ok(<<v>> \o Ok(ds, j).val, Ok(ds, j).at)
        <4> DEFINE r == Ok(ds, j)
        <4>1. IsResult(r, i + 1) /\ ~Failed(r)
          BY <3>9
        <4> HIDE DEF r
        <4>2. Prepend(v, r) = Ok(<<v>> \o r.val, r.at)
          BY <3>8, <4>1, PrependIs
        <4> QED
          BY <4>2, Zenon DEF r
      <3>11. m[i] = Ok(D(i), DigitsEnd(i))
        <4>1. Ok(<<v>> \o Ok(ds, j).val, Ok(ds, j).at) = Ok(D(i), DigitsEnd(i))
          BY <3>6, <3>9, Zenon
        <4> QED
          BY <3>4, <3>5, <3>10, <4>1, Zenon
      <3> QED
        BY <3>11
    <2> QED
      BY <2>2, <2>3, <2>4
  <1>3. S = Pos
    <2> HIDE DEF S
    <2>1. S \subseteq Pos
      BY DEF S
    <2> QED
      BY <1>2, <2>1, AllPositions
  <1> QED
    BY <1>3 DEF m

\* Number is the fold of its digits, with the sign before them.
LEMMA NumberFolds ==
    ASSUME TypeOK
    PROVE  NumberIsFold
  <1> DEFINE sign == Tag("-")[1]
             f == FoldMany1(Digit)[sign.at]
             n == IF Failed(f) THEN 0 ELSE IntOf(f.val)
             s == IF Car(1) = "-" THEN 1 + 1 ELSE 1
             j == DigitsEnd(s)
             ds == Digits(Bytes(s, j))
             num == IntOf(ds)
  <1>1. 1 \in Pos /\ (Empty(1) <=> 1 = End) /\ MaxInt \in Nat
    BY InputIs DEF TypeOK
  <1>2. CASE 1 = End
    <2>1. Failed(Number[1])
      BY <1>2, NumberIs DEF WantsInput
    <2> QED
      BY <1>1, <1>2, <2>1 DEF NumberIsFold
  <1>3. CASE 1 # End
    <2>1. /\ s \in Pos /\ j \in s .. End /\ num \in Int
          /\ num = 0 => Number[1] = Fails(IF j = End THEN "none" ELSE "Unmatched", 1, j)
          /\ num # 0 => Number[1] = Ok(IF Car(1) = "-" THEN Wrap(-num) ELSE num, j)
      BY <1>1, <1>3, NumberIs
    <2>2. sign.at = s /\ (Failed(sign) <=> Car(1) # "-")
      <3>1. sign = IF Car(1) \in {"-"} THEN Ok(Car(1), 1 + 1) ELSE Fails("Unmatched", 1, 1)
        BY <1>1, <1>3, OneOfIs DEF Tag
      <3> QED
        BY <3>1 DEF Ok, Fails, Failed, Kept
    <2>3. IntOf(<<>>) = 0
      <3> DEFINE none == <<>>
      <3>1. none \in Seq(Nat) /\ none = <<>>
        OBVIOUS
      <3>2. Decimal(none) = 0 /\ Decimal(none) <= MaxInt
        <4> HIDE DEF none
        <4>1. Decimal(none) = 0
          BY <3>1, NumbersAre
        <4> QED
          BY <1>1, <4>1
      <3>3. IntOf(none) = 0
        <4> HIDE DEF none
        <4> QED
          BY <1>1, <3>1, <3>2, NumbersAre
      <3> QED
        BY <3>3 DEF none
    <2>4. Many0(Digit)[s] = Ok(ds, j)
      BY <2>1, ManyDigits
    <2>5. IF s # End /\ Failed(Digit[s]) THEN Failed(f) ELSE f = Many0(Digit)[s]
      <3>1. IsParser(Digit)
        BY DigitIs
      <3>2. ds \in Seq(Nat)
        <4> HIDE DEF s
        <4>1. j \in s .. End /\ \A k \in s .. j - 1 : Car(k) \in DigitByte
          BY <2>1, DigitsEndAt
        <4> HIDE DEF j
        <4> QED
          BY <2>1, <4>1, DigitsAre
      <3> HIDE DEF s, sign, j, ds
      <3>3. ~HasNil(ds)
        BY <3>2, NilAssumption DEF HasNil
      <3>4. Many0(Asserted(Digit))[s] = Many0(Digit)[s]
        <4>1. ~Failed(Many0(Digit)[s]) /\ Many0(Digit)[s].val = ds
          BY <2>4 DEF Ok, Failed
        <4> QED
          BY <2>1, <3>1, <3>3, <4>1, AssertedMany
      <3> QED
        BY <2>1, <2>2, <3>1, <3>4, FoldMany1Is
    <2>6. s # End /\ Failed(Digit[s]) => n = 0 /\ num = 0
      <3> HIDE DEF s
      <3> HAVE s # End /\ Failed(Digit[s])
      <3>1. Car(s) \notin DigitByte
        <4> SUFFICES ASSUME Car(s) \in DigitByte PROVE FALSE
          OBVIOUS
        <4>1. Digit[s] = Ok(DigitOf(Car(s)), s + 1)
          BY <2>1, DigitIs
        <4> QED
          BY <4>1 DEF Ok, Failed
      <3>2. Failed(f)
        BY <2>5
      <3>3. ds = <<>>
        BY <2>1, <3>1, NoDigitsAt
      <3> HIDE DEF f, ds
      <3> QED
        BY <2>3, <3>2, <3>3
    <2>7. ~(s # End /\ Failed(Digit[s])) => n = num /\ f.at = j
      <3> HAVE ~(s # End /\ Failed(Digit[s]))
      <3>1. f = Ok(ds, j)
        BY <2>4, <2>5
      <3> HIDE DEF ds, j
      <3>2. f.val = ds /\ f.at = j /\ ~Failed(f)
        BY <3>1 DEF Ok, Failed
      <3> HIDE DEF f
      <3> QED
        BY <3>2
    <2>8. num = 0 => Number[1].val = Nil
      <3> HIDE DEF num
      <3> QED
        BY <2>1 DEF Fails
    <2> HIDE DEF num, s, j, f, sign
    <2>9. n = num
      BY <2>6, <2>7
    <2>10. num # 0 => Number[1] = Ok(IF Failed(sign) THEN n ELSE Wrap(-n), f.at)
      <3> HAVE num # 0
      <3>1. f.at = j
        BY <2>6, <2>7
      <3>2. Number[1] = Ok(IF Car(1) = "-" THEN Wrap(-num) ELSE num, j)
        BY <2>1
      <3> HIDE DEF n
      <3> QED
        BY <2>2, <2>9, <3>1, <3>2
    <2> HIDE DEF n
    <2>11. IF n = 0 THEN Number[1].val = Nil ELSE Number[1] = Ok(IF Failed(sign) THEN n ELSE Wrap(-n), f.at)
      BY <2>8, <2>9, <2>10
    <2> QED
      BY <1>1, <1>3, <2>11 DEF NumberIsFold, n, f, sign
  <1> QED
    BY <1>2, <1>3

\* Repeating is the same repetition by any of the combinators, what stands between
\* two bytes and before or after a string is the same by hand and by the combinators,
\* and Number is a fold of Digit (parsec.go:480, :555, :623, :738 to :890, :923, :937,
\* :994).
THEOREM CombinatorsAgreeHolds == TypeOK => CombinatorsAgree
  <1> SUFFICES ASSUME TypeOK PROVE CombinatorsAgree
    OBVIOUS
  <1>1. RepeatsAgree(Digit) /\ RepeatsAgree(Number) /\ RepeatsAgree(BencInt) /\ RepeatsAgree(BencStr)
    BY DigitIs, NumberIs, BencIntIs, BencStrIs, RepeatsAgreeAlways
  <1>2. RepeatsAgree(Letter) /\ RepeatsAgree(IsNot("e"))
    <2>1. \A any : IsParser(OneOf(any)) /\ WantsInput(OneOf(any))
      BY OneOfIs
    <2>2. \A any : RepeatsAgree(OneOf(any))
      BY <2>1, RepeatsAgreeAlways
    <2> QED
      BY <2>2 DEF Letter, IsNot
  <1>3. RepeatsAgree(StrN(2)) /\ RepeatsAgree(TakeTillIncl({"e"})) /\ RepeatsAgree(TakeWhile(DigitByte))
    <2>1. \A n \in Int : RepeatsAgree(StrN(n))
      BY StrNIs, RepeatsAgreeAlways
    <2>2. \A f : RepeatsAgree(TakeTillIncl(f))
      BY TakeTillInclIs, RepeatsAgreeAlways
    <2>3. \A f : RepeatsAgree(TakeWhile(f))
      BY TakeWhileIs, RepeatsAgreeAlways
    <2>4. 2 \in Int
      OBVIOUS
    <2> QED
      BY <2>1, <2>2, <2>3, <2>4, Zenon
  <1>4. RepeatsAgree(Alt(<<BencStr, CharUTF8>>))
    <2> DEFINE ps == <<BencStr, CharUTF8>>
    <2>1. Len(ps) = 2 /\ ps[1] = BencStr /\ ps[2] = CharUTF8 /\ \A k \in 1 .. 2 : k = 1 \/ k = 2
      OBVIOUS
    <2> HIDE DEF ps
    <2>2. IsParser(CharUTF8) /\ KeepsInput(CharUTF8)
      BY OneOfIs DEF CharUTF8
    <2>3. \A k \in 1 .. Len(ps) : IsParser(ps[k]) /\ KeepsInput(ps[k])
      BY <2>1, <2>2, BencStrIs
    <2>4. IsParser(Alt(ps)) /\ WantsInput(Alt(ps))
      BY <2>1, <2>3, AltIs
    <2> QED
      BY <2>4, RepeatsAgreeAlways DEF ps
  <1>5. AllRepeatsAgree
    BY <1>1, <1>2, <1>3, <1>4 DEF AllRepeatsAgree
  <1>6. AllLiteralsChain
    <2> DEFINE S == {"i", "1", "e"}
    <2>1. /\ <<"i">> \in Seq(S) /\ <<"1">> \in Seq(S) /\ <<"i", "e">> \in Seq(S) /\ <<"i", "1">> \in Seq(S)
          /\ <<"i">> # <<>> /\ <<"1">> # <<>> /\ <<"i", "e">> # <<>> /\ <<"i", "1">> # <<>>
      <3>1. \A a, b \in S : <<a>> \in Seq(S) /\ <<a, b>> \in Seq(S)
        <4> HIDE DEF S
        <4> QED
          OBVIOUS
      <3>2. \A a, b \in S : <<a>> # <<>> /\ <<a, b>> # <<>>
        <4> HIDE DEF S
        <4> TAKE a \in S, b \in S
        <4>1. Len(<<a>>) = 1 /\ Len(<<a, b>>) = 2 /\ Len(<<>>) = 0
          OBVIOUS
        <4> QED
          BY <4>1
      <3>3. "i" \in S /\ "1" \in S /\ "e" \in S
        OBVIOUS
      <3> HIDE DEF S
      <3> QED
        BY <3>1, <3>2, <3>3, Zenon
    <2> HIDE DEF S
    <2>2. LiteralsChain(<<"i">>, <<"1">>)
      BY <2>1, LiteralsAgree
    <2>3. LiteralsChain(<<"1">>, <<"i", "e">>)
      BY <2>1, LiteralsAgree
    <2>4. LiteralsChain(<<"i", "1">>, <<"1">>)
      BY <2>1, LiteralsAgree
    <2> QED
      BY <2>2, <2>3, <2>4 DEF AllLiteralsChain
  <1> QED
    BY <1>5, <1>6, GuardsAgree, NumberFolds DEF CombinatorsAgree

-----------------------------------------------------------------------------
(* Bytes that stand in the input. *)

\* Bytes in a row match where each of them does.
LEMMA MatchesSplit ==
    ASSUME TypeOK, NEW S, NEW a \in Seq(S), NEW b \in Seq(S), NEW i \in Pos
    PROVE  /\ Len(a \o b) = Len(a) + Len(b) /\ Len(a) \in Nat /\ Len(b) \in Nat
           /\ Matches(a \o b, i) <=> Matches(a, i) /\ Matches(b, i + Len(a))
           /\ Matches(a, i) => i + Len(a) \in Pos
  <1> DEFINE m == Len(a)
             n == Len(b)
             c == a \o b
  <1>1. /\ m \in Nat /\ n \in Nat /\ Len(c) = m + n
        /\ \A k \in 1 .. m : c[k] = a[k]
        /\ \A k \in 1 .. n : c[m + k] = b[k]
    OBVIOUS
  <1>2. End \in Nat /\ Pos = 1 .. End /\ i \in 1 .. End
    BY InputIs
  <1>3. \A x, y : Matches(x, y) <=> y + Len(x) <= End /\ \A k \in 1 .. Len(x) : Car(y + k - 1) = x[k]
    BY DEF Matches
  <1> HIDE DEF m, n, c
  <1>4. Matches(a, i) <=> i + m <= End /\ \A k \in 1 .. m : Car(i + k - 1) = a[k]
    BY <1>3 DEF m
  <1>5. Matches(b, i + m) <=> (i + m) + n <= End /\ \A k \in 1 .. n : Car((i + m) + k - 1) = b[k]
    BY <1>3 DEF n
  <1>6. Matches(c, i) <=> i + (m + n) <= End /\ \A k \in 1 .. m + n : Car(i + k - 1) = c[k]
    BY <1>1, <1>3
  <1>7. ASSUME Matches(c, i)
        PROVE  Matches(a, i) /\ Matches(b, i + m)
    <2>1. i + m <= End /\ (i + m) + n <= End
      BY <1>1, <1>2, <1>6, <1>7
    <2>2. \A k \in 1 .. m : Car(i + k - 1) = a[k]
      <3> TAKE k \in 1 .. m
      <3>1. k \in 1 .. m + n
        BY <1>1
      <3> QED
        BY <1>1, <1>6, <1>7, <3>1
    <2>3. \A k \in 1 .. n : Car((i + m) + k - 1) = b[k]
      <3> TAKE k \in 1 .. n
      <3>1. m + k \in 1 .. m + n /\ i + (m + k) - 1 = (i + m) + k - 1
        BY <1>1, <1>2
      <3>2. Car(i + (m + k) - 1) = c[m + k]
        BY <1>6, <1>7, <3>1
      <3> QED
        BY <1>1, <3>1, <3>2
    <2> QED
      BY <1>4, <1>5, <2>1, <2>2, <2>3
  <1>8. ASSUME Matches(a, i), Matches(b, i + m)
        PROVE  Matches(c, i)
    <2>1. i + (m + n) <= End
      BY <1>1, <1>2, <1>5, <1>8
    <2>2. \A k \in 1 .. m + n : Car(i + k - 1) = c[k]
      <3> TAKE k \in 1 .. m + n
      <3>1. CASE k \in 1 .. m
        BY <1>1, <1>4, <1>8, <3>1
      <3>2. CASE k \notin 1 .. m
        <4> DEFINE x == k - m
        <4>1. x \in 1 .. n /\ m + x = k /\ (i + m) + x - 1 = i + k - 1
          BY <1>1, <1>2, <3>2
        <4> HIDE DEF x
        <4>2. Car((i + m) + x - 1) = b[x] /\ c[m + x] = b[x]
          BY <1>1, <1>5, <1>8, <4>1
        <4> QED
          BY <4>1, <4>2
      <3> QED
        BY <3>1, <3>2
    <2> QED
      BY <1>6, <2>1, <2>2
  <1>9. Matches(a, i) => i + m \in Pos
    BY <1>1, <1>2, <1>4
  <1> QED
    BY <1>1, <1>7, <1>8, <1>9 DEF m, n, c

\* One byte that matches.
LEMMA MatchesByte ==
    ASSUME TypeOK, NEW b \in Byte, NEW i \in Pos
    PROVE  Matches(<<b>>, i) <=> i # End /\ Car(i) = b
  <1>1. End \in Nat /\ Pos = 1 .. End /\ i \in 1 .. End
    BY InputIs
  <1>2. Len(<<b>>) = 1 /\ <<b>>[1] = b /\ i + 1 - 1 = i
    BY <1>1
  <1> QED
    BY <1>1, <1>2 DEF Matches

\* The bytes that match are those that stand there.
LEMMA BytesStand ==
    ASSUME TypeOK, NEW cs \in Seq(Byte), NEW i \in Pos, Matches(cs, i)
    PROVE  Bytes(i, i + Len(cs)) = cs
  <1> DEFINE m == Len(cs)
             j == i + m
             s == SubSeq(in, i, j - 1)
  <1>1. /\ End \in Nat /\ Pos = 1 .. End /\ i \in 1 .. End
        /\ in \in Seq(Byte) /\ Len(in) \in Nat /\ End = Len(in) + 1
    BY InputIs DEF TypeOK
  <1>2. m \in Nat
    OBVIOUS
  <1>3. j \in i .. End /\ \A k \in 1 .. m : Car(i + k - 1) = cs[k]
    BY <1>1, <1>2 DEF Matches
  <1>4. j - 1 \in 0 .. Len(in) /\ j - 1 - i + 1 = m
    BY <1>1, <1>2, <1>3
  <1>5. s \in Seq(Byte) /\ Len(s) = m /\ \A k \in 1 .. m : s[k] = in[i + k - 1]
    <2> HIDE DEF m
    <2> QED
      BY <1>1, <1>2, <1>4
  <1>6. \A k \in 1 .. m : s[k] = cs[k]
    BY <1>3, <1>5 DEF Car
  <1>7. Bytes(i, j) = s
    BY DEF Bytes
  <1> HIDE DEF s
  <1>8. s = cs
    BY <1>5, <1>6
  <1> QED
    BY <1>7, <1>8

\* Digits and a byte that is none, and the number that stands there.
LEMMA NumberStands ==
    ASSUME TypeOK, NEW ds \in Seq(DigitByte), NEW i \in Pos, Matches(ds, i),
           i + Len(ds) # End => Car(i + Len(ds)) \notin DigitByte
    PROVE  DigitsEnd(i) = i + Len(ds) /\ Bytes(i, i + Len(ds)) = ds
  <1> DEFINE m == Len(ds)
             j == i + m
  <1>1. End \in Nat /\ Pos = 1 .. End /\ i \in 1 .. End
        /\ in \in Seq(Byte) /\ Len(in) \in Nat /\ End = Len(in) + 1
        /\ \A k \in i .. End : k # End => Car(k) \in Byte
    BY InputIs DEF TypeOK
  <1>2. m \in Nat /\ \A k \in 1 .. m : ds[k] \in DigitByte
    OBVIOUS
  <1>3. j \in i .. End /\ \A k \in 1 .. m : Car(i + k - 1) = ds[k]
    BY <1>1, <1>2 DEF Matches
  <1> HIDE DEF m
  <1>4. ASSUME NEW k \in i .. j - 1
        PROVE  Car(k) \notin Byte \ DigitByte
    <2> DEFINE x == k - i + 1
    <2>1. x \in 1 .. m /\ i + x - 1 = k
      BY <1>1, <1>2
    <2> HIDE DEF x
    <2> QED
      BY <1>2, <1>3, <2>1
  <1>5. j = End \/ Car(j) \in Byte \ DigitByte
    BY <1>1, <1>3 DEF m
  <1>6. Until(Byte \ DigitByte, i) = j
    <2> DEFINE f == Byte \ DigitByte
    <2> HIDE DEF f, j
    <2>1. (j = End \/ Car(j) \in f) /\ (\A k \in i .. j - 1 : Car(k) \notin f)
      BY <1>4, <1>5 DEF f
    <2>2. Until(f, i) = j
      BY <1>3, <2>1, UntilFirst
    <2> QED
      BY <2>2 DEF f
  <1>7. Bytes(i, j) = ds
    <2>1. DigitByte \subseteq Byte
      BY DEF DigitByte
    <2>2. ds \in Seq(Byte)
      BY <2>1
    <2> QED
      BY <2>2, BytesStand DEF j, m
  <1> QED
    BY <1>6, <1>7, DigitsEndIs DEF j, m

-----------------------------------------------------------------------------
(* Integers as they are formatted. *)

\* The last digit, and the number before it.
LEMMA LastDigit ==
    \A k \in Nat : /\ k \div 10 \in Nat /\ k % 10 \in 0 .. 9 /\ k = 10 * (k \div 10) + (k % 10)
                   /\ k < 10 => k % 10 = k /\ k \div 10 = 0
                   /\ ~(k < 10) => k \div 10 < k
  OBVIOUS

\* A digit more or less in what is formatted.
FormatStep(f, k) == IF k < 10 THEN <<Dec[k + 1]>> ELSE Append(f[k \div 10], Dec[(k % 10) + 1])

\* FormatInt is what its recursion says.
LEMMA FormatIs ==
    ASSUME NEW n \in Nat
    PROVE  \E f : /\ \A k \in 0 .. n : f[k] = FormatStep(f, k)
                 /\ Encoder!FormatInt(n) = f[n]
  <1> DEFINE Defines(f, m) == f = [k \in 0 .. m |-> FormatStep(f, k)]
             S == {m \in Nat : \E f : Defines(f, m)}
             format == CHOOSE f : Defines(f, n)
  <1>1. 0 \in S
    <2> DEFINE g == [k \in 0 .. 0 |-> <<Dec[k + 1]>>]
    <2>1. \A k \in 0 .. 0 : g[k] = FormatStep(g, k)
      BY DEF FormatStep
    <2>2. g = [k \in 0 .. 0 |-> g[k]]
      OBVIOUS
    <2> HIDE DEF g
    <2>3. Defines(g, 0)
      BY <2>1, <2>2
    <2> QED
      BY <2>3
  <1>2. ASSUME NEW m \in S
        PROVE  m + 1 \in S
    <2>1. m \in Nat
      OBVIOUS
    <2>2. PICK f : Defines(f, m)
      OBVIOUS
    <2> DEFINE g == [k \in 0 .. m + 1 |-> IF k <= m THEN f[k] ELSE FormatStep(f, k)]
    <2>3. \A k \in 0 .. m : f[k] = FormatStep(f, k)
      BY <2>2
    <2>4. g = [k \in 0 .. m + 1 |-> g[k]]
      OBVIOUS
    <2>5. \A k \in 0 .. m + 1 : g[k] = FormatStep(f, k)
      BY <2>1, <2>3
    <2>6. \A k \in 0 .. m : g[k] = f[k]
      BY <2>1
    <2> HIDE DEF g
    <2>7. \A k \in 0 .. m + 1 : g[k] = FormatStep(g, k)
      <3> TAKE k \in 0 .. m + 1
      <3> DEFINE q == k \div 10
      <3>1. ~(k < 10) => q \in 0 .. m
        BY <2>1, LastDigit
      <3> HIDE DEF q
      <3>2. ~(k < 10) => g[q] = f[q]
        BY <2>6, <3>1
      <3> QED
        BY <2>5, <3>2 DEF FormatStep, q
    <2>8. Defines(g, m + 1)
      BY <2>4, <2>7
    <2>9. m + 1 \in Nat
      BY <2>1
    <2> HIDE DEF Defines
    <2> QED
      BY <2>8, <2>9
  <1>3. S = Nat
    <2> HIDE DEF S
    <2>1. S \subseteq Nat
      BY DEF S
    <2> QED
      BY <1>1, <1>2, <2>1, AllNumbers
  <1>4. \E f : Defines(f, n)
    BY <1>3
  <1>5. Encoder!FormatInt(n) = format[n]
    BY DEF Encoder!FormatInt, Encoder!Digit, Dec, FormatStep
  <1>6. Defines(format, n)
    <2> HIDE DEF Defines
    <2> QED
      BY <1>4
  <1> HIDE DEF format
  <1> QED
    BY <1>5, <1>6

\* One more digit at the end.
LEMMA DecimalAppend ==
    ASSUME NEW ds \in Seq(Nat), NEW d \in Nat
    PROVE  Decimal(Append(ds, d)) = 10 * Decimal(ds) + d
  <1> DEFINE n == Len(ds)
             es == Append(ds, d)
  <1>1. /\ n \in Nat /\ Len(es) = n + 1 /\ es[n + 1] = d /\ Len(es) \in Nat
        /\ \A k \in 1 .. n : es[k] = ds[k]
    OBVIOUS
  <1>2. PICK f : /\ \A k \in 0 .. n : f[k] = IF k = 0 THEN 0 ELSE 10 * f[k - 1] + ds[k]
                 /\ Decimal(ds) = f[n]
    BY <1>1, DecimalIs
  <1> HIDE DEF es
  <1>3. PICK g : /\ \A k \in 0 .. Len(es) : g[k] = IF k = 0 THEN 0 ELSE 10 * g[k - 1] + es[k]
                 /\ Decimal(es) = g[Len(es)]
    BY <1>1, DecimalIs
  <1> HIDE DEF n
  <1> DEFINE S == {k \in Nat : k <= n => g[k] = f[k]}
  <1>4. 0 \in S
    BY <1>1, <1>2, <1>3
  <1>5. ASSUME NEW k \in S
        PROVE  k + 1 \in S
    <2> SUFFICES ASSUME k + 1 <= n PROVE g[k + 1] = f[k + 1]
      OBVIOUS
    <2>1. k \in Nat /\ g[k] = f[k] /\ k + 1 \in 1 .. n /\ k + 1 \in 0 .. n + 1 /\ k + 1 - 1 = k /\ k + 1 # 0
      BY <1>1
    <2>2. g[k + 1] = 10 * g[k] + es[k + 1]
      BY <1>1, <1>3, <2>1
    <2>3. f[k + 1] = 10 * f[k] + ds[k + 1]
      BY <1>1, <1>2, <2>1
    <2>4. es[k + 1] = ds[k + 1]
      BY <1>1, <2>1
    <2> QED
      BY <2>1, <2>2, <2>3, <2>4
  <1>6. S = Nat
    <2> HIDE DEF S
    <2>1. S \subseteq Nat
      BY DEF S
    <2> QED
      BY <1>4, <1>5, <2>1, AllNumbers
  <1>7. g[n] = f[n]
    BY <1>1, <1>6
  <1>8. g[n + 1] = 10 * g[n] + es[n + 1]
    <2>1. n + 1 \in 0 .. Len(es) /\ n + 1 # 0 /\ n + 1 - 1 = n
      BY <1>1
    <2> QED
      BY <1>1, <1>3, <2>1
  <1> QED
    BY <1>1, <1>2, <1>3, <1>7, <1>8 DEF es

\* The ten digits.
LEMMA TenDigits ==
    /\ DOMAIN Dec = 1 .. 10
    /\ \A d \in 0 .. 9 : Dec[d + 1] \in DigitByte /\ DigitOf(Dec[d + 1]) = d
    /\ DigitByte \subseteq Byte
    /\ \A b \in DigitByte : DigitOf(b) \in Nat
    /\ ":" \in Byte \ DigitByte /\ "e" \in Byte \ DigitByte /\ "i" \in Byte \ DigitByte
    /\ "-" \in Byte \ DigitByte /\ "l" \in Byte \ DigitByte /\ " " \in Byte /\ "d" \in Byte
  <1>1. DOMAIN Dec = 1 .. 10 /\ ToSet(Dec) = {Dec[d] : d \in 1 .. 10}
    BY DEF Dec, ToSet
  <1>2. \A d, e \in 1 .. 10 : Dec[d] = Dec[e] => d = e
    BY DEF Dec
  <1>3. \A d \in 1 .. 10 : Dec[d] \notin {":", "e", "i", "-", "l"}
    BY DEF Dec
  <1>4. DigitByte = {Dec[d] : d \in 1 .. 10} /\ DigitByte \subseteq Byte
    BY <1>1, CodecAssumption DEF DigitByte
  <1>5. ASSUME NEW n \in 1 .. 10
        PROVE  DigitOf(Dec[n]) = n - 1
    <2> DEFINE c == CHOOSE d \in 1 .. 10 : Dec[d] = Dec[n]
    <2>1. c \in 1 .. 10 /\ Dec[c] = Dec[n]
      OBVIOUS
    <2>2. DigitOf(Dec[n]) = c - 1
      BY DEF DigitOf
    <2> HIDE DEF c
    <2> QED
      BY <1>2, <2>1, <2>2
  <1>6. ASSUME NEW d \in 0 .. 9
        PROVE  Dec[d + 1] \in DigitByte /\ DigitOf(Dec[d + 1]) = d
    <2> DEFINE n == d + 1
    <2>1. n \in 1 .. 10 /\ n - 1 = d
      OBVIOUS
    <2> HIDE DEF n
    <2>2. Dec[n] \in DigitByte /\ DigitOf(Dec[n]) = d
      BY <1>4, <1>5, <2>1
    <2> QED
      BY <2>2 DEF n
  <1>7. \A b \in DigitByte : DigitOf(b) \in Nat
    BY <1>4, <1>5
  <1>8. {":", "e", "i", "-", "l", " ", "d"} \subseteq Byte
    BY CodecAssumption
  <1> QED
    BY <1>1, <1>3, <1>4, <1>6, <1>7, <1>8

\* The digits of bytes, and of one byte more.
LEMMA DigitsAppend ==
    ASSUME NEW ds \in Seq(DigitByte)
    PROVE  /\ Digits(ds) \in Seq(Nat) /\ Len(Digits(ds)) = Len(ds)
           /\ \A b \in DigitByte : Digits(Append(ds, b)) = Append(Digits(ds), DigitOf(b))
  <1> DEFINE n == Len(ds)
  <1>1. n \in Nat /\ DOMAIN ds = 1 .. n /\ \A k \in 1 .. n : ds[k] \in DigitByte
    OBVIOUS
  <1> HIDE DEF n
  <1>2. Digits(ds) = [k \in 1 .. n |-> DigitOf(ds[k])]
    BY <1>1 DEF Digits
  <1>3. Digits(ds) \in Seq(Nat) /\ Len(Digits(ds)) = n
    <2> DEFINE d == Digits(ds)
    <2>1. n \in Nat /\ d \in [1 .. n -> Nat]
      BY <1>1, <1>2, TenDigits
    <2> HIDE DEF d
    <2>2. d \in Seq(Nat) /\ Len(d) = n
      BY <2>1
    <2> QED
      BY <2>2 DEF d
  <1>4. ASSUME NEW b \in DigitByte
        PROVE  Digits(Append(ds, b)) = Append(Digits(ds), DigitOf(b))
    <2> DEFINE es == Append(ds, b)
               d == DigitOf(b)
               x == Digits(es)
               y == Append(Digits(ds), d)
    <2>1. Len(es) = n + 1 /\ DOMAIN es = 1 .. n + 1 /\ es[n + 1] = b /\ \A k \in 1 .. n : es[k] = ds[k]
      BY <1>1 DEF n
    <2>2. d \in Nat
      BY TenDigits
    <2>3. x = [k \in 1 .. n + 1 |-> DigitOf(es[k])]
      BY <2>1 DEF Digits
    <2> HIDE DEF es
    <2>4. x[n + 1] = d /\ \A k \in 1 .. n : x[k] = DigitOf(ds[k])
      BY <1>1, <2>1, <2>3
    <2> HIDE DEF d
    <2>5. y \in Seq(Nat) /\ Len(y) = n + 1 /\ y[n + 1] = d /\ \A k \in 1 .. n : y[k] = DigitOf(ds[k])
      <3> DEFINE z == Digits(ds)
      <3>1. z \in Seq(Nat) /\ Len(z) = n /\ \A k \in 1 .. n : z[k] = DigitOf(ds[k])
        BY <1>2, <1>3
      <3> HIDE DEF z
      <3>2. Append(z, d) \in Seq(Nat) /\ Len(Append(z, d)) = n + 1 /\ Append(z, d)[n + 1] = d
            /\ \A k \in 1 .. n : Append(z, d)[k] = z[k]
        BY <1>1, <2>2, <3>1
      <3> QED
        BY <3>1, <3>2 DEF z
    <2> HIDE DEF y
    <2>6. DOMAIN x = 1 .. n + 1 /\ x = [k \in 1 .. n + 1 |-> x[k]]
      BY <2>3
    <2>7. y = [k \in 1 .. n + 1 |-> y[k]]
      BY <2>5
    <2> HIDE DEF x
    <2>8. \A k \in 1 .. n + 1 : x[k] = y[k]
      BY <1>1, <2>4, <2>5
    <2> QED
      BY <2>6, <2>7, <2>8 DEF x, y, es, d
  <1> QED
    BY <1>3, <1>4 DEF n

\* What is formatted are digits, and the number they write is the number.
LEMMA FormattedIs ==
    ASSUME NEW n \in Nat
    PROVE  /\ Encoder!FormatInt(n) \in Seq(DigitByte) /\ Len(Encoder!FormatInt(n)) > 0
           /\ Decimal(Digits(Encoder!FormatInt(n))) = n
  <1>1. PICK f : /\ \A k \in 0 .. n : f[k] = FormatStep(f, k)
                 /\ Encoder!FormatInt(n) = f[n]
    BY FormatIs
  <1>2. Decimal(<<>>) = 0
    <2>1. Len(<<>>) = 0 /\ 0 \in Nat /\ 0 \in 0 .. 0
      OBVIOUS
    <2> QED
      BY <2>1, DecimalIs
  <1> DEFINE P(k) == f[k] \in Seq(DigitByte) /\ Len(f[k]) > 0 /\ Decimal(Digits(f[k])) = k
             S == {m \in Nat : \A k \in 0 .. m : k <= n => P(k)}
  <1>3. ASSUME NEW ds \in Seq(DigitByte), NEW d \in 0 .. 9
        PROVE  LET es == Append(ds, Dec[d + 1])
               IN  es \in Seq(DigitByte) /\ Len(es) > 0 /\ Decimal(Digits(es)) = 10 * Decimal(Digits(ds)) + d
    <2> DEFINE b == Dec[d + 1]
    <2>1. b \in DigitByte /\ DigitOf(b) = d /\ d \in Nat
      BY TenDigits
    <2> HIDE DEF b
    <2>2. Append(ds, b) \in Seq(DigitByte) /\ Len(Append(ds, b)) > 0
      BY <2>1
    <2>3. Digits(ds) \in Seq(Nat) /\ Digits(Append(ds, b)) = Append(Digits(ds), d)
      BY <2>1, DigitsAppend
    <2>4. Decimal(Append(Digits(ds), d)) = 10 * Decimal(Digits(ds)) + d
      BY <2>1, <2>3, DecimalAppend
    <2> QED
      BY <2>2, <2>3, <2>4 DEF b
  <1>4. ASSUME NEW k \in 0 .. n, k < 10
        PROVE  P(k)
    <2>1. f[k] = <<Dec[k + 1]>> /\ k \in 0 .. 9
      <3>1. f[k] = FormatStep(f, k)
        BY <1>1
      <3> QED
        BY <1>4, <3>1 DEF FormatStep
    <2>2. f[k] = Append(<<>>, Dec[k + 1]) /\ <<>> \in Seq(DigitByte)
      BY <2>1
    <2>3. Digits(<<>>) = <<>>
      BY DEF Digits
    <2>4. Decimal(Digits(<<>>)) = 0 /\ 10 * 0 + k = k
      BY <1>2, <2>1, <2>3
    <2> QED
      BY <1>3, <2>1, <2>2, <2>4
  <1>5. ASSUME NEW k \in 0 .. n, ~(k < 10), P(k \div 10)
        PROVE  P(k)
    <2>1. f[k] = Append(f[k \div 10], Dec[(k % 10) + 1])
      <3>1. f[k] = FormatStep(f, k)
        BY <1>1
      <3> QED
        BY <1>5, <3>1 DEF FormatStep
    <2> DEFINE q == k \div 10
               d == k % 10
    <2>2. q \in Nat /\ d \in 0 .. 9 /\ k = 10 * q + d
      BY LastDigit
    <2>3. f[q] \in Seq(DigitByte) /\ Decimal(Digits(f[q])) = q /\ f[k] = Append(f[q], Dec[d + 1])
      BY <1>5, <2>1
    <2> HIDE DEF q, d
    <2>4. f[k] \in Seq(DigitByte) /\ Len(f[k]) > 0 /\ Decimal(Digits(f[k])) = 10 * q + d
      BY <1>3, <2>2, <2>3
    <2> QED
      BY <2>2, <2>4
  <1> HIDE DEF P
  <1>6. 0 \in S
    BY <1>4
  <1>7. ASSUME NEW m \in S
        PROVE  m + 1 \in S
    <2> SUFFICES ASSUME NEW k \in 0 .. m + 1, k <= n PROVE P(k)
      OBVIOUS
    <2>1. m \in Nat /\ k \in 0 .. n /\ \A j \in 0 .. m : j <= n => P(j)
      OBVIOUS
    <2>2. CASE k < 10
      BY <1>4, <2>1, <2>2
    <2>3. CASE ~(k < 10)
      <3> DEFINE q == k \div 10
      <3>1. q \in Nat /\ q < k
        BY <2>1, <2>3, LastDigit
      <3> HIDE DEF q
      <3>2. q \in 0 .. m /\ q <= n
        BY <2>1, <3>1
      <3>3. P(q)
        BY <2>1, <3>2
      <3> QED
        BY <1>5, <2>1, <2>3, <3>3 DEF q
    <2> QED
      BY <2>2, <2>3
  <1>8. S = Nat
    <2> HIDE DEF S
    <2>1. S \subseteq Nat
      BY DEF S
    <2> QED
      BY <1>6, <1>7, <2>1, AllNumbers
  <1>9. P(n)
    BY <1>8
  <1> QED
    BY <1>1, <1>9 DEF P

-----------------------------------------------------------------------------
(* An integer or a string that is written, and what the parsers make of it. *)

\* A sequence of one byte.
LEMMA OneByte ==
    \A b \in Byte : <<b>> \in Seq(Byte) /\ Len(<<b>>) = 1
  OBVIOUS

\* A negative number has a sign and its digits.
LEMMA FormattedNegative ==
    ASSUME NEW n \in Int, n < 0
    PROVE  \E m \in Nat : Encoder!FormatInt(n) = <<"-">> \o Encoder!FormatInt(m)
  <1> DEFINE F(s) == LET format[k \in 0 .. s] == IF k < 10 THEN <<Encoder!Digit[k + 1]>>
                                                ELSE Append(format[k \div 10], Encoder!Digit[(k % 10) + 1])
                     IN  format[s]
             m == -n
  <1>1. m \in Nat
    OBVIOUS
  <1>2. Encoder!FormatInt(n) = IF n < 0 THEN <<"-">> \o F(IF n < 0 THEN -n ELSE n) ELSE F(IF n < 0 THEN -n ELSE n)
    BY Zenon DEF Encoder!FormatInt
  <1>3. Encoder!FormatInt(m) = IF m < 0 THEN <<"-">> \o F(IF m < 0 THEN -m ELSE m) ELSE F(IF m < 0 THEN -m ELSE m)
    BY Zenon DEF Encoder!FormatInt
  <1> HIDE DEF F
  <1>4. Encoder!FormatInt(n) = <<"-">> \o F(m)
    BY <1>2
  <1> HIDE DEF m
  <1>5. Encoder!FormatInt(m) = F(m)
    BY <1>1, <1>3
  <1> QED
    BY <1>1, <1>4, <1>5

\* How long three in a row are.
LEMMA LenThree ==
    \A a, b, c \in Seq(Byte) : Len(a \o b \o c) = Len(a) + Len(b) + Len(c)
  OBVIOUS

\* Three in a row.
LEMMA MatchesThree ==
    ASSUME TypeOK, NEW a \in Seq(Byte), NEW b \in Seq(Byte), NEW c \in Seq(Byte), NEW i \in Pos,
           NEW cs, cs = a \o b \o c, Matches(cs, i)
    PROVE  /\ Len(a) \in Nat /\ Len(b) \in Nat /\ Len(c) \in Nat
           /\ Matches(a, i) /\ i + Len(a) \in Pos
           /\ Matches(b, i + Len(a)) /\ i + Len(a) + Len(b) \in Pos
           /\ Matches(c, i + Len(a) + Len(b)) /\ i + Len(a) + Len(b) + Len(c) \in Pos
  <1> DEFINE ab == a \o b
             j == i + Len(a)
             k == j + Len(b)
  <1>1. ab \in Seq(Byte)
    OBVIOUS
  <1>2. /\ Len(ab) = Len(a) + Len(b) /\ Len(a) \in Nat /\ Len(b) \in Nat
        /\ Matches(ab, i) <=> Matches(a, i) /\ Matches(b, j)
        /\ Matches(a, i) => j \in Pos
    BY MatchesSplit
  <1> HIDE DEF ab
  <1>3. /\ Len(ab \o c) = Len(ab) + Len(c) /\ Len(c) \in Nat
        /\ Matches(ab, i) /\ Matches(c, i + Len(ab)) /\ i + Len(ab) \in Pos
    <2>1. Matches(ab \o c, i)
      BY DEF ab
    <2> QED
      BY <1>1, <2>1, MatchesSplit
  <1>4. i \in Nat
    BY InputIs
  <1>5. k = i + Len(ab)
    BY <1>2, <1>4
  <1>6. k \in Pos /\ Matches(c, k) /\ Matches(a, i) /\ Matches(b, j) /\ j \in Pos
    BY <1>2, <1>3, <1>5
  <1> HIDE DEF j, k
  <1>7. k + Len(c) \in Pos
    <2>1. Len(c \o <<>>) = Len(c) + Len(<<>>) /\ (Matches(c, k) => k + Len(c) \in Pos)
      <3>1. <<>> \in Seq(Byte)
        OBVIOUS
      <3> QED
        BY <1>6, <3>1, MatchesSplit
    <2> QED
      BY <1>6, <2>1
  <1> QED
    BY <1>2, <1>3, <1>6, <1>7 DEF j, k

\* What is written of an integer and of a string.
WrittenInt(n) == <<"i">> \o Encoder!FormatInt(n) \o <<"e">>

WrittenString(s) == Encoder!FormatInt(Len(s)) \o <<":">> \o s

\* The number of what stands between i and e.
LEMMA IntStands ==
    ASSUME TypeOK, NEW n \in Nat, NEW i \in Pos, Matches(WrittenInt(n), i)
    PROVE  BencInt[i] = Ok(IF n > MaxInt THEN MaxInt ELSE n, i + Len(WrittenInt(n)))
  <1> DEFINE cs == WrittenInt(n)
             ds == Encoder!FormatInt(n)
             j == i + 1
             e == j + Len(ds)
  <1>1. ds \in Seq(DigitByte) /\ Len(ds) > 0 /\ Len(ds) \in Nat /\ Decimal(Digits(ds)) = n
    BY FormattedIs
  <1>2. /\ "i" \in Byte /\ "e" \in Byte \ DigitByte /\ DigitByte \subseteq Byte
        /\ <<"i">> \in Seq(Byte) /\ <<"e">> \in Seq(Byte)
    BY TenDigits, OneByte
  <1>3. ds \in Seq(Byte)
    BY <1>1, <1>2
  <1>4. End \in Nat /\ Pos = 1 .. End /\ MaxInt \in Nat /\ i \in Nat
    BY InputIs DEF TypeOK
  <1> HIDE DEF ds
  <1>5. /\ Matches(<<"i">>, i) /\ j \in Pos /\ Matches(ds, j) /\ e \in Pos /\ Matches(<<"e">>, e)
        /\ e + 1 = i + Len(cs)
    <2> DEFINE a == <<"i">>
               c == <<"e">>
    <2>1. Len(a) = 1 /\ Len(c) = 1 /\ a \in Seq(Byte) /\ c \in Seq(Byte) /\ cs = a \o ds \o c /\ Matches(cs, i)
      BY <1>2 DEF ds, WrittenInt
    <2> HIDE DEF a, c, cs
    <2>2. /\ Len(cs) = Len(a) + Len(ds) + Len(c)
          /\ Matches(a, i) /\ i + Len(a) \in Pos
          /\ Matches(ds, i + Len(a)) /\ i + Len(a) + Len(ds) \in Pos
          /\ Matches(c, i + Len(a) + Len(ds))
      <3>1. Len(cs) = Len(a) + Len(ds) + Len(c)
        <4>1. Len(a \o ds \o c) = Len(a) + Len(ds) + Len(c)
          BY <1>3, <2>1, LenThree, Zenon
        <4> QED
          BY <2>1, <4>1, Zenon
      <3>2. /\ Matches(a, i) /\ i + Len(a) \in Pos
            /\ Matches(ds, i + Len(a)) /\ i + Len(a) + Len(ds) \in Pos
            /\ Matches(c, i + Len(a) + Len(ds))
        BY <1>3, <2>1, MatchesThree
      <3> QED
        BY <3>1, <3>2
    <2>3. e + 1 = i + Len(cs)
      <3> DEFINE n1 == Len(ds)
                 n2 == Len(cs)
      <3>1. n1 \in Nat /\ n2 = 1 + n1 + 1 /\ e = j + n1
        BY <1>1, <2>1, <2>2
      <3> HIDE DEF n1, n2, e
      <3>2. e + 1 = i + n2
        BY <1>4, <3>1
      <3> QED
        BY <3>2 DEF n2
    <2> QED
      BY <2>1, <2>2, <2>3 DEF a, c, cs
  <1>6. Car(i) = "i" /\ i # End /\ Car(e) = "e" /\ e # End
    BY <1>2, <1>5, MatchesByte
  <1>7. DigitsEnd(j) = e /\ Bytes(j, e) = ds
    BY <1>1, <1>2, <1>5, <1>6, NumberStands
  <1>8. j < End /\ e > j
    BY <1>1, <1>4, <1>5, <1>6
  <1> HIDE DEF e
  <1>9. BencInt[i] = Ok(ParseInt(ds), e + 1)
    BY <1>6, <1>7, <1>8, BencIntIs
  <1>10. ParseInt(ds) = IF n > MaxInt THEN MaxInt ELSE n
    <2>1. ParseInt(ds) = Min({n, MaxInt})
      BY <1>1 DEF ParseInt
    <2> QED
      BY <1>4, <2>1, SmallerIs
  <1> QED
    BY <1>5, <1>9, <1>10

\* A sign is no digit.
LEMMA NegativeStands ==
    ASSUME TypeOK, NEW n \in Int, n < 0, NEW i \in Pos, Matches(WrittenInt(n), i)
    PROVE  Refuses(BencInt[i])
  <1>1. PICK m \in Nat : Encoder!FormatInt(n) = <<"-">> \o Encoder!FormatInt(m)
    BY FormattedNegative
  <1> DEFINE ds == Encoder!FormatInt(m)
             cs == WrittenInt(n)
             a == <<"i">>
             b == <<"-">>
             c == <<"e">>
  <1>2. ds \in Seq(DigitByte)
    BY FormattedIs
  <1>3. /\ "i" \in Byte /\ "e" \in Byte /\ "-" \in Byte \ DigitByte /\ DigitByte \subseteq Byte
        /\ a \in Seq(Byte) /\ b \in Seq(Byte) /\ c \in Seq(Byte) /\ Len(a) = 1
    BY TenDigits, OneByte
  <1>4. ds \in Seq(Byte)
    BY <1>2, <1>3
  <1>5. cs = a \o (b \o ds) \o c
    BY <1>1 DEF WrittenInt
  <1> HIDE DEF ds, a, b, c, cs
  <1>6. b \o ds \in Seq(Byte)
    BY <1>3, <1>4
  <1>7. Matches(b \o ds, i + 1) /\ i + 1 \in Pos
    <2> DEFINE d == b \o ds
    <2>1. d \in Seq(Byte) /\ cs = a \o d \o c /\ Matches(cs, i)
      BY <1>5, <1>6 DEF cs
    <2> HIDE DEF d
    <2>2. Matches(d, i + Len(a)) /\ i + Len(a) \in Pos
      BY <1>3, <2>1, MatchesThree
    <2> QED
      BY <1>3, <2>2 DEF d
  <1>8. Matches(b, i + 1)
    BY <1>3, <1>4, <1>7, MatchesSplit
  <1>9. i + 1 # End /\ Car(i + 1) = "-"
    BY <1>3, <1>7, <1>8, MatchesByte DEF b
  <1>10. DigitsEnd(i + 1) = i + 1
    BY <1>3, <1>7, <1>9, NoDigitsAt
  <1>11. ~(DigitsEnd(i + 1) > i + 1)
    <2>1. i \in Nat
      BY InputIs
    <2> QED
      BY <1>10, <2>1
  <1>12. BencInt[i].err = "Unmatched"
    BY <1>11, BencIntIs
  <1> QED
    BY <1>12 DEF Refuses, Failed, Ends

\* A length, a colon and so many bytes are read as the bytes, and a length of zero
\* is refused.
LEMMA StringStands ==
    ASSUME TypeOK, NEW s \in Seq(Byte), Len(s) <= MaxInt, NEW i \in Pos, Matches(WrittenString(s), i)
    PROVE  IF s # <<>> THEN BencStr[i] = Ok(s, i + Len(WrittenString(s))) ELSE Refuses(BencStr[i])
  <1> DEFINE n == Len(s)
             ds == Encoder!FormatInt(n)
             cs == WrittenString(s)
             b == <<":">>
             colon == i + Len(ds)
             from == colon + 1
  <1>1. n \in Nat /\ (s = <<>> <=> n = 0) /\ n <= MaxInt /\ MaxInt \in Nat
    BY DEF TypeOK
  <1>2. ds \in Seq(DigitByte) /\ Len(ds) > 0 /\ Len(ds) \in Nat /\ Decimal(Digits(ds)) = n
    <2> HIDE DEF n
    <2>1. ds \in Seq(DigitByte) /\ Len(ds) > 0 /\ Decimal(Digits(ds)) = n
      BY <1>1, FormattedIs
    <2> HIDE DEF ds
    <2>2. Len(ds) \in Nat
      BY <2>1
    <2> QED
      BY <2>1, <2>2
  <1>3. /\ ":" \in Byte \ DigitByte /\ "-" \in Byte \ DigitByte /\ DigitByte \subseteq Byte
        /\ b \in Seq(Byte) /\ Len(b) = 1
    BY TenDigits, OneByte
  <1>4. End \in Nat /\ Pos = 1 .. End /\ i \in Nat
    BY InputIs
  <1>5. cs = ds \o b \o s /\ Matches(cs, i)
    BY DEF WrittenString
  <1> HIDE DEF ds, b, cs
  <1>6. ds \in Seq(Byte)
    BY <1>2, <1>3
  <1>7. /\ Matches(ds, i) /\ colon \in Pos
        /\ Matches(b, colon) /\ from \in Pos
        /\ Matches(s, from) /\ from + n \in Pos
    BY <1>3, <1>5, <1>6, MatchesThree
  <1>8. i + Len(cs) = from + n
    <2>1. Len(ds \o b \o s) = Len(ds) + Len(b) + Len(s)
      BY <1>3, <1>6, LenThree, Zenon
    <2> DEFINE x == Len(ds)
               y == Len(cs)
    <2>2. y = x + 1 + n /\ x \in Nat /\ from = i + x + 1
      BY <1>2, <1>3, <1>5, <2>1
    <2> HIDE DEF x, y, from, n
    <2>3. i + y = from + n
      BY <1>1, <1>4, <2>2
    <2> QED
      BY <2>3 DEF y
  <1>9. Car(colon) = ":" /\ colon # End
    BY <1>3, <1>7, MatchesByte DEF b
  <1>10. DigitsEnd(i) = colon /\ Bytes(i, colon) = ds
    BY <1>2, <1>3, <1>7, <1>9, NumberStands
  <1>11. Bytes(from, from + n) = s
    BY <1>7, BytesStand
  <1>12. i # End /\ Car(i) # "-"
    <2>1. Car(i) = ds[1] /\ ds[1] \in DigitByte /\ i # End
      <3>1. 1 \in 1 .. Len(ds) /\ i + 1 - 1 = i /\ i + Len(ds) <= End
        BY <1>2, <1>4, <1>7 DEF Matches
      <3>2. Car(i) = ds[1] /\ i # End
        BY <1>2, <1>4, <1>7, <3>1 DEF Matches
      <3> QED
        BY <1>2, <3>1, <3>2
    <2> QED
      BY <1>3, <2>1
  <1>13. FitsAt(i)
    BY <1>1, <1>2, <1>10 DEF FitsAt
  <1> HIDE DEF n
  <1>14. IF n > 0 /\ colon + n < End /\ Car(colon) = ":"
           THEN BencStr[i] = Ok(Bytes(from, colon + n + 1), colon + n + 1)
           ELSE Refuses(BencStr[i])
    <2> HIDE DEF from
    <2>1. LET c == DigitsEnd(i)
              k == Decimal(Digits(Bytes(i, c)))
          IN  IF k > 0 /\ c + k < End /\ Car(c) = ":"
                THEN BencStr[i] = Ok(Bytes(c + 1, c + k + 1), c + k + 1)
                ELSE Refuses(BencStr[i])
      BY <1>12, <1>13, StringIs
    <2> HIDE DEF colon
    <2> QED
      BY <1>2, <1>10, <2>1 DEF from
  <1> HIDE DEF colon
  <1>15. colon \in Nat /\ colon + n + 1 = from + n /\ (n > 0 => colon + n < End)
    BY <1>1, <1>4, <1>7
  <1> HIDE DEF from
  <1>16. CASE n > 0
    <2>1. BencStr[i] = Ok(s, from + n)
      BY <1>9, <1>11, <1>14, <1>15, <1>16
    <2> QED
      BY <1>1, <1>8, <1>16, <2>1 DEF cs
  <1>17. CASE ~(n > 0)
    <2>1. Refuses(BencStr[i])
      BY <1>14, <1>17
    <2> QED
      BY <1>1, <1>17, <2>1
  <1> QED
    BY <1>16, <1>17

-----------------------------------------------------------------------------
(* Elements in a row, and a list of them. *)

\* What is left of a sequence, from its end to its beginning.
LEMMA SuffixIs ==
    ASSUME NEW V, NEW v \in Seq(V), NEW n, n = Len(v)
    PROVE  /\ SubSeq(v, n + 1, n) = <<>>
           /\ \A k \in 1 .. n : <<v[k]>> \o SubSeq(v, k + 1, n) = SubSeq(v, k, n)
           /\ SubSeq(v, 1, n) = v
  <1>1. n \in Nat /\ \A k \in 1 .. n : v[k] \in V
    OBVIOUS
  <1>2. ASSUME NEW k \in 1 .. n
        PROVE  <<v[k]>> \o SubSeq(v, k + 1, n) = SubSeq(v, k, n)
    <2> DEFINE a == <<v[k]>>
               b == SubSeq(v, k + 1, n)
               c == SubSeq(v, k, n)
               d == a \o b
    <2>1. a \in Seq(V) /\ Len(a) = 1 /\ a[1] = v[k]
      BY <1>1
    <2>2. b \in Seq(V) /\ Len(b) = n - k /\ \A j \in 1 .. n - k : b[j] = v[k + j]
      BY <1>1
    <2>3. c \in Seq(V) /\ Len(c) = n - k + 1 /\ \A j \in 1 .. n - k + 1 : c[j] = v[k + j - 1]
      BY <1>1
    <2> HIDE DEF a, b, c
    <2>4. /\ d \in Seq(V) /\ Len(d) = n - k + 1
          /\ d[1] = a[1] /\ \A j \in 1 .. n - k : d[1 + j] = b[j]
      <3>1. /\ d \in Seq(V) /\ Len(d) = Len(a) + Len(b)
            /\ \A j \in 1 .. Len(a) + Len(b) : d[j] = IF j <= Len(a) THEN a[j] ELSE b[j - Len(a)]
        BY <2>1, <2>2, ConcatProperties
      <3> HIDE DEF d
      <3>2. /\ d \in Seq(V) /\ Len(d) = n - k + 1
            /\ \A j \in 1 .. n - k + 1 : d[j] = IF j <= 1 THEN a[j] ELSE b[j - 1]
        BY <1>1, <2>1, <2>2, <3>1
      <3>3. \A j \in 1 .. n - k : 1 + j \in 1 .. n - k + 1 /\ ~(1 + j <= 1) /\ 1 + j - 1 = j
        BY <1>1
      <3> QED
        BY <1>1, <3>2, <3>3
    <2> HIDE DEF d
    <2>5. \A j \in 1 .. n - k + 1 : d[j] = c[j]
      <3> TAKE j \in 1 .. n - k + 1
      <3>1. CASE j = 1
        BY <1>1, <2>1, <2>3, <2>4, <3>1
      <3>2. CASE j # 1
        <4> DEFINE x == j - 1
        <4>1. x \in 1 .. n - k /\ 1 + x = j /\ k + x = k + j - 1
          BY <1>1, <3>2
        <4> HIDE DEF x
        <4> QED
          BY <2>2, <2>3, <2>4, <4>1
      <3> QED
        BY <3>1, <3>2
    <2>6. d = c
      BY <1>1, <2>3, <2>4, <2>5
    <2> QED
      BY <2>6 DEF a, b, c, d
  <1>3. SubSeq(v, n + 1, n) = <<>>
    BY <1>1
  <1>4. SubSeq(v, 1, n) = v
    OBVIOUS
  <1> QED
    BY <1>2, <1>3, <1>4

\* From one position to the next p takes the elements one after the other, and
\* then none.
TakesInTurn(p, v, at) ==
    /\ \A k \in 1 .. Len(v) + 1 : at[k] \in Pos /\ at[k] # End
    /\ \A k \in 1 .. Len(v) : p[at[k]] = Ok(v[k], at[k + 1]) /\ at[k + 1] # at[k]
    /\ Refuses(p[at[Len(v) + 1]]) /\ p[at[Len(v) + 1]].at = at[Len(v) + 1]

\* Elements one after the other, and then none, are taken by Many0.
LEMMA ManyStands ==
    ASSUME TypeOK, NEW p, IsParser(p), NEW V, NEW v \in Seq(V), NEW n \in Nat, Len(v) = n, NEW at,
           TakesInTurn(p, v, at)
    PROVE  Many0(p)[at[1]] = Ok(v, at[n + 1])
  <1> DEFINE m == Many0(p)
             e == at[n + 1]
  <1>1. /\ \A i \in Pos : m[i] = ManyStep(p, i, m[p[i].at])
        /\ \A i \in Pos : (Empty(i) <=> i = End)
    BY InputIs, Many0Recursion
  <1>2. /\ n \in Nat
        /\ \A k \in 1 .. n + 1 : at[k] \in Pos /\ at[k] # End
        /\ \A k \in 1 .. n : p[at[k]] = Ok(v[k], at[k + 1]) /\ at[k + 1] # at[k]
        /\ Refuses(p[e]) /\ p[e].at = e
    BY DEF TakesInTurn
  <1>3. \A w, x : ~Failed(Ok(w, x)) /\ ~Ends(Ok(w, x)) /\ Ok(w, x).at = x /\ Ok(w, x).val = w
    BY DEF Ok, Failed, Ends
  <1> HIDE DEF m
  <1>4. m[e] = Ok(<<>>, e)
    <2>1. e \in Pos /\ e # End
      BY <1>2
    <2>2. Failed(p[e]) /\ ~Ends(p[e]) /\ p[e].at = e
      BY <1>2 DEF Refuses
    <2> HIDE DEF e
    <2>3. m[e] = ManyStep(p, e, m[p[e].at])
      BY <1>1, <2>1
    <2>4. m[e] = Ok(<<>>, Kept(e, p[e].at))
      BY <1>1, <2>1, <2>2, <2>3 DEF ManyStep
    <2> QED
      BY <2>2, <2>4 DEF Kept
  <1>5. ASSUME NEW k \in 1 .. n, NEW w, m[at[k + 1]] = Ok(w, e)
        PROVE  m[at[k]] = Ok(<<v[k]>> \o w, e)
    <2> DEFINE i == at[k]
               j == at[k + 1]
               r == p[i]
    <2>1. i \in Pos /\ i # End /\ r = Ok(v[k], j) /\ j # i
      BY <1>2
    <2> HIDE DEF e, j, r
    <2>2. ~Failed(r) /\ ~Ends(r) /\ r.at = j /\ r.val = v[k]
      BY <1>3, <2>1
    <2>3. m[i] = ManyStep(p, i, m[r.at])
      BY <1>1, <2>1 DEF r
    <2>4. m[i] = Prepend(r.val, m[j])
      BY <1>1, <2>1, <2>2, <2>3 DEF ManyStep, r
    <2>5. m[j] = Ok(w, e)
      BY <1>5 DEF j
    <2>6. ~Failed(m[j]) /\ m[j].val = w
      BY <1>3, <2>5
    <2> DEFINE w1 == <<v[k]>> \o w
    <2>7. m[i] = [m[j] EXCEPT !.val = w1]
      BY <2>2, <2>4, <2>6 DEF Prepend
    <2> HIDE DEF w1
    <2>8. m[i] = Ok(w1, e)
      BY <2>5, <2>7 DEF Ok
    <2> QED
      BY <2>8 DEF w1
  <1> DEFINE S == {x \in Nat : x <= n => m[at[n + 1 - x]] = Ok(SubSeq(v, n + 1 - x, n), e)}
  <1>6. /\ SubSeq(v, n + 1, n) = <<>>
        /\ \A k \in 1 .. n : <<v[k]>> \o SubSeq(v, k + 1, n) = SubSeq(v, k, n)
        /\ SubSeq(v, 1, n) = v
    BY SuffixIs
  <1>7. 0 \in S
    <2>1. n + 1 - 0 = n + 1
      BY <1>2
    <2> QED
      BY <1>4, <1>6, <2>1
  <1>8. ASSUME NEW x \in S
        PROVE  x + 1 \in S
    <2> SUFFICES ASSUME x + 1 <= n PROVE m[at[n + 1 - (x + 1)]] = Ok(SubSeq(v, n + 1 - (x + 1), n), e)
      OBVIOUS
    <2> DEFINE k == n + 1 - (x + 1)
    <2>1. x \in Nat /\ x <= n /\ m[at[n + 1 - x]] = Ok(SubSeq(v, n + 1 - x, n), e)
      BY <1>2
    <2>2. k \in 1 .. n /\ n + 1 - x = k + 1
      BY <1>2, <2>1
    <2> HIDE DEF k, e
    <2>3. m[at[k + 1]] = Ok(SubSeq(v, k + 1, n), e)
      BY <2>1, <2>2
    <2>4. m[at[k]] = Ok(<<v[k]>> \o SubSeq(v, k + 1, n), e)
      BY <1>5, <2>2, <2>3
    <2>5. m[at[k]] = Ok(SubSeq(v, k, n), e)
      BY <1>6, <2>2, <2>4
    <2> QED
      BY <2>5 DEF k
  <1>9. S = Nat
    <2> HIDE DEF S
    <2>1. S \subseteq Nat
      BY DEF S
    <2> QED
      BY <1>7, <1>8, <2>1, AllNumbers
  <1>10. m[at[1]] = Ok(SubSeq(v, 1, n), e)
    <2>1. n \in S
      <3> HIDE DEF S
      <3> QED
        BY <1>2, <1>9
    <2>2. n + 1 - n = 1
      BY <1>2
    <2> HIDE DEF e
    <2> QED
      BY <1>2, <2>1, <2>2
  <1> QED
    BY <1>6, <1>10 DEF m

\* FlattenSeq of a sequence that is not empty is what its recursion says.
LEMMA FlattenRecursion ==
    ASSUME NEW S, NEW outs \in Seq(Seq(S)), outs # <<>>
    PROVE  \E f : /\ \A k \in 1 .. Len(outs) : f[k] = IF k = 1 THEN outs[k] ELSE f[k - 1] \o outs[k]
                 /\ FlattenSeq(outs) = f[Len(outs)]
  <1> DEFINE n == Len(outs)
             Defines(f, m) == f = [k \in 1 .. m |-> IF k = 1 THEN outs[k] ELSE f[k - 1] \o outs[k]]
             T == {m \in Nat : \E f : Defines(f, m)}
             flatten == CHOOSE f : Defines(f, n)
  <1>1. n \in Nat /\ n # 0
    OBVIOUS
  <1>2. 0 \in T
    <2> DEFINE g == [k \in 1 .. 0 |-> outs[k]]
    <2>1. \A k \in 1 .. 0 : FALSE
      OBVIOUS
    <2>2. Defines(g, 0)
      BY <2>1
    <2> QED
      BY <2>2
  <1>3. ASSUME NEW m \in T
        PROVE  m + 1 \in T
    <2>1. m \in Nat
      OBVIOUS
    <2>2. PICK f : Defines(f, m)
      OBVIOUS
    <2> DEFINE g == [k \in 1 .. m + 1 |-> IF k <= m THEN f[k] ELSE IF k = 1 THEN outs[k] ELSE f[m] \o outs[m + 1]]
    <2>3. \A k \in 1 .. m : f[k] = IF k = 1 THEN outs[k] ELSE f[k - 1] \o outs[k]
      BY <2>2
    <2>4. g = [k \in 1 .. m + 1 |-> g[k]]
      OBVIOUS
    <2>5. \A k \in 1 .. m : g[k] = f[k]
      BY <2>1
    <2>6. g[m + 1] = IF m + 1 = 1 THEN outs[m + 1] ELSE f[m] \o outs[m + 1]
      BY <2>1
    <2> HIDE DEF g
    <2>7. \A k \in 1 .. m + 1 : g[k] = IF k = 1 THEN outs[k] ELSE g[k - 1] \o outs[k]
      <3> TAKE k \in 1 .. m + 1
      <3>1. CASE k = m + 1
        <4>1. k - 1 = m /\ (k # 1 => m \in 1 .. m)
          BY <2>1, <3>1
        <4>2. k # 1 => g[k - 1] = f[m]
          BY <2>5, <4>1
        <4> QED
          BY <2>6, <3>1, <4>2
      <3>2. CASE k # m + 1
        <4> DEFINE j == k - 1
        <4>1. k \in 1 .. m /\ (k # 1 => j \in 1 .. m)
          BY <2>1, <3>2
        <4>2. g[k] = f[k] /\ f[k] = IF k = 1 THEN outs[k] ELSE f[j] \o outs[k]
          BY <2>3, <2>5, <4>1
        <4> HIDE DEF j
        <4>3. k # 1 => g[j] = f[j]
          BY <2>5, <4>1
        <4> QED
          BY <4>2, <4>3 DEF j
      <3> QED
        BY <3>1, <3>2
    <2>8. Defines(g, m + 1)
      BY <2>4, <2>7, Zenon
    <2>9. m + 1 \in Nat
      BY <2>1
    <2> HIDE DEF Defines
    <2> QED
      BY <2>8, <2>9
  <1>4. T = Nat
    <2> HIDE DEF T
    <2>1. T \subseteq Nat
      BY DEF T
    <2> QED
      BY <1>2, <1>3, <2>1, AllNumbers
  <1>5. \E f : Defines(f, n)
    BY <1>1, <1>4
  <1>6. FlattenSeq(outs) = flatten[n]
    BY <1>1 DEF FlattenSeq
  <1>7. Defines(flatten, n)
    <2> HIDE DEF Defines
    <2> QED
      BY <1>5
  <1> HIDE DEF flatten
  <1>8. \A k \in 1 .. n : flatten[k] = IF k = 1 THEN outs[k] ELSE flatten[k - 1] \o outs[k]
    BY <1>7
  <1> HIDE DEF n
  <1>9. \E f : (\A k \in 1 .. n : f[k] = IF k = 1 THEN outs[k] ELSE f[k - 1] \o outs[k]) /\ FlattenSeq(outs) = f[n]
    BY <1>6, <1>8, Zenon
  <1> QED
    BY <1>9 DEF n

\* The first k in a row.
FirstOnes(outs, k) == FlattenSeq([x \in 1 .. k |-> outs[x]])

\* One more in the row.
LEMMA FlattenIs ==
    ASSUME NEW S, NEW outs \in Seq(Seq(S)), NEW n, n = Len(outs)
    PROVE  /\ FirstOnes(outs, 0) = <<>>
           /\ \A k \in 0 .. n : FirstOnes(outs, k) \in Seq(S)
           /\ \A k \in 1 .. n : FirstOnes(outs, k) = FirstOnes(outs, k - 1) \o outs[k]
           /\ FirstOnes(outs, n) = FlattenSeq(outs)
  <1> DEFINE F(k) == FirstOnes(outs, k)
  <1>1. n \in Nat /\ (\A k \in 1 .. n : outs[k] \in Seq(S)) /\ outs = [x \in 1 .. n |-> outs[x]]
    OBVIOUS
  <1>2. F(0) = <<>>
    <2> DEFINE e == [x \in 1 .. 0 |-> outs[x]]
    <2>1. e = <<>> /\ Len(e) = 0
      OBVIOUS
    <2>2. F(0) = FlattenSeq(e)
      BY DEF FirstOnes
    <2> HIDE DEF e
    <2> QED
      BY <2>1, <2>2 DEF FlattenSeq
  <1>3. F(n) = FlattenSeq(outs)
    BY <1>1 DEF FirstOnes
  <1>4. CASE n = 0
    <2>1. <<>> \in Seq(S) /\ (\A k \in 0 .. n : k = 0) /\ (\A k \in 1 .. n : FALSE)
      BY <1>4
    <2> HIDE DEF F
    <2>2. \A k \in 0 .. n : F(k) \in Seq(S)
      BY <1>2, <2>1
    <2> QED
      BY <1>2, <1>3, <2>1, <2>2 DEF F
  <1>5. CASE n # 0
    <2>1. PICK f : /\ \A k \in 1 .. n : f[k] = IF k = 1 THEN outs[k] ELSE f[k - 1] \o outs[k]
                   /\ FlattenSeq(outs) = f[n]
      <3>1. outs # <<>>
        BY <1>5
      <3> QED
        BY <3>1, FlattenRecursion
    <2>2. ASSUME NEW k \in 1 .. n
          PROVE  F(k) = f[k]
      <3> DEFINE os == [x \in 1 .. k |-> outs[x]]
      <3>1. os \in Seq(Seq(S)) /\ Len(os) = k /\ os # <<>> /\ \A x \in 1 .. k : os[x] = outs[x]
        <4>1. k \in Nat /\ k # 0 /\ os \in [1 .. k -> Seq(S)] /\ \A x \in 1 .. k : os[x] = outs[x]
          BY <1>1
        <4> HIDE DEF os
        <4> QED
          BY <4>1
      <3>2. F(k) = FlattenSeq(os)
        BY DEF FirstOnes
      <3> HIDE DEF os, F
      <3>3. PICK g : /\ \A x \in 1 .. Len(os) : g[x] = IF x = 1 THEN os[x] ELSE g[x - 1] \o os[x]
                     /\ FlattenSeq(os) = g[Len(os)]
        BY <3>1, FlattenRecursion
      <3>4. /\ \A x \in 1 .. k : g[x] = IF x = 1 THEN outs[x] ELSE g[x - 1] \o outs[x]
            /\ FlattenSeq(os) = g[k]
        BY <3>1, <3>3
      <3> DEFINE T == {x \in Nat : x + 1 <= k => g[x + 1] = f[x + 1]}
      <3>5. 0 \in T
        <4>1. 1 \in 1 .. k /\ 1 \in 1 .. n /\ 0 + 1 = 1
          BY <1>1
        <4>2. g[1] = outs[1]
          BY <3>4, <4>1
        <4>3. f[1] = outs[1]
          BY <2>1, <4>1
        <4> QED
          BY <4>1, <4>2, <4>3
      <3>6. ASSUME NEW x \in T
            PROVE  x + 1 \in T
        <4> SUFFICES ASSUME x + 1 + 1 <= k PROVE g[x + 1 + 1] = f[x + 1 + 1]
          OBVIOUS
        <4> DEFINE y == x + 1
                   z == y + 1
        <4>1. g[y] = f[y] /\ z \in 1 .. k /\ z \in 1 .. n /\ z # 1 /\ z - 1 = y
          BY <1>1
        <4> HIDE DEF y, z
        <4>2. g[z] = g[y] \o outs[z]
          BY <3>4, <4>1
        <4>3. f[z] = f[y] \o outs[z]
          BY <2>1, <4>1
        <4>4. g[z] = f[z]
          BY <4>1, <4>2, <4>3
        <4> QED
          BY <4>4 DEF z, y
      <3>7. T = Nat
        <4> HIDE DEF T
        <4>1. T \subseteq Nat
          BY DEF T
        <4> QED
          BY <3>5, <3>6, <4>1, AllNumbers
      <3>8. g[k] = f[k]
        <4> DEFINE x == k - 1
        <4>1. x \in Nat /\ x + 1 = k
          BY <1>1
        <4> HIDE DEF x
        <4>2. x \in T
          BY <3>7, <4>1
        <4> QED
          BY <1>1, <4>1, <4>2
      <3> QED
        BY <3>2, <3>4, <3>8
    <2>3. \A k \in 1 .. n : F(k) = F(k - 1) \o outs[k]
      <3> TAKE k \in 1 .. n
      <3> DEFINE j == k - 1
      <3>1. j = 0 \/ j \in 1 .. n
        BY <1>1
      <3>2. F(k) = IF k = 1 THEN outs[k] ELSE f[j] \o outs[k]
        BY <2>1, <2>2
      <3>3. CASE k = 1
        <4> DEFINE o == outs[k]
        <4>1. o \in Seq(S) /\ F(k) = o /\ F(j) = <<>>
          BY <1>1, <1>2, <3>2, <3>3
        <4> HIDE DEF o, F, j
        <4>2. <<>> \o o = o
          BY <4>1
        <4> QED
          BY <4>1, <4>2 DEF o, j
      <3>4. CASE k # 1
        <4>1. j \in 1 .. n
          BY <1>1, <3>4
        <4> HIDE DEF F, j
        <4>2. F(j) = f[j]
          BY <2>2, <4>1
        <4> QED
          BY <3>2, <3>4, <4>2 DEF j
      <3> QED
        BY <3>3, <3>4
    <2> DEFINE T == {k \in Nat : k <= n => F(k) \in Seq(S)}
    <2> HIDE DEF F
    <2>4. 0 \in T
      <3>1. <<>> \in Seq(S)
        OBVIOUS
      <3>2. F(0) \in Seq(S)
        BY <1>2, <3>1
      <3> QED
        BY <3>2
    <2>5. ASSUME NEW k \in T
          PROVE  k + 1 \in T
      <3> SUFFICES ASSUME k + 1 <= n PROVE F(k + 1) \in Seq(S)
        OBVIOUS
      <3> DEFINE j == k + 1
      <3>1. j \in 1 .. n /\ j - 1 = k /\ F(k) \in Seq(S)
        BY <1>1
      <3> HIDE DEF j
      <3>2. F(j) = F(k) \o outs[j] /\ outs[j] \in Seq(S)
        BY <1>1, <2>3, <3>1
      <3>3. F(k) \o outs[j] \in Seq(S)
        BY <3>1, <3>2, ConcatProperties
      <3> QED
        BY <3>2, <3>3 DEF j
    <2>6. T = Nat
      <3> HIDE DEF T
      <3>1. T \subseteq Nat
        BY DEF T
      <3> QED
        BY <2>4, <2>5, <3>1, AllNumbers
    <2>7. \A k \in 0 .. n : F(k) \in Seq(S)
      BY <1>1, <2>6
    <2> QED
      BY <1>2, <1>3, <2>3, <2>7 DEF F
  <1> QED
    BY <1>4, <1>5

\* Where the k-th of them begins that are in a row from i on.
RowAt(outs, i, k) == i + Len(FirstOnes(outs, k - 1))

\* What matches in a row matches where it begins.
LEMMA MatchesRow ==
    ASSUME TypeOK, NEW outs \in Seq(Seq(Byte)), NEW n, n = Len(outs), NEW i \in Pos, Matches(FlattenSeq(outs), i)
    PROVE  /\ RowAt(outs, i, 1) = i
           /\ \A k \in 1 .. n + 1 : RowAt(outs, i, k) \in Pos
           /\ \A k \in 1 .. n : /\ Matches(outs[k], RowAt(outs, i, k))
                                /\ RowAt(outs, i, k + 1) = RowAt(outs, i, k) + Len(outs[k])
           /\ RowAt(outs, i, n + 1) = i + Len(FlattenSeq(outs))
  <1>1. n \in Nat /\ (\A k \in 1 .. n : outs[k] \in Seq(Byte))
    OBVIOUS
  <1>2. /\ FirstOnes(outs, 0) = <<>>
        /\ \A k \in 0 .. n : FirstOnes(outs, k) \in Seq(Byte)
        /\ \A k \in 1 .. n : FirstOnes(outs, k) = FirstOnes(outs, k - 1) \o outs[k]
        /\ FirstOnes(outs, n) = FlattenSeq(outs)
    BY FlattenIs
  <1>3. Pos = 1 .. End /\ End \in Nat /\ i \in Nat
    BY InputIs
  <1>4. \A k : RowAt(outs, i, k) = i + Len(FirstOnes(outs, k - 1))
    BY DEF RowAt
  <1>5. ASSUME NEW k \in 1 .. n
        PROVE  /\ Len(FirstOnes(outs, k)) = Len(FirstOnes(outs, k - 1)) + Len(outs[k])
               /\ Matches(FirstOnes(outs, k), i) <=> Matches(FirstOnes(outs, k - 1), i) /\ Matches(outs[k], i + Len(FirstOnes(outs, k - 1)))
    <2> DEFINE a == FirstOnes(outs, k - 1)
               b == outs[k]
               c == FirstOnes(outs, k)
    <2>1. a \in Seq(Byte) /\ b \in Seq(Byte) /\ c = a \o b
      <3>1. k - 1 \in 0 .. n
        BY <1>1
      <3> QED
        BY <1>1, <1>2, <3>1
    <2> HIDE DEF a, b, c
    <2>2. Len(a \o b) = Len(a) + Len(b) /\ (Matches(a \o b, i) <=> Matches(a, i) /\ Matches(b, i + Len(a)))
      BY <2>1, MatchesSplit
    <2>3. Len(c) = Len(a) + Len(b) /\ (Matches(c, i) <=> Matches(a, i) /\ Matches(b, i + Len(a)))
      BY <2>1, <2>2, Zenon
    <2> QED
      BY <2>3 DEF a, b, c
  <1> DEFINE T == {x \in Nat : x <= n => Matches(FirstOnes(outs, n - x), i)}
  <1>6. 0 \in T
    <2>1. n - 0 = n /\ Matches(FirstOnes(outs, n), i)
      BY <1>1, <1>2
    <2> QED
      BY <2>1
  <1>7. ASSUME NEW x \in T
        PROVE  x + 1 \in T
    <2> SUFFICES ASSUME x + 1 <= n PROVE Matches(FirstOnes(outs, n - (x + 1)), i)
      OBVIOUS
    <2> DEFINE k == n - x
    <2>1. k \in 1 .. n /\ k - 1 = n - (x + 1) /\ Matches(FirstOnes(outs, k), i)
      BY <1>1
    <2> HIDE DEF k
    <2>2. Matches(FirstOnes(outs, k - 1), i)
      BY <1>5, <2>1
    <2> QED
      BY <2>1, <2>2
  <1>8. T = Nat
    <2> HIDE DEF T
    <2>1. T \subseteq Nat
      BY DEF T
    <2> QED
      BY <1>6, <1>7, <2>1, AllNumbers
  <1>9. ASSUME NEW k \in 0 .. n
        PROVE  Matches(FirstOnes(outs, k), i)
    <2> DEFINE x == n - k
    <2>1. x \in Nat /\ x <= n /\ n - x = k
      BY <1>1
    <2> HIDE DEF x
    <2>2. x \in T
      BY <1>8, <2>1
    <2> QED
      BY <2>1, <2>2
  <1>10. ASSUME NEW k \in 1 .. n + 1
         PROVE  RowAt(outs, i, k) \in Pos
    <2> DEFINE j == k - 1
    <2>1. j \in 0 .. n
      BY <1>1
    <2> HIDE DEF j
    <2>2. FirstOnes(outs, j) \in Seq(Byte) /\ Matches(FirstOnes(outs, j), i) /\ <<>> \in Seq(Byte)
      BY <1>2, <1>9, <2>1
    <2>3. i + Len(FirstOnes(outs, j)) \in Pos
      BY <2>2, MatchesSplit
    <2> QED
      BY <1>4, <2>3 DEF j
  <1>11. ASSUME NEW k \in 1 .. n
         PROVE  /\ Matches(outs[k], RowAt(outs, i, k))
                /\ RowAt(outs, i, k + 1) = RowAt(outs, i, k) + Len(outs[k])
    <2>1. Matches(outs[k], i + Len(FirstOnes(outs, k - 1)))
      <3>1. k \in 0 .. n
        BY <1>1
      <3> QED
        BY <1>5, <1>9, <3>1, Zenon
    <2> DEFINE x == Len(FirstOnes(outs, k - 1))
               y == Len(FirstOnes(outs, k))
               z == Len(outs[k])
    <2>2. x \in Nat /\ z \in Nat
      <3>1. k - 1 \in 0 .. n
        BY <1>1
      <3>2. FirstOnes(outs, k - 1) \in Seq(Byte) /\ outs[k] \in Seq(Byte)
        BY <1>1, <1>2, <3>1
      <3> QED
        BY <3>2
    <2>3. y = x + z
      BY <1>5, Zenon
    <2>4. RowAt(outs, i, k) = i + x /\ RowAt(outs, i, k + 1) = i + y
      <3>1. k + 1 - 1 = k
        BY <1>1
      <3>2. RowAt(outs, i, k) = i + x /\ RowAt(outs, i, k + 1) = i + Len(FirstOnes(outs, k + 1 - 1))
        BY DEF RowAt
      <3> QED
        BY <3>1, <3>2
    <2> HIDE DEF x, y, z
    <2>5. RowAt(outs, i, k + 1) = RowAt(outs, i, k) + z
      BY <1>3, <2>2, <2>3, <2>4
    <2> QED
      BY <1>4, <2>1, <2>5 DEF z
  <1>12. RowAt(outs, i, 1) = i
    <2>1. 1 - 1 = 0 /\ Len(<<>>) = 0
      OBVIOUS
    <2>2. RowAt(outs, i, 1) = i + 0
      BY <1>2, <1>4, <2>1
    <2> QED
      BY <1>3, <2>2
  <1>13. RowAt(outs, i, n + 1) = i + Len(FlattenSeq(outs))
    <2>1. n + 1 - 1 = n
      BY <1>1
    <2> QED
      BY <1>2, <1>4, <2>1
  <1> QED
    BY <1>10, <1>11, <1>12, <1>13

\* What is written of a slice, of what is written of its elements.
WrittenList(outs) == <<"l">> \o FlattenSeq(outs) \o <<"e", " ">>

\* Tag finds its byte.
LEMMA TagIs ==
    ASSUME TypeOK, NEW b, NEW i \in Pos
    PROVE  /\ IsParser(Tag(b)) /\ IsResult(Tag(b)[i], i)
           /\ i # End /\ Car(i) = b => Tag(b)[i] = Ok(b, i + 1)
           /\ ~(i # End /\ Car(i) = b) => Refuses(Tag(b)[i]) /\ Tag(b)[i].at = i
  <1>1. /\ IsParser(OneOf({b})) /\ WantsInput(OneOf({b}))
        /\ \A j \in Pos : j # End =>
             OneOf({b})[j] = IF Car(j) \in {b} THEN Ok(Car(j), j + 1) ELSE Fails("Unmatched", j, j)
        /\ \A j \in Pos : Failed(OneOf({b})[j]) => Refuses(OneOf({b})[j]) /\ OneOf({b})[j].at = j
    BY OneOfIs
  <1>2. Tag(b) = OneOf({b})
    BY DEF Tag
  <1> DEFINE p == Tag(b)
  <1> HIDE DEF p
  <1>3. /\ IsParser(p) /\ Failed(p[End])
        /\ i # End => p[i] = IF Car(i) = b THEN Ok(Car(i), i + 1) ELSE Fails("Unmatched", i, i)
        /\ Failed(p[i]) => Refuses(p[i]) /\ p[i].at = i
    BY <1>1, <1>2 DEF WantsInput, p
  <1>4. Failed(Fails("Unmatched", i, i))
    BY DEF Failed, Fails
  <1> QED
    BY <1>3, <1>4 DEF p, IsParser

\* What is written of each element is read by p as the element.
ReadsEach(p, v, outs) ==
    \A k \in 1 .. Len(v) : /\ outs[k] # <<>>
                           /\ \A j \in Pos : Matches(outs[k], j) => p[j] = Ok(v[k], j + Len(outs[k]))

\* Where a list ends, p refuses and takes nothing.
StopsAtEnd(p) == \A j \in Pos : j # End /\ Car(j) = "e" => Refuses(p[j]) /\ p[j].at = j

\* At position i p reads the elements v of the list that outs are written as, and
\* the list's end, which on copies is left.
ReadsList(p, v, outs, n, i) ==
    /\ i + 1 \in Pos /\ i + 1 # End /\ Tag("l")[i] = Ok("l", i + 1)
    /\ n # 0 => Matches(outs[1], i + 1)
    /\ \E z \in Pos : /\ i + Len(WrittenList(outs)) = z + 2
                      /\ ThenDiscard(Many0(p), Tag("e"))[i + 1] = Ok(v, Kept(z, z + 1))

\* A list that is written is read, element by element.
LEMMA ElementsStand ==
    ASSUME TypeOK, NEW p, IsParser(p), NEW V, NEW v \in Seq(V), NEW outs \in Seq(Seq(Byte)),
           NEW n \in Nat, Len(v) = n, Len(outs) = n, NEW i \in Pos, Matches(WrittenList(outs), i),
           ReadsEach(p, v, outs), StopsAtEnd(p)
    PROVE  ReadsList(p, v, outs, n, i)
  <1> DEFINE a == <<"l">>
             b == FlattenSeq(outs)
             c == <<"e", " ">>
             cs == WrittenList(outs)
             f == i + 1
             z == f + Len(b)
  <1>1. \A k \in 1 .. n : /\ outs[k] # <<>>
                          /\ \A j \in Pos : Matches(outs[k], j) => p[j] = Ok(v[k], j + Len(outs[k]))
    BY DEF ReadsEach
  <1>2. n \in Nat /\ \A k \in 1 .. n : outs[k] \in Seq(Byte) /\ Len(outs[k]) \in Nat /\ (outs[k] # <<>> => Len(outs[k]) # 0)
    OBVIOUS
  <1>3. Pos = 1 .. End /\ End \in Nat /\ i \in Nat
    BY InputIs
  <1>4. /\ "l" \in Byte /\ "e" \in Byte /\ a \in Seq(Byte) /\ c \in Seq(Byte) /\ Len(a) = 1 /\ Len(c) = 2 /\ c[1] = "e"
    <2>1. "l" \in Byte /\ "e" \in Byte /\ " " \in Byte
      BY TenDigits
    <2>2. \A x, y \in Byte : <<x, y>> \in Seq(Byte) /\ Len(<<x, y>>) = 2 /\ <<x, y>>[1] = x
      OBVIOUS
    <2>3. c \in Seq(Byte) /\ Len(c) = 2 /\ c[1] = "e"
      BY <2>1, <2>2, Zenon
    <2> HIDE DEF c
    <2> QED
      BY <2>1, <2>3, OneByte
  <1>5. b \in Seq(Byte) /\ Len(b) \in Nat
    <2>1. b \in Seq(Byte)
      <3>1. n \in 0 .. n
        BY <1>2
      <3>2. (\A k \in 0 .. n : FirstOnes(outs, k) \in Seq(Byte)) /\ FirstOnes(outs, n) = FlattenSeq(outs)
        BY FlattenIs
      <3> QED
        BY <3>1, <3>2
    <2> HIDE DEF b
    <2> QED
      BY <2>1
  <1>6. cs = a \o b \o c /\ Matches(cs, i)
    BY DEF WrittenList
  <1> HIDE DEF a, b, c, cs
  <1>7. /\ Matches(a, i) /\ f \in Pos
        /\ Matches(b, f) /\ z \in Pos
        /\ Matches(c, z)
    BY <1>4, <1>5, <1>6, MatchesThree
  <1>8. Len(cs) = Len(b) + 3
    <2>1. Len(a \o b \o c) = Len(a) + Len(b) + Len(c)
      BY <1>4, <1>5, LenThree, Zenon
    <2> QED
      BY <1>4, <1>5, <1>6, <2>1
  <1>9. i # End /\ Car(i) = "l"
    BY <1>4, <1>7, MatchesByte DEF a
  <1>10. z # End /\ Car(z) = "e"
    <2>1. z + 2 <= End /\ \A k \in 1 .. 2 : Car(z + k - 1) = c[k]
      BY <1>4, <1>7 DEF Matches
    <2> HIDE DEF z
    <2>2. z + 1 - 1 = z /\ z # End
      BY <1>3, <1>7, <2>1
    <2> QED
      BY <1>4, <2>1, <2>2
  <1> DEFINE at == [k \in 1 .. n + 1 |-> RowAt(outs, f, k)]
  <1>11. /\ RowAt(outs, f, 1) = f
         /\ \A k \in 1 .. n + 1 : RowAt(outs, f, k) \in Pos
         /\ \A k \in 1 .. n : /\ Matches(outs[k], RowAt(outs, f, k))
                              /\ RowAt(outs, f, k + 1) = RowAt(outs, f, k) + Len(outs[k])
         /\ RowAt(outs, f, n + 1) = z
    <2> HIDE DEF f
    <2> QED
      BY <1>7, MatchesRow DEF b
  <1>12. /\ at[1] = f /\ at[n + 1] = z
         /\ \A k \in 1 .. n + 1 : at[k] \in Pos
         /\ \A k \in 1 .. n : Matches(outs[k], at[k]) /\ at[k + 1] = at[k] + Len(outs[k])
    <2> HIDE DEF f, z
    <2>1. 1 \in 1 .. n + 1 /\ n + 1 \in 1 .. n + 1 /\ \A k \in 1 .. n : k \in 1 .. n + 1 /\ k + 1 \in 1 .. n + 1
      BY <1>2
    <2> QED
      BY <1>11, <2>1
  <1> HIDE DEF at, f, z
  <1>13. \A k \in 1 .. n : at[k + 1] # at[k] /\ at[k] # End /\ p[at[k]] = Ok(v[k], at[k + 1])
    <2> TAKE k \in 1 .. n
    <2> DEFINE x == Len(outs[k])
    <2>1. x \in Nat /\ x # 0
      BY <1>1, <1>2
    <2>2. at[k] \in Pos /\ at[k + 1] \in Pos /\ at[k + 1] = at[k] + x /\ Matches(outs[k], at[k])
      BY <1>2, <1>12
    <2>3. p[at[k]] = Ok(v[k], at[k] + x)
      BY <1>1, <2>2
    <2> HIDE DEF x
    <2> QED
      BY <1>3, <2>1, <2>2, <2>3
  <1>14. Many0(p)[f] = Ok(v, z)
    <2>1. Refuses(p[at[n + 1]]) /\ p[at[n + 1]].at = at[n + 1]
      BY <1>7, <1>10, <1>12 DEF StopsAtEnd
    <2>2. \A k \in 1 .. n + 1 : at[k] \in Pos /\ at[k] # End
      <3> TAKE k \in 1 .. n + 1
      <3>1. k = n + 1 \/ k \in 1 .. n
        BY <1>2
      <3> QED
        BY <1>10, <1>12, <1>13, <3>1
    <2>3. Many0(p)[at[1]] = Ok(v, at[n + 1])
      <3>1. \A k \in 1 .. n : p[at[k]] = Ok(v[k], at[k + 1]) /\ at[k + 1] # at[k]
        BY <1>13
      <3>2. TakesInTurn(p, v, at)
        BY <2>1, <2>2, <3>1 DEF TakesInTurn
      <3> QED
        BY <3>2, ManyStands
    <2> QED
      BY <1>12, <2>3
  <1>15. ThenDiscard(Many0(p), Tag("e"))[f] = Ok(v, Kept(z, z + 1))
    <2> DEFINE m == Many0(p)
               t == Tag("e")
               d == ThenDiscard(m, t)
    <2>1. m[f] = Ok(v, z) /\ IsParser(m) /\ IsParser(t) /\ t[z] = Ok("e", z + 1)
      BY <1>7, <1>10, <1>14, Many0Is, TagIs
    <2> HIDE DEF m, t
    <2>2. IF ~Failed(m[f]) /\ m[f].at # End /\ ~Failed(t[m[f].at])
            THEN d[f] = Ok(m[f].val, Kept(m[f].at, t[m[f].at].at))
            ELSE Failed(d[f])
      BY <1>7, <2>1, ThenDiscardIs
    <2>3. \A w, x : ~Failed(Ok(w, x)) /\ Ok(w, x).at = x /\ Ok(w, x).val = w
      BY DEF Ok, Failed
    <2> HIDE DEF d
    <2>4. ~Failed(m[f]) /\ m[f].at = z /\ m[f].val = v /\ ~Failed(t[z]) /\ t[z].at = z + 1
      BY <2>1, <2>3
    <2>5. d[f] = Ok(v, Kept(z, z + 1))
      BY <1>10, <2>2, <2>4
    <2> QED
      BY <2>5 DEF d, m, t
  <1>16. f # End /\ (n # 0 => Matches(outs[1], f))
    <2>1. n # 0 => 1 \in 1 .. n
      BY <1>2
    <2>2. f <= z
      BY <1>3, <1>5 DEF f, z
    <2> QED
      BY <1>3, <1>7, <1>10, <1>12, <2>1, <2>2
  <1>17. i + Len(cs) = z + 2
    <2> DEFINE x == Len(b)
               y == Len(cs)
    <2>1. x \in Nat /\ y = x + 3 /\ z = i + 1 + x
      BY <1>5, <1>8 DEF z, f
    <2> HIDE DEF x, y
    <2>2. i + y = z + 2
      BY <1>3, <2>1
    <2> QED
      BY <2>2 DEF y
  <1>18. Tag("l")[i] = Ok("l", f)
    BY <1>9, TagIs DEF f
  <1> QED
    BY <1>7, <1>15, <1>16, <1>17, <1>18 DEF f, cs, ReadsList

\* What is written of an integer or a string is not nothing.
LEMMA WrittenAre ==
    /\ \A n \in Nat : WrittenInt(n) \in Seq(Byte) /\ WrittenInt(n) # <<>>
    /\ \A s \in Seq(Byte) : WrittenString(s) \in Seq(Byte) /\ WrittenString(s) # <<>>
  <1>1. ASSUME NEW a \in Seq(Byte), NEW b \in Seq(Byte), NEW c \in Seq(Byte), Len(b) # 0
        PROVE  a \o b \o c \in Seq(Byte) /\ a \o b \o c # <<>>
    <2>1. a \o b \o c \in Seq(Byte) /\ Len(a \o b \o c) = Len(a) + Len(b) + Len(c)
      OBVIOUS
    <2>2. Len(a) \in Nat /\ Len(b) \in Nat /\ Len(c) \in Nat /\ Len(<<>>) = 0
      OBVIOUS
    <2>3. Len(a) + Len(b) + Len(c) # 0
      BY <1>1, <2>2
    <2> QED
      BY <2>1, <2>2, <2>3
  <1>2. \A n \in Nat : Encoder!FormatInt(n) \in Seq(Byte) /\ Len(Encoder!FormatInt(n)) # 0
    <2> TAKE n \in Nat
    <2> DEFINE ds == Encoder!FormatInt(n)
    <2>1. ds \in Seq(DigitByte) /\ Len(ds) > 0 /\ DigitByte \subseteq Byte
      BY FormattedIs, TenDigits
    <2> HIDE DEF ds
    <2>2. ds \in Seq(Byte) /\ Len(ds) # 0
      BY <2>1
    <2> QED
      BY <2>2 DEF ds
  <1>3. <<"i">> \in Seq(Byte) /\ <<"e">> \in Seq(Byte) /\ <<":">> \in Seq(Byte) /\ Len(<<":">>) # 0
    <2>1. "i" \in Byte /\ "e" \in Byte /\ ":" \in Byte
      BY TenDigits
    <2>2. Len(<<":">>) = 1
      OBVIOUS
    <2>3. \A b : b \in Byte => <<b>> \in Seq(Byte)
      BY OneByte
    <2> QED
      BY <2>1, <2>2, <2>3
  <1>4. ASSUME NEW n \in Nat
        PROVE  WrittenInt(n) \in Seq(Byte) /\ WrittenInt(n) # <<>>
    <2> DEFINE ds == Encoder!FormatInt(n)
               a == <<"i">>
               c == <<"e">>
    <2>1. ds \in Seq(Byte) /\ Len(ds) # 0 /\ a \in Seq(Byte) /\ c \in Seq(Byte) /\ WrittenInt(n) = a \o ds \o c
      BY <1>2, <1>3 DEF WrittenInt
    <2> HIDE DEF ds, a, c
    <2>2. a \o ds \o c \in Seq(Byte) /\ a \o ds \o c # <<>>
      BY <1>1, <2>1, Zenon
    <2> QED
      BY <2>1, <2>2, Zenon
  <1>5. ASSUME NEW s \in Seq(Byte)
        PROVE  WrittenString(s) \in Seq(Byte) /\ WrittenString(s) # <<>>
    <2> DEFINE ds == Encoder!FormatInt(Len(s))
               b == <<":">>
    <2>1. ds \in Seq(Byte) /\ b \in Seq(Byte) /\ Len(b) # 0 /\ WrittenString(s) = ds \o b \o s
      <3>1. Len(s) \in Nat
        OBVIOUS
      <3> QED
        BY <1>2, <1>3, <3>1 DEF WrittenString
    <2> HIDE DEF ds, b
    <2>2. ds \o b \o s \in Seq(Byte) /\ ds \o b \o s # <<>>
      BY <1>1, <2>1, Zenon
    <2> QED
      BY <2>1, <2>2, Zenon
  <1> QED
    BY <1>4, <1>5

\* Where no i is, an integer's parser refuses and takes nothing.
LEMMA NoIntAt ==
    ASSUME TypeOK, NEW i \in Pos, i # End, Car(i) # "i"
    PROVE  Refuses(BencInt[i]) /\ BencInt[i].at = i
  <1>1. BencInt[i].err = "Unmatched"
    BY BencIntIs
  <1>2. Refuses(BencInt[i])
    BY <1>1 DEF Refuses, Failed, Ends
  <1>3. shared => BencInt[i].at = i
    BY <1>2, NoIntLeavesAt
  <1>4. ~shared => BencInt[i].at = i
    BY <1>2, BencIntIs DEF KeepsInput
  <1> QED
    BY <1>2, <1>3, <1>4, Zenon

\* Where neither a digit nor a sign is, so does a string's.
LEMMA NoLengthAt ==
    ASSUME TypeOK, NEW i \in Pos, i # End, Car(i) \notin DigitByte, Car(i) # "-"
    PROVE  Refuses(BencStr[i]) /\ BencStr[i].at = i
  <1>1. DigitsEnd(i) = i /\ Digits(Bytes(i, DigitsEnd(i))) = <<>>
    BY NoDigitsAt
  <1>2. IntOf(<<>>) = 0
    <2>1. <<>> \in Seq(Nat) /\ MaxInt \in Nat
      BY DEF TypeOK
    <2> DEFINE e == <<>>
    <2> HIDE DEF e
    <2>2. e \in Seq(Nat) /\ Decimal(e) = 0
      BY <2>1, NumbersAre DEF e
    <2>3. IntOf(e) = 0
      BY <2>1, <2>2, NumbersAre
    <2> QED
      BY <2>3 DEF e
  <1> DEFINE n == Number[i]
  <1>3. n = Fails("Unmatched", i, i)
    <2> DEFINE j == DigitsEnd(i)
               num == IntOf(Digits(Bytes(i, j)))
    <2>1. num = 0 => n = Fails(IF j = End THEN "none" ELSE "Unmatched", i, j)
      BY NumberIs
    <2>2. num = 0 /\ j = i
      BY <1>1, <1>2
    <2> QED
      BY <2>1, <2>2
  <1> HIDE DEF n
  <1>4. n.err = "Unmatched" /\ n.at = i
    BY <1>3 DEF Fails, Kept
  <1>5. Failed(n) /\ ~Ends(n)
    BY <1>4 DEF Failed, Ends
  <1>6. ~Empty(i)
    BY InputIs
  <1>7. BencStr[i] = GivesUp(n.err, i, n)
    BY <1>5, <1>6 DEF BencStr, n
  <1>8. BencStr[i] = Fails("Unmatched", i, i)
    BY <1>4, <1>5, <1>7 DEF GivesUp
  <1> QED
    BY <1>8 DEF Fails, Kept, Refuses, Failed, Ends

\* A list is one of integers, or where there is none, one of strings.
LEMMA ListIs ==
    ASSUME TypeOK, NEW i \in Pos, Tag("l")[i] = Ok("l", i + 1), i + 1 \in Pos, i + 1 # End
    PROVE  /\ ~Failed(manyInt[i + 1]) => list[i] = manyInt[i + 1]
           /\ Refuses(manyInt[i + 1]) /\ manyInt[i + 1].at = i + 1 /\ ~Failed(manyStr[i + 1]) => list[i] = manyStr[i + 1]
  <1> DEFINE f == i + 1
             p == manyInt
             q == manyStr
             t == Tag("l")
             alt == Alt(<<p, q>>)
  <1>1. IsParser(p) /\ IsParser(q) /\ KeepsInput(p) /\ KeepsInput(q) /\ IsParser(t)
    <2>1. IsParser(Many0(BencInt)) /\ IsParser(Many0(BencStr)) /\ IsParser(Tag("e"))
      BY BencIntIs, BencStrIs, Many0Is, OneOfIs DEF Tag
    <2> QED
      BY <2>1, ThenDiscardIs, OneOfIs DEF manyInt, manyStr, Tag
  <1> HIDE DEF p, q, t
  <1>2. IsParser(alt)
    <2> DEFINE ps == <<p, q>>
    <2>1. Len(ps) = 2 /\ ps[1] = p /\ ps[2] = q
      OBVIOUS
    <2> HIDE DEF ps
    <2>2. \A k \in 1 .. Len(ps) : IsParser(ps[k]) /\ KeepsInput(ps[k])
      BY <1>1, <2>1
    <2>3. Len(ps) \in Nat
      BY <2>1
    <2>4. IsParser(Alt(ps))
      BY <2>2, <2>3, AltIs
    <2> QED
      BY <2>4 DEF ps
  <1>3. LET a == Kept(f, p[f].at)
        IN  alt[f] = IF ~Refuses(p[f]) THEN p[f]
                     ELSE IF ~Refuses(q[a]) THEN q[a]
                     ELSE Stuck("Unmatched", Kept(a, q[a].at))
    BY <1>1, AltOfTwo
  <1> HIDE DEF alt
  <1>4. list = Then(t, alt)
    BY DEF list, p, q, t, alt
  <1>5. ~Failed(alt[f]) => list[i] = alt[f]
    <2>1. ~Failed(t[i]) /\ t[i].at = f
      BY DEF t, Ok, Failed
    <2> HIDE DEF f
    <2>2. f # End
      BY DEF f
    <2> QED
      BY <1>1, <1>2, <1>4, <2>1, <2>2, ThenIs
  <1>6. \A r : ~Failed(r) => ~Refuses(r)
    BY DEF Refuses
  <1>7. p[f].at = f => Kept(f, p[f].at) = f
    BY DEF Kept
  <1> HIDE DEF f
  <1>8. /\ ~Failed(p[f]) => list[i] = p[f]
        /\ Refuses(p[f]) /\ p[f].at = f /\ ~Failed(q[f]) => list[i] = q[f]
    BY <1>3, <1>5, <1>6, <1>7
  <1> QED
    BY <1>8 DEF p, q, f

\* A list of integers is read as one, the largest int for those too large.
LEMMA IntsStand ==
    ASSUME TypeOK, NEW n \in Nat, NEW v \in Seq(Nat), Len(v) = n,
           NEW outs \in Seq(Seq(Byte)), Len(outs) = n, \A k \in 1 .. n : outs[k] = WrittenInt(v[k]),
           NEW i \in Pos, Matches(WrittenList(outs), i)
    PROVE  \E z \in Pos :
              /\ i + Len(WrittenList(outs)) = z + 2
              /\ list[i] = Ok([k \in 1 .. n |-> IF v[k] > MaxInt THEN MaxInt ELSE v[k]], Kept(z, z + 1))
  <1> DEFINE w == [k \in 1 .. n |-> IF v[k] > MaxInt THEN MaxInt ELSE v[k]]
             p == BencInt
  <1>1. w \in Seq(Nat) /\ Len(w) = n /\ \A k \in 1 .. n : v[k] \in Nat /\ w[k] = IF v[k] > MaxInt THEN MaxInt ELSE v[k]
    <2>1. MaxInt \in Nat
      BY DEF TypeOK
    <2>2. w \in [1 .. n -> Nat]
      BY <2>1
    <2>3. Len(w) = n /\ w \in Seq(Nat)
      BY <2>2
    <2> QED
      BY <2>3
  <1>2. IsParser(p)
    BY BencIntIs
  <1> HIDE DEF w, p
  <1>3. \A k \in 1 .. n : /\ outs[k] # <<>>
                          /\ \A j \in Pos : Matches(outs[k], j) => p[j] = Ok(w[k], j + Len(outs[k]))
    <2> TAKE k \in 1 .. n
    <2>1. outs[k] = WrittenInt(v[k]) /\ v[k] \in Nat
      BY <1>1
    <2>2. outs[k] # <<>>
      BY <2>1, WrittenAre
    <2>3. \A j \in Pos : Matches(outs[k], j) => p[j] = Ok(w[k], j + Len(outs[k]))
      <3> TAKE j \in Pos
      <3> HAVE Matches(outs[k], j)
      <3> DEFINE x == v[k]
      <3>1. Matches(WrittenInt(x), j) /\ x \in Nat /\ w[k] = IF x > MaxInt THEN MaxInt ELSE x
        BY <1>1, <2>1
      <3> HIDE DEF x
      <3>2. BencInt[j] = Ok(IF x > MaxInt THEN MaxInt ELSE x, j + Len(WrittenInt(x)))
        BY <3>1, IntStands
      <3>3. p[j] = Ok(w[k], j + Len(WrittenInt(x)))
        BY <3>1, <3>2 DEF p
      <3> QED
        BY <2>1, <3>3 DEF x
    <2> QED
      BY <2>2, <2>3
  <1>4. \A j \in Pos : j # End /\ Car(j) = "e" => Refuses(p[j]) /\ p[j].at = j
    BY NoIntAt DEF p
  <1>5. ReadsEach(p, w, outs) /\ StopsAtEnd(p)
    BY <1>1, <1>3, <1>4 DEF ReadsEach, StopsAtEnd
  <1>6. /\ i + 1 \in Pos /\ i + 1 # End /\ Tag("l")[i] = Ok("l", i + 1)
        /\ \E z \in Pos : /\ i + Len(WrittenList(outs)) = z + 2
                          /\ ThenDiscard(Many0(p), Tag("e"))[i + 1] = Ok(w, Kept(z, z + 1))
    <2>1. ReadsList(p, w, outs, n, i)
      BY <1>1, <1>2, <1>5, ElementsStand
    <2> QED
      BY <2>1 DEF ReadsList
  <1>7. PICK z \in Pos : /\ i + Len(WrittenList(outs)) = z + 2
                         /\ manyInt[i + 1] = Ok(w, Kept(z, z + 1))
    BY <1>6 DEF manyInt, p
  <1>8. ~Failed(manyInt[i + 1])
    BY <1>7 DEF Ok, Failed
  <1>9. list[i] = manyInt[i + 1]
    BY <1>6, <1>8, ListIs
  <1> QED
    BY <1>7, <1>9 DEF w

\* Where no i is, and it is not the end, a list of integers refuses and takes nothing.
LEMMA NoIntsAt ==
    ASSUME TypeOK, NEW f \in Pos, f # End, Car(f) # "i", Car(f) # "e"
    PROVE  Refuses(manyInt[f]) /\ manyInt[f].at = f
  <1> DEFINE p == BencInt
             m == Many0(p)
             t == Tag("e")
             d == ThenDiscard(m, t)
  <1>1. Refuses(p[f]) /\ p[f].at = f /\ IsParser(p)
    BY NoIntAt, BencIntIs
  <1>2. Refuses(t[f]) /\ t[f].at = f /\ IsResult(t[f], f) /\ IsParser(t)
    BY TagIs
  <1> HIDE DEF p, t
  <1>3. m[f] = Ok(<<>>, f)
    <2>1. m[f] = ManyStep(p, f, m[p[f].at])
      BY <1>1, Many0Recursion
    <2>2. Failed(p[f]) /\ ~Ends(p[f]) /\ ~Empty(f)
      BY <1>1, InputIs DEF Refuses
    <2> HIDE DEF m
    <2>3. m[f] = Ok(<<>>, Kept(f, p[f].at))
      BY <2>1, <2>2 DEF ManyStep
    <2> QED
      BY <1>1, <2>3 DEF Kept
  <1>4. ~Failed(m[f]) /\ m[f].at = f
    BY <1>3 DEF Ok, Failed
  <1> HIDE DEF m
  <1>5. d[f] = GivesUp("Unmatched", f, t[f])
    <2>1. Failed(t[f]) /\ ~Empty(f)
      BY <1>2, InputIs DEF Refuses
    <2> QED
      BY <1>4, <2>1 DEF ThenDiscard
  <1>6. d[f] = Fails("Unmatched", f, f)
    BY <1>2, <1>5 DEF GivesUp, Refuses
  <1>7. Refuses(d[f]) /\ d[f].at = f
    BY <1>6 DEF Fails, Kept, Refuses, Failed, Ends
  <1> QED
    BY <1>7 DEF manyInt, d, m, p, t

\* What is written of a string that is not empty begins with a digit.
LEMMA WrittenBegins ==
    ASSUME TypeOK, NEW s \in Seq(Byte), NEW f \in Pos, Matches(WrittenString(s), f)
    PROVE  f # End /\ Car(f) \in DigitByte
  <1> DEFINE ds == Encoder!FormatInt(Len(s))
             b == <<":">>
  <1>1. Len(s) \in Nat
    OBVIOUS
  <1>2. ds \in Seq(DigitByte) /\ Len(ds) > 0
    BY <1>1, FormattedIs
  <1>3. ds \in Seq(Byte) /\ b \in Seq(Byte) /\ DigitByte \subseteq Byte
    <2>1. DigitByte \subseteq Byte /\ ":" \in Byte
      BY TenDigits
    <2> HIDE DEF ds
    <2> QED
      BY <1>2, <2>1, OneByte
  <1>4. WrittenString(s) = ds \o b \o s
    BY DEF WrittenString
  <1> HIDE DEF ds, b
  <1>5. Matches(ds, f)
    BY <1>3, <1>4, MatchesThree
  <1> DEFINE m == Len(ds)
  <1>6. m \in Nat /\ m > 0 /\ ds[1] \in DigitByte
    BY <1>2
  <1>7. f + m <= End /\ \A k \in 1 .. m : Car(f + k - 1) = ds[k]
    BY <1>5 DEF Matches
  <1>8. End \in Nat /\ f \in Nat
    BY InputIs
  <1> HIDE DEF m
  <1>9. 1 \in 1 .. m /\ f + 1 - 1 = f
    BY <1>6, <1>8
  <1> QED
    BY <1>6, <1>7, <1>8, <1>9

\* A list of strings that are not empty is read as one.
LEMMA StringsStand ==
    ASSUME TypeOK, NEW n \in Nat, n # 0, NEW v \in Seq(Seq(Byte)), Len(v) = n,
           \A k \in 1 .. n : v[k] # <<>> /\ Len(v[k]) <= MaxInt,
           NEW outs \in Seq(Seq(Byte)), Len(outs) = n, \A k \in 1 .. n : outs[k] = WrittenString(v[k]),
           NEW i \in Pos, Matches(WrittenList(outs), i)
    PROVE  \E z \in Pos : /\ i + Len(WrittenList(outs)) = z + 2
                          /\ list[i] = Ok(v, Kept(z, z + 1))
  <1> DEFINE p == BencStr
  <1>1. IsParser(p)
    BY BencStrIs
  <1>2. \A k \in 1 .. n : v[k] \in Seq(Byte) /\ outs[k] \in Seq(Byte)
    OBVIOUS
  <1> HIDE DEF p
  <1>3. \A k \in 1 .. n : /\ outs[k] # <<>>
                          /\ \A j \in Pos : Matches(outs[k], j) => p[j] = Ok(v[k], j + Len(outs[k]))
    <2> TAKE k \in 1 .. n
    <2>1. outs[k] = WrittenString(v[k]) /\ v[k] \in Seq(Byte) /\ v[k] # <<>> /\ Len(v[k]) <= MaxInt
      BY <1>2
    <2>2. outs[k] # <<>>
      BY <2>1, WrittenAre
    <2>3. \A j \in Pos : Matches(outs[k], j) => p[j] = Ok(v[k], j + Len(outs[k]))
      <3> TAKE j \in Pos
      <3> HAVE Matches(outs[k], j)
      <3> DEFINE x == v[k]
      <3>1. Matches(WrittenString(x), j) /\ x \in Seq(Byte) /\ x # <<>> /\ Len(x) <= MaxInt
        BY <2>1
      <3> HIDE DEF x
      <3>2. BencStr[j] = Ok(x, j + Len(WrittenString(x)))
        BY <3>1, StringStands
      <3> QED
        BY <2>1, <3>2 DEF p, x
    <2> QED
      BY <2>2, <2>3
  <1>4. \A j \in Pos : j # End /\ Car(j) = "e" => Refuses(p[j]) /\ p[j].at = j
    <2>1. "e" \notin DigitByte /\ "e" # "-"
      BY TenDigits
    <2> QED
      BY <2>1, NoLengthAt DEF p
  <1>5. ReadsEach(p, v, outs) /\ StopsAtEnd(p)
    BY <1>3, <1>4 DEF ReadsEach, StopsAtEnd
  <1>6. /\ i + 1 \in Pos /\ i + 1 # End /\ Tag("l")[i] = Ok("l", i + 1) /\ Matches(outs[1], i + 1)
        /\ \E z \in Pos : /\ i + Len(WrittenList(outs)) = z + 2
                          /\ ThenDiscard(Many0(p), Tag("e"))[i + 1] = Ok(v, Kept(z, z + 1))
    <2> DEFINE B == Seq(Byte)
    <2>1. v \in Seq(B)
      OBVIOUS
    <2> HIDE DEF B
    <2>2. ReadsList(p, v, outs, n, i)
      BY <1>1, <1>5, <2>1, ElementsStand
    <2> QED
      BY <2>2 DEF ReadsList
  <1>7. Refuses(manyInt[i + 1]) /\ manyInt[i + 1].at = i + 1
    <2>1. 1 \in 1 .. n
      OBVIOUS
    <2> DEFINE f == i + 1
    <2>2. f \in Pos /\ f # End /\ Matches(WrittenString(v[1]), f) /\ v[1] \in Seq(Byte)
      BY <1>2, <1>6, <2>1
    <2> HIDE DEF f
    <2>3. Car(f) \in DigitByte
      BY <2>2, WrittenBegins
    <2>4. "i" \notin DigitByte /\ "e" \notin DigitByte
      BY TenDigits
    <2> QED
      BY <2>2, <2>3, <2>4, NoIntsAt DEF f
  <1>8. PICK z \in Pos : /\ i + Len(WrittenList(outs)) = z + 2
                         /\ manyStr[i + 1] = Ok(v, Kept(z, z + 1))
    BY <1>6 DEF manyStr, p
  <1>9. ~Failed(manyStr[i + 1])
    BY <1>8 DEF Ok, Failed
  <1>10. list[i] = manyStr[i + 1]
    BY <1>6, <1>7, <1>9, ListIs
  <1> QED
    BY <1>8, <1>10

-----------------------------------------------------------------------------
(* What the encoder writes of a value, at any depth. *)

\* What is written of w when f is what is written at the depths below d.
MarshallStep(f, d, w) ==
    Encoder!WithParts(w, [k \in DOMAIN w.val |-> IF d = 0 THEN Encoder!Unsupported ELSE f[d - 1][w.val[k]]])

\* What is written of every value at every depth.
IsMarshalled(f) == \A d \in 0 .. Nest : \A w \in Value : f[d][w] = MarshallStep(f, d, w)

\* marshall is what its recursion says.
LEMMA MarshalledExists ==
    \E f : IsMarshalled(f) /\ \A v : Encoder!marshall(v) = f[Nest][v]
  <1> DEFINE IsUpTo(f, m) == f = [d \in 0 .. m |-> [w \in Value |-> MarshallStep(f, d, w)]]
             S == {m \in Nat : \E f : IsUpTo(f, m)}
             marshalled == CHOOSE f : IsUpTo(f, Nest)
  <1>1. 0 \in S
    <2> DEFINE g == [d \in 0 .. 0 |-> [w \in Value |-> MarshallStep(d, d, w)]]
    <2>1. \A d \in 0 .. 0 : d = 0
      OBVIOUS
    <2>2. \A f, h, w : MarshallStep(f, 0, w) = MarshallStep(h, 0, w)
      BY DEF MarshallStep
    <2>3. \A d \in 0 .. 0 : g[d] = [w \in Value |-> MarshallStep(g, d, w)]
      <3> TAKE d \in 0 .. 0
      <3>1. d = 0 /\ g[d] = [w \in Value |-> MarshallStep(d, d, w)]
        BY <2>1
      <3> HIDE DEF g
      <3>2. \A w : MarshallStep(d, d, w) = MarshallStep(g, d, w)
        BY <2>2, <3>1
      <3> QED
        BY <3>1, <3>2
    <2>4. g = [d \in 0 .. 0 |-> g[d]]
      OBVIOUS
    <2> HIDE DEF g
    <2>5. IsUpTo(g, 0)
      BY <2>3, <2>4
    <2> QED
      BY <2>5
  <1>2. ASSUME NEW m \in S
        PROVE  m + 1 \in S
    <2>1. m \in Nat
      OBVIOUS
    <2>2. PICK f : IsUpTo(f, m)
      OBVIOUS
    <2> DEFINE One(h, d) == [w \in Value |-> MarshallStep(h, d, w)]
               g == [d \in 0 .. m + 1 |-> IF d <= m THEN f[d] ELSE One(f, d)]
    <2>3. \A d \in 0 .. m : f[d] = One(f, d)
      BY <2>2
    <2>4. g = [d \in 0 .. m + 1 |-> g[d]]
      OBVIOUS
    <2>5. (\A d \in 0 .. m + 1 : g[d] = One(f, d)) /\ (\A d \in 0 .. m : g[d] = f[d])
      <3> HIDE DEF One
      <3>1. \A d \in 0 .. m + 1 : g[d] = IF d <= m THEN f[d] ELSE One(f, d)
        OBVIOUS
      <3>2. \A d \in 0 .. m : d \in 0 .. m + 1 /\ d <= m
        BY <2>1
      <3>3. \A d \in 0 .. m + 1 : d <= m => d \in 0 .. m
        BY <2>1
      <3> HIDE DEF g
      <3> QED
        BY <2>3, <3>1, <3>2, <3>3
    <2> HIDE DEF g
    <2>6. \A d \in 0 .. m + 1 : \A w : MarshallStep(f, d, w) = MarshallStep(g, d, w)
      <3> TAKE d \in 0 .. m + 1
      <3> TAKE w
      <3>1. d # 0 => d - 1 \in 0 .. m
        BY <2>1
      <3>2. d # 0 => g[d - 1] = f[d - 1]
        BY <2>5, <3>1
      <3> QED
        BY <3>2 DEF MarshallStep
    <2>7. \A d \in 0 .. m + 1 : g[d] = One(g, d)
      BY <2>5, <2>6
    <2>8. IsUpTo(g, m + 1)
      BY <2>4, <2>7, Zenon
    <2>9. m + 1 \in Nat
      BY <2>1
    <2> HIDE DEF IsUpTo
    <2> QED
      BY <2>8, <2>9
  <1>3. S = Nat
    <2> HIDE DEF S
    <2>1. S \subseteq Nat
      BY DEF S
    <2> QED
      BY <1>1, <1>2, <2>1, AllNumbers
  <1>4. \E f : IsUpTo(f, Nest)
    BY <1>3, CodecAssumption
  <1>5. \A v : Encoder!marshall(v) = marshalled[Nest][v]
    BY DEF Encoder!marshall, MarshallStep
  <1>6. IsUpTo(marshalled, Nest)
    <2> HIDE DEF IsUpTo
    <2> QED
      BY <1>4
  <1> HIDE DEF marshalled
  <1>7. IsMarshalled(marshalled)
    <2>1. marshalled = [d \in 0 .. Nest |-> [w \in Value |-> MarshallStep(marshalled, d, w)]]
      BY <1>6
    <2>2. \A d \in 0 .. Nest : marshalled[d] = [w \in Value |-> MarshallStep(marshalled, d, w)]
      BY <2>1
    <2> QED
      BY <2>2 DEF IsMarshalled
  <1> QED
    BY <1>5, <1>7

\* The encoder's operators on sequences and sets are the parsers'.
LEMMA EncoderSame ==
    /\ \A s : Encoder!FlattenSeq(s) = FlattenSeq(s)
    /\ \A S : Encoder!Min(S) = Min(S)
  BY DEF Encoder!FlattenSeq, FlattenSeq, Encoder!Min, Min

\* What is written of the first n parts.
PartOuts(parts, n) == [k \in 1 .. n |-> parts[k].out]

\* n parts, each of which is bytes, with something wrong or not.
PartsAre(parts, n) ==
    n \in Nat /\ DOMAIN parts = 1 .. n /\ Len(parts) = n /\ \A k \in 1 .. n : parts[k].out \in Seq(Byte)

\* What stands between two brackets, or does not.
LEMMA BetweenIs ==
    ASSUME NEW n, NEW parts, PartsAre(parts, n), NEW open \in Seq(Byte), NEW close \in Seq(Byte)
    PROVE  /\ Encoder!Between(open, parts, close).out \in Seq(Byte)
           /\ ~Encoder!Between(open, parts, close).err =>
                 /\ \A k \in 1 .. n : ~parts[k].err
                 /\ Encoder!Between(open, parts, close).out = open \o FlattenSeq(PartOuts(parts, n)) \o close
  <1> DEFINE bad == {k \in DOMAIN parts : parts[k].err}
             last == IF bad = {} THEN Len(parts) ELSE Min(bad)
             outs == [k \in 1 .. last |-> parts[k].out]
             all == [k \in 1 .. n |-> parts[k].out]
             b == Encoder!Between(open, parts, close)
  <1>1. n \in Nat /\ DOMAIN parts = 1 .. n /\ Len(parts) = n /\ \A k \in 1 .. n : parts[k].out \in Seq(Byte)
    BY DEF PartsAre
  <1>2. b = IF bad = {} THEN [out |-> open \o FlattenSeq(outs) \o close, err |-> FALSE]
                        ELSE [out |-> open \o FlattenSeq(outs), err |-> TRUE]
    <2> DEFINE fits == IF bad = {} THEN Len(parts) ELSE Encoder!Min(bad)
               flat == Encoder!FlattenSeq([k \in 1 .. fits |-> parts[k].out])
    <2>1. b = IF bad = {} THEN [out |-> open \o flat \o close, err |-> FALSE]
                          ELSE [out |-> open \o flat, err |-> TRUE]
      BY DEF Encoder!Between, Encoder!Written
    <2>2. flat = FlattenSeq(outs)
      BY EncoderSame, Zenon
    <2> HIDE DEF flat, bad, outs, b
    <2> QED
      BY <2>1, <2>2
  <1>3. last \in 0 .. n
    <2>1. CASE bad = {}
      BY <1>1, <2>1
    <2>2. CASE bad # {}
      <3>1. bad \subseteq Nat /\ bad \subseteq 0 .. n
        BY <1>1
      <3> HIDE DEF bad
      <3>2. PICK m \in bad : \A k \in bad : m <= k
        BY <2>2, <3>1, FirstOf
      <3>3. Min(bad) \in bad
        BY <3>2 DEF Min
      <3> QED
        BY <2>2, <3>1, <3>3
    <2> QED
      BY <2>1, <2>2
  <1>4. outs \in Seq(Seq(Byte))
    <2>1. \A k \in 1 .. last : k \in 1 .. n
      BY <1>1, <1>3
    <2> HIDE DEF last
    <2>2. outs \in [1 .. last -> Seq(Byte)] /\ last \in Nat
      BY <1>1, <1>3, <2>1
    <2> HIDE DEF outs
    <2> QED
      BY <2>2
  <1>5. FlattenSeq(outs) \in Seq(Byte)
    <2> DEFINE m == Len(outs)
    <2> HIDE DEF outs
    <2>1. m \in Nat
      BY <1>4
    <2>2. (\A k \in 0 .. m : FirstOnes(outs, k) \in Seq(Byte)) /\ FirstOnes(outs, m) = FlattenSeq(outs)
      BY <1>4, FlattenIs
    <2>3. m \in 0 .. m
      BY <2>1
    <2> HIDE DEF m
    <2> QED
      BY <2>2, <2>3
  <1> DEFINE flat == FlattenSeq(outs)
  <1>6. open \o flat \in Seq(Byte) /\ open \o flat \o close \in Seq(Byte)
    <2> HIDE DEF flat
    <2>1. flat \in Seq(Byte)
      BY <1>5 DEF flat
    <2>2. open \o flat \in Seq(Byte)
      BY <2>1, ConcatProperties
    <2> QED
      BY <2>2, ConcatProperties
  <1>7. bad = {} => outs = all /\ \A k \in 1 .. n : ~parts[k].err
    BY <1>1
  <1> HIDE DEF bad, outs, all, b
  <1>8. b.out \in Seq(Byte) /\ (~b.err => bad = {})
    BY <1>2, <1>6
  <1>9. bad = {} => b.out = open \o FlattenSeq(all) \o close
    BY <1>2, <1>7
  <1> QED
    BY <1>7, <1>8, <1>9 DEF all, PartOuts, b

\* The kinds of what has values in it.
Composite == {"slice", "map", "struct"}

\* What stands around the parts of each of them.
Opening(kind) == CASE kind = "slice" -> <<"l">> [] kind = "map" -> <<"d">> [] kind = "struct" -> <<>>
Closing(kind) == CASE kind = "slice" -> <<"e", " ">> [] kind = "map" -> <<"e">> [] kind = "struct" -> <<>>

\* The kinds one by one.
LEMMA WithPartsIs ==
    ASSUME NEW w, NEW parts, NEW b, b = Encoder!WithParts(w, parts)
    PROVE  /\ w.kind = "int" => b = Encoder!Written(WrittenInt(w.val))
           /\ w.kind = "string" => b = Encoder!Written(WrittenString(w.val))
           /\ w.kind \in Composite => b = Encoder!Between(Opening(w.kind), parts, Closing(w.kind))
           /\ w.kind \notin {"int", "string"} \cup Composite => b = Encoder!Unsupported
  <1>1. w.kind = "int" => b = Encoder!Written(WrittenInt(w.val))
    BY DEF Encoder!WithParts, WrittenInt
  <1>2. w.kind = "string" => b = Encoder!Written(WrittenString(w.val))
    BY DEF Encoder!WithParts, Encoder!WriteString, WrittenString
  <1>3. w.kind \in Composite => b = Encoder!Between(Opening(w.kind), parts, Closing(w.kind))
    <2>1. w.kind = "slice" => b = Encoder!Between(Opening(w.kind), parts, Closing(w.kind))
      BY DEF Encoder!WithParts, Opening, Closing
    <2>2. w.kind = "map" => b = Encoder!Between(Opening(w.kind), parts, Closing(w.kind))
      BY DEF Encoder!WithParts, Opening, Closing
    <2>3. w.kind = "struct" => b = Encoder!Between(Opening(w.kind), parts, Closing(w.kind))
      BY DEF Encoder!WithParts, Opening, Closing
    <2> QED
      BY <2>1, <2>2, <2>3 DEF Composite
  <1>4. w.kind \notin {"int", "string"} \cup Composite => b = Encoder!Unsupported
    BY DEF Encoder!WithParts, Composite
  <1> QED
    BY <1>1, <1>2, <1>3, <1>4

\* The brackets are bytes.
LEMMA BracketsAre ==
    ASSUME NEW kind \in Composite
    PROVE  Opening(kind) \in Seq(Byte) /\ Closing(kind) \in Seq(Byte)
  <1>1. "l" \in Byte /\ "d" \in Byte /\ "e" \in Byte /\ " " \in Byte
    BY TenDigits
  <1>2. <<"l">> \in Seq(Byte) /\ <<"d">> \in Seq(Byte) /\ <<"e">> \in Seq(Byte) /\ <<>> \in Seq(Byte)
    <2>1. \A b \in Byte : <<b>> \in Seq(Byte)
      BY OneByte
    <2>2. <<>> \in Seq(Byte)
      OBVIOUS
    <2> QED
      BY <1>1, <2>1, <2>2, Zenon
  <1>3. <<"e", " ">> \in Seq(Byte)
    <2>1. \A x, y \in Byte : <<x, y>> \in Seq(Byte)
      OBVIOUS
    <2> QED
      BY <1>1, <2>1, Zenon
  <1>4. CASE kind = "slice"
    BY <1>2, <1>3, <1>4, Zenon DEF Opening, Closing
  <1>5. CASE kind = "map"
    BY <1>2, <1>5, Zenon DEF Opening, Closing
  <1>6. CASE kind = "struct"
    BY <1>2, <1>6, Zenon DEF Opening, Closing
  <1> QED
    BY <1>4, <1>5, <1>6 DEF Composite

\* What is written of an integer, a string or nothing are bytes.
LEMMA SimplesAre ==
    ASSUME NEW w \in Value
    PROVE  /\ w.kind = "int" => WrittenInt(w.val) \in Seq(Byte)
           /\ w.kind = "string" => WrittenString(w.val) \in Seq(Byte)
  <1>1. CASE w.kind = "int"
    <2> DEFINE n == w.val
    <2>1. n \in Int
      BY <1>1, CodecAssumption
    <2> HIDE DEF n
    <2>2. CASE n < 0
      <3>1. PICK m \in Nat : Encoder!FormatInt(n) = <<"-">> \o Encoder!FormatInt(m)
        BY <2>1, <2>2, FormattedNegative
      <3> DEFINE ds == Encoder!FormatInt(m)
                 sign == <<"-">>
                 a == <<"i">>
                 c == <<"e">>
                 ns == Encoder!FormatInt(n)
      <3>2. ds \in Seq(DigitByte) /\ DigitByte \subseteq Byte /\ "-" \in Byte /\ "i" \in Byte /\ "e" \in Byte
        BY FormattedIs, TenDigits
      <3>3. sign \in Seq(Byte) /\ a \in Seq(Byte) /\ c \in Seq(Byte)
        <4>1. \A b \in Byte : <<b>> \in Seq(Byte)
          BY OneByte
        <4> QED
          BY <3>2, <4>1
      <3>4. WrittenInt(n) = a \o ns \o c /\ ns = sign \o ds
        BY <3>1 DEF WrittenInt
      <3> HIDE DEF ds, sign, a, c, ns
      <3>5. ds \in Seq(Byte)
        BY <3>2
      <3>6. sign \o ds \in Seq(Byte)
        BY <3>3, <3>5, ConcatProperties
      <3>7. ns \in Seq(Byte)
        BY <3>4, <3>6
      <3>8. a \o ns \in Seq(Byte)
        BY <3>3, <3>7, ConcatProperties
      <3>9. a \o ns \o c \in Seq(Byte)
        BY <3>3, <3>8, ConcatProperties
      <3> QED
        BY <1>1, <3>4, <3>9 DEF n
    <2>3. CASE ~(n < 0)
      <3>1. n \in Nat
        BY <2>1, <2>3
      <3> QED
        BY <1>1, <3>1, WrittenAre DEF n
    <2> QED
      BY <2>2, <2>3
  <1>2. CASE w.kind = "string"
    BY <1>2, CodecAssumption, WrittenAre
  <1> QED
    BY <1>1, <1>2

\* The parts of what has values in it.
PartsOf(f, d, w) == [k \in DOMAIN w.val |-> IF d = 0 THEN Encoder!Unsupported ELSE f[d - 1][w.val[k]]]

\* Bytes are written at every depth.
LEMMA MarshalledType ==
    ASSUME NEW f, IsMarshalled(f)
    PROVE  \A d \in 0 .. Nest : \A w \in Value : f[d][w].out \in Seq(Byte)
  <1>1. Nest \in Nat
    BY CodecAssumption
  <1> DEFINE S == {d \in Nat : d <= Nest => \A w \in Value : f[d][w].out \in Seq(Byte)}
  <1>2. ASSUME NEW d \in 0 .. Nest, d # 0 => \A w \in Value : f[d - 1][w].out \in Seq(Byte), NEW w \in Value
        PROVE  f[d][w].out \in Seq(Byte)
    <2> DEFINE parts == PartsOf(f, d, w)
               b == f[d][w]
    <2>1. b = Encoder!WithParts(w, parts)
      BY DEF IsMarshalled, MarshallStep, PartsOf
    <2> HIDE DEF b
    <2>2. w.kind = "int" => b.out \in Seq(Byte)
      BY <2>1, WithPartsIs, SimplesAre DEF Encoder!Written
    <2>3. w.kind = "string" => b.out \in Seq(Byte)
      BY <2>1, WithPartsIs, SimplesAre DEF Encoder!Written
    <2>4. w.kind \notin {"int", "string"} \cup Composite => b.out \in Seq(Byte)
      <3>1. <<>> \in Seq(Byte)
        OBVIOUS
      <3> HIDE DEF parts
      <3>2. w.kind \notin {"int", "string"} \cup Composite => b = Encoder!Unsupported
        BY <2>1, WithPartsIs
      <3>3. Encoder!Unsupported.out = <<>>
        BY DEF Encoder!Unsupported
      <3>4. Encoder!Unsupported.out \in Seq(Byte)
        BY <3>1, <3>3, Zenon
      <3> QED
        BY <3>2, <3>4, Zenon
    <2>5. CASE w.kind \in Composite
      <3> DEFINE v == w.val
                 n == Len(v)
                 open == Opening(w.kind)
                 close == Closing(w.kind)
      <3>1. v \in Seq(Value)
        BY <2>5, CodecAssumption DEF Composite
      <3>2. n \in Nat /\ DOMAIN v = 1 .. n /\ \A k \in 1 .. n : v[k] \in Value
        <4> HIDE DEF v
        <4> QED
          BY <3>1
      <3>3. parts = [k \in 1 .. n |-> IF d = 0 THEN Encoder!Unsupported ELSE f[d - 1][v[k]]]
        <4> HIDE DEF n
        <4> QED
          BY <3>2 DEF PartsOf
      <3> HIDE DEF v, n, parts
      <3>4. DOMAIN parts = 1 .. n /\ Len(parts) = n
        BY <3>2, <3>3
      <3>5. \A k \in 1 .. n : parts[k].out \in Seq(Byte)
        <4> TAKE k \in 1 .. n
        <4>1. CASE d = 0
          <5>1. parts[k] = Encoder!Unsupported /\ <<>> \in Seq(Byte)
            BY <3>3, <4>1
          <5> QED
            BY <5>1 DEF Encoder!Unsupported
        <4>2. CASE d # 0
          BY <1>2, <3>2, <3>3, <4>2
        <4> QED
          BY <4>1, <4>2
      <3>6. open \in Seq(Byte) /\ close \in Seq(Byte)
        BY <2>5, BracketsAre
      <3>7. b = Encoder!Between(open, parts, close)
        BY <2>1, <2>5, WithPartsIs
      <3> HIDE DEF open, close
      <3>8. b.out \in Seq(Byte)
        <4>1. PartsAre(parts, n)
          BY <3>2, <3>4, <3>5 DEF PartsAre
        <4> QED
          BY <3>6, <3>7, <4>1, BetweenIs
      <3> QED
        BY <3>8 DEF b
    <2> QED
      BY <2>2, <2>3, <2>4, <2>5 DEF b
  <1>3. 0 \in S
    <2>1. 0 \in 0 .. Nest
      BY <1>1
    <2> QED
      BY <1>2, <2>1
  <1>4. ASSUME NEW d \in S
        PROVE  d + 1 \in S
    <2> DEFINE e == d + 1
    <2>1. e - 1 = d /\ d \in Nat /\ e \in Nat /\ (e <= Nest => e \in 0 .. Nest /\ d <= Nest)
      BY <1>1
    <2> HIDE DEF e
    <2>2. e <= Nest => \A w \in Value : f[d][w].out \in Seq(Byte)
      BY <2>1
    <2>3. e <= Nest => \A w \in Value : f[e][w].out \in Seq(Byte)
      BY <1>2, <2>1, <2>2
    <2>4. e \in S
      BY <2>1, <2>3
    <2> QED
      BY <2>4 DEF e
  <1>5. S = Nat
    <2> HIDE DEF S
    <2>1. S \subseteq Nat
      BY DEF S
    <2> QED
      BY <1>3, <1>4, <2>1, AllNumbers
  <1>6. \A d \in 0 .. Nest : d \in S /\ d <= Nest
    <2> HIDE DEF S
    <2> QED
      BY <1>1, <1>5
  <1> QED
    BY <1>6

\* Nothing is wrong with what is written only if nothing is wrong with its parts.
LEMMA PartsFine ==
    ASSUME NEW f, IsMarshalled(f), NEW d \in 0 .. Nest, NEW w \in Value, w.kind \in Composite, ~f[d][w].err
    PROVE  \A k \in DOMAIN w.val : d # 0 /\ ~f[d - 1][w.val[k]].err
  <1> DEFINE parts == PartsOf(f, d, w)
  <1>1. f[d][w] = Encoder!WithParts(w, parts)
    BY DEF IsMarshalled, MarshallStep, PartsOf
  <1>2. DOMAIN parts = DOMAIN w.val /\ \A k \in DOMAIN w.val : parts[k] = IF d = 0 THEN Encoder!Unsupported ELSE f[d - 1][w.val[k]]
    BY DEF PartsOf
  <1> HIDE DEF parts
  <1>3. ~Encoder!Between(Opening(w.kind), parts, Closing(w.kind)).err
    BY <1>1, WithPartsIs
  <1>4. \A k \in DOMAIN parts : ~parts[k].err
    BY <1>3 DEF Encoder!Between, Encoder!Written
  <1> QED
    BY <1>2, <1>4 DEF Encoder!Unsupported

\* What is deep enough for a value is deep enough once there is more.
LEMMA DeeperSame ==
    ASSUME NEW f, IsMarshalled(f)
    PROVE  \A d \in 0 .. Nest - 1 : \A w \in Value : ~f[d][w].err => f[d + 1][w] = f[d][w]
  <1>1. Nest \in Nat
    BY CodecAssumption
  <1> DEFINE Stays(d) == \A w \in Value : ~f[d][w].err => f[d + 1][w] = f[d][w]
             S == {d \in Nat : d + 1 <= Nest => Stays(d)}
  <1>2. ASSUME NEW d \in 0 .. Nest - 1, d # 0 => Stays(d - 1), NEW w \in Value, ~f[d][w].err
        PROVE  f[d + 1][w] = f[d][w]
    <2> DEFINE e == d + 1
               p == PartsOf(f, d, w)
               q == PartsOf(f, e, w)
    <2>1. d \in 0 .. Nest /\ e \in 0 .. Nest /\ e # 0 /\ e - 1 = d /\ (d # 0 => d - 1 + 1 = d)
      BY <1>1
    <2> HIDE DEF e
    <2>2. f[d][w] = Encoder!WithParts(w, p) /\ f[e][w] = Encoder!WithParts(w, q)
      BY <2>1 DEF IsMarshalled, MarshallStep, PartsOf
    <2>3. CASE w.kind \notin Composite
      <3> HIDE DEF p, q
      <3> QED
        BY <2>2, <2>3, WithPartsIs DEF e
    <2>4. CASE w.kind \in Composite
      <3>1. \A k \in DOMAIN w.val : w.val[k] \in Value
        <4> DEFINE v == w.val
        <4>1. v \in Seq(Value)
          BY <2>4, CodecAssumption DEF Composite
        <4> HIDE DEF v
        <4>2. \A k \in DOMAIN v : v[k] \in Value
          BY <4>1
        <4> QED
          BY <4>2 DEF v
      <3>2. \A k \in DOMAIN w.val : d # 0 /\ ~f[d - 1][w.val[k]].err
        BY <1>2, <2>1, <2>4, PartsFine
      <3>3. \A k \in DOMAIN w.val : d # 0 /\ f[d][w.val[k]] = f[d - 1][w.val[k]]
        <4> TAKE k \in DOMAIN w.val
        <4>1. d # 0 /\ ~f[d - 1][w.val[k]].err /\ w.val[k] \in Value
          BY <3>1, <3>2
        <4>2. f[d - 1 + 1][w.val[k]] = f[d - 1][w.val[k]]
          BY <1>2, <4>1
        <4> QED
          BY <2>1, <4>1, <4>2
      <3>4. p = q
        BY <2>1, <3>3 DEF PartsOf
      <3> QED
        BY <2>2, <3>4 DEF e
    <2> QED
      BY <2>3, <2>4
  <1>3. 0 \in S
    <2>1. 0 + 1 <= Nest => 0 \in 0 .. Nest - 1
      BY <1>1
    <2> QED
      BY <1>2, <2>1
  <1>4. ASSUME NEW d \in S
        PROVE  d + 1 \in S
    <2> DEFINE e == d + 1
    <2>1. e - 1 = d /\ e \in Nat /\ (e + 1 <= Nest => e \in 0 .. Nest - 1 /\ d + 1 <= Nest)
      BY <1>1
    <2> HIDE DEF e
    <2>2. e + 1 <= Nest => Stays(e - 1)
      <3> HIDE DEF Stays
      <3> QED
        BY <2>1
    <2>3. e + 1 <= Nest => Stays(e)
      BY <1>2, <2>1, <2>2
    <2>4. e \in S
      <3> HIDE DEF Stays
      <3> QED
        BY <2>1, <2>3
    <2> QED
      BY <2>4 DEF e
  <1>5. S = Nat
    <2> HIDE DEF S
    <2>1. S \subseteq Nat
      BY DEF S
    <2> QED
      BY <1>3, <1>4, <2>1, AllNumbers
  <1>6. \A d \in 0 .. Nest - 1 : d \in S /\ d + 1 <= Nest
    <2> HIDE DEF S
    <2> QED
      BY <1>1, <1>5
  <1> QED
    BY <1>6

-----------------------------------------------------------------------------
(* What is written of a field, of a struct, and of the one that is encoded. *)

\* What is written of the elements of a value.
OutsOf(v) == [k \in 1 .. Len(v.val) |-> Encoder!marshall(v.val[k]).out]

\* What marshall writes.
LEMMA MarshallIs ==
    ASSUME NEW v \in Value, NEW b, b = Encoder!marshall(v)
    PROVE  /\ b.out \in Seq(Byte)
           /\ v.kind = "int" => b.out = WrittenInt(v.val)
           /\ v.kind = "string" => b.out = WrittenString(v.val)
           /\ v.kind \in Composite /\ ~b.err =>
                 /\ v.val \in Seq(Value)
                 /\ OutsOf(v) \in Seq(Seq(Byte)) /\ Len(OutsOf(v)) = Len(v.val)
                 /\ \A k \in 1 .. Len(v.val) : ~Encoder!marshall(v.val[k]).err
                 /\ b.out = Opening(v.kind) \o FlattenSeq(OutsOf(v)) \o Closing(v.kind)
  <1>1. PICK f : IsMarshalled(f) /\ \A w : Encoder!marshall(w) = f[Nest][w]
    BY MarshalledExists
  <1> DEFINE parts == PartsOf(f, Nest, v)
  <1>2. Nest \in Nat /\ Nest \in 0 .. Nest
    <2>1. Nest \in Nat
      BY CodecAssumption
    <2> QED
      BY <2>1
  <1>3. b = f[Nest][v] /\ b = Encoder!WithParts(v, parts)
    BY <1>1, <1>2 DEF IsMarshalled, MarshallStep, PartsOf
  <1>4. b.out \in Seq(Byte)
    BY <1>1, <1>2, <1>3, MarshalledType
  <1>5. v.kind = "int" => b.out = WrittenInt(v.val)
    BY <1>3, WithPartsIs DEF Encoder!Written
  <1>6. v.kind = "string" => b.out = WrittenString(v.val)
    BY <1>3, WithPartsIs DEF Encoder!Written
  <1>7. CASE v.kind \in Composite /\ ~b.err
    <2> DEFINE s == v.val
               n == Len(s)
               open == Opening(v.kind)
               close == Closing(v.kind)
               outs == OutsOf(v)
    <2>1. s \in Seq(Value)
      BY <1>7, CodecAssumption DEF Composite
    <2>2. n \in Nat /\ DOMAIN s = 1 .. n /\ \A k \in 1 .. n : s[k] \in Value
      <3> HIDE DEF s
      <3> QED
        BY <2>1
    <2>3. \A k \in 1 .. n : Nest # 0 /\ ~f[Nest - 1][s[k]].err
      <3>1. \A k \in DOMAIN v.val : Nest # 0 /\ ~f[Nest - 1][v.val[k]].err
        BY <1>1, <1>2, <1>3, <1>7, PartsFine
      <3> QED
        BY <2>2, <3>1
    <2>4. parts = [k \in 1 .. n |-> IF Nest = 0 THEN Encoder!Unsupported ELSE f[Nest - 1][s[k]]]
      <3> HIDE DEF n
      <3> QED
        BY <2>2 DEF PartsOf
    <2>5. outs = [k \in 1 .. n |-> Encoder!marshall(s[k]).out]
      BY DEF OutsOf
    <2> HIDE DEF s, n, parts, outs
    <2>6. ASSUME NEW k \in 1 .. n
          PROVE  /\ parts[k] = Encoder!marshall(s[k]) /\ ~parts[k].err
                 /\ parts[k].out = outs[k] /\ outs[k] \in Seq(Byte)
      <3> DEFINE d == Nest - 1
      <3>1. s[k] \in Value /\ Nest # 0 /\ ~f[d][s[k]].err /\ parts[k] = f[d][s[k]]
        BY <2>2, <2>3, <2>4
      <3>2. d \in 0 .. Nest - 1 /\ d \in 0 .. Nest /\ d + 1 = Nest
        BY <1>2, <3>1
      <3> HIDE DEF d
      <3>3. f[d + 1][s[k]] = f[d][s[k]]
        BY <1>1, <3>1, <3>2, DeeperSame
      <3>4. parts[k] = Encoder!marshall(s[k])
        BY <1>1, <3>1, <3>2, <3>3
      <3>5. f[d][s[k]].out \in Seq(Byte)
        BY <1>1, <3>1, <3>2, MarshalledType
      <3> QED
        BY <2>5, <3>1, <3>4, <3>5
    <2>7. DOMAIN parts = 1 .. n /\ Len(parts) = n
      BY <2>2, <2>4
    <2>8. outs \in Seq(Seq(Byte)) /\ Len(outs) = n
      <3>1. outs \in [1 .. n -> Seq(Byte)]
        BY <2>5, <2>6
      <3> QED
        BY <2>2, <3>1
    <2>9. outs = [k \in 1 .. n |-> parts[k].out]
      BY <2>5, <2>6
    <2>10. b = Encoder!Between(open, parts, close) /\ open \in Seq(Byte) /\ close \in Seq(Byte)
      BY <1>3, <1>7, WithPartsIs, BracketsAre
    <2> HIDE DEF open, close
    <2>11. b.out = open \o FlattenSeq([k \in 1 .. n |-> parts[k].out]) \o close
      <3>1. PartsAre(parts, n)
        BY <2>2, <2>6, <2>7 DEF PartsAre
      <3>2. ~Encoder!Between(open, parts, close).err
        BY <1>7, <2>10
      <3>3. Encoder!Between(open, parts, close).out = open \o FlattenSeq(PartOuts(parts, n)) \o close
        BY <2>10, <3>1, <3>2, BetweenIs
      <3> QED
        BY <2>10, <3>3 DEF PartOuts
    <2>12. b.out = open \o FlattenSeq(outs) \o close
      BY <2>9, <2>11
    <2>13. \A k \in 1 .. n : ~Encoder!marshall(s[k]).err
      BY <2>6
    <2> QED
      BY <1>4, <1>5, <1>6, <2>1, <2>8, <2>12, <2>13 DEF s, n, open, close, outs
  <1> QED
    BY <1>4, <1>5, <1>6, <1>7

\* A list of what is read, and of integers or strings only, is read as one.
LEMMA ListStands ==
    ASSUME TypeOK, NEW f \in Value, ~Encoder!marshall(f).err, IsReadList(f),
           NEW i \in Pos, Matches(Encoder!marshall(f).out, i)
    PROVE  LET j == i + Len(Encoder!marshall(f).out)
           IN  Takes(list[i], [k \in DOMAIN f.val |-> ReadAs(f.val[k])], IF shared THEN j - 1 ELSE j - 2)
  <1> DEFINE s == f.val
             n == Len(s)
             outs == OutsOf(f)
             b == Encoder!marshall(f)
             j == i + Len(b.out)
             rs == [k \in 1 .. n |-> ReadAs(s[k])]
  <1>1. f.kind = "slice" /\ f.kind \in Composite
    BY DEF IsReadList, Composite
  <1>2. /\ s \in Seq(Value) /\ outs \in Seq(Seq(Byte)) /\ Len(outs) = n
        /\ b.out = WrittenList(outs)
    BY <1>1, MarshallIs DEF Opening, Closing, WrittenList
  <1>3. n \in Nat /\ DOMAIN s = 1 .. n /\ \A k \in 1 .. n : s[k] \in Value
    <2> HIDE DEF s
    <2> QED
      BY <1>2
  <1>4. \A k \in 1 .. n : outs[k] = Encoder!marshall(s[k]).out
    BY DEF OutsOf
  <1>5. PICK kind \in {"int", "string"} : \A k \in 1 .. n : s[k].kind = kind /\ IsRead(s[k])
    BY <1>3 DEF IsReadList
  <1>6. Matches(WrittenList(outs), i)
    BY <1>2
  <1>7. ASSUME NEW w, NEW z \in Pos, i + Len(WrittenList(outs)) = z + 2, list[i] = Ok(w, Kept(z, z + 1)), w = rs
        PROVE  Takes(list[i], [k \in DOMAIN s |-> ReadAs(s[k])], IF shared THEN j - 1 ELSE j - 2)
    <2>1. j = z + 2 /\ z \in Nat
      BY <1>2, <1>7, InputIs
    <2>2. Kept(z, z + 1) = IF shared THEN j - 1 ELSE j - 2
      <3> HIDE DEF j
      <3> QED
        BY <2>1 DEF Kept
    <2>3. rs = [k \in DOMAIN s |-> ReadAs(s[k])]
      BY <1>3
    <2> HIDE DEF j, rs
    <2> QED
      BY <1>7, <2>2, <2>3 DEF Takes, Ok
  <1> HIDE DEF outs, b, j
  <1>8. CASE kind = "int"
    <2> DEFINE v == [k \in 1 .. n |-> s[k].val]
    <2>1. \A k \in 1 .. n : s[k].val \in Nat /\ outs[k] = WrittenInt(s[k].val)
      <3> TAKE k \in 1 .. n
      <3>1. s[k] \in Value /\ s[k].kind = "int" /\ IsRead(s[k])
        BY <1>3, <1>5, <1>8
      <3>2. s[k].val \in Int /\ s[k].val >= 0
        BY <3>1, CodecAssumption DEF IsRead
      <3> QED
        BY <1>4, <3>1, <3>2, MarshallIs
    <2>2. v \in Seq(Nat) /\ Len(v) = n /\ \A k \in 1 .. n : v[k] = s[k].val
      <3> HIDE DEF n
      <3>1. v \in [1 .. n -> Nat]
        BY <2>1
      <3> QED
        BY <1>3, <3>1
    <2>3. \A k \in 1 .. n : outs[k] = WrittenInt(v[k])
      BY <2>1, <2>2
    <2> HIDE DEF v, n
    <2>4. PICK z \in Pos : /\ i + Len(WrittenList(outs)) = z + 2
                           /\ list[i] = Ok([k \in 1 .. n |-> IF v[k] > MaxInt THEN MaxInt ELSE v[k]], Kept(z, z + 1))
      BY <1>2, <1>3, <1>6, <2>2, <2>3, IntsStand DEF n
    <2> DEFINE w == [k \in 1 .. n |-> IF v[k] > MaxInt THEN MaxInt ELSE v[k]]
    <2>5. w = rs
      <3>1. \A k \in 1 .. n : ReadAs(s[k]) = IF v[k] > MaxInt THEN MaxInt ELSE v[k]
        BY <1>5, <1>8, <2>2 DEF ReadAs
      <3> QED
        BY <3>1
    <2> HIDE DEF w, rs
    <2>6. list[i] = Ok(w, Kept(z, z + 1))
      BY <2>4 DEF w
    <2> QED
      BY <1>7, <2>4, <2>5, <2>6 DEF j, b
  <1>9. CASE kind = "string" /\ n # 0
    <2> DEFINE v == [k \in 1 .. n |-> s[k].val]
    <2>1. \A k \in 1 .. n : /\ s[k].val \in Seq(Byte) /\ Len(s[k].val) <= MaxInt /\ s[k].val # <<>>
                            /\ outs[k] = WrittenString(s[k].val) /\ s[k].kind # "int"
      <3> TAKE k \in 1 .. n
      <3>1. s[k] \in Value /\ s[k].kind = "string" /\ IsRead(s[k])
        BY <1>3, <1>5, <1>9
      <3>2. s[k].val \in Seq(Byte) /\ Len(s[k].val) <= MaxInt
        BY <3>1, CodecAssumption
      <3>3. s[k].val # <<>>
        BY <3>1 DEF IsRead
      <3>4. outs[k] = WrittenString(s[k].val)
        BY <1>4, <3>1, MarshallIs
      <3> QED
        BY <3>1, <3>2, <3>3, <3>4
    <2>2. v \in Seq(Seq(Byte)) /\ Len(v) = n /\ \A k \in 1 .. n : v[k] = s[k].val
      <3> HIDE DEF n
      <3>1. v \in [1 .. n -> Seq(Byte)]
        BY <2>1
      <3> QED
        BY <1>3, <3>1
    <2>3. \A k \in 1 .. n : outs[k] = WrittenString(v[k]) /\ v[k] # <<>> /\ Len(v[k]) <= MaxInt
      BY <2>1, <2>2
    <2>4. v = rs
      <3>1. \A k \in 1 .. n : ReadAs(s[k]) = s[k].val
        BY <2>1 DEF ReadAs
      <3> QED
        BY <3>1
    <2> HIDE DEF v, n, rs
    <2>5. PICK z \in Pos : i + Len(WrittenList(outs)) = z + 2 /\ list[i] = Ok(v, Kept(z, z + 1))
      BY <1>2, <1>3, <1>6, <1>9, <2>2, <2>3, StringsStand DEF n
    <2> QED
      BY <1>7, <2>4, <2>5 DEF j, b
  <1>10. CASE n = 0
    <2> DEFINE e == <<>>
    <2>1. e \in Seq(Nat) /\ Len(e) = 0
      OBVIOUS
    <2>2. \A k \in 1 .. n : FALSE
      BY <1>10
    <2> HIDE DEF e, n
    <2>3. \A k \in 1 .. n : outs[k] = WrittenInt(e[k])
      BY <2>2
    <2>4. PICK z \in Pos : /\ i + Len(WrittenList(outs)) = z + 2
                           /\ list[i] = Ok([k \in 1 .. n |-> IF e[k] > MaxInt THEN MaxInt ELSE e[k]], Kept(z, z + 1))
      BY <1>2, <1>3, <1>6, <1>10, <2>1, <2>3, IntsStand DEF n
    <2> DEFINE w == [k \in 1 .. n |-> IF e[k] > MaxInt THEN MaxInt ELSE e[k]]
    <2>5. w = rs
      BY <2>2
    <2> HIDE DEF w, rs
    <2>6. list[i] = Ok(w, Kept(z, z + 1))
      BY <2>4 DEF w
    <2> QED
      BY <1>7, <2>4, <2>5, <2>6 DEF j, b
  <1> QED
    BY <1>8, <1>9, <1>10 DEF j, b

\* A field is read as what it was, wherever what is written of it stands.
LEMMA FieldStands ==
    ASSUME TypeOK, NEW f \in Value, ~Encoder!marshall(f).err,
           NEW i \in Pos, Matches(Encoder!marshall(f).out, i)
    PROVE  ParsedBack(f, i, i + Len(Encoder!marshall(f).out))
  <1> DEFINE b == Encoder!marshall(f)
             j == i + Len(b.out)
  <1>1. CASE f.kind = "int"
    <2> DEFINE n == f.val
    <2>1. n \in Int /\ b.out = WrittenInt(n) /\ MaxInt \in Nat
      BY <1>1, CodecAssumption, MarshallIs
    <2>2. ParserOf(f.kind) = BencInt /\ (IsRead(f) <=> n >= 0) /\ ReadAs(f) = IF n > MaxInt THEN MaxInt ELSE n
      BY <1>1 DEF ParserOf, IsRead, ReadAs
    <2>3. ~IsReadList(f)
      BY <1>1 DEF IsReadList
    <2>4. Matches(WrittenInt(n), i)
      BY <2>1
    <2> HIDE DEF n
    <2>5. n >= 0 => BencInt[i] = Ok(IF n > MaxInt THEN MaxInt ELSE n, i + Len(WrittenInt(n)))
      <3>1. n >= 0 => n \in Nat
        BY <2>1
      <3> QED
        BY <2>4, <3>1, IntStands
    <2>6. ~(n >= 0) => Refuses(BencInt[i])
      <3>1. ~(n >= 0) => n < 0
        BY <2>1
      <3> QED
        BY <2>1, <2>4, <3>1, NegativeStands
    <2>7. n >= 0 => Takes(BencInt[i], ReadAs(f), j)
      BY <2>1, <2>2, <2>5 DEF Takes, Ok
    <2> HIDE DEF j
    <2>8. f.val < 0 => Refuses(BencInt[i])
      BY <2>1, <2>6 DEF n
    <2>9. ParsedBack(f, i, j)
      BY <2>2, <2>3, <2>7, <2>8 DEF ParsedBack
    <2> QED
      BY <2>9 DEF j
  <1>2. CASE f.kind = "string"
    <2> DEFINE s == f.val
    <2>1. s \in Seq(Byte) /\ Len(s) <= MaxInt /\ b.out = WrittenString(s)
      BY <1>2, CodecAssumption, MarshallIs
    <2>2. ParserOf(f.kind) = BencStr /\ (IsRead(f) <=> s # <<>>) /\ ReadAs(f) = s
      BY <1>2 DEF ParserOf, IsRead, ReadAs
    <2>3. ~IsReadList(f)
      BY <1>2 DEF IsReadList
    <2>4. Matches(WrittenString(s), i)
      BY <2>1
    <2> HIDE DEF s
    <2>5. s # <<>> => BencStr[i] = Ok(s, i + Len(WrittenString(s)))
      BY <2>1, <2>4, StringStands
    <2>6. s # <<>> => Takes(BencStr[i], s, j)
      BY <2>1, <2>5 DEF Takes, Ok
    <2> HIDE DEF j
    <2>7. ParsedBack(f, i, j)
      BY <1>2, <2>2, <2>3, <2>6 DEF ParsedBack
    <2> QED
      BY <2>7 DEF j
  <1>3. CASE f.kind \notin {"int", "string"}
    <2>1. IsReadList(f) =>
             Takes(list[i], [k \in DOMAIN f.val |-> ReadAs(f.val[k])], IF shared THEN j - 1 ELSE j - 2)
      BY ListStands
    <2> HIDE DEF j
    <2>2. ~IsRead(f)
      BY <1>3 DEF IsRead
    <2>3. ParsedBack(f, i, j)
      BY <1>3, <2>1, <2>2 DEF ParsedBack
    <2> QED
      BY <2>3 DEF j
  <1> QED
    BY <1>1, <1>2, <1>3

\* What is written of a struct is read field by field.
LEMMA StructStands ==
    ASSUME TypeOK, NEW v \in Value, v.kind = "struct", ~Encoder!marshall(v).err, in = Encoder!marshall(v).out
    PROVE  \A k \in DOMAIN v.val : ParsedBack(v.val[k], StartOf(v, k), StartOf(v, k + 1))
  <1> DEFINE s == v.val
             n == Len(s)
             outs == OutsOf(v)
             e == <<>>
             flat == FlattenSeq(outs)
  <1>1. v.kind \in Composite
    BY DEF Composite
  <1>2. /\ s \in Seq(Value) /\ outs \in Seq(Seq(Byte)) /\ Len(outs) = n
        /\ \A k \in 1 .. n : ~Encoder!marshall(s[k]).err
        /\ in = e \o flat \o e
    BY <1>1, MarshallIs DEF Opening, Closing
  <1>3. n \in Nat /\ DOMAIN s = 1 .. n /\ \A k \in 1 .. n : s[k] \in Value
    <2> HIDE DEF s
    <2> QED
      BY <1>2
  <1>4. \A k \in 1 .. n : outs[k] = Encoder!marshall(s[k]).out
    BY DEF OutsOf
  <1>5. \A k \in 1 .. n + 1 : StartOf(v, k) = RowAt(outs, 1, k)
    <2> TAKE k \in 1 .. n + 1
    <2> DEFINE a == [x \in 1 .. k - 1 |-> Encoder!marshall(v.val[x]).out]
               b == [x \in 1 .. k - 1 |-> outs[x]]
    <2>1. \A x \in 1 .. k - 1 : x \in 1 .. n
      BY <1>3
    <2>2. a = b
      BY <1>4, <2>1
    <2>3. StartOf(v, k) = 1 + Len(FlattenSeq(a)) /\ RowAt(outs, 1, k) = 1 + Len(FlattenSeq(b))
      BY DEF StartOf, RowAt, FirstOnes
    <2> HIDE DEF a, b
    <2> QED
      BY <2>2, <2>3
  <1> HIDE DEF s, n, outs
  <1>6. flat \in Seq(Byte)
    <2>1. (\A k \in 0 .. n : FirstOnes(outs, k) \in Seq(Byte)) /\ FirstOnes(outs, n) = FlattenSeq(outs)
      <3> DEFINE m == Len(outs)
      <3>1. (\A k \in 0 .. m : FirstOnes(outs, k) \in Seq(Byte)) /\ FirstOnes(outs, m) = FlattenSeq(outs)
        BY <1>2, FlattenIs
      <3> QED
        BY <1>2, <3>1
    <2>2. n \in 0 .. n
      BY <1>3
    <2> QED
      BY <2>1, <2>2
  <1>7. in = flat
    <2> HIDE DEF flat
    <2>1. e \o flat \o e = flat
      BY <1>6
    <2> QED
      BY <1>2, <2>1
  <1>8. Matches(flat, 1) /\ 1 \in Pos
    <2> DEFINE m == Len(in)
    <2>1. m \in Nat /\ End = m + 1 /\ 1 \in Pos
      BY InputIs
    <2>2. \A k \in 1 .. m : 1 + k - 1 = k /\ Car(k) = in[k]
      BY <2>1 DEF Car
    <2>3. 1 + m <= End /\ \A k \in 1 .. m : Car(1 + k - 1) = in[k]
      <3> HIDE DEF m
      <3> QED
        BY <2>1, <2>2
    <2>4. Matches(in, 1)
      BY <2>3 DEF Matches
    <2> QED
      BY <1>7, <2>1, <2>4
  <1> HIDE DEF flat
  <1>9. /\ \A k \in 1 .. n + 1 : RowAt(outs, 1, k) \in Pos
        /\ \A k \in 1 .. n : /\ Matches(outs[k], RowAt(outs, 1, k))
                             /\ RowAt(outs, 1, k + 1) = RowAt(outs, 1, k) + Len(outs[k])
    BY <1>2, <1>8, MatchesRow DEF flat
  <1>10. ASSUME NEW k \in 1 .. n
         PROVE  ParsedBack(s[k], StartOf(v, k), StartOf(v, k + 1))
    <2> DEFINE i == RowAt(outs, 1, k)
               f == s[k]
               b == Encoder!marshall(f)
    <2>1. k \in 1 .. n + 1 /\ k + 1 \in 1 .. n + 1
      BY <1>3
    <2>2. f \in Value /\ ~b.err /\ i \in Pos /\ Matches(b.out, i)
      BY <1>2, <1>3, <1>4, <1>9, <2>1
    <2>3. StartOf(v, k) = i /\ StartOf(v, k + 1) = i + Len(b.out)
      BY <1>4, <1>5, <1>9, <2>1
    <2> HIDE DEF i, f
    <2>4. ParsedBack(f, i, i + Len(b.out))
      BY <2>2, FieldStands
    <2> QED
      BY <2>3, <2>4 DEF f
  <1> QED
    BY <1>3, <1>10 DEF s

\* The input is what is written of the struct, or there is none.
EncodedInv ==
    /\ TypeOK
    /\ encoded \in Value /\ encoded.kind = "struct"
    /\ encoded = NoFields \/ in = Encoder!Encode(encoded).out

\* What the encoder writes is bytes.
LEMMA EncodeType == \A v \in Value : Encoder!Encode(v).out \in Seq(Byte)
  <1> TAKE v \in Value
  <1>1. Encoder!marshall(v).out \in Seq(Byte)
    BY MarshallIs
  <1>2. Encoder!Unsupported.out = <<>> /\ <<>> \in Seq(Byte)
    BY DEF Encoder!Unsupported
  <1>3. Encoder!Encode(v) = IF v.kind = "struct" THEN Encoder!marshall(v) ELSE Encoder!Unsupported
    BY DEF Encoder!Encode
  <1> QED
    BY <1>1, <1>2, <1>3, Zenon

\* Nothing is added to what the encoder wrote whole.
LEMMA EncodedInvariant == Spec => []EncodedInv
  <1>1. Init => EncodedInv
    <2> SUFFICES ASSUME Init PROVE EncodedInv
      OBVIOUS
    <2>1. MaxInt \in Nat /\ NoFields \in Value
      BY CodecAssumption
    <2>2. NoFields.kind = "struct"
      BY DEF NoFields
    <2>3. PICK v \in Value :
             \/ v.kind = "struct" /\ encoded = v /\ in = Encoder!Encode(v).out
             \/ encoded = NoFields /\ \E n \in 0 .. Len(Encoder!Encode(v).out) - 1 : in = SubSeq(Encoder!Encode(v).out, 1, n)
      BY DEF Init
    <2> DEFINE out == Encoder!Encode(v).out
    <2>4. out \in Seq(Byte)
      BY EncodeType
    <2>5. CASE v.kind = "struct" /\ encoded = v /\ in = out
      BY <2>1, <2>4, <2>5 DEF EncodedInv, TypeOK
    <2>6. CASE encoded = NoFields /\ \E n \in 0 .. Len(out) - 1 : in = SubSeq(out, 1, n)
      <3>1. in \in Seq(Byte)
        <4> HIDE DEF out
        <4>1. PICK n \in 0 .. Len(out) - 1 : in = SubSeq(out, 1, n)
          BY <2>6
        <4>2. Len(out) \in Nat /\ \A k \in 1 .. n : out[k] \in Byte
          BY <2>4
        <4>3. SubSeq(out, 1, n) \in Seq(Byte)
          BY <2>4, <4>2
        <4> QED
          BY <4>1, <4>3
      <3> QED
        BY <2>1, <2>2, <2>6, <3>1 DEF EncodedInv, TypeOK
    <2> QED
      BY <2>3, <2>5, <2>6
  <1>2. EncodedInv /\ [Next]_codecVars => EncodedInv'
    <2> SUFFICES ASSUME EncodedInv, [Next]_codecVars PROVE EncodedInv'
      OBVIOUS
    <2>1. ASSUME NEW b \in Typed, Type(b) PROVE EncodedInv'
      <3>1. b \in Byte /\ in \in Seq(Byte) /\ encoded = NoFields
        BY <2>1, CodecAssumption DEF EncodedInv, TypeOK, Type
      <3>2. in' \in Seq(Byte) /\ encoded' = encoded
        BY <2>1, <3>1 DEF Type
      <3> QED
        BY <3>1, <3>2 DEF EncodedInv, TypeOK
    <2>2. CASE UNCHANGED codecVars
      <3>1. in' = in /\ encoded' = encoded
        BY <2>2 DEF codecVars
      <3>2. Encoder!Encode(encoded)' = Encoder!Encode(encoded)
        BY <3>1 DEF Encoder!Encode
      <3> QED
        BY <3>1, <3>2 DEF EncodedInv, TypeOK
    <2> QED
      BY <2>1, <2>2 DEF Next
  <1> QED
    BY <1>1, <1>2, PTL DEF Spec

\* What the encoder writes of a struct is, field by field, what the parsers read,
\* whatever the bytes, the values and how deep they nest (benc_enc.go:32,
\* bencode_parser.go:54, :100, :131).
THEOREM EncodedIsParsedHolds == Spec => []EncodedIsParsed
  <1>1. EncodedInv => EncodedIsParsed
    <2> SUFFICES ASSUME EncodedInv, ~Encoder!Encode(encoded).err
                 PROVE  \A k \in DOMAIN encoded.val :
                           ParsedBack(encoded.val[k], StartOf(encoded, k), StartOf(encoded, k + 1))
      BY DEF EncodedIsParsed
    <2>1. CASE encoded = NoFields
      <3>1. encoded.val = <<>>
        BY <2>1 DEF NoFields
      <3> QED
        BY <3>1
    <2>2. CASE encoded # NoFields
      <3>1. Encoder!Encode(encoded) = Encoder!marshall(encoded)
        BY DEF EncodedInv, Encoder!Encode
      <3>2. TypeOK /\ encoded \in Value /\ encoded.kind = "struct" /\ in = Encoder!marshall(encoded).out
        BY <2>2, <3>1 DEF EncodedInv
      <3> QED
        BY <3>1, <3>2, StructStands
    <2> QED
      BY <2>1, <2>2
  <1> QED
    BY <1>1, EncodedInvariant, PTL

\* Of every input that is encoded or typed: strings and integers are read as they
\* are written, a choice finds the one that is there, the parsers leave the input
\* when they refuse it, and the combinators agree (bencode_parser.go:33 to :100,
\* parsec.go:33 to :994).
THEOREM ParsersHold ==
    Spec => [](StringsAsWritten /\ IntsAsWritten /\ InputsAgree /\ FailureKeepsInput /\ CombinatorsAgree)
  <1>1. EncodedInv => StringsAsWritten /\ IntsAsWritten /\ InputsAgree /\ FailureKeepsInput /\ CombinatorsAgree
    BY StringsAsWrittenHolds, IntsAsWrittenHolds, InputsAgreeHolds, FailureKeepsInputHolds, CombinatorsAgreeHolds
       DEF EncodedInv
  <1> QED
    BY <1>1, EncodedInvariant, PTL
=============================================================================
