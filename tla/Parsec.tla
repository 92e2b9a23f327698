-------------------------------- MODULE Parsec --------------------------------
(***************************************************************************)
(* The parser combinators of parsec/parsec.go.                             *)
(*                                                                         *)
(* The bytes to parse are `in`; what is left of them is the position of    *)
(* the next byte.  A parser is a function from the position it starts at   *)
(* to its PResult: an error kind ("none" is nil), a result, and the        *)
(* position Rem is at.                                                     *)
(*                                                                         *)
(* An input whose Cdr returns a copy, as ParserInput asks for, keeps its   *)
(* position: a parser that fails with the input it was given leaves its    *)
(* caller where it started.  BencInput's Cdr advances the one reader all   *)
(* its copies share: whichever input a parser returns, it is where the     *)
(* last byte was read.  `shared` says which of the two `in` is.            *)
(*                                                                         *)
(* "panic" and "loops" are no errors of the code: the parser reads past    *)
(* the end, or never returns; they end every parser around it.             *)
(***************************************************************************)
EXTENDS Integers, Sequences, SequencesExt

CONSTANTS
    Byte,    \* the bytes that occur, as strings of one character
    MaxInt,  \* the largest int
    Nil      \* the result nil

\* No value that is parsed is nil.
ASSUME NilAssumption == Nil \notin Int /\ Nil \notin Seq(Byte)

VARIABLES
    in,
    shared   \* whether Cdr advances a reader all copies share

Dec == <<"0", "1", "2", "3", "4", "5", "6", "7", "8", "9">>
DigitByte == Byte \cap ToSet(Dec)
LetterByte == Byte \ (DigitByte \cup {"-", ":", " "})

DigitOf(b) == (CHOOSE d \in 1 .. 10 : Dec[d] = b) - 1

Digits(bs) == [k \in DOMAIN bs |-> DigitOf(bs[k])]

\* The number that digits write.
Decimal(ds) ==
    LET value[k \in 0 .. Len(ds)] == IF k = 0 THEN 0 ELSE 10 * value[k - 1] + ds[k]
    IN  value[Len(ds)]

\* The int that is left of a number.
Wrap(n) == ((n + MaxInt + 1) % (2 * MaxInt + 2)) - MaxInt - 1

\* The int that the loop of Number makes of digits.
IntOf(ds) ==
    LET num[k \in 0 .. Len(ds)] == IF k = 0 THEN 0 ELSE Wrap(10 * num[k - 1] + ds[k])
    IN  num[Len(ds)]

End == Len(in) + 1
Pos == 1 .. End

Empty(i) == i = End
Car(i) == in[i]
Bytes(i, j) == SubSeq(in, i, j - 1)

-----------------------------------------------------------------------------
Ok(v, i) == [err |-> "none", val |-> v, at |-> i]

\* Where an input is that was at `from`, once bytes up to `here` are read.
Kept(from, here) == IF shared THEN here ELSE from

Fails(e, from, here) == [err |-> e, val |-> Nil, at |-> Kept(from, here)]

Stuck(e, i) == [err |-> e, val |-> Nil, at |-> i]

Ends(r) == r.err \in {"panic", "loops"}
Failed(r) == r.err # "none"

\* What a parser that starts at `from` returns when one it called failed.
GivesUp(e, from, r) == IF Ends(r) THEN r ELSE Fails(e, from, r.at)

Prepend(v, r) == IF Failed(r) THEN r ELSE [r EXCEPT !.val = <<v>> \o @]

\* The first position from i on that is at the end or at a byte in S.
Until(S, i) ==
    CHOOSE j \in i .. End : /\ Empty(j) \/ Car(j) \in S
                            /\ \A k \in i .. j - 1 : Car(k) \notin S

-----------------------------------------------------------------------------
(* One byte.                                                               *)

OneOf(any) ==
    [i \in Pos |->
        IF Empty(i) THEN Fails("Incomplete", i, i)
        ELSE IF Car(i) \in any THEN Ok(Car(i), i + 1)
        ELSE Fails("Unmatched", i, i)]

\* Slip: a byte that does not match is taken off the input all the same.
TagEats(b) ==
    [i \in Pos |-> IF Empty(i) \/ Car(i) = b THEN OneOf({b})[i]
                               ELSE Fails("Unmatched", i, i + 1)]

Tag(b) == OneOf({b})
IsNot(b) == OneOf(Byte \ {b})
CharUTF8 == OneOf(Byte)
Letter == OneOf(LetterByte)

Digit ==
    [i \in Pos |-> LET r == OneOf(DigitByte)[i]
                   IN IF Failed(r) THEN r ELSE Ok(DigitOf(r.val), r.at)]

-----------------------------------------------------------------------------
(* Runs of bytes.                                                          *)

TakeN(n) ==
    [i \in Pos |->
        IF Empty(i) THEN Fails("Incomplete", i, i)
        ELSE IF i + n > End THEN Fails("Incomplete", i, End)
        ELSE Ok(Bytes(i, i + n), i + n)]

\* Slip: the length is compared before the byte just taken is counted.
StrNOneMore(n) == [i \in Pos |-> TakeN((IF n < 1 THEN 1 ELSE n) + 1)[i]]

\* The length is looked at after a byte is taken: for n < 1 one byte too many
\* has been.  Every byte is a valid rune, so the branch for others is dead.
StrN(n) ==
    [i \in Pos |->
        LET r == TakeN(IF n < 1 THEN 1 ELSE n)[i]
        IN IF n < 1 /\ ~Failed(r) THEN [r EXCEPT !.err = "Exceeded"] ELSE r]

TakeTill(f) ==
    [i \in Pos |->
        LET j == Until(f, i)
        IN IF Empty(i) THEN Fails("Incomplete", i, i)
           ELSE IF Empty(j) \/ j = i THEN Fails("Unmatched", i, j)
           ELSE Ok(Bytes(i, j), j)]

TakeTillIncl(f) ==
    [i \in Pos |->
        LET r == TakeTill(f)[i]
        IN IF Failed(r) THEN GivesUp(r.err, i, r) ELSE Ok(r.val, r.at + 1)]

\* Car is called after each byte taken, at the end of the input too.
TakeWhile(f) ==
    [i \in Pos |->
        LET j == Until(Byte \ f, i)
        IN IF j = i THEN Fails("Unmatched", i, i)
           ELSE IF Empty(j) THEN Stuck("panic", j)
           ELSE Ok(Bytes(i, j), j)]

-----------------------------------------------------------------------------
(* Given sequences of bytes.                                               *)

\* The position of the first byte from i on that is not that of cs.
Mismatch(cs, i) ==
    CHOOSE j \in i .. End :
        /\ \A k \in i .. j - 1 : k - i < Len(cs) /\ Car(k) = cs[k - i + 1]
        /\ j - i = Len(cs) \/ Empty(j) \/ Car(j) # cs[j - i + 1]

Literal(cs, v) ==
    [i \in Pos |->
        LET j == Mismatch(cs, i)
        IN IF Empty(i) THEN Fails("Incomplete", i, i)
           ELSE IF j - i = Len(cs) THEN Ok(v, j)
           ELSE IF Empty(j) THEN Fails("Incomplete", i, j)
           ELSE Fails("Unmatched", i, j)]

Chars(chars) == Literal(chars, chars)

Terminated(match, post) == Literal(match \o post, match)

Preceded(match, pre) == Literal(pre \o match, match)

\* The error of Chars is replaced; its input is not used.
Str(str) ==
    [i \in Pos |-> LET r == Chars(str)[i]
                   IN IF Failed(r) THEN GivesUp("NotConverted", i, r) ELSE r]

-----------------------------------------------------------------------------
\* Zero is taken for no number at all.  If it is the last of the input there
\* is no error either, and a nil result: the loop has met none.
Number ==
    [i \in Pos |->
        LET sign == Tag("-")[i]
            j == Until(Byte \ DigitByte, sign.at)
            num == IntOf(Digits(Bytes(sign.at, j)))
        IN IF Empty(i) THEN Fails("Incomplete", i, i)
           ELSE IF num = 0
             THEN Fails(IF Empty(j) THEN "none" ELSE "Unmatched", i, j)
           ELSE Ok(IF Failed(sign) THEN num ELSE Wrap(-num), j)]

-----------------------------------------------------------------------------
(* Repetitions.                                                            *)

\* The parser that fails ends the repetition; what it read of a shared input
\* is gone.  A parser that takes nothing is called for ever.
Many0(p) ==
    LET many[i \in Pos] ==
            LET r == p[i]
            IN IF Empty(i) THEN Ok(<<>>, i)
               ELSE IF Ends(r) THEN r
               ELSE IF Failed(r) THEN Ok(<<>>, Kept(i, r.at))
               ELSE IF r.at = i THEN Stuck("loops", i)
               ELSE Prepend(r.val, many[r.at])
    IN many

Many1(p) ==
    [i \in Pos |->
        LET r == p[i]
        IN IF Failed(r) THEN GivesUp(r.err, i, r)
           ELSE Prepend(r.val, Many0(p)[r.at])]

\* n times p, each where the one before it ended.
Times(p, n) ==
    LET times[k \in 0 .. n] ==
            [i \in Pos |->
                LET r == p[i]
                IN IF k = 0 THEN Ok(<<>>, i)
                   ELSE IF Failed(r) THEN r
                   ELSE Prepend(r.val, times[k - 1][r.at])]
    IN times[n]

\* Slip: one round too few.
CountShort(p, n) == Times(p, n - 1)

\* A success returns the Rem that was set before the loop.
Count(p, n) ==
    [i \in Pos |->
        LET r == Times(p, n)[i]
        IN IF Failed(r) THEN GivesUp(r.err, i, r)
           ELSE Ok(r.val, Kept(i, r.at))]

\* The type assertion that follows p in the folds, curr.Result.(T): it panics on
\* a nil result, whatever T is.
Asserted(p) ==
    [i \in Pos |-> IF ~Failed(p[i]) /\ p[i].val = Nil THEN Stuck("panic", p[i].at) ELSE p[i]]

\* The folds, as far as they parse: val is what accFunc is given, in order.
FoldMany0(p) == Many0(Asserted(p))

\* An empty input is no failure: the loop is not entered.
FoldMany1(p) ==
    [i \in Pos |->
        IF ~Empty(i) /\ Failed(p[i]) THEN GivesUp("Unmatched", i, p[i])
                                     ELSE FoldMany0(p)[i]]

-----------------------------------------------------------------------------
(* One parser after another.                                               *)

\* Slip: after the second parser the input of that one is returned.
ThenHalf(p, sec) ==
    [i \in Pos |->
        LET r == p[i]
        IN IF Failed(r) THEN GivesUp("Unmatched", i, r) ELSE sec[r.at]]

Then(p, sec) ==
    [i \in Pos |->
        LET r == p[i]
            s == sec[r.at]
        IN IF Failed(r) THEN GivesUp("Unmatched", i, r)
           ELSE IF Empty(r.at) THEN Fails("Incomplete", i, r.at)
           ELSE IF Failed(s) THEN GivesUp(s.err, i, s)
           ELSE s]

\* The remainder is that of the first parser.
ThenDiscard(p, sec) ==
    [i \in Pos |->
        LET r == p[i]
            s == sec[r.at]
        IN IF Failed(r) THEN GivesUp("Unmatched", i, r)
           ELSE IF Empty(r.at) THEN Fails("Incomplete", i, r.at)
           ELSE IF Failed(s) THEN GivesUp("Unmatched", i, s)
           ELSE Ok(r.val, Kept(r.at, s.at))]

\* secs in turn; a parser finds no input left before it is asked.
InTurn(secs) ==
    LET turn[k \in 1 .. Len(secs) + 1] ==
            [i \in Pos |->
                LET r == secs[k][i]
                IN IF k > Len(secs) THEN Ok(<<>>, i)
                   ELSE IF Empty(i) THEN Stuck("Incomplete", i)
                   ELSE IF Ends(r) THEN r
                   ELSE IF Failed(r) THEN Stuck("Unmatched", r.at)
                   ELSE Prepend(r.val, turn[k + 1][r.at])]
    IN turn[1]

\* Whether p left anything is asked before whether it failed.  The Rem of a
\* success is the one set before p was called.
AndThen(p, secs) ==
    [i \in Pos |->
        LET r == p[i]
            s == Prepend(r.val, InTurn(secs)[r.at])
        IN IF Ends(r) THEN r
           ELSE IF Empty(r.at) THEN Fails("Incomplete", i, r.at)
           ELSE IF Failed(r) THEN GivesUp("Unmatched", i, r)
           ELSE IF Failed(s) THEN GivesUp(s.err, i, s)
           ELSE Ok(s.val, Kept(i, s.at))]

\* Each alternative starts where the input is, which is where the one before
\* it failed if the reader is shared.
Alt(ps) ==
    LET from[k \in 1 .. Len(ps) + 1] ==
            [i \in Pos |->
                LET r == ps[k][i]
                IN IF k > Len(ps) THEN Stuck("Unmatched", i)
                   ELSE IF Ends(r) \/ ~Failed(r) THEN r
                   ELSE from[k + 1][Kept(i, r.at)]]
    IN [i \in Pos |-> IF Empty(i) THEN Fails("Incomplete", i, i)
                                  ELSE from[1][i]]

Guarded(left, right) == Then(Tag(left), TakeTillIncl({right}))

\* Slip: the guard on the right is not asked for.
GuardedWhileOpen(left, right, p) == Then(Tag(left), TakeWhile(p))

GuardedWhile(left, right, p) ==
    [i \in Pos |->
        LET r == Then(Tag(left), TakeWhile(p))[i]
            s == Tag(right)[r.at]
        IN IF Failed(r) THEN GivesUp(r.err, i, r)
           ELSE IF Failed(s) THEN GivesUp(s.err, i, s)
           ELSE Ok(r.val, s.at)]
=============================================================================
