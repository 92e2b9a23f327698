------------------------------- MODULE Bencode -------------------------------
(***************************************************************************)
(* Strings and integers of formats/bencode_parser.go, and the two lists of *)
(* BencList that are made of them.  BencList and BenDict themselves call   *)
(* each other's constructors before anything is parsed and never return;   *)
(* ParseBenc and Decode parse nothing.                                     *)
(***************************************************************************)
EXTENDS Parsec

\* The branch for an empty string is never taken: Number fails on the zero,
\* or returns nil when nothing can follow.
BencStr ==
    [i \in Pos |->
        LET n == Number[i]
            c == Tag(":")[n.at]
            s == StrN(n.val)[c.at]
        IN IF Empty(i) THEN Fails("Incomplete", i, i)
           ELSE IF Failed(n) THEN GivesUp(n.err, i, n)
           ELSE IF Failed(c) THEN GivesUp(c.err, i, c)
           ELSE IF Failed(s) THEN GivesUp(s.err, i, s)
           ELSE s]

\* strconv.ParseInt, whose error is dropped: the largest int for what is larger.
ParseInt(bs) == Min({Decimal(Digits(bs)), MaxInt})

\* Every failure is Unmatched: the result is looked at before the error.
BencInt ==
    [i \in Pos |->
        LET r == GuardedWhile("i", "e", DigitByte)[i]
        IN IF Failed(r) THEN GivesUp("Unmatched", i, r)
           ELSE Ok(ParseInt(r.val), r.at)]

manyStr == ThenDiscard(Many0(BencStr), Tag("e"))
manyInt == ThenDiscard(Many0(BencInt), Tag("e"))

-----------------------------------------------------------------------------
(* What the parsers promise on either kind of input, started at 1.         *)

TypeOK == in \in Seq(Byte) /\ MaxInt \in Nat

Takes(r, v, i) == r.err = "none" /\ r.val = v /\ r.at = i

Refuses(r) == Failed(r) /\ ~Ends(r)

\* Where the digits that start at i end.
DigitsEnd(i) == Max({j \in i .. End : \A k \in i .. j - 1 : Car(k) \in DigitByte})

\* The numbers written anywhere in the input are ints.
NumbersFit == \A i \in Pos : Decimal(Digits(Bytes(i, DigitsEnd(i)))) <= MaxInt

\* The input begins with the empty string: zero, however written, and a colon.
EmptyString ==
    LET colon == DigitsEnd(1)
    IN 1 < colon /\ colon < End /\ Car(colon) = ":" /\ Decimal(Digits(Bytes(1, colon))) = 0

\* bencode_parser.go:76, "the case of the empty string: `0:`": its length and its
\* colon are parsed, and the result is empty.
EmptyStringParsed == EmptyString => Takes(BencStr[1], <<>>, DigitsEnd(1) + 1)

\* Bencode's strings: a length, a colon and as many bytes.  The parser takes
\* exactly those, and refuses whatever does not begin so (bencode_parser.go:54);
\* but a length that is no int is taken for another, and of the empty string,
\* which its comment and its code take for different things, see
\* EmptyStringParsed.
StringsAsWritten ==
    LET colon == DigitsEnd(1)
        n == Decimal(Digits(Bytes(1, colon)))
        written == /\ n > 0 /\ colon + n < End
                   /\ Car(colon) = ":"
    IN NumbersFit /\ ~EmptyString =>
          IF written THEN Takes(BencStr[1], Bytes(colon + 1, colon + n + 1), colon + n + 1)
                     ELSE Refuses(BencStr[1])

\* Bencode's integers: digits between i and e, without a sign, zeros first or
\* not; and the parser reads past the end of the input exactly when it ends in
\* the digits (bencode_parser.go:100, parsec.go:474).  The largest int is taken
\* for what is larger.
IntsAsWritten ==
    LET e == DigitsEnd(2)
        n == Decimal(Digits(Bytes(2, e)))
        begun == End > 2 /\ Car(1) = "i" /\ e > 2
    IN IF begun /\ e = End THEN BencInt[1].err = "panic"
       ELSE IF begun /\ Car(e) = "e"
         THEN Takes(BencInt[1], IF n <= MaxInt THEN n ELSE MaxInt, e + 1)
       ELSE BencInt[1].err = "Unmatched"

\* Alt goes on from where the input is, which on a shared reader is where the
\* alternative before failed, and still finds what there is at the start
\* (parsec.go:33, :884); what stands between two bytes is found there too.
InputsAgree ==
    LET int == BencInt[1]
        str == BencStr[1]
        alt == Alt(<<BencInt, BencStr>>)[1]
        e == Until({"e"}, 2)
    IN /\ NumbersFit =>
            IF ~Refuses(int) THEN alt = int
            ELSE IF ~Refuses(str) THEN alt = str
            ELSE Refuses(alt)
       /\ IF End > 2 /\ Car(1) = "i" /\ 2 < e /\ e < End
            THEN Takes(Guarded("i", "e")[1], Bytes(2, e), e + 1)
            ELSE Refuses(Guarded("i", "e")[1])

\* "if the parser fails, the rem contains the input unchanged" (parsec.go:35),
\* when inputs are copies: for what the combinators make of parsers that fail
\* in the middle.
Chained ==
    LET S == BencStr
        I == BencInt
        C == Chars(<<"i", "1">>)
    IN << Guarded("i", "e")[1], Then(I, S)[1], GuardedWhile("i", "e", DigitByte)[1],
          Then(S, I)[1], ThenDiscard(C, S)[1], AndThen(I, <<C, S>>)[1], AndThen(C, <<I>>)[1],
          Count(I, 2)[1], Many1(C)[1], Alt(<<S, C, I>>)[1], Then(Alt(<<C, S>>), TakeN(2))[1],
          FoldMany1(TakeTillIncl({"e"}))[1], manyStr[1], manyInt[1], Str(<<"1", ":">>)[1] >>

FailureKeepsInput ==
    LET rs == Chained
    IN ~shared => \A k \in DOMAIN rs : Refuses(rs[k]) => rs[k].at = 1

-----------------------------------------------------------------------------
(* Laws of the combinators.                                                *)

Same(r, s) == Failed(r) = Failed(s) /\ (~Failed(r) => r.val = s.val)

\* The five ways to repeat a parser take the same elements: Many0 all there
\* are, Many1, FoldMany1, Count and AndThen the same ones or none; but FoldMany1
\* panics where one of them is nil.
RepeatsAgree(p) ==
    LET all == Many0(p)[1]
        one == Many1(p)[1]
        fold == FoldMany1(p)[1]
    IN ~Ends(all) =>
        /\ IF all.val = <<>> THEN Failed(one) ELSE one = all
        /\ CASE \E k \in DOMAIN all.val : all.val[k] = Nil -> fold.err = "panic"
             [] Empty(1) -> fold = Ok(<<>>, 1)
             [] OTHER -> Same(fold, one)
        /\ Same(AndThen(p, <<p>>)[1], Count(p, 2)[1])
        /\ \A n \in 1 .. 3 :
             LET c == Count(p, n)[1]
             IN IF n <= Len(all.val)
                  THEN ~Failed(c) /\ c.val = SubSeq(all.val, 1, n)
                  ELSE Failed(c)

AllRepeatsAgree ==
    /\ RepeatsAgree(Digit) /\ RepeatsAgree(Letter) /\ RepeatsAgree(Number)
    /\ RepeatsAgree(BencInt) /\ RepeatsAgree(BencStr)
    /\ RepeatsAgree(StrN(2)) /\ RepeatsAgree(IsNot("e"))
    /\ RepeatsAgree(TakeTillIncl({"e"})) /\ RepeatsAgree(TakeWhile(DigitByte))
    /\ RepeatsAgree(Alt(<<BencStr, CharUTF8>>))

\* Guarded and GuardedWhile take the same bytes between the same guards; the
\* one fails and the other reads past the end when the right one is missing.
GuardsTakeTheSame ==
    LET g == Guarded("i", "e")[1]
        w == GuardedWhile("i", "e", Byte \ {"e"})[1]
    IN IF Failed(g) \/ Failed(w) THEN Failed(g) /\ Failed(w) ELSE g = w

\* Preceded and Terminated take what Then and ThenDiscard of their two strings take.
\* (ThenDiscard leaves what its first parser left, parsec.go:849.)
LiteralsChain(match, other) ==
    LET t == Terminated(match, other)[1]
        d == ThenDiscard(Chars(match), Chars(other))[1]
        p == Preceded(match, other)[1]
        s == Then(Chars(other), Str(match))[1]
    IN /\ Same(p, s) /\ (~Failed(p) => p.at = s.at)
       /\ Same(t, d)

AllLiteralsChain ==
    /\ LiteralsChain(<<"i">>, <<"1">>) /\ LiteralsChain(<<"1">>, <<"i", "e">>)
    /\ LiteralsChain(<<"i", "1">>, <<"1">>)

\* Number is the fold of its digits with the sign before them, but for zero.
NumberIsFold ==
    LET s == Tag("-")[1]
        f == FoldMany1(Digit)[s.at]
        n == IF Failed(f) THEN 0 ELSE IntOf(f.val)
    IN IF Empty(1) \/ n = 0 THEN Failed(Number[1]) \/ Number[1].val = Nil
       ELSE Number[1] = Ok(IF Failed(s) THEN n ELSE Wrap(-n), f.at)

\* Repeating by Many0, Many1, FoldMany1, Count or AndThen is the same repetition,
\* and Number is one of Digit (parsec.go:623, :738 to :890, :994); what stands
\* between two bytes, or before or after a string, is the same by hand and by the
\* combinators (:480, :555, :923, :937).
CombinatorsAgree ==
    AllRepeatsAgree /\ NumberIsFold /\ GuardsTakeTheSame /\ AllLiteralsChain
=============================================================================
