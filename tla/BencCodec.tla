------------------------------ MODULE BencCodec ------------------------------
(***************************************************************************)
(* BencEncoder and the parsers on one stream of bytes: what the encoder    *)
(* writes of a struct, whole or cut short, and any other bytes, read from  *)
(* a reader that all inputs share or from inputs that are copies.          *)
(***************************************************************************)
EXTENDS Bencode

CONSTANTS
    Value, Nest,  \* see BencEnc
    Typed,        \* the bytes of the inputs nobody encoded
    MaxLen        \* how many of them there are at most

VARIABLE encoded  \* the struct whose encoding is the whole input, or NoFields

codecVars == <<in, shared, encoded>>

Encoder == INSTANCE BencEnc

NoFields == [kind |-> "struct", val |-> <<>>]

\* The bytes that are written and read; an int holds the length of a string; what
\* a slice, a map or a struct has in it is a value.
ASSUME CodecAssumption ==
    /\ ToSet(Dec) \cup {"-", ":", " ", "i", "e", "l", "d"} \cup Typed \subseteq Byte
    /\ MaxInt \in Nat /\ Nest \in Nat
    /\ NoFields \in Value
    /\ \A v \in Value :
          /\ v.kind = "int" => v.val \in Int
          /\ v.kind = "string" => v.val \in Seq(Byte) /\ Len(v.val) <= MaxInt
          /\ v.kind \in {"slice", "map", "struct"} => v.val \in Seq(Value)

-----------------------------------------------------------------------------

Init ==
    /\ shared \in BOOLEAN
    /\ \E v \in Value :
          LET out == Encoder!Encode(v).out
          IN \/ /\ v.kind = "struct"
                /\ encoded = v /\ in = out
             \/ /\ encoded = NoFields
                /\ \E n \in 0 .. Len(out) - 1 : in = SubSeq(out, 1, n)

Type(b) ==
    /\ encoded = NoFields /\ Len(in) < MaxLen
    /\ in' = Append(in, b)
    /\ UNCHANGED <<shared, encoded>>

Next == \E b \in Typed : Type(b)

Spec == Init /\ [][Next]_codecVars

-----------------------------------------------------------------------------
\* Where the k-th field of a struct begins.
StartOf(v, k) == 1 + Len(FlattenSeq([n \in 1 .. k - 1 |-> Encoder!marshall(v.val[n]).out]))

\* What is written and can be read, and what it is read as: all but negative
\* integers and the empty string.
IsRead(f) == (f.kind = "int" /\ f.val >= 0) \/ (f.kind = "string" /\ f.val # <<>>)

ReadAs(f) == IF f.kind = "int" /\ f.val > MaxInt THEN MaxInt ELSE f.val

ParserOf(kind) == IF kind = "int" THEN BencInt ELSE BencStr

IsReadList(f) ==
    /\ f.kind = "slice"
    /\ \E kind \in {"int", "string"} :
          \A k \in DOMAIN f.val : f.val[k].kind = kind /\ IsRead(f.val[k])

\* What BencList tries first, if it could be constructed.
list == Then(Tag("l"), Alt(<<manyInt, manyStr>>))

\* A field written from i up to j is read as what it was, and a negative integer
\* is refused.  (The empty string is EmptyStringParsed's subject.)
ParsedBack(f, i, j) ==
    /\ IsRead(f) => Takes(ParserOf(f.kind)[i], ReadAs(f), j)
    /\ f.kind = "int" /\ f.val < 0 => Refuses(BencInt[i])
    /\ IsReadList(f) =>
          Takes(list[i], [k \in DOMAIN f.val |-> ReadAs(f.val[k])], IF shared THEN j - 1 ELSE j - 2)

\* What the encoder writes of a struct is, field by field, what the parsers read:
\* integers but negative ones, those too large for an int as the largest, strings
\* that are not empty, and lists of either, of which the space after them is left,
\* and on copies their end (benc_enc.go:32, bencode_parser.go:54, :100, :131).
EncodedIsParsed ==
    ~Encoder!Encode(encoded).err =>
        \A k \in DOMAIN encoded.val :
           ParsedBack(encoded.val[k], StartOf(encoded, k), StartOf(encoded, k + 1))
=============================================================================
