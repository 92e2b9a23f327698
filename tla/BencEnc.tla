------------------------------- MODULE BencEnc -------------------------------
(***************************************************************************)
(* BencEncoder (formats/benc_enc.go).  A value is what reflection sees of  *)
(* it: its kind and, for an integer, a number; for a string, its bytes;    *)
(* for a slice, a map or a struct, the elements, the values in the order   *)
(* MapKeys happens to give, or the fields.  Any other kind is "other".     *)
(***************************************************************************)
EXTENDS Integers, Sequences, FiniteSetsExt, SequencesExt

CONSTANTS
    Value,  \* the values that are encoded, and those they are made of
    Nest    \* how deep values may be nested

Digit == <<"0", "1", "2", "3", "4", "5", "6", "7", "8", "9">>

\* %d and strconv.FormatInt
FormatInt(n) ==
    LET size == IF n < 0 THEN -n ELSE n
        format[k \in 0 .. size] ==
            IF k < 10 THEN <<Digit[k + 1]>>
                      ELSE Append(format[k \div 10], Digit[(k % 10) + 1])
    IN  IF n < 0 THEN <<"-">> \o format[size] ELSE format[size]

Unsupported == [out |-> <<>>, err |-> TRUE]

Written(bytes) == [out |-> bytes, err |-> FALSE]

\* Slip: the colon is counted as well.
WriteStringAndColon(s) == FormatInt(Len(s) + 1) \o <<":">> \o s

WriteString(s) == FormatInt(Len(s)) \o <<":">> \o s

\* One after the other, up to the first that cannot be written.
Between(open, parts, close) ==
    LET bad == {k \in DOMAIN parts : parts[k].err}
        last == IF bad = {} THEN Len(parts) ELSE Min(bad)
        outs == FlattenSeq([k \in 1 .. last |-> parts[k].out])
    IN  IF bad = {} THEN Written(open \o outs \o close)
                    ELSE [out |-> open \o outs, err |-> TRUE]

\* What is written of w, whose elements, values or fields are written as parts.
\* A space follows a slice.  Of a map the values are written and no keys, of a
\* struct neither names nor brackets.
WithParts(w, parts) ==
    CASE w.kind = "int" -> Written(<<"i">> \o FormatInt(w.val) \o <<"e">>)
      [] w.kind = "string" -> Written(WriteString(w.val))
      [] w.kind = "slice" -> Between(<<"l">>, parts, <<"e", " ">>)
      [] w.kind = "map" -> Between(<<"d">>, parts, <<"e">>)
      [] w.kind = "struct" -> Between(<<>>, parts, <<>>)
      [] OTHER -> Unsupported

marshall(v) ==
    LET marshalled[d \in 0 .. Nest] ==
            [w \in Value |->
                WithParts(w, [k \in DOMAIN w.val |->
                                 IF d = 0 THEN Unsupported ELSE marshalled[d - 1][w.val[k]]])]
    IN  marshalled[Nest][v]

\* Of what a pointer points to.
Encode(v) == IF v.kind = "struct" THEN marshall(v) ELSE Unsupported
=============================================================================
