------------------------------ MODULE MCBencode ------------------------------
(* Structs of one and of two fields, of which some are of a kind that is not *)
(* supported.                                                                *)
EXTENDS BencCodec

AnInt(n) == [kind |-> "int", val |-> n]
AString(s) == [kind |-> "string", val |-> s]
ASlice(vs) == [kind |-> "slice", val |-> vs]
AStruct(vs) == [kind |-> "struct", val |-> vs]

Ints == {AnInt(n) : n \in {-1, 0, 1, 2, 12, 16}}
Strings == {AString(s) : s \in {<<>>, <<"e">>, <<"i">>, <<"1">>, <<"1", ":">>, <<"1", "e">>}}

Field ==
    {AnInt(-1), AnInt(0), AnInt(12), AnInt(16), AString(<<>>), AString(<<"e">>), AString(<<"1", ":">>),
     ASlice(<<>>), ASlice(<<AnInt(0), AnInt(16)>>), ASlice(<<AString(<<"i">>), AString(<<"1", "e">>)>>),
     [kind |-> "map", val |-> <<AnInt(1)>>], [kind |-> "other"],
     AStruct(<<AnInt(2), AString(<<"1">>)>>)}

MCValue == Ints \cup Strings \cup Field \cup {AStruct(fs) : fs \in [{} -> Field] \cup [{1} -> Field] \cup [1 .. 2 -> Field]}
=============================================================================
