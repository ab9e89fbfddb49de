-------------------------- MODULE MCStructEmbedding --------------------------
(* StructEmbedding on programs of three structs with at most two fields.    *)
EXTENDS StructEmbedding

Builtin(size) == [kind |-> "builtin", size |-> size]
Struct(name) == [kind |-> "struct", name |-> name, count |-> 1]
ArrayOf(count, name) == [kind |-> "struct", name |-> name, count |-> count]

UpToTwo(fields) == UNION {[1 .. n -> fields] : n \in 0 .. 2}

\* 9 is not the name of a struct.
MCStructs == 1 .. 3
MCPrograms ==
    {<<one, two, three>> :
        one \in UpToTwo({Builtin(1), Builtin(4), Struct(1), Struct(2), Struct(3),
                         ArrayOf(3, 2), Struct(9)}),
        two \in UpToTwo({Builtin(0), Builtin(1), Struct(1), Struct(3)}),
        three \in UpToTwo({Builtin(8), Struct(1), Struct(2)})}

=============================================================================
