---------------------------- MODULE MCStructLayout ----------------------------
(* StructLayout on every struct of at most four fields.                      *)
EXTENDS StructLayout

\* u8, u16, u32 and int; an array of three u8; a struct of an int and a u8; an
\* array of two structs of a u32 and a u8; an empty struct.
MCFields ==
    {[size |-> n, alignment |-> n] : n \in {1, 2, 4, 8}} \cup
    {[size |-> 3, alignment |-> 1], [size |-> 16, alignment |-> 8],
     [size |-> 16, alignment |-> 4], [size |-> 0, alignment |-> 0]}

MCFieldLists == UNION {[1 .. n -> MCFields] : n \in 0 .. 4}

=============================================================================
