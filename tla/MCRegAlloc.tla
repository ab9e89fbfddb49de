----------------------------- MODULE MCRegAlloc -----------------------------
(* Small instances of RegAlloc for TLC.                                    *)
EXTENDS RegAlloc

CONSTANTS a, b, c, s, t,   \* s and t are structs
          x, y             \* values

MCSizeOf == [v \in Vars |-> CASE v = a -> 8 [] v = b -> 4 [] v = c -> 1
                              [] OTHER -> 24]

\* The registers in the order the allocator takes them last to first.
MCInitialAvailable == [i \in 1 .. numRegisters |-> (i + 1) % numRegisters]

\* b is an argument on the stack, the first above the five saved registers.
MCArgOffset == [v \in Vars |-> IF v = b THEN -56 ELSE 0]

MCOneImmediate ==
    [v \in Vars |-> IF v \in {s, t} THEN {} ELSE Val]

=============================================================================
