------------------------------ MODULE MCCalls -------------------------------
(* Small instances of Calls for TLC.                                       *)
EXTENDS Calls

CONSTANTS a, b, c, s, t,   \* s and t are structs
          x, y             \* values

MCSizeOf == [v \in Vars |-> CASE v = a -> 8 [] v = b -> 4 [] v = c -> 1
                              [] OTHER -> 24]

\* The registers in the order the allocator takes them last to first.
MCInitialAvailable == [i \in 1 .. numRegisters |-> (i + 1) % numRegisters]

\* b is an argument on the stack, the first above the five saved registers.
MCArgOffset == [v \in Vars |-> CASE v = b -> -56 [] v = a -> -64 [] OTHER -> 0]

MCImmediatesFor ==
    [v \in Vars |-> CASE v \in {b, s} -> {x} [] v = c -> {y} [] OTHER -> {}]

\* rdi and rsi pass parameters; with rax they are the registers that a call
\* destroys.
MCParamPassingRegOrder == <<rdi, rsi>>
MCRegsThatGetDestroyed == <<rdi, rsi, rax>>

\* Fewer arguments than registers, as many, and more.
MCArgLists == {<<a>>, <<b, a>>,<<c, a, b>>}

\* x := a; g(x, x)
MCTwice == {<<a>>, <<a, a>>}

=============================================================================
