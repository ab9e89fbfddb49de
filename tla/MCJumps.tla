------------------------------ MODULE MCJumps ------------------------------
(* Small instances of Jumps for TLC.  The arguments begin with any values, *)
(* so that whichever two variables are mistaken for each other, they       *)
(* differ in some behaviour.                                               *)
EXTENDS Jumps

CONSTANTS a, b, c, s, x, y   \* s is a struct

MCSizeOf == [v \in Vars |-> IF v = s THEN 24 ELSE 8]
MCInitialAvailable == [i \in 1 .. numRegisters |-> (i + 1) % numRegisters]
\* a and b are arguments on the stack; with three registers c is one too, so
\* that three loads fill them.
MCArgOffset ==
    [v \in Vars |-> CASE v = a -> -56 [] v = b -> -64
                    [] numRegisters > 2 /\ v = c -> -72 [] OTHER -> 0]
MCOwnImmediate ==
    [v \in Vars |-> CASE v = a -> {x} [] v = b -> {y}
                    [] v = c /\ numRegisters = 2 -> {x} [] OTHER -> {}]

=============================================================================
