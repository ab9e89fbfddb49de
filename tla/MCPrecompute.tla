---------------------------- MODULE MCPrecompute ----------------------------
(* Small instances of Precompute for TLC.                                  *)
EXTENDS Precompute

CONSTANTS a, b, r, t, q1, q2

\* a and b get literals and are assigned again, r has a value of the runtime,
\* t is a temporary.
MCNumbers ==
    [v \in Vars |-> CASE v \in {a, b} -> {"immediate"} [] v = r -> {"runtime"}
                    [] OTHER -> {"immediate", "copy", "compare"}]

\* q1 points to a variable, q2 is a copy of it, t is what they point to.
MCPointers ==
    [v \in Vars |-> CASE v = q1 -> {"address"} [] v = q2 -> {"copy", "address"}
                    [] v = t -> {"load", "immediate", "compare"} [] v = r -> {"runtime"}
                    [] OTHER -> {"immediate"}]

=============================================================================
