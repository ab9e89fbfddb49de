---------------------------- MODULE MCLastUsage -----------------------------
(* Small instances of Frontend and LastUsage for TLC.                      *)
EXTENDS LastUsage

CONSTANTS a, b

OneArg == <<a>>

\* A value with a jump in it.
Conjunctions == {[kind |-> "and", name |-> a]}

\* A value with two temporaries, and one of a variable to be declared.
Sums == {[kind |-> "sum", name |-> a], [kind |-> "call", name |-> b]}

\* A value of the declared name itself.
Reads == {[kind |-> "name", name |-> a], [kind |-> "name", name |-> b]}

=============================================================================
