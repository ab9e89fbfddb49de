------------------------------- MODULE MCDriver -------------------------------
(* Driver on every program of at most three items.                           *)
EXTENDS Driver

\* check only matters when gen is "ok".
MCItems ==
    {Proc("ok", check) : check \in Outcomes}
        \cup {Proc(gen, "ok") : gen \in {"userError", "ice"}}
        \cup {[kind |-> kind] : kind \in {"foreign", "badLine", "badType"}}

MCAllPrograms == UNION {[1 .. n -> MCItems] : n \in 0 .. MaxItems}

=============================================================================
