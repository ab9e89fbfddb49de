------------------------------ MODULE VarStore ------------------------------
(***************************************************************************)
(* What the generated code owes the IR: a store of named variables.  A     *)
(* variable has the value it was last given until it is given another one  *)
(* or ends for good; nothing else the generator does is visible.           *)
(* RegAlloc, with its registers and stack slots, implements this.          *)
(***************************************************************************)
CONSTANTS Vars, Val, junk

VARIABLES
    value,  \* what each variable holds, junk when it has no value
    ended   \* the variables that are not used any more

store == <<value, ended>>

\* Arguments have values when the procedure starts; the rest have none.
Init == value \in [Vars -> Val \cup {junk}] /\ ended = {}

Write(v, x) ==
    /\ v \notin ended
    /\ value' = [value EXCEPT ![v] = x]
    /\ UNCHANGED ended

Copy(dest, source) ==
    /\ dest \notin ended /\ source \notin ended /\ value[source] # junk
    /\ value' = [value EXCEPT ![dest] = value[source]]
    /\ UNCHANGED ended

End(v) ==
    /\ v \notin ended
    /\ value' = [value EXCEPT ![v] = junk]
    /\ ended' = ended \cup {v}

Next ==
    \/ \E v \in Vars, x \in Val : Write(v, x)
    \/ \E dest, source \in Vars : Copy(dest, source)
    \/ \E v \in Vars : End(v)

Spec == Init /\ [][Next]_store

=============================================================================
