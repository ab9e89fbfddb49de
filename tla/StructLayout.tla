---------------------------- MODULE StructLayout -----------------------------
(***************************************************************************)
(* ResolveSizeAndOffset (src/typing/types.go) for one struct, one field    *)
(* after the other.                                                        *)
(***************************************************************************)
EXTENDS Layout

CONSTANT FieldLists   \* the structs: sequences of fields

ASSUME FieldListsAssumption ==
    FieldLists \subseteq Seq([size : Nat, alignment : Nat])

VARIABLES
    fields,   \* s.MemberOrder: the size and the alignment of each field
    layout,   \* the fields' offsets, s.size and biggestAlignment
    status    \* "placing", "resolved" or "panic" (a division by zero)

vars == <<fields, layout, status>>

Init ==
    /\ fields \in FieldLists
    /\ layout = EmptyLayout
    /\ status = "placing"

placed == Len(layout.offsets)

PlaceField ==
    /\ status = "placing" /\ placed < Len(fields)
    /\ IF placeable(layout, fields[placed + 1])
       THEN /\ layout' = placeField(layout, fields[placed + 1])
            /\ UNCHANGED status
       ELSE /\ status' = "panic"
            /\ UNCHANGED layout
    /\ UNCHANGED fields

\* A struct without fields is resolved at once.
Resolve ==
    /\ status = "placing" /\ placed = Len(fields)
    /\ IF fields = <<>> \/ closeable(layout)
       THEN /\ layout' = IF fields = <<>> THEN layout ELSE closeLayout(layout)
            /\ status' = "resolved"
       ELSE /\ status' = "panic"
            /\ UNCHANGED layout
    /\ UNCHANGED fields

Next == PlaceField \/ Resolve

Spec == Init /\ [][Next]_vars

-----------------------------------------------------------------------------
(* Properties.                                                             *)

\* Every variable has its type (the fields of StructRecord).
TypeOK ==
    /\ fields \in FieldLists
    /\ layout \in [offsets : Seq(Nat), size : Nat, alignment : Nat]
    /\ placed <= Len(fields)
    /\ status \in {"placing", "resolved", "panic"}

\* Every field starts at a multiple of its alignment.
OffsetsAligned ==
    \A i \in 1 .. placed : fields[i].alignment # 0 =>
        layout.offsets[i] % fields[i].alignment = 0

\* No field reaches into a later one or over the end of the struct.
FieldsDisjoint ==
    \A i \in 1 .. placed :
        /\ layout.offsets[i] + fields[i].size <= layout.size
        /\ \A j \in i + 1 .. placed :
              layout.offsets[i] + fields[i].size <= layout.offsets[j]

\* The fields stay aligned in every element of an array of the struct, as far as
\* their alignment divides that of the struct.
ElementsAligned ==
    status = "resolved" =>
        \A i \in 1 .. placed :
            /\ fields[i].alignment <= layout.alignment
            /\ fields[i].alignment # 0 /\ layout.alignment % fields[i].alignment = 0 =>
                  (layout.size + layout.offsets[i]) % fields[i].alignment = 0

=============================================================================
