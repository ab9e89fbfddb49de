--------------------------- MODULE StructEmbedding ---------------------------
(***************************************************************************)
(* How buildGlobalEnv and resolveStructSize (src/compiler.go) lay out the  *)
(* structs of a program: the names of types are looked up, structs that    *)
(* embed no other are laid out, and a search through the graph of the      *)
(* embedding structs lays out the others.  The order of the structs is     *)
(* that of a Go map: any.                                                  *)
(***************************************************************************)
EXTENDS Layout, FiniteSets, SequencesExt

CONSTANTS
    Structs,    \* the names of the structs, as numbers in the names' order
    Programs    \* the declarations: for each struct its fields in order

\* The sizes of builtin types; that of void is 0.
BuiltinSizes == {0, 1, 2, 4, 8}

\* A field is of a builtin type (a pointer is one of size 8, whatever it points
\* to) or count structs in a row; count is 1 for what is not an array.  A
\* struct's fields have different names.
FieldTypes ==
    [kind : {"builtin"}, size : BuiltinSizes]
        \cup [kind : {"struct"}, name : Nat, count : Nat]

ASSUME StructsAssumption == Structs \subseteq Nat /\ IsFiniteSet(Structs)
ASSUME ProgramsAssumption == Programs \subseteq [Structs -> Seq(FieldTypes)]

VARIABLES
    members,   \* MemberOrder of each struct, before its types are resolved
    records,   \* the layout of each struct and whether it was resolved
    embedGraph,  \* the embedees of its nodes, in the order of their names
    visited,   \* the nodes the search came through
    stack,     \* the calls of resolveStructSizeVisit
    phase

vars == <<members, records, embedGraph, visited, stack, phase>>

\* What a struct embeds.
Embedees(s) == {f.name : f \in {g \in ToSet(members[s]) : g.kind = "struct"}}

nodes == DOMAIN embedGraph

Init ==
    /\ members \in Programs
    /\ records = [s \in Structs |-> [layout |-> EmptyLayout, resolved |-> FALSE]]
    /\ embedGraph = <<>> /\ visited = {} /\ stack = <<>>
    /\ phase = "names"

-----------------------------------------------------------------------------
(* ResolveSizeAndOffset                                                    *)

sized(f) ==
    IF f.kind = "builtin" THEN [size |-> f.size, alignment |-> f.size]
    ELSE [size |-> f.count * records[f.name].layout.size,
          alignment |-> records[f.name].layout.alignment]

layoutOf(s) ==
    LET fields == [i \in DOMAIN members[s] |-> sized(members[s][i])]
        open[i \in 0 .. Len(fields)] ==
            IF i = 0 THEN EmptyLayout ELSE placeField(open[i - 1], fields[i])
    IN  IF fields = <<>> THEN EmptyLayout ELSE closeLayout(open[Len(fields)])

\* A division by zero, by the alignment of a field or of the struct.
divides(s) ==
    \/ \E i \in 2 .. Len(members[s]) : sized(members[s][i]).alignment = 0
    \/ Len(members[s]) = 1 /\ sized(members[s][1]).alignment = 0

\* The flag that says so is forgotten.
faultyResolveSizeAndOffset(s) ==
    IF divides(s)
    THEN phase' = "division by zero" /\ UNCHANGED records
    ELSE /\ records' = [records EXCEPT ![s] = [layout |-> layoutOf(s), resolved |-> FALSE]]
         /\ UNCHANGED phase

ResolveSizeAndOffset(s) ==
    IF ~ records[s].resolved /\ divides(s)
    THEN phase' = "division by zero" /\ UNCHANGED records
    ELSE /\ records' = IF records[s].resolved THEN records
                       ELSE [records EXCEPT ![s] = [layout |-> layoutOf(s), resolved |-> TRUE]]
         /\ UNCHANGED phase

-----------------------------------------------------------------------------
(* buildGlobalEnv                                                          *)

\* The names in their order, each once.
inOrder(names) ==
    [i \in 1 .. Cardinality(names) |->
        CHOOSE n \in names : Cardinality({m \in names : m < n}) = i - 1]

\* Every name has to be the name of a type.
LookUpNames ==
    /\ phase = "names"
    /\ IF \A s \in Structs : Embedees(s) \subseteq Structs
       THEN /\ phase' = "leaves"
            /\ embedGraph' = [s \in {t \in Structs : Embedees(t) # {}} |->
                                 inOrder(Embedees(s))]
       ELSE phase' = "unknown name" /\ UNCHANGED embedGraph
    /\ UNCHANGED <<members, records, visited, stack>>

-----------------------------------------------------------------------------
(* resolveStructSize                                                       *)

ResolveLeaf ==
    /\ phase = "leaves"
    /\ \E s \in Structs \ nodes : ~ records[s].resolved /\ ResolveSizeAndOffset(s)
    /\ UNCHANGED <<members, embedGraph, visited, stack>>

LeavesResolved ==
    /\ phase = "leaves"
    /\ \A s \in Structs \ nodes : records[s].resolved
    /\ phase' = "search"
    /\ UNCHANGED <<members, records, embedGraph, visited, stack>>

\* resolveStructSizeVisit as far as its loop; marks are the nodes visited so far.
Visit(s, marks, calls) ==
    IF s \in marks
    THEN phase' = "embed cycle" /\ UNCHANGED <<embedGraph, visited, stack>>
    ELSE /\ visited' = marks \cup {s}
         /\ embedGraph' = [t \in nodes \cup {s} |-> IF t \in nodes THEN embedGraph[t] ELSE <<>>]
         /\ stack' = Append(calls, [struct |-> s, next |-> 1])
         /\ UNCHANGED phase

\* The marks of the last search are still there.
faultyStartSearch ==
    /\ phase = "search" /\ stack = <<>>
    /\ \E s \in nodes : ~ records[s].resolved /\ Visit(s, visited, stack)
    /\ UNCHANGED <<members, records>>

\* A search from any struct that is not laid out yet, with no node visited.
StartSearch ==
    /\ phase = "search" /\ stack = <<>>
    /\ \E s \in nodes : ~ records[s].resolved /\ Visit(s, {}, stack)
    /\ UNCHANGED <<members, records>>

top == stack[Len(stack)]
embedees == embedGraph[top.struct]

VisitEmbedee ==
    /\ phase = "search" /\ stack # <<>>
    /\ top.next <= Len(embedees)
    /\ Visit(embedees[top.next], visited,
             [stack EXCEPT ![Len(stack)].next = @ + 1])
    /\ UNCHANGED <<members, records>>

\* The struct is laid out before its embedees are.
faultyResolveEmbedder ==
    /\ phase = "search" /\ stack # <<>>
    /\ ResolveSizeAndOffset(top.struct)
    /\ stack' = Front(stack)
    /\ UNCHANGED <<members, embedGraph, visited>>

\* The end of resolveStructSizeVisit.
ResolveEmbedder ==
    /\ phase = "search" /\ stack # <<>>
    /\ top.next > Len(embedees)
    /\ ResolveSizeAndOffset(top.struct)
    /\ stack' = Front(stack)
    /\ UNCHANGED <<members, embedGraph, visited>>

EndSearch ==
    /\ phase = "search" /\ stack = <<>>
    /\ \A s \in nodes : records[s].resolved
    /\ phase' = "done"
    /\ UNCHANGED <<members, records, embedGraph, visited, stack>>

Next ==
    \/ LookUpNames \/ ResolveLeaf \/ LeavesResolved
    \/ StartSearch \/ VisitEmbedee \/ ResolveEmbedder \/ EndSearch

\* One goroutine that waits for nothing.
Spec == Init /\ [][Next]_vars /\ WF_vars(Next)

-----------------------------------------------------------------------------
(* Properties.                                                             *)

Ends == {"done", "unknown name", "embed cycle", "division by zero"}

\* No struct is laid out before what it embeds: its size would be read as 0.
EmbedeesFirst ==
    \A s \in Structs : records[s].resolved =>
        \A e \in Embedees(s) : records[e].resolved

\* The scalars in a struct, as <<offset, size>>, if "inner" has those of the
\* structs that it embeds.
scalarsOf(s, inner) ==
    UNION {
        LET f == members[s][i]
            offset == records[s].layout.offsets[i]
        IN  IF f.kind = "builtin" THEN {<<offset, f.size>>}
            ELSE {<<offset + n * records[f.name].layout.size + scalar[1], scalar[2]>> :
                     n \in 0 .. f.count - 1, scalar \in inner[f.name]} :
        i \in DOMAIN members[s] }

\* Those in each struct; no struct is deeper in another than there are structs.
Scalars ==
    LET scalars[depth \in 0 .. Cardinality(Structs)] ==
            IF depth = 0 THEN [s \in Structs |-> {}]
            ELSE [s \in Structs |-> scalarsOf(s, scalars[depth - 1])]
    IN  scalars[Cardinality(Structs)]

\* Every scalar, however deep in structs and arrays it is, is aligned to its size
\* and inside of the struct.
ScalarsAligned ==
    phase = "done" =>
        LET scalars == Scalars IN
        \A s \in Structs : \A scalar \in scalars[s] :
            /\ scalar[2] # 0 => scalar[1] % scalar[2] = 0
            /\ scalar[1] + scalar[2] <= records[s].layout.size

\* The structs a struct embeds, directly or not: what no set can do without that has
\* the struct's embedees and those of its elements.
Embedded(s) == {e \in Structs : \A T \in SUBSET Structs :
    Embedees(s) \subseteq T /\ (\A t \in T : Embedees(t) \subseteq T) => e \in T}

Unknown == \E s \in Structs : ~ (Embedees(s) \subseteq Structs)
Cyclic == \E s \in Structs : s \in Embedded(s)
Shared == \E s \in Structs : \E d, e \in Embedees(s) :
    d # e /\ ({d} \cup Embedded(d)) \cap ({e} \cup Embedded(e)) # {}
\* A struct without fields, or a void, is a field, and not in front of others.
Hollow ==
    \E s \in Structs : \E i \in DOMAIN members[s] :
        /\ IF members[s][i].kind = "struct" THEN members[members[s][i].name] = <<>>
           ELSE members[s][i].size = 0
        /\ i > 1 \/ Len(members[s]) = 1

\* Whether a program compiles does not depend on the order in which the map gives
\* the structs: it is stopped exactly when a name is unknown, when a search comes
\* to a struct twice, or when a struct without fields or a void is to be aligned.
OutcomeIsDetermined ==
    phase \in Ends =>
        IF Unknown THEN phase = "unknown name"
        ELSE IF Cyclic \/ Shared \/ Hollow
        THEN \/ phase = "embed cycle" /\ (Cyclic \/ Shared)
             \/ phase = "division by zero" /\ Hollow
        ELSE phase = "done"

\* The layout ends, whatever embeds what.
LayoutEnds == <>(phase \in Ends)

\* The message of the panic: "Embed cycle is not allowed".
PanicsOnlyOnCycles == phase = "embed cycle" => Cyclic

=============================================================================
