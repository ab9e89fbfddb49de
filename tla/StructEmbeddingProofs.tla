----------------------- MODULE StructEmbeddingProofs ------------------------
(***************************************************************************)
(* Whatever structs embed each other, in whatever order a map gives them:  *)
(* none is laid out before what it embeds, in a program that is laid out   *)
(* every scalar is aligned and inside of its struct, and which programs    *)
(* are laid out depends on the program alone.                              *)
(***************************************************************************)
EXTENDS StructEmbedding, FiniteSetTheorems, SequenceTheorems, TLAPS

-----------------------------------------------------------------------------
(* The embedees of a struct, in the order of their names.                  *)

\* Names are ordered by how many are below them: there is one name for each place.
LEMMA InOrder ==
    ASSUME NEW S \in SUBSET Nat, IsFiniteSet(S)
    PROVE  /\ inOrder(S) \in Seq(S) /\ ToSet(inOrder(S)) = S
           /\ \A i, j \in DOMAIN inOrder(S) : inOrder(S)[i] = inOrder(S)[j] => i = j
<1> DEFINE below(x) == {m \in S : m < x}
           n == Cardinality(S)
           rank == [x \in S |-> Cardinality(below(x)) + 1]
<1>1. n \in Nat
  BY FS_CardinalityType
<1>2. ASSUME NEW x \in S
      PROVE  /\ IsFiniteSet(below(x)) /\ Cardinality(below(x)) \in Nat
             /\ Cardinality(below(x)) + 1 \in 1 .. n
  <2>1. below(x) \subseteq S \ {x}
    BY <1>2
  <2>2. IsFiniteSet(S \ {x}) /\ Cardinality(S \ {x}) = n - 1
    BY <1>2, FS_RemoveElement
  <2>3. IsFiniteSet(below(x)) /\ Cardinality(below(x)) <= n - 1
    BY <2>1, <2>2, FS_Subset
  <2>4. Cardinality(below(x)) \in Nat
    BY <2>3, FS_CardinalityType
  <2> QED BY <1>1, <2>3, <2>4
<1>3. ASSUME NEW x \in S, NEW y \in S, x < y
      PROVE  Cardinality(below(x)) < Cardinality(below(y))
  <2>1. below(x) \in SUBSET below(y) /\ x \in below(y) /\ x \notin below(x)
    <3>1. x \in Nat /\ y \in Nat
      OBVIOUS
    <3>2. ASSUME NEW m \in below(x) PROVE m \in below(y)
      <4>1. m \in S /\ m < x /\ m \in Nat
        OBVIOUS
      <4>2. m < y
        BY <1>3, <3>1, <4>1
      <4> QED BY <4>1, <4>2
    <3>3. x \in below(y)
      BY <1>3
    <3>4. x \notin below(x)
      BY <3>1
    <3> QED BY <3>2, <3>3, <3>4
  <2>2. IsFiniteSet(below(y)) /\ Cardinality(below(x)) \in Nat /\ Cardinality(below(y)) \in Nat
    BY <1>2
  <2>3. /\ Cardinality(below(x)) <= Cardinality(below(y))
        /\ Cardinality(below(y)) = Cardinality(below(x)) => below(y) = below(x)
    BY <2>1, <2>2, FS_Subset
  <2> QED BY <2>1, <2>2, <2>3
<1>4. \A x, y \in S : Cardinality(below(x)) = Cardinality(below(y)) => x = y
  <2> SUFFICES ASSUME NEW x \in S, NEW y \in S, x # y
               PROVE  Cardinality(below(x)) # Cardinality(below(y))
    OBVIOUS
  <2>1. x < y \/ y < x
    OBVIOUS
  <2>2. Cardinality(below(x)) \in Nat /\ Cardinality(below(y)) \in Nat
    BY <1>2
  <2> QED BY <1>3, <2>1, <2>2
<1>5. rank \in Surjection(S, 1 .. n)
  <2> HIDE DEF below
  <2>1. rank \in [S -> 1 .. n]
    BY <1>2
  <2>2. \A x, y \in S : rank[x] = rank[y] => x = y
    BY <1>2, <1>4
  <2>3. rank \in Injection(S, 1 .. n)
    BY <2>1, <2>2 DEF Injection, IsInjective
  <2>4. IsFiniteSet(1 .. n) /\ Cardinality(1 .. n) = n
    BY <1>1, FS_Interval
  <2> HIDE DEF rank, n
  <2>5. Cardinality(S) = Cardinality(1 .. n)
    BY <2>4 DEF n
  <2> QED BY <2>3, <2>4, <2>5, FS_Injection
<1>6. \A i \in 1 .. n : \E x \in S : Cardinality(below(x)) = i - 1
  <2> HIDE DEF below
  <2>1. \A i \in 1 .. n : \E x \in S : rank[x] = i
    BY <1>5 DEF Surjection
  <2> QED BY <1>2, <2>1
<1>7. inOrder(S) = [i \in 1 .. n |-> CHOOSE x \in S : Cardinality(below(x)) = i - 1]
  BY DEF inOrder
<1>8. \A i \in 1 .. n : inOrder(S)[i] \in S /\ Cardinality(below(inOrder(S)[i])) = i - 1
  <2> HIDE DEF below, n
  <2> QED BY <1>6, <1>7
<1>9. inOrder(S) \in Seq(S) /\ DOMAIN inOrder(S) = 1 .. n
  <2> HIDE DEF below, n
  <2>1. inOrder(S) \in [1 .. n -> S]
    BY <1>7, <1>8
  <2> QED BY <1>1, <2>1, SeqDef
<1>10. \A x \in S : \E i \in 1 .. n : inOrder(S)[i] = x
  <2> SUFFICES ASSUME NEW x \in S PROVE \E i \in 1 .. n : inOrder(S)[i] = x
    OBVIOUS
  <2> HIDE DEF below
  <2> DEFINE i == Cardinality(below(x)) + 1
  <2>1. i \in 1 .. n /\ i - 1 = Cardinality(below(x))
    BY <1>2
  <2> HIDE DEF i, n
  <2>2. inOrder(S)[i] \in S /\ Cardinality(below(inOrder(S)[i])) = Cardinality(below(x))
    BY <1>8, <2>1
  <2>3. inOrder(S)[i] = x
    BY <1>4, <2>2
  <2> QED BY <2>1, <2>3
<1>11. ASSUME NEW i \in 1 .. n, NEW j \in 1 .. n, inOrder(S)[i] = inOrder(S)[j] PROVE i = j
  <2> HIDE DEF below, n
  <2>1. i - 1 = j - 1
    BY <1>8, <1>11
  <2> QED BY <1>1, <2>1
<1> HIDE DEF n, below, rank
<1>12. ToSet(inOrder(S)) = S
  BY <1>8, <1>9, <1>10 DEF ToSet
<1> QED BY <1>9, <1>11, <1>12

\* A struct has finitely many fields.
LEMMA EmbedeesFinite ==
    ASSUME members \in [Structs -> Seq(FieldTypes)], NEW s \in Structs,
           Embedees(s) \subseteq Structs
    PROVE  Embedees(s) \in SUBSET Nat /\ IsFiniteSet(Embedees(s))
<1> DEFINE fields == members[s]
           D == {i \in 1 .. Len(fields) : fields[i].kind = "struct"}
           nameOf == [i \in D |-> fields[i].name]
<1>1. Len(fields) \in Nat /\ DOMAIN fields = 1 .. Len(fields)
  <2>1. fields \in Seq(FieldTypes)
    OBVIOUS
  <2> QED BY <2>1, LenProperties
<1>2. IsFiniteSet(D)
  <2>1. IsFiniteSet(1 .. Len(fields))
    BY <1>1, FS_Interval
  <2>2. D \in SUBSET (1 .. Len(fields))
    OBVIOUS
  <2> HIDE DEF D, fields
  <2> QED BY <2>1, <2>2, FS_Subset
<1>3. Embedees(s) = {fields[i].name : i \in D}
  BY <1>1 DEF Embedees, ToSet
<1>4. nameOf \in Surjection(D, Embedees(s))
  <2> HIDE DEF D, fields
  <2> QED BY <1>3 DEF Surjection
<1> HIDE DEF nameOf, D
<1> QED BY <1>2, <1>4, FS_Surjection, StructsAssumption

-----------------------------------------------------------------------------
(* The invariant.                                                          *)

Types ==
    /\ members \in [Structs -> Seq(FieldTypes)]
    /\ records = [s \in Structs |-> records[s]]

\* The graph has the embedees of its nodes; other structs have none.
GraphExact ==
    phase \in {"leaves", "search"} =>
        /\ \A s \in Structs : Embedees(s) \subseteq Structs
        /\ nodes \subseteq Structs
        /\ \A s \in nodes : embedGraph[s] \in Seq(Structs) /\ ToSet(embedGraph[s]) = Embedees(s)
        /\ \A s \in Structs \ nodes : Embedees(s) = {}

VisitCalls == [struct : nodes, next : Nat \ {0}]

\* An embedee that a call came past is laid out, or is what the next call is for.
Passed(k, e) ==
    \/ records[e].resolved
    \/ k < Len(stack) /\ stack[k + 1].struct = e

CallsExact ==
    /\ phase \in {"names", "leaves"} => stack = <<>>
    /\ phase = "search" =>
        /\ stack \in Seq(VisitCalls)
        /\ \A k \in 1 .. Len(stack) : \A j \in 1 .. Len(embedGraph[stack[k].struct]) :
              j < stack[k].next => Passed(k, embedGraph[stack[k].struct][j])

EInv == Types /\ GraphExact /\ CallsExact /\ EmbedeesFirst

LEMMA EmbedeesKept ==
    ASSUME UNCHANGED members PROVE \A s \in Structs : Embedees(s)' = Embedees(s)
BY DEF Embedees

LEMMA EmbedeesFirstKept ==
    ASSUME EmbedeesFirst, UNCHANGED <<members, records>> PROVE EmbedeesFirst'
BY EmbedeesKept DEF EmbedeesFirst

\* Laying out a struct whose embedees are laid out.
LEMMA Resolving ==
    ASSUME Types, EmbedeesFirst, NEW s \in Structs, UNCHANGED members,
           \A t \in Structs : Embedees(t) \subseteq Structs,
           \A e \in Embedees(s) : records[e].resolved,
           ResolveSizeAndOffset(s), phase # "division by zero"
    PROVE  /\ Types' /\ EmbedeesFirst'
           /\ \A e \in Structs : records[e].resolved => records'[e].resolved
           /\ (phase' = phase /\ records'[s].resolved) \/ phase' = "division by zero"
<1>1. \/ phase' = "division by zero" /\ records' = records
      \/ records[s].resolved /\ records' = records /\ phase' = phase
      \/ /\ records' = [records EXCEPT ![s] = [layout |-> layoutOf(s), resolved |-> TRUE]]
         /\ phase' = phase
  BY DEF ResolveSizeAndOffset
<1>2. CASE /\ records' = records
           /\ \/ phase' = "division by zero"
              \/ records[s].resolved /\ phase' = phase
  <2>1. Types'
    BY <1>2 DEF Types
  <2>2. EmbedeesFirst'
    BY <1>2, EmbedeesFirstKept
  <2> QED BY <1>2, <2>1, <2>2
<1>3. CASE /\ records' = [records EXCEPT ![s] = [layout |-> layoutOf(s), resolved |-> TRUE]]
           /\ phase' = phase
  <2> DEFINE record == [layout |-> layoutOf(s), resolved |-> TRUE]
  <2>1. record.resolved = TRUE
    OBVIOUS
  <2> HIDE DEF record
  <2>2. records' = [t \in Structs |-> IF t = s THEN record ELSE records[t]]
    BY <1>3 DEF Types, record
  <2>3. \A e \in Structs : records[e].resolved => records'[e].resolved
    BY <2>1, <2>2
  <2>4. records'[s].resolved
    BY <2>1, <2>2
  <2>5. Types'
    BY <2>2 DEF Types
  <2>6. EmbedeesFirst'
    <3> SUFFICES ASSUME NEW t \in Structs, records'[t].resolved, NEW e \in Embedees(t)
                 PROVE  records'[e].resolved
      BY EmbedeesKept DEF EmbedeesFirst
    <3>1. e \in Structs
      OBVIOUS
    <3>2. records[e].resolved
      BY <2>2 DEF EmbedeesFirst
    <3> QED BY <2>3, <3>1, <3>2
  <2> QED BY <1>3, <2>3, <2>4, <2>5, <2>6
<1> QED BY <1>1, <1>2, <1>3

\* A call for a struct that the last of the other calls is at.
LEMMA Visiting ==
    ASSUME GraphExact, phase = "search", NEW s \in Structs, NEW marks,
           NEW calls \in Seq(VisitCalls),
           \A k \in 1 .. Len(calls) : \A j \in 1 .. Len(embedGraph[calls[k].struct]) :
              j < calls[k].next =>
                LET e == embedGraph[calls[k].struct][j] IN
                \/ records[e].resolved
                \/ k < Len(calls) /\ calls[k + 1].struct = e
                \/ k = Len(calls) /\ e = s,
           Visit(s, marks, calls), UNCHANGED <<members, records>>
    PROVE  GraphExact' /\ CallsExact'
<1>1. CASE phase' = "embed cycle"
  BY <1>1 DEF GraphExact, CallsExact
<1>2. CASE /\ embedGraph' = [t \in nodes \cup {s} |-> IF t \in nodes THEN embedGraph[t] ELSE <<>>]
           /\ stack' = Append(calls, [struct |-> s, next |-> 1])
           /\ phase' = phase
  <2>1. /\ \A t \in Structs : Embedees(t) \subseteq Structs
        /\ nodes \subseteq Structs
        /\ \A t \in nodes : embedGraph[t] \in Seq(Structs) /\ ToSet(embedGraph[t]) = Embedees(t)
        /\ \A t \in Structs \ nodes : Embedees(t) = {}
    BY DEF GraphExact
  <2>2. nodes' = nodes \cup {s} /\ \A t \in nodes : embedGraph'[t] = embedGraph[t]
    BY <1>2 DEF nodes
  <2>3. s \notin nodes => embedGraph'[s] = <<>>
    BY <1>2
  <2>4. <<>> \in Seq(Structs) /\ ToSet(<<>>) = {}
    BY DEF ToSet
  <2>5. GraphExact'
    <3>1. \A t \in nodes' : embedGraph'[t] \in Seq(Structs) /\ ToSet(embedGraph'[t]) = Embedees(t)
      BY <2>1, <2>2, <2>3, <2>4
    <3>2. \A t \in Structs \ nodes' : Embedees(t) = {}
      BY <2>1, <2>2
    <3>3. nodes' \subseteq Structs
      BY <2>1, <2>2
    <3> QED BY <2>1, <3>1, <3>2, <3>3, EmbedeesKept DEF GraphExact
  <2>6. calls \in Seq(VisitCalls') /\ [struct |-> s, next |-> 1] \in VisitCalls'
    <3>1. VisitCalls \in SUBSET VisitCalls'
      BY <2>2 DEF VisitCalls
    <3>2. [struct |-> s, next |-> 1] \in VisitCalls'
      BY <2>2 DEF VisitCalls
    <3> QED BY <3>1, <3>2
  <2>7. /\ stack' \in Seq(VisitCalls') /\ Len(stack') = Len(calls) + 1 /\ Len(calls) \in Nat
        /\ \A k \in 1 .. Len(calls) : stack'[k] = calls[k]
        /\ stack'[Len(calls) + 1] = [struct |-> s, next |-> 1]
    BY <1>2, <2>6, AppendProperties, LenProperties
  <2>8. ASSUME NEW k \in 1 .. Len(stack'), NEW j \in 1 .. Len(embedGraph'[stack'[k].struct]),
               j < stack'[k].next
        PROVE  LET e == embedGraph'[stack'[k].struct][j] IN
               \/ records'[e].resolved
               \/ k < Len(stack') /\ stack'[k + 1].struct = e
    <3>1. CASE k \in 1 .. Len(calls)
      <4>1. stack'[k] = calls[k] /\ calls[k] \in VisitCalls
        BY <2>7, <3>1, ElementOfSeq
      <4>2. embedGraph'[stack'[k].struct] = embedGraph[calls[k].struct]
        BY <2>2, <4>1 DEF VisitCalls
      <4> DEFINE e == embedGraph[calls[k].struct][j]
      <4>3. \/ records[e].resolved
            \/ k < Len(calls) /\ calls[k + 1].struct = e
            \/ k = Len(calls) /\ e = s
        BY <2>8, <3>1, <4>1, <4>2
      <4>4. k < Len(calls) => stack'[k + 1] = calls[k + 1] /\ k < Len(stack')
        BY <2>7, <3>1
      <4>5. k = Len(calls) => stack'[k + 1].struct = s /\ k < Len(stack')
        BY <2>7, <3>1
      <4> HIDE DEF e
      <4>6. records'[e].resolved \/ (k < Len(stack') /\ stack'[k + 1].struct = e)
        BY <4>3, <4>4, <4>5
      <4> QED BY <4>1, <4>2, <4>6 DEF e
    <3>2. CASE k = Len(calls) + 1
      <4>1. stack'[k].next = 1
        BY <2>7, <3>2
      <4>2. embedGraph'[stack'[k].struct] \in Seq(Structs)
        <5>1. stack'[k].struct \in nodes' /\ phase' \in {"leaves", "search"}
          BY <1>2, <2>2, <2>7, <3>2
        <5> QED BY <2>5, <5>1 DEF GraphExact
      <4>3. Len(embedGraph'[stack'[k].struct]) \in Nat
        BY <4>2, LenProperties
      <4> QED BY <2>8, <4>1, <4>3
    <3> QED BY <2>7, <3>1, <3>2
  <2>9. CallsExact'
    <3>1. phase' = "search"
      BY <1>2
    <3> QED BY <2>7, <2>8, <3>1 DEF CallsExact, Passed
  <2> QED BY <2>5, <2>9
<1> QED BY <1>1, <1>2 DEF Visit

-----------------------------------------------------------------------------
(* The steps.                                                              *)

LEMMA EInit == Init => EInv
<1> SUFFICES ASSUME Init PROVE EInv
  OBVIOUS
<1>1. Types
  BY ProgramsAssumption DEF Init, Types
<1>2. EmbedeesFirst
  <2>1. \A s \in Structs : records[s].resolved = FALSE
    BY DEF Init
  <2> QED BY <2>1 DEF EmbedeesFirst
<1> QED BY <1>1, <1>2 DEF Init, EInv, GraphExact, CallsExact

LEMMA ELookUpNames == EInv /\ LookUpNames => EInv'
<1> SUFFICES ASSUME EInv, LookUpNames PROVE EInv'
  OBVIOUS
<1>1. Types' /\ EmbedeesFirst' /\ stack' = <<>>
  BY EmbedeesFirstKept DEF EInv, LookUpNames, Types, CallsExact
<1>2. CASE phase' = "unknown name"
  BY <1>1, <1>2 DEF EInv, GraphExact, CallsExact
<1>3. CASE /\ \A s \in Structs : Embedees(s) \subseteq Structs
           /\ phase' = "leaves"
           /\ embedGraph' = [s \in {t \in Structs : Embedees(t) # {}} |-> inOrder(Embedees(s))]
  <2>1. nodes' = {t \in Structs : Embedees(t) # {}}
    BY <1>3 DEF nodes
  <2>2. ASSUME NEW s \in nodes'
        PROVE  embedGraph'[s] \in Seq(Structs) /\ ToSet(embedGraph'[s]) = Embedees(s)
    <3>1. s \in Structs /\ Embedees(s) \subseteq Structs /\ embedGraph'[s] = inOrder(Embedees(s))
      BY <1>3, <2>1
    <3>2. inOrder(Embedees(s)) \in Seq(Embedees(s)) /\ ToSet(inOrder(Embedees(s))) = Embedees(s)
      BY <3>1, EmbedeesFinite, InOrder DEF EInv, Types
    <3> QED BY <3>1, <3>2
  <2>3. \A s \in Structs : Embedees(s)' = Embedees(s)
    BY EmbedeesKept DEF LookUpNames
  <2>4. GraphExact'
    BY <1>3, <2>1, <2>2, <2>3 DEF GraphExact
  <2> QED BY <1>1, <1>3, <2>4 DEF EInv, CallsExact
<1> QED BY <1>2, <1>3 DEF LookUpNames

LEMMA EResolveLeaf == EInv /\ ResolveLeaf => EInv'
<1> SUFFICES ASSUME EInv, ResolveLeaf PROVE EInv'
  OBVIOUS
<1>1. PICK s \in Structs \ nodes : ResolveSizeAndOffset(s)
  BY DEF ResolveLeaf
<1>2. phase = "leaves" /\ UNCHANGED <<members, embedGraph, visited, stack>>
  BY DEF ResolveLeaf
<1>3. Embedees(s) = {} /\ \A t \in Structs : Embedees(t) \subseteq Structs
  BY <1>2 DEF EInv, GraphExact
<1>4. Types' /\ EmbedeesFirst' /\ phase' \in {"leaves", "division by zero"}
  BY <1>1, <1>2, <1>3, Resolving DEF EInv
<1>5. \A t \in Structs : Embedees(t)' = Embedees(t)
  BY <1>2, EmbedeesKept
<1>6. GraphExact'
  BY <1>2, <1>4, <1>5 DEF EInv, GraphExact, nodes
<1>7. CallsExact'
  BY <1>2, <1>4 DEF EInv, CallsExact
<1> QED BY <1>4, <1>6, <1>7 DEF EInv

\* The steps that change nothing but the phase.
LEMMA ETurn == EInv /\ (LeavesResolved \/ EndSearch) => EInv'
<1> SUFFICES ASSUME EInv, LeavesResolved \/ EndSearch PROVE EInv'
  OBVIOUS
<1>1. /\ UNCHANGED <<members, records, embedGraph, stack>>
      /\ stack = <<>>
      /\ (phase = "leaves" /\ phase' = "search") \/ phase' = "done"
  BY DEF LeavesResolved, EndSearch, EInv, CallsExact
<1>2. Types' /\ EmbedeesFirst'
  BY <1>1, EmbedeesFirstKept DEF EInv, Types
<1>3. \A t \in Structs : Embedees(t)' = Embedees(t)
  BY <1>1, EmbedeesKept
<1>4. GraphExact'
  BY <1>1, <1>3 DEF EInv, GraphExact, nodes
<1>5. CallsExact'
  BY <1>1 DEF CallsExact
<1> QED BY <1>2, <1>4, <1>5 DEF EInv

LEMMA EStartSearch == EInv /\ StartSearch => EInv'
<1> SUFFICES ASSUME EInv, StartSearch PROVE EInv'
  OBVIOUS
<1>1. PICK s \in nodes : Visit(s, {}, stack)
  BY DEF StartSearch
<1>2. phase = "search" /\ stack = <<>> /\ UNCHANGED <<members, records>>
  BY DEF StartSearch
<1>3. s \in Structs
  BY <1>2 DEF EInv, GraphExact
<1>4. stack \in Seq(VisitCalls) /\ Len(stack) = 0
  BY <1>2
<1>5. \A k \in 1 .. Len(stack) : FALSE
  BY <1>4
<1>6. GraphExact' /\ CallsExact'
  BY <1>1, <1>2, <1>3, <1>4, <1>5, Visiting DEF EInv
<1>7. Types' /\ EmbedeesFirst'
  BY <1>2, EmbedeesFirstKept DEF EInv, Types
<1> QED BY <1>6, <1>7 DEF EInv

\* What the last call is, and what it came past.
LEMMA Top ==
    ASSUME EInv, phase = "search", stack # <<>>
    PROVE  /\ Len(stack) \in Nat \ {0} /\ stack \in Seq(VisitCalls)
           /\ top \in VisitCalls /\ top.struct \in Structs /\ embedees \in Seq(Structs)
           /\ ToSet(embedees) = Embedees(top.struct)
           /\ \A j \in 1 .. Len(embedees) : j < top.next => records[embedees[j]].resolved
<1>1. stack \in Seq(VisitCalls)
  BY DEF EInv, CallsExact
<1>2. Len(stack) \in Nat \ {0}
  BY <1>1, EmptySeq, LenProperties
<1>3. top \in VisitCalls
  BY <1>1, <1>2, ElementOfSeq DEF top
<1>4. top.struct \in nodes
  BY <1>3 DEF VisitCalls
<1>5. /\ top.struct \in Structs /\ embedees \in Seq(Structs)
      /\ ToSet(embedees) = Embedees(top.struct)
  BY <1>4 DEF EInv, GraphExact, embedees
<1>6. ASSUME NEW j \in 1 .. Len(embedees), j < top.next PROVE records[embedees[j]].resolved
  <2>1. Passed(Len(stack), embedees[j])
    BY <1>2, <1>6 DEF EInv, CallsExact, top, embedees
  <2> QED BY <1>2, <2>1 DEF Passed
<1> QED BY <1>1, <1>2, <1>3, <1>5, <1>6

\* When the last call is through with its struct's embedees they are all laid out.
LEMMA TopEmbedees ==
    ASSUME EInv, phase = "search", stack # <<>>, top.next > Len(embedees)
    PROVE  \A e \in Embedees(top.struct) : e \in Structs /\ records[e].resolved
<1>1. /\ top \in VisitCalls /\ embedees \in Seq(Structs)
      /\ ToSet(embedees) = Embedees(top.struct)
      /\ \A j \in 1 .. Len(embedees) : j < top.next => records[embedees[j]].resolved
  BY Top
<1>2. top.next \in Nat
  BY <1>1 DEF VisitCalls
<1>3. DOMAIN embedees = 1 .. Len(embedees) /\ Len(embedees) \in Nat
  BY <1>1, LenProperties
<1>4. ASSUME NEW e \in Embedees(top.struct) PROVE e \in Structs /\ records[e].resolved
  <2>1. PICK j \in 1 .. Len(embedees) : embedees[j] = e
    BY <1>1, <1>3 DEF ToSet
  <2>2. j < top.next
    BY <1>2, <1>3
  <2>3. embedees[j] \in Structs
    BY <1>1, <1>3, ElementOfSeq
  <2> QED BY <1>1, <2>1, <2>2, <2>3
<1> QED BY <1>4

LEMMA EVisitEmbedee == EInv /\ VisitEmbedee => EInv'
<1> SUFFICES ASSUME EInv, VisitEmbedee PROVE EInv'
  OBVIOUS
<1> DEFINE n == Len(stack)
           s == embedees[top.next]
           calls == [stack EXCEPT ![n].next = @ + 1]
<1>1. phase = "search" /\ stack # <<>> /\ top.next <= Len(embedees)
      /\ Visit(s, visited, calls) /\ UNCHANGED <<members, records>>
  BY DEF VisitEmbedee
<1>2. /\ n \in Nat \ {0} /\ stack \in Seq(VisitCalls)
      /\ top \in VisitCalls /\ top.struct \in Structs /\ embedees \in Seq(Structs)
      /\ \A j \in 1 .. Len(embedees) : j < top.next => records[embedees[j]].resolved
  BY <1>1, Top
<1>3. top.next \in Nat \ {0} /\ top = stack[n] /\ top = [struct |-> top.struct, next |-> top.next]
  BY <1>2 DEF VisitCalls, top
<1>4. s \in Structs
  BY <1>1, <1>2, <1>3, ElementOfSeq, LenProperties
<1> DEFINE moved == [struct |-> top.struct, next |-> top.next + 1]
<1>5. moved \in VisitCalls
  BY <1>2, <1>3 DEF VisitCalls
<1>6. calls = [stack EXCEPT ![n] = moved]
  <2>1. calls = [stack EXCEPT ![n] = [stack[n] EXCEPT !.next = @ + 1]]
    OBVIOUS
  <2>2. [stack[n] EXCEPT !.next = @ + 1] = moved
    BY <1>3
  <2> QED BY <2>1, <2>2
<1> HIDE DEF calls, s, moved
<1>7. /\ calls \in Seq(VisitCalls) /\ Len(calls) = n
      /\ \A k \in 1 .. n : calls[k] = IF k = n THEN moved ELSE stack[k]
  <2>1. n \in 1 .. Len(stack)
    BY <1>2
  <2> QED BY <1>2, <1>5, <1>6, <2>1, ExceptSeq
<1>8. ASSUME NEW k \in 1 .. Len(calls), NEW j \in 1 .. Len(embedGraph[calls[k].struct]),
             j < calls[k].next
      PROVE  LET e == embedGraph[calls[k].struct][j] IN
             \/ records[e].resolved
             \/ k < Len(calls) /\ calls[k + 1].struct = e
             \/ k = Len(calls) /\ e = s
  <2>1. CASE k = n
    <3>1. calls[k].struct = top.struct /\ calls[k].next = top.next + 1
      BY <1>2, <1>7, <2>1 DEF moved
    <3>2. embedGraph[calls[k].struct] = embedees
      BY <3>1 DEF embedees
    <3>3. j \in 1 .. Len(embedees) /\ Len(embedees) \in Nat
      BY <1>2, <1>8, <3>2, LenProperties
    <3>4. j < top.next \/ j = top.next
      BY <1>3, <1>8, <3>1, <3>3
    <3>5. CASE j < top.next
      BY <1>2, <3>2, <3>3, <3>5
    <3>6. CASE j = top.next
      BY <1>7, <2>1, <3>2, <3>6 DEF s
    <3> QED BY <3>4, <3>5, <3>6
  <2>2. CASE k # n
    <3>1. k \in 1 .. n /\ k + 1 \in 1 .. n /\ k < n
      BY <1>2, <1>7, <2>2
    <3>2. calls[k] = stack[k]
      BY <1>7, <2>2, <3>1
    <3>3. calls[k + 1].struct = stack[k + 1].struct
      BY <1>3, <1>7, <3>1 DEF moved
    <3> DEFINE e == embedGraph[stack[k].struct][j]
    <3>4. Passed(k, e)
      BY <1>1, <1>8, <3>1, <3>2 DEF EInv, CallsExact
    <3>5. records[e].resolved \/ stack[k + 1].struct = e
      BY <3>4 DEF Passed
    <3> HIDE DEF e
    <3>6. records[e].resolved \/ (k < Len(calls) /\ calls[k + 1].struct = e)
      BY <1>7, <3>1, <3>3, <3>5
    <3> QED BY <3>2, <3>6 DEF e
  <2> QED BY <2>1, <2>2
<1>9. GraphExact' /\ CallsExact'
  <2> HIDE DEF n
  <2> QED BY <1>1, <1>4, <1>7, <1>8, Visiting DEF EInv
<1>10. Types' /\ EmbedeesFirst'
  BY <1>1, EmbedeesFirstKept DEF EInv, Types
<1> QED BY <1>9, <1>10 DEF EInv

LEMMA EResolveEmbedder == EInv /\ ResolveEmbedder => EInv'
<1> SUFFICES ASSUME EInv, ResolveEmbedder PROVE EInv'
  OBVIOUS
<1> DEFINE n == Len(stack)
           s == top.struct
<1>1. phase = "search" /\ stack # <<>> /\ top.next > Len(embedees)
      /\ ResolveSizeAndOffset(s) /\ stack' = Front(stack)
      /\ UNCHANGED <<members, embedGraph, visited>>
  BY DEF ResolveEmbedder
<1>2. /\ n \in Nat \ {0} /\ stack \in Seq(VisitCalls)
      /\ top \in VisitCalls /\ s \in Structs /\ embedees \in Seq(Structs)
      /\ ToSet(embedees) = Embedees(s)
      /\ \A j \in 1 .. Len(embedees) : j < top.next => records[embedees[j]].resolved
  BY <1>1, Top
<1>3. s = stack[n].struct /\ top.next \in Nat
  BY <1>2 DEF top, VisitCalls
<1> HIDE DEF s
<1>4. \A e \in Embedees(s) : records[e].resolved
  BY <1>1, TopEmbedees DEF s
<1>5. \A t \in Structs : Embedees(t) \subseteq Structs
  BY <1>1 DEF EInv, GraphExact
<1>6. /\ Types' /\ EmbedeesFirst'
      /\ \A e \in Structs : records[e].resolved => records'[e].resolved
      /\ (phase' = "search" /\ records'[s].resolved) \/ phase' = "division by zero"
  BY <1>1, <1>2, <1>4, <1>5, Resolving DEF EInv
<1>7. \A t \in Structs : Embedees(t)' = Embedees(t)
  BY <1>1, EmbedeesKept
<1>8. GraphExact'
  BY <1>1, <1>6, <1>7 DEF EInv, GraphExact, nodes
<1>9. CallsExact'
  <2>1. CASE phase' = "division by zero"
    BY <2>1 DEF CallsExact
  <2>2. CASE phase' = "search" /\ records'[s].resolved
    <3>1. /\ stack' \in Seq(VisitCalls) /\ Len(stack') = n - 1
          /\ \A k \in 1 .. n - 1 : stack'[k] = stack[k]
      <4>1. \A i \in 1 .. n - 1 : stack[i] \in VisitCalls
        BY <1>2, ElementOfSeq
      <4>2. stack' = SubSeq(stack, 1, n - 1) /\ n - 1 \in Int /\ 1 \in Int
        BY <1>1, <1>2 DEF Front
      <4> HIDE DEF n
      <4> QED BY <1>2, <4>1, <4>2, SubSeqProperties
    <3>2. VisitCalls' = VisitCalls
      BY <1>1 DEF VisitCalls, nodes
    <3>3. ASSUME NEW k \in 1 .. Len(stack'), NEW j \in 1 .. Len(embedGraph[stack'[k].struct]),
                 j < stack'[k].next
          PROVE  LET d == embedGraph[stack'[k].struct][j] IN
                 \/ records'[d].resolved
                 \/ k < Len(stack') /\ stack'[k + 1].struct = d
      <4>1. k \in 1 .. n /\ k < n /\ stack'[k] = stack[k] /\ stack[k] \in VisitCalls
        BY <1>2, <3>1, ElementOfSeq
      <4> DEFINE e == embedGraph[stack[k].struct][j]
      <4>2. Passed(k, e)
        BY <1>1, <3>3, <4>1 DEF EInv, CallsExact
      <4>3. e \in Structs
        <5>1. embedGraph[stack[k].struct] \in Seq(Structs)
          BY <1>1, <4>1 DEF EInv, GraphExact, VisitCalls
        <5> QED BY <3>3, <4>1, <5>1, ElementOfSeq
      <4>4. records[e].resolved \/ stack[k + 1].struct = e
        BY <4>2 DEF Passed
      <4> HIDE DEF e
      <4>5. CASE records[e].resolved
        <5>1. records'[e].resolved
          BY <1>6, <4>3, <4>5
        <5> QED BY <4>1, <5>1 DEF e
      <4>6. CASE stack[k + 1].struct = e
        <5>1. CASE k + 1 = n
          <6>1. records'[e].resolved
            BY <1>3, <2>2, <4>6, <5>1
          <6> QED BY <4>1, <6>1 DEF e
        <5>2. CASE k + 1 # n
          <6>1. k < Len(stack') /\ stack'[k + 1] = stack[k + 1]
            BY <1>2, <3>1, <4>1, <5>2
          <6> QED BY <4>1, <4>6, <6>1 DEF e
        <5> QED BY <5>1, <5>2
      <4> QED BY <4>4, <4>5, <4>6
    <3> QED BY <1>1, <2>2, <3>1, <3>2, <3>3 DEF CallsExact, Passed
  <2> QED BY <1>6, <2>1, <2>2
<1> QED BY <1>6, <1>8, <1>9 DEF EInv

LEMMA EStutter == EInv /\ UNCHANGED vars => EInv'
<1> SUFFICES ASSUME EInv, UNCHANGED vars PROVE EInv'
  OBVIOUS
<1> USE DEF vars
<1>1. \A t \in Structs : Embedees(t)' = Embedees(t)
  BY EmbedeesKept
<1>2. Types' /\ EmbedeesFirst'
  BY EmbedeesFirstKept DEF EInv, Types
<1>3. GraphExact'
  BY <1>1 DEF EInv, GraphExact, nodes
<1>4. CallsExact'
  BY DEF EInv, CallsExact, VisitCalls, nodes, Passed
<1> QED BY <1>2, <1>3, <1>4 DEF EInv

LEMMA EStep == EInv /\ [Next]_vars => EInv'
BY ELookUpNames, EResolveLeaf, ETurn, EStartSearch, EVisitEmbedee, EResolveEmbedder, EStutter
   DEF Next

\* No struct is laid out before what it embeds, so no size is read as 0: whatever
\* the declarations, and in whatever order the map gives the structs to
\* resolveStructSize.
THEOREM EmbedeesAlwaysFirst == Spec => []EmbedeesFirst
<1>1. EInv /\ [Next]_vars => EInv'
  BY EStep
<1>2. EInv => EmbedeesFirst
  BY DEF EInv
<1> QED BY EInit, <1>1, <1>2, PTL DEF Spec

-----------------------------------------------------------------------------
(* Recursive functions over 0 .. n.                                        *)

LEMMA LeastNatural ==
    ASSUME NEW T, T \subseteq Nat, T # {}
    PROVE  \E k \in T : \A j \in T : k <= j
<1> DEFINE Below(k) == {j \in T : j <= k}
           F == {Below(k) : k \in T}
<1>1. \A k \in T : k \in Nat
  OBVIOUS
<1>2. F # {} /\ F \subseteq FiniteSubsetsOf(T)
  <2>1. ASSUME NEW k \in T PROVE IsFiniteSet(Below(k))
    <3>1. IsFiniteSet(0 .. k)
      BY <1>1, FS_Interval
    <3>2. \A j \in Below(k) : j \in 0 .. k
      BY <1>1
    <3>3. Below(k) \subseteq 0 .. k
      BY <3>2, Zenon
    <3> QED BY <3>1, <3>3, FS_Subset
  <2> QED BY <2>1 DEF FiniteSubsetsOf
<1>3. PICK X \in F : \A Y \in F : ~ (<<Y, X>> \in StrictSubsetOrdering(T))
  BY <1>2, FS_StrictSubsetOrderingWellFounded, WFMin
<1>4. PICK k \in T : X = Below(k)
  OBVIOUS
<1>5. ASSUME NEW j \in T, ~ (k <= j) PROVE FALSE
  <2>1. Below(j) \in F /\ Below(j) \subseteq T /\ X \subseteq T
    BY <1>4
  <2>2. k \in Nat /\ j \in Nat /\ j < k /\ k <= k
    BY <1>1, <1>5
  <2>3. \A h \in T : h <= j => h <= k
    BY <1>1, <2>2
  <2>4. Below(j) \subseteq X
    BY <1>4, <2>3, Zenon
  <2>5. k \in X /\ k \notin Below(j)
    BY <1>4, <1>5, <2>2, Zenon
  <2>6. <<Below(j), X>> \in StrictSubsetOrdering(T)
    BY <2>1, <2>4, <2>5 DEF StrictSubsetOrdering
  <2> QED BY <1>3, <2>1, <2>6
<1> QED BY <1>5

\* Induction, for a property given as the set of the numbers that have it.
LEMMA Upwards ==
    ASSUME NEW n \in Nat, NEW T, 0 \in T, \A i \in 1 .. n : i - 1 \in T => i \in T
    PROVE  0 .. n \subseteq T
<1> DEFINE U == (0 .. n) \ T
<1>1. ASSUME U # {} PROVE FALSE
  <2>1. PICK k \in U : \A j \in U : k <= j
    <3>1. U \subseteq Nat
      OBVIOUS
    <3> HIDE DEF U
    <3> QED BY <1>1, <3>1, LeastNatural
  <2>2. k \in 1 .. n /\ k - 1 \in 0 .. n /\ ~ (k <= k - 1) /\ k \notin T
    <3>1. k \in 0 .. n /\ k \notin T
      OBVIOUS
    <3>2. k # 0
      BY <3>1
    <3> QED BY <3>1, <3>2
  <2>3. k - 1 \in T
    BY <2>1, <2>2
  <2> QED BY <2>2, <2>3
<1> QED BY <1>1

Recurses(f, n, b, g) == f = [i \in 0 .. n |-> IF i = 0 THEN b ELSE g[i][f[i - 1]]]

\* A recursion exists that stays in the sets S[0], S[1], ...
LEMMA Recursion ==
    ASSUME NEW n \in Nat, NEW S, NEW b \in S[0], NEW g,
           \A i \in 1 .. n : g[i] \in [S[i - 1] -> S[i]]
    PROVE  \E f : Recurses(f, n, b, g) /\ \A i \in 0 .. n : f[i] \in S[i]
<1> DEFINE Runs(f, k) == /\ f = [i \in 0 .. k |-> IF i = 0 THEN b ELSE g[i][f[i - 1]]]
                         /\ \A i \in 0 .. k : f[i] \in S[i]
           T == {k \in 0 .. n : \E f : Runs(f, k)}
<1>1. 0 \in T
  <2> DEFINE f == [i \in 0 .. 0 |-> b]
  <2>1. f = [i \in 0 .. 0 |-> IF i = 0 THEN b ELSE g[i][f[i - 1]]]
    OBVIOUS
  <2>2. \A i \in 0 .. 0 : f[i] \in S[i]
    OBVIOUS
  <2> HIDE DEF f
  <2>3. Runs(f, 0)
    BY <2>1, <2>2
  <2> QED BY <2>3
<1>2. ASSUME NEW k \in 1 .. n, k - 1 \in T PROVE k \in T
  <2>1. PICK f : Runs(f, k - 1)
    BY <1>2
  <2>2. /\ f = [i \in 0 .. k - 1 |-> IF i = 0 THEN b ELSE g[i][f[i - 1]]]
        /\ \A i \in 0 .. k - 1 : f[i] \in S[i]
    BY <2>1
  <2>3. k - 1 \in 0 .. k - 1 /\ k \in 0 .. n
    OBVIOUS
  <2> DEFINE h == [i \in 0 .. k |-> IF i = k THEN g[k][f[k - 1]] ELSE f[i]]
  <2>4. g[k][f[k - 1]] \in S[k]
    <3>1. f[k - 1] \in S[k - 1] /\ g[k] \in [S[k - 1] -> S[k]]
      BY <2>2, <2>3
    <3> QED BY <3>1
  <2>5. ASSUME NEW i \in 0 .. k, i # k
        PROVE  i \in 0 .. k - 1 /\ (i # 0 => i - 1 \in 0 .. k /\ i - 1 # k)
    BY <2>5
  <2>6. \A i \in 0 .. k : h[i] = IF i = k THEN g[k][f[k - 1]] ELSE f[i]
    OBVIOUS
  <2>7. k # 0 /\ k - 1 \in 0 .. k /\ k - 1 # k
    OBVIOUS
  <2>8. ASSUME NEW i \in 0 .. k
        PROVE  h[i] = IF i = 0 THEN b ELSE g[i][h[i - 1]]
    <3> HIDE DEF h
    <3>1. CASE i = k
      BY <2>6, <2>7, <3>1
    <3>2. CASE i # k
      <4>1. h[i] = f[i] /\ f[i] = IF i = 0 THEN b ELSE g[i][f[i - 1]]
        BY <2>2, <2>5, <2>6, <3>2
      <4>2. i # 0 => h[i - 1] = f[i - 1]
        BY <2>5, <2>6, <3>2
      <4> QED BY <4>1, <4>2
    <3> QED BY <3>1, <3>2
  <2>9. \A i \in 0 .. k : h[i] \in S[i]
    BY <2>2, <2>4, <2>5, <2>6
  <2>10. h = [i \in 0 .. k |-> h[i]]
    OBVIOUS
  <2> HIDE DEF h
  <2>11. Runs(h, k)
    BY <2>8, <2>9, <2>10
  <2> QED BY <2>3, <2>11
<1>3. 0 .. n \subseteq T
  <2> HIDE DEF T
  <2> QED BY <1>1, <1>2, Upwards
<1>4. n \in T
  BY <1>3
<1> QED BY <1>4 DEF Recurses

-----------------------------------------------------------------------------
(* The layout of one struct.                                               *)

Sized == [size : Nat, alignment : BuiltinSizes]
Layouts == [offsets : Seq(Nat), size : Nat, alignment : BuiltinSizes]

\* The first k fields have their places in the layout.
Fits(l, fields, k) ==
    /\ l \in Layouts /\ Len(l.offsets) = k
    /\ \A i \in 1 .. k :
          /\ fields[i].alignment # 0 => l.offsets[i] % fields[i].alignment = 0
          /\ l.offsets[i] + fields[i].size <= l.size
          /\ fields[i].alignment <= l.alignment

LEMMA Alignments ==
    ASSUME NEW n \in Nat, NEW a \in BuiltinSizes, a # 0
    PROVE  /\ roundUp(n, a) \in Nat /\ roundUp(n, a) % a = 0 /\ n <= roundUp(n, a)
           /\ \A b \in BuiltinSizes : b # 0 /\ b <= a /\ n % a = 0 => n % b = 0
           /\ \A m \in Nat : n % a = 0 /\ m % a = 0 => (n + m) % a = 0
<1>1. a \in {1, 2, 4, 8}
  BY DEF BuiltinSizes
<1>2. CASE a = 1
  BY <1>2 DEF roundUp, BuiltinSizes
<1>3. CASE a = 2
  BY <1>3 DEF roundUp, BuiltinSizes
<1>4. CASE a = 4
  BY <1>4 DEF roundUp, BuiltinSizes
<1>5. CASE a = 8
  BY <1>5 DEF roundUp, BuiltinSizes
<1> QED BY <1>1, <1>2, <1>3, <1>4, <1>5

\* One more field; nothing is aligned to 0 but the first one.
LEMMA OneMore ==
    ASSUME NEW fields \in Seq(Sized), NEW k \in 1 .. Len(fields),
           NEW l, Fits(l, fields, k - 1), k # 1 => fields[k].alignment # 0
    PROVE  Fits(placeField(l, fields[k]), fields, k)
<1> DEFINE f == fields[k]
           offset == IF l.offsets = <<>> THEN 0 ELSE roundUp(l.size, f.alignment)
           r == placeField(l, f)
<1>1. f \in Sized /\ f.size \in Nat /\ f.alignment \in BuiltinSizes
  <2>1. fields[k] \in Sized
    OBVIOUS
  <2> QED BY <2>1 DEF Sized
<1>2. /\ l.offsets \in Seq(Nat) /\ Len(l.offsets) = k - 1 /\ l.size \in Nat
      /\ l.alignment \in BuiltinSizes /\ k \in Nat /\ k >= 1
  BY DEF Fits, Layouts
<1>3. l.offsets = <<>> <=> k = 1
  <2>1. l.offsets = <<>> <=> Len(l.offsets) = 0
    BY <1>2, EmptySeq
  <2> QED BY <1>2, <2>1
<1>4. /\ offset \in Nat
      /\ f.alignment # 0 => offset % f.alignment = 0
      /\ k # 1 => l.size <= offset
  <2>1. CASE k = 1
    <3>1. offset = 0
      BY <1>3, <2>1
    <3>2. \A a \in BuiltinSizes : a # 0 => 0 % a = 0
      BY DEF BuiltinSizes
    <3> QED BY <1>1, <2>1, <3>1, <3>2
  <2>2. CASE k # 1
    BY <1>1, <1>2, <1>3, <2>2, Alignments
  <2> QED BY <2>1, <2>2
<1> HIDE DEF offset
<1>5. /\ r = [offsets |-> Append(l.offsets, offset), size |-> offset + f.size,
              alignment |-> IF f.alignment > l.alignment THEN f.alignment ELSE l.alignment]
  BY DEF placeField, offset
<1>6. /\ Append(l.offsets, offset) \in Seq(Nat) /\ Len(Append(l.offsets, offset)) = k
      /\ Append(l.offsets, offset)[k] = offset
      /\ \A i \in 1 .. k - 1 : Append(l.offsets, offset)[i] = l.offsets[i]
  BY <1>2, <1>4, AppendProperties
<1>7. /\ r.size = offset + f.size /\ r.size \in Nat
      /\ r.offsets = Append(l.offsets, offset)
      /\ r.alignment \in BuiltinSizes /\ l.alignment <= r.alignment /\ f.alignment <= r.alignment
  <2> HIDE DEF f, r
  <2>1. r.alignment = IF f.alignment > l.alignment THEN f.alignment ELSE l.alignment
    BY <1>5
  <2>2. /\ r.alignment \in BuiltinSizes
        /\ l.alignment <= r.alignment /\ f.alignment <= r.alignment
    BY <1>1, <1>2, <2>1 DEF BuiltinSizes
  <2>3. r.size = offset + f.size /\ r.offsets = Append(l.offsets, offset)
    BY <1>5
  <2> QED BY <1>1, <1>4, <2>2, <2>3
<1>8. r \in Layouts
  <2> HIDE DEF f
  <2>1. r.size \in Nat /\ r.offsets \in Seq(Nat) /\ r.alignment \in BuiltinSizes
    BY <1>6, <1>7
  <2>2. r = [offsets |-> r.offsets, size |-> r.size, alignment |-> r.alignment]
    BY <1>5
  <2> HIDE DEF r
  <2> QED BY <2>1, <2>2 DEF Layouts
<1> HIDE DEF r
<1>9. ASSUME NEW i \in 1 .. k
      PROVE  /\ fields[i].alignment # 0 => r.offsets[i] % fields[i].alignment = 0
             /\ r.offsets[i] + fields[i].size <= r.size
             /\ fields[i].alignment <= r.alignment
  <2>1. CASE i = k
    BY <1>1, <1>4, <1>6, <1>7, <2>1
  <2>2. CASE i # k
    <3>1. i \in 1 .. k - 1 /\ k # 1 /\ i \in 1 .. Len(fields)
      BY <1>2, <2>2
    <3>2. /\ fields[i].alignment # 0 => l.offsets[i] % fields[i].alignment = 0
          /\ l.offsets[i] + fields[i].size <= l.size
          /\ fields[i].alignment <= l.alignment
      BY <3>1 DEF Fits
    <3>3. l.offsets[i] \in Nat /\ fields[i].size \in Nat /\ fields[i].alignment \in Nat
      <4>1. fields[i] \in Sized
        BY <3>1
      <4>2. l.offsets[i] \in Nat
        BY <1>2, <3>1
      <4>3. fields[i].size \in Nat /\ fields[i].alignment \in BuiltinSizes
        BY <4>1 DEF Sized
      <4> QED BY <4>2, <4>3 DEF BuiltinSizes
    <3>4. r.offsets[i] = l.offsets[i]
      BY <1>6, <1>7, <3>1
    <3>5. l.size <= r.size /\ l.size \in Nat /\ r.size \in Nat
      BY <1>1, <1>2, <1>4, <1>7, <3>1
    <3>6. l.alignment \in Nat /\ r.alignment \in Nat
      BY <1>2, <1>7 DEF BuiltinSizes
    <3>7. l.alignment <= r.alignment
      BY <1>7
    <3> DEFINE a == fields[i].alignment
               size == fields[i].size
               o == l.offsets[i]
    <3>8. o \in Nat /\ size \in Nat /\ a \in Nat /\ o + size <= l.size /\ a <= l.alignment
      BY <3>2, <3>3
    <3> HIDE DEF f, a, size, o
    <3>9. o + size <= r.size /\ a <= r.alignment
      BY <3>5, <3>6, <3>7, <3>8
    <3> QED BY <3>2, <3>4, <3>9 DEF a, size, o
  <2> QED BY <2>1, <2>2
<1>10. Len(r.offsets) = k
  BY <1>6, <1>7
<1> HIDE DEF f
<1>11. Fits(r, fields, k)
  BY <1>8, <1>9, <1>10 DEF Fits
<1> QED BY <1>11 DEF r, f

\* The layouts of the first 0, 1, ... fields.
Opened(open, fields, n) ==
    open = [i \in 0 .. n |-> IF i = 0 THEN EmptyLayout ELSE placeField(open[i - 1], fields[i])]

LEMMA EmptyFits == ASSUME NEW fields PROVE Fits(EmptyLayout, fields, 0)
<1>1. EmptyLayout \in Layouts /\ Len(EmptyLayout.offsets) = 0
  BY DEF EmptyLayout, Layouts, BuiltinSizes
<1> QED BY <1>1 DEF Fits

LEMMA FieldsFit ==
    ASSUME NEW n \in Nat, NEW fields \in Seq(Sized), n = Len(fields),
           \A i \in 2 .. n : fields[i].alignment # 0
    PROVE  /\ \E open : Opened(open, fields, n)
           /\ \A open : Opened(open, fields, n) => Fits(open[n], fields, n)
<1> DEFINE S == [i \in 0 .. n |-> {l \in Layouts : Fits(l, fields, i)}]
           g == [i \in 1 .. n |-> [l \in S[i - 1] |-> placeField(l, fields[i])]]
<1>1. \A i \in 0 .. n : \A l : l \in S[i] <=> Fits(l, fields, i)
  BY DEF Fits
<1>2. EmptyLayout \in S[0] /\ 0 \in 0 .. n /\ n \in 0 .. n
  <2>1. 0 \in 0 .. n /\ n \in 0 .. n
    OBVIOUS
  <2> QED BY <1>1, <2>1, EmptyFits
<1>3. ASSUME NEW i \in 1 .. n
      PROVE  i \in 0 .. n /\ i - 1 \in 0 .. n /\ i # 0
  BY <1>3
<1> HIDE DEF S
<1>4. ASSUME NEW i \in 1 .. n, NEW l \in S[i - 1] PROVE placeField(l, fields[i]) \in S[i]
  <2>1. Fits(l, fields, i - 1)
    BY <1>1, <1>3
  <2>2. i # 1 => fields[i].alignment # 0
    OBVIOUS
  <2>3. Fits(placeField(l, fields[i]), fields, i)
    BY <2>1, <2>2, OneMore
  <2> QED BY <1>1, <1>3, <2>3
<1>5. \A i \in 1 .. n : g[i] \in [S[i - 1] -> S[i]]
  BY <1>4
<1>6. \E open : Opened(open, fields, n)
  <2> HIDE DEF g
  <2>1. PICK f : Recurses(f, n, EmptyLayout, g) /\ \A i \in 0 .. n : f[i] \in S[i]
    BY <1>2, <1>5, Recursion
  <2>2. ASSUME NEW i \in 1 .. n PROVE g[i][f[i - 1]] = placeField(f[i - 1], fields[i])
    <3>1. f[i - 1] \in S[i - 1]
      BY <1>3, <2>1
    <3> QED BY <3>1 DEF g
  <2>3. \A i \in 0 .. n : i = 0 \/ i \in 1 .. n
    OBVIOUS
  <2>4. f = [i \in 0 .. n |-> IF i = 0 THEN EmptyLayout ELSE placeField(f[i - 1], fields[i])]
    BY <2>1, <2>2, <2>3 DEF Recurses
  <2> QED BY <2>4 DEF Opened
<1>7. ASSUME NEW f, Opened(f, fields, n) PROVE Fits(f[n], fields, n)
  <2> DEFINE T == {i \in 0 .. n : f[i] \in S[i]}
  <2>1. f[0] = EmptyLayout /\ \A i \in 1 .. n : f[i] = placeField(f[i - 1], fields[i])
    BY <1>2, <1>3, <1>7 DEF Opened
  <2>2. 0 \in T /\ \A i \in 1 .. n : i - 1 \in T => i \in T
    BY <1>2, <1>3, <1>4, <2>1
  <2>3. 0 .. n \subseteq T
    <3> HIDE DEF T
    <3> QED BY <2>2, Upwards
  <2> QED BY <1>1, <1>2, <2>3
<1> QED BY <1>6, <1>7

fieldsOf(s) == [i \in DOMAIN members[s] |-> sized(members[s][i])]

\* The struct's own layout, with padding to a multiple of its alignment.
FitsAndPads(l, fields, n) ==
    /\ Fits(l, fields, n)
    /\ l.alignment # 0 => l.size % l.alignment = 0

LaidOut(s) == FitsAndPads(records[s].layout, fieldsOf(s), Len(members[s]))

LEMMA Closing ==
    ASSUME NEW n \in Nat \ {0}, NEW fields \in Seq(Sized), n = Len(fields),
           \A i \in 2 .. n : fields[i].alignment # 0, n = 1 => fields[1].alignment # 0,
           NEW l, Fits(l, fields, n)
    PROVE  FitsAndPads(closeLayout(l), fields, n)
<1> DEFINE size == roundUp(l.size, l.alignment)
           r == [offsets |-> l.offsets, size |-> size, alignment |-> l.alignment]
<1>1. /\ l \in Layouts /\ Len(l.offsets) = n /\ l.size \in Nat /\ l.alignment \in BuiltinSizes
      /\ l.offsets \in Seq(Nat)
      /\ l = [offsets |-> l.offsets, size |-> l.size, alignment |-> l.alignment]
  BY DEF Fits, Layouts
<1>2. l.alignment # 0
  <2>1. PICK i \in 1 .. n : fields[i].alignment # 0
    <3>1. 1 \in 1 .. n /\ (n # 1 => 2 \in 2 .. n /\ 2 \in 1 .. n)
      OBVIOUS
    <3> QED BY <3>1
  <2>2. fields[i].alignment <= l.alignment
    BY DEF Fits
  <2>3. fields[i].alignment \in BuiltinSizes
    <3>1. fields[i] \in Sized
      OBVIOUS
    <3> QED BY <3>1 DEF Sized
  <2> QED BY <1>1, <2>1, <2>2, <2>3 DEF BuiltinSizes
<1>3. size \in Nat /\ l.size <= size /\ size % l.alignment = 0
  BY <1>1, <1>2, Alignments
<1> HIDE DEF size
<1>4. closeLayout(l) = r
  BY <1>1 DEF closeLayout, size
<1>5. r \in Layouts /\ r.offsets = l.offsets /\ r.alignment = l.alignment /\ r.size = size
  BY <1>1, <1>3 DEF Layouts
<1> HIDE DEF r
<1>6. ASSUME NEW i \in 1 .. n PROVE l.offsets[i] + fields[i].size <= size
  <2>1. l.offsets[i] + fields[i].size <= l.size
    BY DEF Fits
  <2>2. l.offsets[i] \in Nat
    BY <1>1
  <2>3. fields[i].size \in Nat
    <3>1. fields[i] \in Sized
      OBVIOUS
    <3> QED BY <3>1 DEF Sized
  <2> QED BY <1>1, <1>3, <2>1, <2>2, <2>3
<1>7. Fits(r, fields, n)
  BY <1>1, <1>5, <1>6 DEF Fits
<1> QED BY <1>3, <1>4, <1>5, <1>7 DEF FitsAndPads

LEMMA LayoutFits ==
    ASSUME NEW s, members[s] \in Seq(FieldTypes),
           \A i \in 1 .. Len(members[s]) : sized(members[s][i]) \in Sized,
           ~ divides(s)
    PROVE  FitsAndPads(layoutOf(s), fieldsOf(s), Len(members[s]))
<1>1. PICK n \in Nat : n = Len(members[s]) /\ DOMAIN members[s] = 1 .. n
  OBVIOUS
<1>2. PICK fields : fields = fieldsOf(s)
  OBVIOUS
<1>3. fields = [i \in 1 .. n |-> sized(members[s][i])]
  BY <1>1, <1>2 DEF fieldsOf
<1>4. fields \in Seq(Sized) /\ Len(fields) = n /\ DOMAIN fields = 1 .. n
  <2>1. fields \in [1 .. n -> Sized]
    BY <1>1, <1>3
  <2> QED BY <2>1
<1>5. /\ \A i \in 2 .. n : fields[i].alignment # 0
      /\ n = 1 => fields[1].alignment # 0
  <2>1. \A i \in 1 .. n : fields[i] = sized(members[s][i])
    BY <1>3
  <2>2. (\A i \in 2 .. n : i \in 1 .. n) /\ (n = 1 => 1 \in 1 .. n)
    OBVIOUS
  <2>3. /\ \A i \in 2 .. n : sized(members[s][i]).alignment # 0
        /\ n = 1 => sized(members[s][1]).alignment # 0
    BY <1>1 DEF divides
  <2> QED BY <2>1, <2>2, <2>3
<1>6. /\ \E open : Opened(open, fields, n)
      /\ \A open : Opened(open, fields, n) => Fits(open[n], fields, n)
  BY <1>4, <1>5, FieldsFit
<1>7. PICK open : /\ Opened(open, fields, n)
                  /\ layoutOf(s) = IF fields = <<>> THEN EmptyLayout ELSE closeLayout(open[n])
  <2> DEFINE open == CHOOSE f : Opened(f, fieldsOf(s), Len(fieldsOf(s)))
  <2>1. layoutOf(s) = IF fieldsOf(s) = <<>> THEN EmptyLayout
                      ELSE closeLayout(open[Len(fieldsOf(s))])
    BY Zenon DEF layoutOf, fieldsOf, Opened
  <2>2. \E f : Opened(f, fieldsOf(s), Len(fieldsOf(s)))
    BY <1>2, <1>4, <1>6
  <2>3. Opened(open, fieldsOf(s), Len(fieldsOf(s)))
    BY <2>2, Zenon
  <2> HIDE DEF open
  <2> QED BY <1>2, <1>4, <2>1, <2>3
<1>8. fields = <<>> <=> n = 0
  BY <1>4, EmptySeq
<1>9. CASE n = 0
  <2>1. layoutOf(s) = EmptyLayout /\ EmptyLayout.alignment = 0
    BY <1>7, <1>8, <1>9 DEF EmptyLayout
  <2> QED BY <1>1, <1>2, <1>9, <2>1, EmptyFits DEF FitsAndPads
<1>10. CASE n # 0
  <2>1. n \in Nat \ {0} /\ layoutOf(s) = closeLayout(open[n]) /\ Fits(open[n], fields, n)
    BY <1>6, <1>7, <1>8, <1>10
  <2>2. FitsAndPads(closeLayout(open[n]), fields, n)
    BY <1>4, <1>5, <2>1, Closing
  <2> QED BY <1>1, <1>2, <2>1, <2>2
<1> QED BY <1>9, <1>10

-----------------------------------------------------------------------------
(* The layouts of all structs.                                             *)

\* A step lays out the struct s.
LaysOut(s) ==
    /\ s \in Structs /\ ~ records[s].resolved /\ ~ divides(s)
    /\ \A e \in Embedees(s) : e \in Structs /\ records[e].resolved
    /\ records' = [records EXCEPT ![s] = [layout |-> layoutOf(s), resolved |-> TRUE]]

LEMMA RecordsStep ==
    ASSUME EInv, [Next]_vars
    PROVE  members' = members /\ (records' = records \/ \E s \in Structs : LaysOut(s))
<1>1. ASSUME NEW s \in Structs, ResolveSizeAndOffset(s),
             \A e \in Embedees(s) : e \in Structs /\ records[e].resolved
      PROVE  records' = records \/ LaysOut(s)
  BY <1>1 DEF ResolveSizeAndOffset, LaysOut
<1>2. CASE ResolveLeaf
  <2>1. PICK s \in Structs \ nodes : ResolveSizeAndOffset(s)
    BY <1>2 DEF ResolveLeaf
  <2>2. Embedees(s) = {}
    BY <1>2 DEF ResolveLeaf, EInv, GraphExact
  <2> QED BY <1>1, <1>2, <2>1, <2>2 DEF ResolveLeaf
<1>3. CASE ResolveEmbedder
  <2>1. /\ phase = "search" /\ stack # <<>> /\ top.next > Len(embedees)
        /\ ResolveSizeAndOffset(top.struct) /\ members' = members
    BY <1>3 DEF ResolveEmbedder
  <2>2. /\ top.struct \in Structs
        /\ \A e \in Embedees(top.struct) : e \in Structs /\ records[e].resolved
    BY <2>1, Top, TopEmbedees
  <2>3. records' = records \/ LaysOut(top.struct)
    BY <1>1, <2>1, <2>2
  <2> QED BY <2>1, <2>2, <2>3
<1>4. CASE LookUpNames \/ LeavesResolved \/ StartSearch \/ VisitEmbedee \/ EndSearch
  BY <1>4 DEF LookUpNames, LeavesResolved, StartSearch, VisitEmbedee, EndSearch
<1>5. CASE UNCHANGED vars
  BY <1>5 DEF vars
<1> QED BY <1>2, <1>3, <1>4, <1>5 DEF Next

LayoutsExact ==
    \A s \in Structs : records[s].resolved => Embedees(s) \subseteq Structs /\ LaidOut(s)

\* A search begins when the structs out of the graph are laid out.
LayoutsComplete ==
    /\ phase = "search" => \A s \in Structs \ nodes : records[s].resolved
    /\ phase = "done" => \A s \in Structs : records[s].resolved

LInv == EInv /\ LayoutsExact /\ LayoutsComplete

\* What a struct's field is.
LEMMA Field ==
    ASSUME Types, NEW s \in Structs, NEW i \in DOMAIN members[s]
    PROVE  LET f == members[s][i] IN
           \/ f.kind = "builtin" /\ f.size \in BuiltinSizes
           \/ /\ f.kind = "struct" /\ f.kind # "builtin"
              /\ f.count \in Nat /\ f.name \in Embedees(s)
<1>1. members[s] \in Seq(FieldTypes)
  BY DEF Types
<1>2. members[s][i] \in FieldTypes
  BY <1>1
<1>3. members[s][i] \in ToSet(members[s])
  BY DEF ToSet
<1> QED BY <1>2, <1>3 DEF FieldTypes, Embedees

\* Fields are as big as before if the layouts of what the struct embeds are kept.
LEMMA FieldsKept ==
    ASSUME Types, NEW s \in Structs, UNCHANGED members,
           \A e \in Embedees(s) : records'[e] = records[e]
    PROVE  fieldsOf(s)' = fieldsOf(s)
<1>1. ASSUME NEW i \in DOMAIN members[s]
      PROVE  sized(members[s][i])' = sized(members[s][i])
  BY Field DEF sized
<1> QED BY <1>1 DEF fieldsOf

\* What the struct embeds is laid out, so that its fields have their sizes.
Laid(s) == \A e \in Embedees(s) : e \in Structs /\ records[e].resolved

LEMMA SizedFields ==
    ASSUME EInv, LayoutsExact, NEW s \in Structs, Laid(s), NEW i \in 1 .. Len(members[s])
    PROVE  sized(members[s][i]) \in Sized
<1>0. BuiltinSizes \subseteq Nat
  BY DEF BuiltinSizes
<1>1. members[s] \in Seq(FieldTypes)
  BY DEF EInv, Types
<1>2. i \in DOMAIN members[s]
  BY <1>1
<1> DEFINE f == members[s][i]
<1>3. CASE f.kind = "builtin" /\ f.size \in BuiltinSizes
  <2> HIDE DEF f
  <2>1. f.size \in Nat
    BY <1>0, <1>3
  <2>2. sized(f) \in Sized
    BY <1>3, <2>1 DEF sized, Sized
  <2> QED BY <2>2 DEF f
<1>4. CASE f.kind # "builtin" /\ f.count \in Nat /\ f.name \in Embedees(s)
  <2>1. LaidOut(f.name)
    BY <1>4 DEF Laid, LayoutsExact
  <2>2. records[f.name].layout \in Layouts
    BY <2>1 DEF LaidOut, FitsAndPads, Fits
  <2>3. records[f.name].layout.size \in Nat /\ records[f.name].layout.alignment \in BuiltinSizes
    BY <2>2 DEF Layouts
  <2> HIDE DEF f
  <2>4. f.count * records[f.name].layout.size \in Nat
    <3>1. \A a, b \in Nat : a * b \in Nat
      OBVIOUS
    <3> QED BY <1>4, <2>3, <3>1
  <2>5. sized(f) \in Sized
    BY <1>4, <2>3, <2>4 DEF sized, Sized
  <2> QED BY <2>5 DEF f
<1> QED BY <1>2, <1>3, <1>4, Field DEF EInv

LEMMA LayoutsExactStep ==
    ASSUME EInv, LayoutsExact, [Next]_vars
    PROVE  LayoutsExact'
<1>1. members' = members /\ \A t \in Structs : Embedees(t)' = Embedees(t)
  BY RecordsStep, EmbedeesKept
<1>2. CASE records' = records
  <2> SUFFICES ASSUME NEW t \in Structs, records'[t].resolved
               PROVE  Embedees(t)' \subseteq Structs /\ LaidOut(t)'
    BY DEF LayoutsExact
  <2>1. fieldsOf(t)' = fieldsOf(t)
    BY <1>1, <1>2, FieldsKept DEF EInv
  <2> QED BY <1>1, <1>2, <2>1 DEF LayoutsExact, LaidOut
<1>3. ASSUME NEW s \in Structs, LaysOut(s) PROVE LayoutsExact'
  <2> DEFINE record == [layout |-> layoutOf(s), resolved |-> TRUE]
  <2>1. record.resolved = TRUE /\ record.layout = layoutOf(s)
    OBVIOUS
  <2> HIDE DEF record
  <2>2. \A t \in Structs : records'[t] = IF t = s THEN record ELSE records[t]
    BY <1>3 DEF LaysOut, EInv, Types, record
  <2> SUFFICES ASSUME NEW t \in Structs, records'[t].resolved
               PROVE  Embedees(t)' \subseteq Structs /\ LaidOut(t)'
    BY DEF LayoutsExact
  <2>3. ~ records[s].resolved /\ ~ divides(s)
        /\ \A e \in Embedees(s) : e \in Structs /\ records[e].resolved
    BY <1>3 DEF LaysOut
  <2>4. \A e \in Embedees(t) : e \in Structs /\ records[e].resolved
    <3>1. CASE t = s
      BY <2>3, <3>1
    <3>2. CASE t # s
      BY <2>2, <3>2 DEF LayoutsExact, EInv, EmbedeesFirst
    <3> QED BY <3>1, <3>2
  <2>5. fieldsOf(t)' = fieldsOf(t)
    <3>1. \A e \in Embedees(t) : records'[e] = records[e]
      BY <2>2, <2>3, <2>4
    <3> QED BY <1>1, <3>1, FieldsKept DEF EInv
  <2>6. FitsAndPads(records'[t].layout, fieldsOf(t), Len(members[t]))
    <3>1. CASE t = s
      <4>1. \A i \in 1 .. Len(members[s]) : sized(members[s][i]) \in Sized
        BY <2>3, SizedFields DEF Laid
      <4>2. members[s] \in Seq(FieldTypes)
        BY DEF EInv, Types
      <4>3. FitsAndPads(layoutOf(s), fieldsOf(s), Len(members[s]))
        BY <2>3, <4>1, <4>2, LayoutFits
      <4> QED BY <2>1, <2>2, <3>1, <4>3
    <3>2. CASE t # s
      BY <2>2, <3>2 DEF LayoutsExact, LaidOut
    <3> QED BY <3>1, <3>2
  <2> QED BY <1>1, <2>4, <2>5, <2>6 DEF LaidOut
<1> QED BY <1>2, <1>3, RecordsStep

LEMMA LayoutsCompleteStep ==
    ASSUME EInv, LayoutsComplete, [Next]_vars
    PROVE  LayoutsComplete'
<1>1. \A t \in Structs : records[t].resolved => records'[t].resolved
  <2>1. ASSUME NEW s \in Structs, LaysOut(s), NEW t \in Structs, records[t].resolved
        PROVE  records'[t].resolved
    BY <2>1 DEF LaysOut, EInv, Types
  <2> QED BY <2>1, RecordsStep
<1>2. ASSUME NEW s, NEW marks, NEW calls, Visit(s, marks, calls)
      PROVE  phase' = "embed cycle" \/ (nodes \subseteq nodes' /\ phase' = phase)
  BY <1>2 DEF Visit, nodes
<1>3. CASE LookUpNames \/ ResolveLeaf
  BY <1>3 DEF LookUpNames, ResolveLeaf, ResolveSizeAndOffset, LayoutsComplete
<1>4. CASE LeavesResolved
  BY <1>4 DEF LeavesResolved, LayoutsComplete, nodes
<1>5. CASE StartSearch \/ VisitEmbedee
  <2>1. /\ phase = "search"
        /\ phase' = "embed cycle" \/ (nodes \subseteq nodes' /\ phase' = phase)
    BY <1>2, <1>5 DEF StartSearch, VisitEmbedee
  <2> QED BY <1>1, <2>1 DEF LayoutsComplete
<1>6. CASE ResolveEmbedder
  <2>1. phase = "search" /\ nodes' = nodes /\ phase' \in {"search", "division by zero"}
    BY <1>6 DEF ResolveEmbedder, ResolveSizeAndOffset, nodes
  <2> QED BY <1>1, <2>1 DEF LayoutsComplete
<1>7. CASE EndSearch
  BY <1>7 DEF EndSearch, LayoutsComplete
<1>8. CASE UNCHANGED vars
  BY <1>8 DEF vars, LayoutsComplete, nodes
<1> QED BY <1>3, <1>4, <1>5, <1>6, <1>7, <1>8 DEF Next

-----------------------------------------------------------------------------
(* The scalars of all structs.                                             *)

\* A scalar that is where the layout says it may be.
InLayout(scalar, l) ==
    /\ scalar[2] <= l.alignment
    /\ scalar[2] # 0 => scalar[1] % scalar[2] = 0
    /\ scalar[1] + scalar[2] <= l.size

\* What may be found in the structs.
Placings ==
    {inner \in [Structs -> SUBSET (Nat \X BuiltinSizes)] :
        \A s \in Structs : \A scalar \in inner[s] : InLayout(scalar, records[s].layout)}

\* The alignment a divides n.
Aligns(a, n) == n % a = 0

LEMMA Multiples ==
    ASSUME NEW n \in Nat, NEW m \in Nat, NEW a \in {1, 2, 4, 8}, Aligns(a, m)
    PROVE  Aligns(a, n * m)
<1> DEFINE q == m \div a
           p == n * q
<1>1. q \in Nat /\ m = a * q
  BY SMT DEF Aligns
<1> HIDE DEF q
<1>2. p \in Nat
  BY <1>1
<1>3. n * m = a * p
  BY <1>1
<1> HIDE DEF p
<1>4. (a * p) % a = 0
  <2>1. CASE a = 1
    BY <1>2, <2>1
  <2>2. CASE a = 2
    BY <1>2, <2>2
  <2>3. CASE a = 4
    BY <1>2, <2>3
  <2>4. CASE a = 8
    BY <1>2, <2>4
  <2> QED BY <2>1, <2>2, <2>3, <2>4
<1> QED BY <1>3, <1>4 DEF Aligns

\* One of the structs in an array ends where the array does, or before.
LEMMA Slots ==
    ASSUME NEW count \in Nat, NEW n \in 0 .. count - 1, NEW size \in Nat
    PROVE  n * size + size <= count * size
<1>1. n \in Nat /\ count - 1 - n \in Nat
  OBVIOUS
<1> DEFINE rest == count - 1 - n
<1>2. rest \in Nat /\ rest * size \in Nat
  BY <1>1
<1>3. count = rest + n + 1
  BY <1>1
<1> HIDE DEF rest
<1>4. count * size = rest * size + n * size + size
  BY <1>1, <1>2, <1>3
<1>5. n * size \in Nat /\ count * size \in Nat
  BY <1>1
<1> QED BY <1>2, <1>4, <1>5

\* A scalar of the n-th of the structs in an array that is at an offset.
Placed(scalar, offset, n, size, count) ==
    /\ offset + n * size + scalar[1] \in Nat
    /\ scalar[2] # 0 => (offset + n * size + scalar[1]) % scalar[2] = 0
    /\ offset + n * size + scalar[1] + scalar[2] <= offset + count * size

LEMMA Inner ==
    ASSUME NEW scalar \in Nat \X BuiltinSizes, NEW size \in Nat, NEW a \in BuiltinSizes,
           InLayout(scalar, [size |-> size, alignment |-> a]), a # 0 => Aligns(a, size),
           NEW count \in Nat, NEW n \in 0 .. count - 1,
           NEW offset \in Nat, a # 0 => Aligns(a, offset)
    PROVE  Placed(scalar, offset, n, size, count)
<1>1. /\ scalar[1] \in Nat /\ scalar[2] \in BuiltinSizes /\ n \in Nat
      /\ scalar[2] <= a
      /\ scalar[2] # 0 => scalar[1] % scalar[2] = 0
      /\ scalar[1] + scalar[2] <= size
      /\ a # 0 => size % a = 0 /\ offset % a = 0
  BY DEF InLayout, Aligns
<1> DEFINE at == n * size
<1>2. at \in Nat
  BY <1>1
<1>3. at + size <= count * size
  BY Slots
<1>4. scalar[2] \in Nat /\ count * size \in Nat
  BY <1>1 DEF BuiltinSizes
<1>5. ASSUME a # 0 PROVE a \in {1, 2, 4, 8} /\ at % a = 0
  <2>1. a \in {1, 2, 4, 8} /\ Aligns(a, size)
    BY <1>5 DEF BuiltinSizes, Aligns
  <2>2. Aligns(a, at)
    BY <1>1, <2>1, Multiples
  <2> QED BY <2>1, <2>2 DEF Aligns
<1> HIDE DEF at
<1>6. ASSUME scalar[2] # 0 PROVE (offset + at + scalar[1]) % scalar[2] = 0
  <2>1. a # 0
    BY <1>1, <1>6 DEF BuiltinSizes
  <2>2. offset % scalar[2] = 0 /\ at % scalar[2] = 0
    BY <1>1, <1>2, <1>5, <1>6, <2>1, Alignments
  <2>3. (offset + at) % scalar[2] = 0
    BY <1>1, <1>2, <1>6, <2>2, Alignments
  <2> QED BY <1>1, <1>2, <1>6, <2>3, Alignments
<1>7. offset + at + scalar[1] + scalar[2] <= offset + count * size
  BY <1>1, <1>2, <1>3, <1>4
<1>8. offset + at + scalar[1] \in Nat
  BY <1>1, <1>2
<1> QED BY <1>6, <1>7, <1>8 DEF at, Placed

\* The scalars of a struct are in its layout if those of what it embeds are in theirs.
LEMMA ScalarsStep ==
    ASSUME LInv, phase = "done", NEW s \in Structs, NEW inner \in Placings
    PROVE  /\ scalarsOf(s, inner) \subseteq Nat \X BuiltinSizes
           /\ \A scalar \in scalarsOf(s, inner) : InLayout(scalar, records[s].layout)
<1> DEFINE l == records[s].layout
<1>1. /\ \A t \in Structs : Embedees(t) \subseteq Structs /\ LaidOut(t)
      /\ Types
  BY DEF LInv, LayoutsExact, LayoutsComplete, EInv
<1>2. /\ Fits(l, fieldsOf(s), Len(members[s]))
      /\ l.size \in Nat /\ l.alignment \in Nat
  BY <1>1 DEF LaidOut, FitsAndPads, Fits, Layouts, BuiltinSizes
<1>3. DOMAIN members[s] = 1 .. Len(members[s])
  BY <1>1 DEF Types
<1>4. ASSUME NEW i \in DOMAIN members[s],
             NEW scalar \in LET f == members[s][i]
                                offset == records[s].layout.offsets[i]
                            IN  IF f.kind = "builtin" THEN {<<offset, f.size>>}
                                ELSE {<<offset + n * records[f.name].layout.size + inn[1], inn[2]>> :
                                         n \in 0 .. f.count - 1, inn \in inner[f.name]}
      PROVE  scalar \in Nat \X BuiltinSizes /\ InLayout(scalar, l)
  <2> DEFINE f == members[s][i]
             offset == l.offsets[i]
             field == fieldsOf(s)[i]
  <2>1. /\ field = sized(f) /\ offset \in Nat
        /\ field.alignment # 0 => offset % field.alignment = 0
        /\ offset + field.size <= l.size
        /\ field.alignment <= l.alignment
    <3>1. i \in 1 .. Len(members[s])
      BY <1>3
    <3>2. fieldsOf(s)[i] = sized(members[s][i])
      BY DEF fieldsOf
    <3>3. l.offsets \in Seq(Nat) /\ Len(l.offsets) = Len(members[s])
      BY <1>2 DEF Fits, Layouts
    <3>4. l.offsets[i] \in Nat
      BY <3>1, <3>3
    <3> QED BY <1>2, <3>1, <3>2, <3>4 DEF Fits
  <2>2. \/ f.kind = "builtin" /\ f.size \in BuiltinSizes
        \/ f.kind # "builtin" /\ f.count \in Nat /\ f.name \in Embedees(s)
    BY <1>1, Field
  <2>3. scalar \in IF f.kind = "builtin" THEN {<<offset, f.size>>}
                   ELSE {<<offset + n * records[f.name].layout.size + inn[1], inn[2]>> :
                            n \in 0 .. f.count - 1, inn \in inner[f.name]}
    BY <1>4
  <2> HIDE DEF f, offset, field, l
  <2>4. CASE f.kind = "builtin" /\ f.size \in BuiltinSizes
    <3>1. scalar = <<offset, f.size>>
      BY <2>3, <2>4
    <3>2. field.size = f.size /\ field.alignment = f.size
      BY <2>1, <2>4 DEF sized
    <3>3. scalar[1] = offset /\ scalar[2] = f.size /\ scalar \in Nat \X BuiltinSizes
      BY <2>1, <2>4, <3>1
    <3> QED BY <2>1, <3>2, <3>3 DEF InLayout
  <2>5. CASE f.kind # "builtin" /\ f.count \in Nat /\ f.name \in Embedees(s)
    <3> DEFINE e == f.name
               size == records[e].layout.size
               a == records[e].layout.alignment
    <3>1. PICK n \in 0 .. f.count - 1, inn \in inner[e] :
             scalar = <<offset + n * size + inn[1], inn[2]>>
      BY <2>3, <2>5
    <3>2. e \in Structs
      BY <1>1, <2>5
    <3>3. size \in Nat /\ a \in BuiltinSizes /\ (a # 0 => size % a = 0)
      BY <1>1, <3>2 DEF LaidOut, FitsAndPads, Fits, Layouts
    <3>4. /\ inn \in Nat \X BuiltinSizes /\ inn[2] <= a
          /\ InLayout(inn, [size |-> size, alignment |-> a])
      <4>1. inner \in [Structs -> SUBSET (Nat \X BuiltinSizes)]
            /\ \A x \in inner[e] : InLayout(x, records[e].layout)
        BY <3>2 DEF Placings
      <4>2. inner[e] \in SUBSET (Nat \X BuiltinSizes)
        BY <3>2, <4>1
      <4> QED BY <4>1, <4>2 DEF InLayout
    <3>5. field.size = f.count * size /\ field.alignment = a
      BY <2>1, <2>5 DEF sized
    <3> DEFINE count == f.count
    <3> HIDE DEF e, size, a
    <3>6. /\ offset + n * size + inn[1] \in Nat
          /\ inn[2] # 0 => (offset + n * size + inn[1]) % inn[2] = 0
          /\ offset + n * size + inn[1] + inn[2] <= offset + count * size
      <4>1. offset \in Nat /\ (a # 0 => Aligns(a, offset))
        BY <2>1, <3>5 DEF Aligns
      <4>2. count \in Nat /\ n \in 0 .. count - 1
        BY <2>5
      <4>3. a # 0 => Aligns(a, size)
        BY <3>3 DEF Aligns
      <4> HIDE DEF count
      <4>4. Placed(inn, offset, n, size, count)
        BY <3>3, <3>4, <4>1, <4>2, <4>3, Inner
      <4> QED BY <4>4 DEF Placed
    <3>7. inn[2] \in BuiltinSizes /\ inn[2] \in Nat /\ a \in Nat
      BY <3>3, <3>4 DEF BuiltinSizes
    <3>8. /\ scalar[1] = offset + n * size + inn[1] /\ scalar[2] = inn[2]
          /\ scalar \in Nat \X BuiltinSizes
      BY <3>1, <3>6, <3>7
    <3>9. f.count * size \in Nat
      BY <2>5, <3>3
    <3>10. scalar[1] + scalar[2] <= l.size
      BY <1>2, <2>1, <3>5, <3>6, <3>7, <3>8, <3>9 DEF l
    <3>11. scalar[2] <= l.alignment
      BY <1>2, <2>1, <3>4, <3>5, <3>7, <3>8 DEF l
    <3> QED BY <3>6, <3>8, <3>10, <3>11 DEF InLayout
  <2> QED BY <2>2, <2>4, <2>5 DEF l
<1>5. ASSUME NEW scalar \in scalarsOf(s, inner)
      PROVE  scalar \in Nat \X BuiltinSizes /\ InLayout(scalar, l)
  <2> HIDE DEF l
  <2>1. PICK i \in DOMAIN members[s] :
           scalar \in LET f == members[s][i]
                          offset == records[s].layout.offsets[i]
                      IN  IF f.kind = "builtin" THEN {<<offset, f.size>>}
                          ELSE {<<offset + n * records[f.name].layout.size + inn[1], inn[2]>> :
                                   n \in 0 .. f.count - 1, inn \in inner[f.name]}
    BY <1>5 DEF scalarsOf
  <2> QED BY <1>4, <2>1
<1> QED BY <1>5

ScalarsTo(scalars, n) ==
    scalars = [depth \in 0 .. n |->
                  IF depth = 0 THEN [s \in Structs |-> {}]
                  ELSE [s \in Structs |-> scalarsOf(s, scalars[depth - 1])]]

LEMMA ScalarsExact ==
    ASSUME LInv, phase = "done"
    PROVE  Scalars \in Placings
<1>1. PICK n \in Nat : n = Cardinality(Structs)
  BY FS_CardinalityType, StructsAssumption
<1> DEFINE none == [s \in Structs |-> {}]
           next(inner) == [s \in Structs |-> scalarsOf(s, inner)]
           P == [i \in 0 .. n |-> Placings]
           g == [i \in 1 .. n |-> [inner \in Placings |-> next(inner)]]
<1>2. none \in Placings
  BY DEF Placings
<1>3. ASSUME NEW inner \in Placings PROVE next(inner) \in Placings
  <2>1. \A s \in Structs :
           /\ scalarsOf(s, inner) \in SUBSET (Nat \X BuiltinSizes)
           /\ \A scalar \in scalarsOf(s, inner) : InLayout(scalar, records[s].layout)
    BY ScalarsStep
  <2>2. next(inner) \in [Structs -> SUBSET (Nat \X BuiltinSizes)]
    BY <2>1
  <2>3. \A s \in Structs : next(inner)[s] = scalarsOf(s, inner)
    OBVIOUS
  <2> HIDE DEF next
  <2> QED BY <2>1, <2>2, <2>3 DEF Placings
<1>4. /\ \A i \in 0 .. n : P[i] = Placings
      /\ \A i \in 1 .. n : i - 1 \in 0 .. n /\ i \in 0 .. n /\ i # 0
      /\ 0 \in 0 .. n /\ n \in 0 .. n
  OBVIOUS
<1> HIDE DEF none, P
<1>5. \E f : ScalarsTo(f, n)
  <2> HIDE DEF next
  <2>1. none \in P[0] /\ \A i \in 1 .. n : g[i] \in [P[i - 1] -> P[i]]
    BY <1>2, <1>3, <1>4
  <2>2. PICK f : Recurses(f, n, none, g) /\ \A i \in 0 .. n : f[i] \in P[i]
    <3> HIDE DEF g
    <3> QED BY <2>1, Recursion
  <2>3. ASSUME NEW i \in 1 .. n PROVE g[i][f[i - 1]] = next(f[i - 1])
    <3>1. f[i - 1] \in Placings
      BY <1>4, <2>2
    <3> QED BY <3>1
  <2> HIDE DEF g
  <2>4. \A i \in 0 .. n : i = 0 \/ i \in 1 .. n
    OBVIOUS
  <2>5. f = [i \in 0 .. n |-> IF i = 0 THEN none ELSE next(f[i - 1])]
    BY <2>2, <2>3, <2>4 DEF Recurses
  <2> QED BY <2>5 DEF ScalarsTo, none, next
<1>6. ASSUME NEW f, ScalarsTo(f, n) PROVE f[n] \in Placings
  <2> DEFINE T == {i \in 0 .. n : f[i] \in Placings}
  <2> HIDE DEF next
  <2>0. f = [i \in 0 .. n |-> IF i = 0 THEN none ELSE next(f[i - 1])]
    BY <1>6 DEF ScalarsTo, none, next
  <2>1. f[0] = none /\ \A i \in 1 .. n : f[i] = next(f[i - 1])
    BY <1>4, <2>0
  <2>2. 0 \in T /\ \A i \in 1 .. n : i - 1 \in T => i \in T
    BY <1>2, <1>3, <1>4, <2>1
  <2>3. 0 .. n \subseteq T
    <3> HIDE DEF T
    <3> QED BY <2>2, Upwards
  <2> QED BY <1>4, <2>3
<1> DEFINE f == CHOOSE f : ScalarsTo(f, Cardinality(Structs))
<1>7. Scalars = f[Cardinality(Structs)]
  BY Zenon DEF Scalars, ScalarsTo
<1>8. \E h : ScalarsTo(h, Cardinality(Structs))
  BY <1>1, <1>5
<1>9. ScalarsTo(f, Cardinality(Structs))
  BY <1>8, Zenon
<1> HIDE DEF f
<1> QED BY <1>1, <1>6, <1>7, <1>9

\* Whatever structs embed each other, in arrays or not and however deep: in a program
\* that is laid out every scalar is aligned to its size and ends inside of the struct.
THEOREM ScalarsAlwaysAligned == Spec => []ScalarsAligned
<1>1. Init => LInv
  BY EInit DEF LInv, LayoutsExact, LayoutsComplete, Init
<1>2. LInv /\ [Next]_vars => LInv'
  <2> QED BY EStep, LayoutsExactStep, LayoutsCompleteStep DEF LInv
<1>3. LInv => ScalarsAligned
  <2> SUFFICES ASSUME LInv, phase = "done", NEW s \in Structs, NEW scalar \in Scalars[s]
               PROVE  /\ scalar[2] # 0 => scalar[1] % scalar[2] = 0
                      /\ scalar[1] + scalar[2] <= records[s].layout.size
    BY DEF ScalarsAligned
  <2>1. Scalars \in Placings
    BY ScalarsExact
  <2>2. InLayout(scalar, records[s].layout)
    BY <2>1 DEF Placings
  <2> QED BY <2>2 DEF InLayout
<1> QED BY <1>1, <1>2, <1>3, PTL DEF Spec

-----------------------------------------------------------------------------
(* Which programs are laid out.                                            *)

\* A struct and what it embeds, directly or not.
Reach(s) == {s} \cup Embedded(s)

LEMMA Reaches ==
    ASSUME \A t \in Structs : Embedees(t) \subseteq Structs, NEW s \in Structs
    PROVE  /\ Embedded(s) \subseteq Structs /\ Embedees(s) \subseteq Embedded(s)
           /\ \A e \in Embedded(s) : Embedees(e) \subseteq Embedded(s)
           /\ \A e \in Embedded(s) : \E d \in Embedees(s) : e \in Reach(d)
           /\ \A d \in Embedded(s) : Embedded(d) \subseteq Embedded(s)
<1> DEFINE Closed(T) == \A t \in T : Embedees(t) \subseteq T
<1>1. \A t \in Structs : Embedded(t) =
         {e \in Structs : \A T \in SUBSET Structs : Embedees(t) \subseteq T /\ Closed(T) => e \in T}
  BY DEF Embedded
<1>2. ASSUME NEW t \in Structs
      PROVE  /\ Embedded(t) \in SUBSET Structs /\ Embedees(t) \subseteq Embedded(t)
             /\ Closed(Embedded(t))
  <2>1. Embedded(t) \in SUBSET Structs /\ Embedees(t) \subseteq Structs
    BY <1>1
  <2>2. Embedees(t) \subseteq Embedded(t)
    BY <1>1, <2>1
  <2>3. ASSUME NEW e \in Embedded(t), NEW d \in Embedees(e) PROVE d \in Embedded(t)
    <3>1. e \in Structs /\ d \in Structs
      BY <2>1
    <3>2. \A T \in SUBSET Structs : Embedees(t) \subseteq T /\ Closed(T) => d \in T
      BY <1>1
    <3> HIDE DEF Closed
    <3> QED BY <1>1, <3>1, <3>2
  <2> QED BY <2>1, <2>2, <2>3
<1>3. ASSUME NEW t \in Structs, NEW T \in SUBSET Structs, Embedees(t) \subseteq T, Closed(T)
      PROVE  Embedded(t) \subseteq T
  <2> HIDE DEF Closed
  <2> QED BY <1>1, <1>3
<1>4. \A d \in Embedded(s) : Embedded(d) \subseteq Embedded(s)
  <2> SUFFICES ASSUME NEW d \in Embedded(s) PROVE Embedded(d) \subseteq Embedded(s)
    OBVIOUS
  <2>1. d \in Structs /\ Embedees(d) \subseteq Embedded(s)
    BY <1>2
  <2> HIDE DEF Closed
  <2> QED BY <1>2, <1>3, <2>1
<1>5. \A e \in Embedded(s) : \E d \in Embedees(s) : e \in Reach(d)
  <2> DEFINE T == UNION {Reach(d) : d \in Embedees(s)}
  <2>1. \A d \in Embedees(s) : d \in Structs /\ Reach(d) \subseteq Structs
    BY <1>2 DEF Reach
  <2>2. T \in SUBSET Structs /\ Embedees(s) \subseteq T
    BY <2>1 DEF Reach
  <2>3. Closed(T)
    <3> SUFFICES ASSUME NEW d \in Embedees(s), NEW t \in Reach(d) PROVE Embedees(t) \subseteq T
      OBVIOUS
    <3>1. Embedees(t) \subseteq Reach(d)
      BY <1>2, <2>1 DEF Reach
    <3> QED BY <3>1
  <2>4. Embedded(s) \subseteq T
    <3> HIDE DEF T, Closed
    <3> QED BY <1>3, <2>2, <2>3
  <2> QED BY <2>4
<1> QED BY <1>2, <1>4, <1>5

LEMMA ReachKept ==
    ASSUME UNCHANGED members, NEW s \in Structs
    PROVE  Embedded(s)' = Embedded(s) /\ Reach(s)' = Reach(s)
<1>1. \A T \in SUBSET Structs :
         (Embedees(s) \subseteq T /\ \A t \in T : Embedees(t) \subseteq T)'
             <=> (Embedees(s) \subseteq T /\ \A t \in T : Embedees(t) \subseteq T)
  BY EmbedeesKept
<1>2. Embedded(s)' = Embedded(s)
  BY <1>1 DEF Embedded
<1> QED BY <1>2 DEF Reach

\* An embedee is in the graph once.
GraphOnce ==
    phase \in {"leaves", "search"} =>
        \A s \in nodes : \A i, j \in DOMAIN embedGraph[s] :
            embedGraph[s][i] = embedGraph[s][j] => i = j

LEMMA GraphOnceStep ==
    ASSUME EInv, GraphOnce, [Next]_vars
    PROVE  GraphOnce'
<1>1. CASE LookUpNames
  <2>1. CASE phase' = "unknown name"
    BY <2>1 DEF GraphOnce
  <2>2. CASE /\ \A s \in Structs : Embedees(s) \subseteq Structs
             /\ embedGraph' = [s \in {t \in Structs : Embedees(t) # {}} |-> inOrder(Embedees(s))]
    <3> SUFFICES ASSUME NEW s \in nodes'
                 PROVE  \A i, j \in DOMAIN embedGraph'[s] :
                            embedGraph'[s][i] = embedGraph'[s][j] => i = j
      BY DEF GraphOnce
    <3>1. s \in Structs /\ embedGraph'[s] = inOrder(Embedees(s))
      BY <2>2 DEF nodes
    <3>2. \A i, j \in DOMAIN inOrder(Embedees(s)) :
             inOrder(Embedees(s))[i] = inOrder(Embedees(s))[j] => i = j
      BY <2>2, <3>1, EmbedeesFinite, InOrder DEF EInv, Types
    <3> QED BY <3>1, <3>2
  <2> QED BY <1>1, <2>1, <2>2 DEF LookUpNames
<1>2. ASSUME NEW s, NEW marks, NEW calls, Visit(s, marks, calls), phase = "search"
      PROVE  GraphOnce'
  <2>1. CASE phase' = "embed cycle"
    BY <2>1 DEF GraphOnce
  <2>2. CASE embedGraph' = [t \in nodes \cup {s} |-> IF t \in nodes THEN embedGraph[t] ELSE <<>>]
    <3>1. nodes' = nodes \cup {s}
      BY <2>2 DEF nodes
    <3>2. ASSUME NEW t \in nodes'
          PROVE  (t \in nodes /\ embedGraph'[t] = embedGraph[t]) \/ embedGraph'[t] = <<>>
      BY <2>2, <3>1
    <3> QED BY <1>2, <3>2 DEF GraphOnce
  <2> QED BY <1>2, <2>1, <2>2 DEF Visit
<1>3. CASE StartSearch \/ VisitEmbedee
  BY <1>2, <1>3 DEF StartSearch, VisitEmbedee
<1>4. CASE ResolveLeaf \/ LeavesResolved \/ ResolveEmbedder \/ EndSearch \/ UNCHANGED vars
  BY <1>4 DEF ResolveLeaf, LeavesResolved, ResolveEmbedder, EndSearch, vars, GraphOnce, nodes
<1> QED BY <1>1, <1>3, <1>4 DEF Next

-----------------------------------------------------------------------------
(* The search.                                                             *)

\* The search is at the calls st in the graph g, and reach[s] is s and what it embeds.
\* How many embedees the k-th call is through with:
came(st, k) == IF k = Len(st) THEN st[k].next - 1 ELSE st[k].next - 2

\* The struct of the k-th call, and what its i-th embedee reaches.
part(st, g, reach, k, i) ==
    IF i = 0 THEN {st[k].struct} ELSE reach[g[st[k].struct][i]]

\* What was visited are these parts, and no struct is in two of them.
Searched(st, g, reach, marks) ==
    /\ \A k \in 1 .. Len(st) : came(st, k) \in 0 .. Len(g[st[k].struct])
    /\ \A k \in 1 .. Len(st) - 1 :
          /\ came(st, k) + 1 \in 1 .. Len(g[st[k].struct])
          /\ st[k + 1].struct = g[st[k].struct][came(st, k) + 1]
    /\ \A k, l \in 1 .. Len(st) : k <= l => st[l].struct \in reach[st[k].struct]
    /\ \A x : x \in marks <=>
          \E k \in 1 .. Len(st) : \E i \in 0 .. came(st, k) : x \in part(st, g, reach, k, i)
    /\ \A k, l \in 1 .. Len(st) : \A i \in 0 .. came(st, k), j \in 0 .. came(st, l) :
          part(st, g, reach, k, i) \cap part(st, g, reach, l, j) # {} => k = l /\ i = j

reaching == [s \in Structs |-> Reach(s)]

SearchExact ==
    phase = "search" /\ stack # <<>> => Searched(stack, embedGraph, reaching, visited)

\* What is known of the graph while it is searched.
LEMMA Graph ==
    ASSUME EInv, phase = "search"
    PROVE  /\ stack \in Seq(VisitCalls) /\ Len(stack) \in Nat
           /\ \A s \in Structs : Embedees(s) \subseteq Structs
           /\ \A k \in 1 .. Len(stack) :
                 LET g == embedGraph[stack[k].struct] IN
                 /\ stack[k].struct \in nodes /\ stack[k].struct \in Structs
                 /\ stack[k].next \in Nat \ {0}
                 /\ g \in Seq(Structs) /\ Len(g) \in Nat /\ DOMAIN g = 1 .. Len(g)
                 /\ ToSet(g) = Embedees(stack[k].struct)
                 /\ \A i \in 1 .. Len(g) : g[i] \in Embedees(stack[k].struct) /\ g[i] \in Structs
<1>1. stack \in Seq(VisitCalls)
  BY DEF EInv, CallsExact
<1>2. Len(stack) \in Nat
  BY <1>1, LenProperties
<1>3. \A s \in Structs : Embedees(s) \subseteq Structs
  BY DEF EInv, GraphExact
<1>4. ASSUME NEW k \in 1 .. Len(stack)
      PROVE  LET g == embedGraph[stack[k].struct] IN
             /\ stack[k].struct \in nodes /\ stack[k].struct \in Structs
             /\ stack[k].next \in Nat \ {0}
             /\ g \in Seq(Structs) /\ Len(g) \in Nat /\ DOMAIN g = 1 .. Len(g)
             /\ ToSet(g) = Embedees(stack[k].struct)
             /\ \A i \in 1 .. Len(g) : g[i] \in Embedees(stack[k].struct) /\ g[i] \in Structs
  <2>1. stack[k] \in VisitCalls
    BY <1>1, ElementOfSeq
  <2>2. stack[k].struct \in nodes /\ stack[k].next \in Nat \ {0}
    BY <2>1 DEF VisitCalls
  <2> DEFINE g == embedGraph[stack[k].struct]
  <2>3. /\ stack[k].struct \in Structs /\ g \in Seq(Structs)
        /\ ToSet(g) = Embedees(stack[k].struct)
    BY <2>2 DEF EInv, GraphExact
  <2>4. Len(g) \in Nat /\ DOMAIN g = 1 .. Len(g)
    BY <2>3, LenProperties
  <2>5. \A i \in 1 .. Len(g) : g[i] \in Embedees(stack[k].struct)
    BY <2>3, <2>4 DEF ToSet
  <2>6. \A i \in 1 .. Len(g) : g[i] \in Structs
    BY <1>3, <2>3, <2>5
  <2> HIDE DEF g
  <2> QED BY <2>2, <2>3, <2>4, <2>5, <2>6 DEF g
<1> QED BY <1>1, <1>2, <1>3, <1>4

\* A call for the embedee s of the last struct.
LEMMA VisitEmbedeeFacts ==
    ASSUME EInv, VisitEmbedee
    PROVE  LET n == Len(stack)
               s == embedees[top.next]
           IN  /\ phase = "search" /\ stack # <<>> /\ n \in Nat \ {0}
               /\ top = stack[n] /\ top.next \in 1 .. Len(embedGraph[stack[n].struct])
               /\ s = embedGraph[stack[n].struct][stack[n].next] /\ s \in Embedees(stack[n].struct)
               /\ s \in Structs
               /\ UNCHANGED <<members, records>>
               /\ \/ s \in visited /\ phase' = "embed cycle"
                  \/ /\ s \notin visited /\ phase' = phase /\ visited' = visited \cup {s}
                     /\ \A t \in nodes : embedGraph'[t] = embedGraph[t]
                     /\ embedGraph'[s] \in Seq(Structs) /\ Len(stack') = n + 1
                     /\ \A k \in 1 .. n - 1 : stack'[k] = stack[k]
                     /\ stack'[n].struct = stack[n].struct /\ stack'[n].next = stack[n].next + 1
                     /\ stack'[n + 1].struct = s /\ stack'[n + 1].next = 1
<1> DEFINE n == Len(stack)
           s == embedees[top.next]
           calls == [stack EXCEPT ![n].next = @ + 1]
<1>1. phase = "search" /\ stack # <<>> /\ top.next <= Len(embedees)
      /\ Visit(s, visited, calls) /\ UNCHANGED <<members, records>>
  BY DEF VisitEmbedee
<1>2. /\ n \in Nat \ {0} /\ stack \in Seq(VisitCalls)
      /\ top \in VisitCalls /\ top.struct \in Structs /\ embedees \in Seq(Structs)
  BY <1>1, Top
<1>3. top.next \in Nat \ {0} /\ top = stack[n] /\ top = [struct |-> top.struct, next |-> top.next]
  BY <1>2 DEF VisitCalls, top
<1>4. embedees = embedGraph[stack[n].struct]
  BY <1>3 DEF embedees
<1>5. s \in Embedees(stack[n].struct) /\ s \in Structs /\ top.next \in 1 .. Len(embedees)
  <2>1. n \in 1 .. Len(stack)
    BY <1>2
  <2>2. Len(embedees) \in Nat
    BY <1>2, LenProperties
  <2>3. top.next \in 1 .. Len(embedees)
    BY <1>1, <1>3, <2>2
  <2> HIDE DEF n
  <2> QED BY <1>1, <1>4, <2>1, <2>3, Graph
<1> DEFINE moved == [struct |-> top.struct, next |-> top.next + 1]
<1>6. calls = [stack EXCEPT ![n] = moved] /\ moved \in VisitCalls
  <2>1. calls = [stack EXCEPT ![n] = [stack[n] EXCEPT !.next = @ + 1]]
    OBVIOUS
  <2>2. [stack[n] EXCEPT !.next = @ + 1] = moved
    BY <1>3
  <2>3. moved \in VisitCalls
    BY <1>2, <1>3 DEF VisitCalls
  <2> QED BY <2>1, <2>2, <2>3
<1>7. moved.struct = top.struct /\ moved.next = top.next + 1
  OBVIOUS
<1> HIDE DEF moved
<1>8. /\ calls \in Seq(VisitCalls) /\ Len(calls) = n
      /\ \A k \in 1 .. n : calls[k] = IF k = n THEN moved ELSE stack[k]
  <2>1. n \in 1 .. Len(stack)
    BY <1>2
  <2> HIDE DEF calls
  <2> QED BY <1>2, <1>6, <2>1, ExceptSeq
<1> HIDE DEF calls, s
<1>9. CASE s \in visited
  <2>1. phase' = "embed cycle"
    BY <1>1, <1>9, Zenon DEF Visit
  <2> QED BY <1>1, <1>2, <1>3, <1>4, <1>5, <1>9, <2>1 DEF s
<1>10. CASE s \notin visited
  <2>1. /\ visited' = visited \cup {s} /\ phase' = phase
        /\ embedGraph' = [t \in nodes \cup {s} |-> IF t \in nodes THEN embedGraph[t] ELSE <<>>]
        /\ stack' = Append(calls, [struct |-> s, next |-> 1])
    BY <1>1, <1>10 DEF Visit
  <2>2. /\ \A t \in nodes : embedGraph'[t] = embedGraph[t]
        /\ embedGraph'[s] \in Seq(Structs)
    <3>1. s \in nodes => embedGraph[s] \in Seq(Structs)
      BY <1>1 DEF EInv, GraphExact
    <3> QED BY <2>1, <3>1
  <2>3. /\ Len(stack') = n + 1
        /\ \A k \in 1 .. n : stack'[k] = calls[k]
        /\ stack'[n + 1] = [struct |-> s, next |-> 1]
    <3> HIDE DEF n
    <3>1. calls \in Seq(VisitCalls) /\ Len(calls) = n
      BY <1>8
    <3>2. calls \in Seq(VisitCalls \cup {[struct |-> s, next |-> 1]})
      BY <3>1
    <3> QED BY <2>1, <3>1, <3>2, AppendProperties
  <2>4. \A k \in 1 .. n - 1 : k \in 1 .. n /\ k # n
    BY <1>2
  <2>5. n \in 1 .. n
    BY <1>2
  <2>6. \A k \in 1 .. n - 1 : stack'[k] = stack[k]
    BY <1>8, <2>3, <2>4
  <2>7. stack'[n].struct = stack[n].struct /\ stack'[n].next = stack[n].next + 1
    BY <1>3, <1>7, <1>8, <2>3, <2>5
  <2>8. stack'[n + 1].struct = s /\ stack'[n + 1].next = 1
    BY <2>3
  <2> HIDE DEF n
  <2> QED BY <1>1, <1>2, <1>3, <1>4, <1>5, <1>10, <2>1, <2>2, <2>3, <2>6, <2>7, <2>8 DEF s, n
<1> QED BY <1>9, <1>10

\* From the n calls st in the graph g to one more, for the struct s that the last of
\* them is at.
Descends(st, g, n, s, st2, g2) ==
    /\ n = Len(st) /\ Len(st2) = n + 1 /\ Len(g2[s]) \in Nat
    /\ \A k \in 1 .. n : st[k].next \in Nat
    /\ s = g[st[n].struct][st[n].next] /\ st[n].next \in 1 .. Len(g[st[n].struct])
    /\ \A k \in 1 .. n : /\ st2[k].struct = st[k].struct
                         /\ g2[st2[k].struct] = g[st[k].struct]
    /\ \A k \in 1 .. n - 1 : st2[k].next = st[k].next
    /\ st2[n].next = st[n].next + 1
    /\ st2[n + 1].struct = s /\ st2[n + 1].next = 1

\* What reaches the struct of the last of the n calls reaches s.
Follows(st, reach, n, s) ==
    \A k \in 1 .. n : st[n].struct \in reach[st[k].struct] => s \in reach[st[k].struct]

LEMMA SearchDown ==
    ASSUME NEW st, NEW g, NEW reach, NEW marks, Searched(st, g, reach, marks),
           NEW n \in Nat \ {0}, NEW s, s \notin marks, s \in reach[s],
           Follows(st, reach, n, s),
           NEW st2, NEW g2, Descends(st, g, n, s, st2, g2)
    PROVE  Searched(st2, g2, reach, marks \cup {s})
<1>1. /\ n = Len(st) /\ Len(st2) = n + 1 /\ Len(g2[s]) \in Nat
      /\ \A k \in 1 .. n : st[k].next \in Nat
      /\ s = g[st[n].struct][st[n].next] /\ st[n].next \in 1 .. Len(g[st[n].struct])
      /\ \A k \in 1 .. n : /\ st2[k].struct = st[k].struct
                           /\ g2[st2[k].struct] = g[st[k].struct]
      /\ \A k \in 1 .. n - 1 : st2[k].next = st[k].next
      /\ st2[n].next = st[n].next + 1
      /\ st2[n + 1].struct = s /\ st2[n + 1].next = 1
  BY SMTT(30) DEF Descends
<1>3. /\ \A k \in 1 .. n : came(st, k) \in 0 .. Len(g[st[k].struct])
      /\ \A k \in 1 .. n - 1 :
            /\ came(st, k) + 1 \in 1 .. Len(g[st[k].struct])
            /\ st[k + 1].struct = g[st[k].struct][came(st, k) + 1]
      /\ \A k, l \in 1 .. n : k <= l => st[l].struct \in reach[st[k].struct]
      /\ \A x : x \in marks <=>
            \E k \in 1 .. n : \E i \in 0 .. came(st, k) : x \in part(st, g, reach, k, i)
      /\ \A k, l \in 1 .. n : \A i \in 0 .. came(st, k), j \in 0 .. came(st, l) :
            part(st, g, reach, k, i) \cap part(st, g, reach, l, j) # {} => k = l /\ i = j
  BY <1>1 DEF Searched
<1>4. \A k \in 1 .. n : k = n \/ k \in 1 .. n - 1
  OBVIOUS
<1>6. ASSUME NEW k \in 1 .. n PROVE came(st2, k) = came(st, k)
  <2>1. CASE k = n
    BY <1>1, <2>1, SMTT(30) DEF came
  <2>2. CASE k \in 1 .. n - 1
    BY <1>1, <2>2, SMTT(30) DEF came
  <2> QED BY <1>4, <2>1, <2>2
<1>7. came(st2, n + 1) = 0
  BY <1>1, SMTT(30) DEF came
<1>8. ASSUME NEW k \in 1 .. n, NEW i PROVE part(st2, g2, reach, k, i) = part(st, g, reach, k, i)
  BY <1>1 DEF part
<1>9. part(st2, g2, reach, n + 1, 0) = {s}
  BY <1>1 DEF part
<1>10. ASSUME NEW k \in 1 .. n + 1
       PROVE  \/ k \in 1 .. n /\ k # n + 1
              \/ k = n + 1 /\ k \notin 1 .. n
  OBVIOUS
<1>11. \A k \in 1 .. n + 1 : came(st2, k) \in 0 .. Len(g2[st2[k].struct])
  <2>1. came(st2, n + 1) \in 0 .. Len(g2[st2[n + 1].struct])
    BY <1>1, <1>7, SMTT(30)
  <2>2. \A k \in 1 .. n : came(st2, k) \in 0 .. Len(g2[st2[k].struct])
    BY <1>1, <1>3, <1>6, Zenon
  <2> QED BY <1>10, <2>1, <2>2, SMTT(30)
<1>12. ASSUME NEW k \in 1 .. n
       PROVE  /\ came(st2, k) + 1 \in 1 .. Len(g2[st2[k].struct])
              /\ st2[k + 1].struct = g2[st2[k].struct][came(st2, k) + 1]
  <2>1. CASE k = n
    <3>1. came(st, n) + 1 = st[n].next
      BY <1>1, <2>1, SMTT(30) DEF came
    <3> QED BY <1>1, <1>6, <2>1, <3>1
  <2>2. CASE k \in 1 .. n - 1
    <3>1. k + 1 \in 1 .. n
      BY <2>2
    <3> QED BY <1>1, <1>3, <1>6, <2>2, <3>1
  <2> QED BY <1>4, <2>1, <2>2
<1>13. ASSUME NEW k \in 1 .. n + 1, NEW l \in 1 .. n + 1, k <= l
       PROVE  st2[l].struct \in reach[st2[k].struct]
  <2>1. CASE l \in 1 .. n
    <3>1. k \in 1 .. n
      BY <1>13, <2>1, SMTT(30)
    <3> QED BY <1>1, <1>3, <1>13, <2>1, <3>1, Zenon
  <2>2. CASE l = n + 1 /\ k = n + 1
    BY <1>1, <2>2, SMTT(30)
  <2>3. CASE l = n + 1 /\ k \in 1 .. n
    <3>1. n \in 1 .. n /\ k <= n
      BY <2>3
    <3>2. st[n].struct \in reach[st[k].struct]
      BY <1>3, <2>3, <3>1
    <3>3. s \in reach[st[k].struct]
      BY <2>3, <3>2 DEF Follows
    <3> QED BY <1>1, <2>3, <3>3
  <2> QED BY <1>10, <2>1, <2>2, <2>3
<1>14. ASSUME NEW x
       PROVE  x \in marks \cup {s} <=>
                 \E k \in 1 .. n + 1 : \E i \in 0 .. came(st2, k) : x \in part(st2, g2, reach, k, i)
  <2>1. x \in marks <=>
           \E k \in 1 .. n : \E i \in 0 .. came(st2, k) : x \in part(st2, g2, reach, k, i)
    BY <1>3, <1>6, <1>8
  <2>2. x = s <=> \E i \in 0 .. came(st2, n + 1) : x \in part(st2, g2, reach, n + 1, i)
    <3>1. 0 \in 0 .. 0 /\ \A i \in 0 .. 0 : i = 0
      OBVIOUS
    <3> QED BY <1>7, <1>9, <3>1
  <2>3. n + 1 \in 1 .. n + 1 /\ \A k \in 1 .. n : k \in 1 .. n + 1
    OBVIOUS
  <2> QED BY <1>10, <2>1, <2>2, <2>3
<1>15. ASSUME NEW k \in 1 .. n + 1, NEW l \in 1 .. n + 1,
              NEW i \in 0 .. came(st2, k), NEW j \in 0 .. came(st2, l),
              part(st2, g2, reach, k, i) \cap part(st2, g2, reach, l, j) # {}
       PROVE  k = l /\ i = j
  <2>1. CASE k \in 1 .. n /\ l \in 1 .. n
    BY <1>3, <1>6, <1>8, <1>15, <2>1
  <2>2. ASSUME NEW m \in 1 .. n, NEW h \in 0 .. came(st2, m), s \in part(st2, g2, reach, m, h)
        PROVE  FALSE
    <3>1. h \in 0 .. came(st, m) /\ s \in part(st, g, reach, m, h)
      BY <1>6, <1>8, <2>2
    <3>2. s \in marks
      BY <1>3, <3>1
    <3> QED BY <3>2
  <2>3. \A h \in 0 .. came(st2, n + 1) : h = 0 /\ part(st2, g2, reach, n + 1, h) = {s}
    <3>1. \A h \in 0 .. 0 : h = 0
      OBVIOUS
    <3> QED BY <1>7, <1>9, <3>1
  <2>4. CASE k = n + 1 /\ l \in 1 .. n
    BY <1>15, <2>2, <2>3, <2>4
  <2>5. CASE k \in 1 .. n /\ l = n + 1
    BY <1>15, <2>2, <2>3, <2>5
  <2>6. CASE k = n + 1 /\ l = n + 1
    BY <2>3, <2>6, SMTT(30)
  <2> QED BY <1>10, <2>1, <2>4, <2>5, <2>6
<1>16. 1 .. Len(st2) = 1 .. n + 1 /\ 1 .. Len(st2) - 1 = 1 .. n
  BY <1>1
<1>17. /\ \A k \in 1 .. n :
             /\ came(st2, k) + 1 \in 1 .. Len(g2[st2[k].struct])
             /\ st2[k + 1].struct = g2[st2[k].struct][came(st2, k) + 1]
       /\ \A k, l \in 1 .. n + 1 : k <= l => st2[l].struct \in reach[st2[k].struct]
       /\ \A x : x \in marks \cup {s} <=>
             \E k \in 1 .. n + 1 : \E i \in 0 .. came(st2, k) : x \in part(st2, g2, reach, k, i)
       /\ \A k, l \in 1 .. n + 1 : \A i \in 0 .. came(st2, k), j \in 0 .. came(st2, l) :
             part(st2, g2, reach, k, i) \cap part(st2, g2, reach, l, j) # {} => k = l /\ i = j
  BY <1>12, <1>13, <1>14, <1>15, Zenon
<1> QED BY <1>11, <1>16, <1>17, Zenon DEF Searched

LEMMA ReachingKept ==
    ASSUME UNCHANGED members PROVE reaching' = reaching
BY ReachKept DEF reaching

LEMMA SearchPush ==
    ASSUME EInv, SearchExact, VisitEmbedee
    PROVE  SearchExact'
<1>1. PICK n \in Nat \ {0} : n = Len(stack)
  BY VisitEmbedeeFacts
<1>2. PICK s \in Structs : s = embedees[top.next]
  BY VisitEmbedeeFacts
<1>3. /\ phase = "search" /\ stack # <<>>
      /\ stack[n].next \in 1 .. Len(embedGraph[stack[n].struct])
      /\ s = embedGraph[stack[n].struct][stack[n].next] /\ s \in Embedees(stack[n].struct)
      /\ members' = members
      /\ \/ phase' = "embed cycle"
         \/ /\ s \notin visited /\ visited' = visited \cup {s}
            /\ \A t \in nodes : embedGraph'[t] = embedGraph[t]
            /\ embedGraph'[s] \in Seq(Structs) /\ Len(stack') = n + 1
            /\ \A k \in 1 .. n - 1 : stack'[k] = stack[k]
            /\ stack'[n].struct = stack[n].struct /\ stack'[n].next = stack[n].next + 1
            /\ stack'[n + 1].struct = s /\ stack'[n + 1].next = 1
  BY <1>1, <1>2, VisitEmbedeeFacts
<1> SUFFICES ASSUME phase' = "search"
             PROVE  Searched(stack', embedGraph', reaching, visited \cup {s})
  BY <1>3, ReachingKept DEF SearchExact
<1>4. /\ \A t \in Structs : Embedees(t) \subseteq Structs
      /\ \A k \in 1 .. n : /\ stack[k].struct \in nodes /\ stack[k].struct \in Structs
                            /\ stack[k].next \in Nat
  BY <1>1, <1>3, Graph
<1>5. Searched(stack, embedGraph, reaching, visited)
  BY <1>3 DEF SearchExact
<1>6. \A t \in Structs : reaching[t] = Reach(t)
  BY DEF reaching
<1>7. s \in reaching[s]
  BY <1>6 DEF Reach
<1>8. Follows(stack, reaching, n, s)
  <2> HIDE DEF reaching
  <2> SUFFICES ASSUME NEW k \in 1 .. n, stack[n].struct \in reaching[stack[k].struct]
               PROVE  s \in reaching[stack[k].struct]
    BY DEF Follows
  <2>1. stack[k].struct \in Structs
    BY <1>4
  <2>2. Embedees(stack[n].struct) \subseteq Reach(stack[k].struct)
    BY <1>4, <1>6, <2>1, Reaches DEF Reach
  <2> QED BY <1>3, <1>6, <2>1, <2>2
<1>9. Len(embedGraph'[s]) \in Nat
  BY <1>3, LenProperties
<1>10. \A k \in 1 .. n : k = n \/ k \in 1 .. n - 1
  OBVIOUS
<1>11. \A k \in 1 .. n : /\ stack'[k].struct = stack[k].struct
                         /\ embedGraph'[stack'[k].struct] = embedGraph[stack[k].struct]
  BY <1>3, <1>4, <1>10
<1>12. Descends(stack, embedGraph, n, s, stack', embedGraph')
  BY <1>1, <1>3, <1>4, <1>9, <1>11 DEF Descends
<1>13. s \notin visited
  BY <1>3
<1> HIDE DEF reaching
<1> QED BY <1>5, <1>7, <1>8, <1>12, <1>13, SearchDown, Zenon

\* The last call is over; there is one below it.
LEMMA SearchUp ==
    ASSUME NEW st, NEW g, NEW reach, NEW marks, Searched(st, g, reach, marks),
           NEW n \in Nat, n > 1, n = Len(st), \A k \in 1 .. n : st[k].next \in Nat,
           NEW x, x = st[n].struct, Len(g[x]) \in Nat, st[n].next > Len(g[x]),
           \A y : y \in reach[x] <=> y = x \/ \E j \in 1 .. Len(g[x]) : y \in reach[g[x][j]],
           NEW st2, Len(st2) = n - 1, \A k \in 1 .. n - 1 : st2[k] = st[k]
    PROVE  Searched(st2, g, reach, marks)
<1>1. /\ \A k \in 1 .. n : came(st, k) \in 0 .. Len(g[st[k].struct])
      /\ \A k \in 1 .. n - 1 :
            /\ came(st, k) + 1 \in 1 .. Len(g[st[k].struct])
            /\ st[k + 1].struct = g[st[k].struct][came(st, k) + 1]
      /\ \A k, l \in 1 .. n : k <= l => st[l].struct \in reach[st[k].struct]
      /\ \A y : y \in marks <=>
            \E k \in 1 .. n : \E i \in 0 .. came(st, k) : y \in part(st, g, reach, k, i)
      /\ \A k, l \in 1 .. n : \A i \in 0 .. came(st, k), j \in 0 .. came(st, l) :
            part(st, g, reach, k, i) \cap part(st, g, reach, l, j) # {} => k = l /\ i = j
  BY DEF Searched
<1>2. PICK m \in Nat \ {0} : m = n - 1 /\ n = m + 1
  <2>1. n - 1 \in Nat \ {0} /\ n = (n - 1) + 1
    OBVIOUS
  <2> QED BY <2>1, Zenon
<1>3. PICK c \in Nat : c = came(st, m)
  <2>1. m \in 1 .. n
    BY <1>2
  <2> QED BY <1>1, <2>1
<1>4. came(st, n) = Len(g[x])
  <2>1. n \in 1 .. n /\ came(st, n) = st[n].next - 1
    BY DEF came
  <2>2. came(st, n) \in 0 .. Len(g[x])
    BY <1>1, <2>1
  <2> QED BY <2>1, <2>2
<1>5. \A k \in 1 .. n : k = n \/ k = m \/ k \in 1 .. m - 1
  BY <1>2
<1>6. /\ m \in 1 .. n /\ m \in 1 .. m /\ n \in 1 .. n /\ n \notin 1 .. m
      /\ \A k \in 1 .. m : k \in 1 .. n /\ k \in 1 .. n - 1 /\ k # n
      /\ \A k \in 1 .. m - 1 : k \in 1 .. m /\ k # m
  BY <1>2
<1>7. came(st2, m) = c + 1
  <2>1. st2[m] = st[m] /\ Len(st2) = m
    BY <1>2, <1>6
  <2>2. came(st2, m) = st[m].next - 1
    BY <2>1 DEF came
  <2>3. came(st, m) = st[m].next - 2 /\ st[m].next \in Nat
    BY <1>6 DEF came
  <2> QED BY <1>3, <2>2, <2>3
<1>8. \A k \in 1 .. m - 1 : came(st2, k) = came(st, k)
  <2> SUFFICES ASSUME NEW k \in 1 .. m - 1 PROVE came(st2, k) = came(st, k)
    OBVIOUS
  <2>1. k # Len(st2) /\ k # Len(st) /\ st2[k] = st[k]
    BY <1>2, <1>6
  <2> QED BY <2>1 DEF came
<1>9. ASSUME NEW k \in 1 .. m, NEW i PROVE part(st2, g, reach, k, i) = part(st, g, reach, k, i)
  <2>1. st2[k] = st[k]
    BY <1>6
  <2> QED BY <2>1 DEF part
<1>10. g[st[m].struct][c + 1] = x /\ c + 1 \in 1 .. Len(g[st[m].struct])
  <2>1. m \in 1 .. n - 1 /\ m + 1 = n
    BY <1>2
  <2> QED BY <1>1, <1>3, <2>1
<1>11. part(st2, g, reach, m, c + 1) = reach[x]
  BY <1>6, <1>9, <1>10 DEF part
<1>12. ASSUME NEW y
       PROVE  y \in reach[x] <=> \E j \in 0 .. came(st, n) : y \in part(st, g, reach, n, j)
  <2>1. \A j : part(st, g, reach, n, j) = IF j = 0 THEN {x} ELSE reach[g[x][j]]
    BY DEF part
  <2>2. /\ \A j \in 0 .. Len(g[x]) : j = 0 \/ j \in 1 .. Len(g[x])
        /\ \A j \in 1 .. Len(g[x]) : j \in 0 .. Len(g[x]) /\ j # 0
        /\ 0 \in 0 .. Len(g[x])
    OBVIOUS
  <2> QED BY <1>4, <2>1, <2>2
\* A part of what is left is one of before, or what x reaches.
<1>13. ASSUME NEW k \in 1 .. m, NEW i \in 0 .. came(st2, k)
       PROVE  \/ /\ i \in 0 .. came(st, k)
                 /\ part(st2, g, reach, k, i) = part(st, g, reach, k, i)
              \/ k = m /\ i = c + 1 /\ part(st2, g, reach, k, i) = reach[x]
  <2>1. CASE k = m
    <3>1. i \in 0 .. c \/ i = c + 1
      BY <1>7, <1>13, <2>1
    <3> QED BY <1>3, <1>9, <1>11, <2>1, <3>1
  <2>2. CASE k \in 1 .. m - 1
    BY <1>8, <1>9, <1>13, <2>2
  <2> QED BY <1>5, <1>6, <2>1, <2>2
<1>14. ASSUME NEW k \in 1 .. m, NEW i \in 0 .. came(st, k)
       PROVE  /\ i \in 0 .. came(st2, k)
              /\ part(st2, g, reach, k, i) = part(st, g, reach, k, i)
  <2>1. CASE k = m
    BY <1>3, <1>7, <1>9, <2>1
  <2>2. CASE k \in 1 .. m - 1
    BY <1>8, <1>9, <2>2
  <2> QED BY <1>5, <1>6, <2>1, <2>2
<1>15. \A k \in 1 .. m : came(st2, k) \in 0 .. Len(g[st2[k].struct])
  <2> SUFFICES ASSUME NEW k \in 1 .. m PROVE came(st2, k) \in 0 .. Len(g[st2[k].struct])
    OBVIOUS
  <2>1. st2[k] = st[k]
    BY <1>6
  <2>2. CASE k = m
    <3>1. c + 1 \in 0 .. Len(g[st[m].struct])
      BY <1>10
    <3> QED BY <1>7, <2>1, <2>2, <3>1
  <2>3. CASE k \in 1 .. m - 1
    BY <1>1, <1>6, <1>8, <2>1, <2>3
  <2> QED BY <1>5, <1>6, <2>2, <2>3
<1>16. ASSUME NEW k \in 1 .. m - 1
       PROVE  /\ came(st2, k) + 1 \in 1 .. Len(g[st2[k].struct])
              /\ st2[k + 1].struct = g[st2[k].struct][came(st2, k) + 1]
  <2>1. k \in 1 .. n - 1 /\ k \in 1 .. m /\ k + 1 \in 1 .. n - 1
    BY <1>2
  <2>2. st2[k] = st[k] /\ st2[k + 1] = st[k + 1]
    BY <2>1
  <2> QED BY <1>1, <1>8, <2>1, <2>2
<1>17. ASSUME NEW k \in 1 .. m, NEW l \in 1 .. m, k <= l
       PROVE  st2[l].struct \in reach[st2[k].struct]
  <2>1. st2[k] = st[k] /\ st2[l] = st[l]
    BY <1>6
  <2> QED BY <1>1, <1>6, <1>17, <2>1
<1>18. ASSUME NEW y
       PROVE  y \in marks <=>
                 \E k \in 1 .. m : \E i \in 0 .. came(st2, k) : y \in part(st2, g, reach, k, i)
  <2>1. ASSUME y \in marks
        PROVE  \E k \in 1 .. m : \E i \in 0 .. came(st2, k) : y \in part(st2, g, reach, k, i)
    <3>1. PICK k \in 1 .. n : \E i \in 0 .. came(st, k) : y \in part(st, g, reach, k, i)
      BY <1>1, <2>1
    <3>2. PICK i \in 0 .. came(st, k) : y \in part(st, g, reach, k, i)
      BY <3>1
    <3>3. CASE k = n
      <4>1. y \in reach[x]
        BY <1>12, <3>2, <3>3
      <4>2. c + 1 \in 0 .. came(st2, m)
        BY <1>7
      <4> QED BY <1>6, <1>11, <4>1, <4>2
    <3>4. CASE k \in 1 .. m
      BY <1>14, <3>2, <3>4
    <3> QED BY <1>5, <1>6, <3>3, <3>4
  <2>2. ASSUME NEW k \in 1 .. m, NEW i \in 0 .. came(st2, k), y \in part(st2, g, reach, k, i)
        PROVE  y \in marks
    <3>1. CASE i \in 0 .. came(st, k) /\ y \in part(st, g, reach, k, i)
      BY <1>1, <1>6, <3>1
    <3>2. CASE y \in reach[x]
      BY <1>1, <1>6, <1>12, <3>2
    <3> QED BY <1>13, <2>2, <3>1, <3>2
  <2> QED BY <2>1, <2>2
<1>19. ASSUME NEW k \in 1 .. m, NEW l \in 1 .. m,
              NEW i \in 0 .. came(st2, k), NEW j \in 0 .. came(st2, l),
              part(st2, g, reach, k, i) \cap part(st2, g, reach, l, j) # {}
       PROVE  k = l /\ i = j
  <2>1. ASSUME NEW h \in 1 .. m, NEW f \in 0 .. came(st, h), part(st, g, reach, h, f) \cap reach[x] # {}
        PROVE  FALSE
    <3>1. PICK y : y \in part(st, g, reach, h, f) /\ y \in reach[x]
      BY <2>1
    <3>2. PICK d \in 0 .. came(st, n) : y \in part(st, g, reach, n, d)
      BY <1>12, <3>1
    <3>3. part(st, g, reach, h, f) \cap part(st, g, reach, n, d) # {}
      BY <3>1, <3>2
    <3>4. h = n
      BY <1>1, <1>6, <3>3
    <3> QED BY <1>6, <3>4
  <2>2. CASE /\ i \in 0 .. came(st, k) /\ part(st2, g, reach, k, i) = part(st, g, reach, k, i)
             /\ j \in 0 .. came(st, l) /\ part(st2, g, reach, l, j) = part(st, g, reach, l, j)
    <3>1. k \in 1 .. n /\ l \in 1 .. n
      BY <1>6
    <3>2. part(st, g, reach, k, i) \cap part(st, g, reach, l, j) # {}
      BY <1>19, <2>2
    <3> QED BY <1>1, <2>2, <3>1, <3>2, Zenon
  <2>3. CASE /\ i \in 0 .. came(st, k) /\ part(st2, g, reach, k, i) = part(st, g, reach, k, i)
             /\ part(st2, g, reach, l, j) = reach[x]
    BY <1>19, <2>1, <2>3
  <2>4. CASE /\ j \in 0 .. came(st, l) /\ part(st2, g, reach, l, j) = part(st, g, reach, l, j)
             /\ part(st2, g, reach, k, i) = reach[x]
    BY <1>19, <2>1, <2>4
  <2>5. CASE k = m /\ i = c + 1 /\ l = m /\ j = c + 1
    BY <2>5
  <2> QED BY <1>13, <2>2, <2>3, <2>4, <2>5
<1>20. 1 .. Len(st2) = 1 .. m /\ 1 .. Len(st2) - 1 = 1 .. m - 1
  BY <1>2
<1>21. /\ \A k, l \in 1 .. m : k <= l => st2[l].struct \in reach[st2[k].struct]
       /\ \A y : y \in marks <=>
             \E k \in 1 .. m : \E i \in 0 .. came(st2, k) : y \in part(st2, g, reach, k, i)
       /\ \A k, l \in 1 .. m : \A i \in 0 .. came(st2, k), j \in 0 .. came(st2, l) :
             part(st2, g, reach, k, i) \cap part(st2, g, reach, l, j) # {} => k = l /\ i = j
  BY <1>17, <1>18, <1>19, Zenon
<1> QED BY <1>15, <1>16, <1>20, <1>21, Zenon DEF Searched

\* The first call of a search.
LEMMA SearchFirst ==
    ASSUME NEW g, NEW reach, NEW s, s \in reach[s], Len(g[s]) \in Nat,
           NEW st, Len(st) = 1, st[1].struct = s, st[1].next = 1
    PROVE  Searched(st, g, reach, {s})
<1>1. 1 .. Len(st) = {1} /\ 1 .. Len(st) - 1 = {} /\ came(st, 1) = 0 /\ 0 .. came(st, 1) = {0}
  BY DEF came
<1>2. part(st, g, reach, 1, 0) = {s}
  BY DEF part
<1>3. came(st, 1) \in 0 .. Len(g[st[1].struct])
  BY <1>1
<1> QED BY <1>1, <1>2, <1>3 DEF Searched

LEMMA GraphReach ==
    ASSUME EInv, phase = "search", NEW k \in 1 .. Len(stack)
    PROVE  LET x == stack[k].struct IN
           \A y : y \in Reach(x) <=>
              y = x \/ \E j \in 1 .. Len(embedGraph[x]) : y \in Reach(embedGraph[x][j])
<1>1. PICK x \in Structs : x = stack[k].struct
  BY Graph
<1>2. /\ \A s \in Structs : Embedees(s) \subseteq Structs
      /\ DOMAIN embedGraph[x] = 1 .. Len(embedGraph[x])
      /\ ToSet(embedGraph[x]) = Embedees(x)
  BY <1>1, Graph
<1>3. \A d : d \in Embedees(x) <=> \E j \in 1 .. Len(embedGraph[x]) : d = embedGraph[x][j]
  BY <1>2 DEF ToSet
<1>4. /\ Embedees(x) \subseteq Embedded(x)
      /\ \A e \in Embedded(x) : \E d \in Embedees(x) : e \in Reach(d)
      /\ \A d \in Embedded(x) : Embedded(d) \subseteq Embedded(x)
  BY <1>2, Reaches
<1>5. \A y : y \in Embedded(x) <=> \E d \in Embedees(x) : y \in Reach(d)
  BY <1>4 DEF Reach
<1>6. \A y : y \in Reach(x) <=> y = x \/ y \in Embedded(x)
  BY DEF Reach
<1> QED BY <1>1, <1>3, <1>5, <1>6

\* The end of the last call.
LEMMA ResolveEmbedderFacts ==
    ASSUME EInv, ResolveEmbedder
    PROVE  LET n == Len(stack) IN
           /\ phase = "search" /\ stack # <<>> /\ n \in Nat \ {0} /\ top = stack[n]
           /\ stack[n].struct \in Structs /\ stack[n].next > Len(embedGraph[stack[n].struct])
           /\ ResolveSizeAndOffset(stack[n].struct)
           /\ UNCHANGED <<members, embedGraph, visited>>
           /\ Len(stack') = n - 1 /\ \A k \in 1 .. n - 1 : stack'[k] = stack[k]
           /\ n = 1 => stack' = <<>>
<1>1. /\ phase = "search" /\ stack # <<>> /\ top.next > Len(embedees)
      /\ ResolveSizeAndOffset(top.struct) /\ stack' = Front(stack)
      /\ UNCHANGED <<members, embedGraph, visited>>
  BY DEF ResolveEmbedder
<1>2. PICK n \in Nat \ {0} : n = Len(stack)
  BY <1>1, Top
<1>3. stack \in Seq(VisitCalls) /\ top.struct \in Structs
  BY <1>1, Top
<1>4. top = stack[n] /\ embedees = embedGraph[stack[n].struct]
  BY <1>2 DEF top, embedees
<1>5. stack' = SubSeq(stack, 1, n - 1) /\ n - 1 \in Int /\ 1 \in Int
  BY <1>1, <1>2 DEF Front
<1>6. \A i \in 1 .. n - 1 : stack[i] \in VisitCalls
  BY <1>2, <1>3, ElementOfSeq
<1>7. /\ stack' \in Seq(VisitCalls) /\ Len(stack') = n - 1
      /\ \A k \in 1 .. n - 1 : stack'[k] = stack[k]
  BY <1>2, <1>5, <1>6, SubSeqProperties
<1>8. n = 1 => stack' = <<>>
  BY <1>7, EmptySeq
<1> QED BY <1>1, <1>2, <1>3, <1>4, <1>7, <1>8

LEMMA SearchPop ==
    ASSUME EInv, SearchExact, ResolveEmbedder
    PROVE  SearchExact'
<1>1. PICK n \in Nat \ {0} : n = Len(stack)
  BY ResolveEmbedderFacts
<1>2. PICK x \in Structs : x = stack[n].struct
  BY <1>1, ResolveEmbedderFacts
<1>3. /\ phase = "search" /\ stack # <<>> /\ stack[n].next > Len(embedGraph[x])
      /\ UNCHANGED <<members, embedGraph, visited>>
      /\ Len(stack') = n - 1 /\ \A k \in 1 .. n - 1 : stack'[k] = stack[k]
      /\ n = 1 => stack' = <<>>
  BY <1>1, <1>2, ResolveEmbedderFacts
<1> SUFFICES ASSUME n > 1
             PROVE  Searched(stack', embedGraph, reaching, visited)
  BY <1>1, <1>3, ReachingKept DEF SearchExact
<1>4. /\ \A k \in 1 .. n : stack[k].next \in Nat
      /\ n \in 1 .. n /\ Len(embedGraph[x]) \in Nat
      /\ \A j \in 1 .. Len(embedGraph[x]) : embedGraph[x][j] \in Structs
  <2>1. n \in 1 .. n
    OBVIOUS
  <2> QED BY <1>1, <1>2, <1>3, <2>1, Graph
<1>5. Searched(stack, embedGraph, reaching, visited)
  BY <1>3 DEF SearchExact
<1>6. \A y : y \in reaching[x] <=>
         y = x \/ \E j \in 1 .. Len(embedGraph[x]) : y \in reaching[embedGraph[x][j]]
  <2>1. \A y : y \in Reach(x) <=>
           y = x \/ \E j \in 1 .. Len(embedGraph[x]) : y \in Reach(embedGraph[x][j])
    BY <1>1, <1>2, <1>3, <1>4, GraphReach
  <2>2. \A t \in Structs : reaching[t] = Reach(t)
    BY DEF reaching
  <2> HIDE DEF reaching
  <2> QED BY <1>4, <2>1, <2>2
<1> HIDE DEF reaching
<1> QED BY <1>1, <1>2, <1>3, <1>4, <1>5, <1>6, SearchUp

LEMMA SearchStart ==
    ASSUME EInv, StartSearch
    PROVE  SearchExact'
<1>1. PICK s \in nodes : Visit(s, {}, stack)
  BY DEF StartSearch
<1>2. phase = "search" /\ stack = <<>> /\ UNCHANGED <<members, records>>
  BY DEF StartSearch
<1>3. /\ visited' = {s}
      /\ embedGraph' = [t \in nodes \cup {s} |-> IF t \in nodes THEN embedGraph[t] ELSE <<>>]
      /\ stack' = <<[struct |-> s, next |-> 1]>>
  BY <1>1, <1>2 DEF Visit
<1>4. s \in Structs /\ embedGraph'[s] \in Seq(Structs)
  BY <1>2, <1>3 DEF EInv, GraphExact
<1>5. Len(stack') = 1 /\ stack'[1].struct = s /\ stack'[1].next = 1 /\ Len(embedGraph'[s]) \in Nat
  BY <1>3, <1>4, LenProperties
<1>6. s \in reaching[s]
  BY <1>4 DEF reaching, Reach
<1>7. Searched(stack', embedGraph', reaching, {s})
  <2> HIDE DEF reaching
  <2> QED BY <1>5, <1>6, SearchFirst
<1> QED BY <1>2, <1>3, <1>7, ReachingKept DEF SearchExact

LEMMA SearchStep ==
    ASSUME EInv, SearchExact, [Next]_vars
    PROVE  SearchExact'
<1>1. CASE LookUpNames \/ ResolveLeaf \/ EndSearch
  BY <1>1 DEF LookUpNames, ResolveLeaf, ResolveSizeAndOffset, EndSearch, SearchExact
<1>2. CASE LeavesResolved
  BY <1>2 DEF LeavesResolved, SearchExact, EInv, CallsExact
<1>3. CASE UNCHANGED vars
  BY <1>3, ReachingKept DEF vars, SearchExact
<1> QED BY <1>1, <1>2, <1>3, SearchStart, SearchPush, SearchPop DEF Next

-----------------------------------------------------------------------------
(* What is laid out is a tree, and what is not is none.                    *)

\* A struct that is nowhere in itself, and has no other struct twice.
Tree(s) ==
    /\ s \notin Embedded(s)
    /\ \A d, e \in Embedees(s) : d # e => Reach(d) \cap Reach(e) = {}

Trees == \A s \in Structs : records[s].resolved => Tree(s)

LEMMA TreeKept == ASSUME UNCHANGED members, NEW s \in Structs, Embedees(s) \subseteq Structs
                  PROVE  Tree(s)' <=> Tree(s)
<1>1. Embedded(s)' = Embedded(s) /\ Embedees(s)' = Embedees(s)
  BY ReachKept, EmbedeesKept
<1>2. \A d \in Embedees(s) : Reach(d)' = Reach(d)
  BY ReachKept
<1> QED BY <1>1, <1>2 DEF Tree

\* The last call came past all of its embedees: their parts are apart.
LEMMA TopTree ==
    ASSUME EInv, SearchExact, ResolveEmbedder
    PROVE  Tree(top.struct)
<1>1. PICK n \in Nat \ {0} : n = Len(stack)
  BY ResolveEmbedderFacts
<1>2. PICK x \in Structs : x = stack[n].struct /\ x = top.struct
  BY <1>1, ResolveEmbedderFacts
<1>3. phase = "search" /\ stack # <<>> /\ stack[n].next > Len(embedGraph[x])
  BY <1>1, <1>2, ResolveEmbedderFacts
<1>4. n \in 1 .. n
  OBVIOUS
<1>5. /\ \A t \in Structs : Embedees(t) \subseteq Structs
      /\ stack[n].next \in Nat /\ Len(embedGraph[x]) \in Nat
      /\ DOMAIN embedGraph[x] = 1 .. Len(embedGraph[x])
      /\ ToSet(embedGraph[x]) = Embedees(x)
  BY <1>1, <1>2, <1>3, <1>4, Graph
<1>6. Searched(stack, embedGraph, reaching, visited)
  BY <1>3 DEF SearchExact
<1>7. came(stack, n) = Len(embedGraph[x])
  <2>1. came(stack, n) \in 0 .. Len(embedGraph[x])
    BY <1>1, <1>2, <1>4, <1>6 DEF Searched
  <2>2. came(stack, n) = stack[n].next - 1
    BY <1>1 DEF came
  <2> QED BY <1>3, <1>5, <2>1, <2>2
<1>8. ASSUME NEW d \in Embedees(x)
      PROVE  \E i \in 0 .. came(stack, n) :
                i # 0 /\ embedGraph[x][i] = d /\ part(stack, embedGraph, reaching, n, i) = Reach(d)
  <2>1. PICK i \in 1 .. Len(embedGraph[x]) : embedGraph[x][i] = d
    BY <1>5 DEF ToSet
  <2>2. reaching[d] = Reach(d)
    BY <1>5 DEF reaching
  <2>3. i \in 0 .. came(stack, n) /\ i # 0
    BY <1>7
  <2>4. part(stack, embedGraph, reaching, n, i) = Reach(d)
    BY <1>2, <2>1, <2>2, <2>3 DEF part
  <2> QED BY <2>1, <2>3, <2>4
<1>9. part(stack, embedGraph, reaching, n, 0) = {x} /\ 0 \in 0 .. came(stack, n)
  BY <1>2, <1>5, <1>7 DEF part
<1>10. \A i, j \in 0 .. came(stack, n) :
          part(stack, embedGraph, reaching, n, i) \cap part(stack, embedGraph, reaching, n, j) # {}
             => i = j
  BY <1>1, <1>4, <1>6 DEF Searched
<1>11. x \notin Embedded(x)
  <2> SUFFICES ASSUME x \in Embedded(x) PROVE FALSE
    OBVIOUS
  <2>1. PICK d \in Embedees(x) : x \in Reach(d)
    BY <1>5, Reaches
  <2> QED BY <1>8, <1>9, <1>10, <2>1
<1>12. ASSUME NEW d \in Embedees(x), NEW e \in Embedees(x), d # e
       PROVE  Reach(d) \cap Reach(e) = {}
  <2>1. PICK i \in 0 .. came(stack, n) :
           embedGraph[x][i] = d /\ part(stack, embedGraph, reaching, n, i) = Reach(d)
    BY <1>8
  <2>2. PICK j \in 0 .. came(stack, n) :
           embedGraph[x][j] = e /\ part(stack, embedGraph, reaching, n, j) = Reach(e)
    BY <1>8
  <2> QED BY <1>10, <1>12, <2>1, <2>2
<1> QED BY <1>2, <1>11, <1>12 DEF Tree

LEMMA TreesStep ==
    ASSUME EInv, LayoutsExact, SearchExact, Trees, [Next]_vars
    PROVE  Trees'
<1>1. UNCHANGED members
  BY RecordsStep
<1>2. ASSUME NEW s \in Structs, records[s].resolved PROVE Tree(s)'
  BY <1>1, <1>2, TreeKept DEF Trees, LayoutsExact
<1>3. CASE records' = records
  BY <1>2, <1>3 DEF Trees
<1>4. ASSUME NEW s \in Structs, LaysOut(s), Tree(s) PROVE Trees'
  <2>1. \A t \in Structs : t # s => records'[t] = records[t]
    BY <1>4 DEF LaysOut, EInv, Types
  <2>2. Embedees(s) \subseteq Structs
    BY <1>4 DEF LaysOut
  <2>3. Tree(s)'
    BY <1>1, <1>4, <2>2, TreeKept
  <2> QED BY <1>2, <2>1, <2>3 DEF Trees
<1>5. CASE ResolveLeaf
  <2>1. PICK s \in Structs \ nodes : ResolveSizeAndOffset(s)
    BY <1>5 DEF ResolveLeaf
  <2>2. Embedees(s) = {} /\ \A t \in Structs : Embedees(t) \subseteq Structs
    BY <1>5 DEF ResolveLeaf, EInv, GraphExact
  <2>3. Tree(s)
    BY <2>2, Reaches DEF Tree
  <2>4. records' = records \/ LaysOut(s)
    BY <2>1, <2>2 DEF ResolveSizeAndOffset, LaysOut
  <2> QED BY <1>3, <1>4, <2>3, <2>4
<1>6. CASE ResolveEmbedder
  <2>1. /\ phase = "search" /\ stack # <<>> /\ top.next > Len(embedees)
        /\ ResolveSizeAndOffset(top.struct)
    BY <1>6 DEF ResolveEmbedder
  <2>2. /\ top.struct \in Structs
        /\ \A e \in Embedees(top.struct) : e \in Structs /\ records[e].resolved
    BY <2>1, Top, TopEmbedees
  <2>3. records' = records \/ LaysOut(top.struct)
    BY <2>1, <2>2 DEF ResolveSizeAndOffset, LaysOut
  <2>4. Tree(top.struct)
    BY <1>6, TopTree
  <2> QED BY <1>3, <1>4, <2>2, <2>3, <2>4
<1>7. CASE LookUpNames \/ LeavesResolved \/ StartSearch \/ VisitEmbedee \/ EndSearch \/ UNCHANGED vars
  BY <1>3, <1>7 DEF LookUpNames, LeavesResolved, StartSearch, VisitEmbedee, EndSearch, vars
<1> QED BY <1>5, <1>6, <1>7 DEF Next

\* An embedee of one of the n calls' structs reaches s, and so does another embedee or
\* the struct is s.
Meets(st, g, reach, n, s) ==
    \E k \in 1 .. n : \E j \in 1 .. Len(g[st[k].struct]) :
        /\ s \in reach[g[st[k].struct][j]]
        /\ \/ s = st[k].struct
           \/ \E i \in 1 .. Len(g[st[k].struct]) :
                 i # j /\ s \in reach[g[st[k].struct][i]]

\* The last of the n calls is at the embedee s.
Calling(st, g, n, s) ==
    /\ n = Len(st) /\ \A k \in 1 .. n : Len(g[st[k].struct]) \in Nat
    /\ st[n].next \in 1 .. Len(g[st[n].struct]) /\ s = g[st[n].struct][st[n].next]

\* A search that comes to the struct s again has come to it in another way.
LEMMA SearchMeets ==
    ASSUME NEW st, NEW g, NEW reach, NEW marks, Searched(st, g, reach, marks),
           NEW n \in Nat \ {0}, NEW s \in marks, s \in reach[s],
           Calling(st, g, n, s), Follows(st, reach, n, s)
    PROVE  Meets(st, g, reach, n, s)
<1>0. \A k \in 1 .. n : k = n \/ k \in 1 .. n - 1
  OBVIOUS
<1>1. /\ \A k \in 1 .. n : came(st, k) \in 0 .. Len(g[st[k].struct])
      /\ \A k \in 1 .. n - 1 :
            /\ came(st, k) + 1 \in 1 .. Len(g[st[k].struct])
            /\ st[k + 1].struct = g[st[k].struct][came(st, k) + 1]
      /\ \A k, l \in 1 .. n : k <= l => st[l].struct \in reach[st[k].struct]
      /\ \A x : x \in marks <=>
            \E k \in 1 .. n : \E i \in 0 .. came(st, k) : x \in part(st, g, reach, k, i)
  BY DEF Searched, Calling
<1>2. PICK k \in 1 .. n : \E i \in 0 .. came(st, k) : s \in part(st, g, reach, k, i)
  BY <1>1
<1>3. PICK i \in 0 .. came(st, k) : s \in part(st, g, reach, k, i)
  BY <1>2
<1>4. Len(g[st[k].struct]) \in Nat /\ came(st, k) \in 0 .. Len(g[st[k].struct])
  BY <1>1 DEF Calling
<1>5. \A l \in 1 .. n : s \in reach[st[l].struct]
  <2>1. \A l \in 1 .. n : st[n].struct \in reach[st[l].struct]
    BY <1>1
  <2> QED BY <2>1 DEF Follows
<1>6. came(st, k) + 1 \in 1 .. Len(g[st[k].struct]) /\ s \in reach[g[st[k].struct][came(st, k) + 1]]
  <2>1. CASE k = n
    <3>1. came(st, n) + 1 = st[n].next
      BY DEF came, Calling
    <3> QED BY <2>1, <3>1 DEF Calling
  <2>2. CASE k \in 1 .. n - 1
    <3>1. k + 1 \in 1 .. n
      BY <2>2
    <3> QED BY <1>1, <1>5, <2>2, <3>1
  <2> QED BY <1>0, <2>1, <2>2
<1>7. CASE i = 0
  BY <1>3, <1>6, <1>7 DEF part, Meets
<1>8. CASE i # 0
  <2>1. i \in 1 .. Len(g[st[k].struct]) /\ i # came(st, k) + 1
    BY <1>4, <1>8
  <2>2. s \in reach[g[st[k].struct][i]]
    BY <1>3, <1>8 DEF part
  <2> QED BY <1>6, <2>1, <2>2 DEF Meets
<1> QED BY <1>7, <1>8

LEMMA CycleFound ==
    ASSUME EInv, GraphOnce, SearchExact, VisitEmbedee, embedees[top.next] \in visited
    PROVE  Cyclic \/ Shared
<1>1. PICK n \in Nat \ {0} : n = Len(stack)
  BY VisitEmbedeeFacts
<1>2. PICK s \in Structs : s = embedees[top.next]
  BY VisitEmbedeeFacts
<1>3. /\ phase = "search" /\ stack # <<>> /\ s \in visited
      /\ stack[n].next \in 1 .. Len(embedGraph[stack[n].struct])
      /\ s = embedGraph[stack[n].struct][stack[n].next] /\ s \in Embedees(stack[n].struct)
  BY <1>1, <1>2, VisitEmbedeeFacts
<1>4. /\ \A t \in Structs : Embedees(t) \subseteq Structs
      /\ \A k \in 1 .. n :
            LET g == embedGraph[stack[k].struct] IN
            /\ stack[k].struct \in nodes /\ stack[k].struct \in Structs
            /\ DOMAIN g = 1 .. Len(g) /\ Len(g) \in Nat
            /\ \A i \in 1 .. Len(g) : g[i] \in Embedees(stack[k].struct) /\ g[i] \in Structs
  BY <1>1, <1>3, Graph
<1>5. Searched(stack, embedGraph, reaching, visited) /\ \A t \in Structs : reaching[t] = Reach(t)
  BY <1>3 DEF SearchExact, reaching
<1> HIDE DEF reaching
<1>6. s \in Reach(s)
  BY DEF Reach
<1>7. Follows(stack, reaching, n, s)
  <2> SUFFICES ASSUME NEW k \in 1 .. n, stack[n].struct \in reaching[stack[k].struct]
               PROVE  s \in reaching[stack[k].struct]
    BY DEF Follows
  <2>1. stack[k].struct \in Structs
    BY <1>4
  <2>2. Embedees(stack[n].struct) \subseteq Reach(stack[k].struct)
    BY <1>4, <1>5, <2>1, Reaches DEF Reach
  <2> QED BY <1>3, <1>5, <2>1, <2>2
<1>8. Calling(stack, embedGraph, n, s)
  BY <1>1, <1>3, <1>4 DEF Calling
<1>9. Meets(stack, embedGraph, reaching, n, s)
  <2>1. s \in reaching[s]
    BY <1>5, <1>6
  <2>2. Searched(stack, embedGraph, reaching, visited) /\ s \in visited
    BY <1>3, <1>5
  <2> QED BY <1>1, <1>3, <1>7, <1>8, <2>1, <2>2, SearchMeets, Zenon
<1> PICK k \in 1 .. n : \E j \in 1 .. Len(embedGraph[stack[k].struct]) :
       /\ s \in reaching[embedGraph[stack[k].struct][j]]
       /\ \/ s = stack[k].struct
          \/ \E i \in 1 .. Len(embedGraph[stack[k].struct]) :
                i # j /\ s \in reaching[embedGraph[stack[k].struct][i]]
  BY <1>9 DEF Meets
<1>10. PICK x \in Structs :
          /\ x = stack[k].struct /\ x \in nodes
          /\ DOMAIN embedGraph[x] = 1 .. Len(embedGraph[x])
          /\ \A i \in 1 .. Len(embedGraph[x]) :
                embedGraph[x][i] \in Embedees(x) /\ embedGraph[x][i] \in Structs
  BY <1>4
<1>11. PICK j \in 1 .. Len(embedGraph[x]) :
          /\ s \in reaching[embedGraph[x][j]]
          /\ \/ s = x
             \/ \E i \in 1 .. Len(embedGraph[x]) : i # j /\ s \in reaching[embedGraph[x][i]]
  BY <1>10
<1>12. PICK e \in Embedees(x) : e = embedGraph[x][j] /\ e \in Structs /\ s \in Reach(e)
  BY <1>5, <1>10, <1>11
<1>13. CASE s = x
  <2>1. Reach(e) \subseteq Embedded(x)
    BY <1>4, <1>12, Reaches DEF Reach
  <2> QED BY <1>12, <1>13, <2>1 DEF Cyclic
<1>14. ASSUME NEW i \in 1 .. Len(embedGraph[x]), i # j, s \in reaching[embedGraph[x][i]]
       PROVE  Shared
  <2>1. PICK d \in Embedees(x) : d = embedGraph[x][i] /\ d \in Structs /\ s \in Reach(d)
    BY <1>5, <1>10, <1>14, SMTT(30)
  <2>2. d # e
    BY <1>3, <1>10, <1>12, <1>14, <2>1 DEF GraphOnce
  <2> QED BY <1>12, <2>1, <2>2 DEF Reach, Shared
<1> QED BY <1>11, <1>13, <1>14

-----------------------------------------------------------------------------
(* Fields that are aligned to zero.                                        *)

\* A field of a struct without fields, or of void.
HollowField(f) == IF f.kind = "struct" THEN members[f.name] = <<>> ELSE f.size = 0

HollowIn(s) ==
    \E i \in DOMAIN members[s] : HollowField(members[s][i]) /\ (i > 1 \/ Len(members[s]) = 1)

\* What is laid out has no such field that is divided by.
HollowExact ==
    \A s \in Structs : records[s].resolved =>
        ~ HollowIn(s) /\ (records[s].layout.alignment = 0 <=> members[s] = <<>>)

\* A field is aligned to zero exactly when it is such a field.
LEMMA HollowFields ==
    ASSUME EInv, LayoutsExact, HollowExact, NEW s \in Structs, Laid(s),
           NEW i \in DOMAIN members[s]
    PROVE  sized(members[s][i]).alignment = 0 <=> HollowField(members[s][i])
<1> DEFINE f == members[s][i]
<1>1. CASE f.kind = "builtin"
  <2>1. f.kind # "struct"
    BY <1>1
  <2>2. sized(f).alignment = f.size
    BY <1>1 DEF sized
  <2> HIDE DEF f
  <2>3. HollowField(f) <=> f.size = 0
    BY <2>1 DEF HollowField
  <2> QED BY <2>2, <2>3 DEF f
<1>2. CASE f.kind # "builtin" /\ f.kind = "struct" /\ f.name \in Embedees(s)
  <2>1. sized(f).alignment = records[f.name].layout.alignment
    BY <1>2 DEF sized
  <2>2. records[f.name].layout.alignment = 0 <=> members[f.name] = <<>>
    BY <1>2 DEF Laid, HollowExact
  <2> HIDE DEF f
  <2>3. HollowField(f) <=> members[f.name] = <<>>
    BY <1>2 DEF HollowField
  <2> QED BY <2>1, <2>2, <2>3 DEF f
<1> QED BY <1>1, <1>2, Field DEF EInv

LEMMA Divides ==
    ASSUME EInv, LayoutsExact, HollowExact, NEW s \in Structs, Laid(s)
    PROVE  divides(s) <=> HollowIn(s)
<1>1. PICK n \in Nat : n = Len(members[s]) /\ DOMAIN members[s] = 1 .. n
  <2>1. members[s] \in Seq(FieldTypes)
    BY DEF EInv, Types
  <2> QED BY <2>1, LenProperties
<1>2. \A i \in 1 .. n : sized(members[s][i]).alignment = 0 <=> HollowField(members[s][i])
  BY <1>1, HollowFields
<1>3. \A i : i \in 2 .. n <=> i \in 1 .. n /\ i > 1
  OBVIOUS
<1>4. n = 1 => 1 \in 1 .. n /\ \A i \in 1 .. n : i = 1
  OBVIOUS
<1>5. divides(s) <=> \/ \E i \in 2 .. n : HollowField(members[s][i])
                     \/ n = 1 /\ HollowField(members[s][1])
  BY <1>1, <1>2, <1>3, <1>4 DEF divides
<1>6. HollowIn(s) <=> \E i \in 1 .. n : HollowField(members[s][i]) /\ (i > 1 \/ n = 1)
  BY <1>1 DEF HollowIn
<1> HIDE DEF HollowIn
<1> QED BY <1>3, <1>4, <1>5, <1>6

\* The layout of a struct with fields is aligned to one of them at least.
LEMMA LayoutHollow ==
    ASSUME EInv, LayoutsExact, HollowExact, NEW s \in Structs, Laid(s), ~ divides(s)
    PROVE  layoutOf(s).alignment = 0 <=> members[s] = <<>>
<1>1. members[s] \in Seq(FieldTypes)
  BY DEF EInv, Types
<1>2. PICK n \in Nat : n = Len(members[s]) /\ DOMAIN members[s] = 1 .. n
  BY <1>1, LenProperties
<1>3. \A i \in 1 .. n : sized(members[s][i]) \in Sized
  BY <1>2, SizedFields
<1>4. FitsAndPads(layoutOf(s), fieldsOf(s), n)
  BY <1>1, <1>2, <1>3, LayoutFits
<1>5. CASE n = 0
  <2>1. members[s] = <<>>
    BY <1>1, <1>2, <1>5, EmptySeq
  <2>2. fieldsOf(s) = <<>>
    BY <1>2, <1>5 DEF fieldsOf
  <2>3. layoutOf(s) = EmptyLayout
    BY <2>2, Zenon DEF layoutOf, fieldsOf
  <2> QED BY <2>1, <2>3 DEF EmptyLayout
<1>6. CASE n # 0
  <2>1. members[s] # <<>>
    BY <1>1, <1>2, <1>6, EmptySeq
  <2>2. PICK i \in 1 .. n : sized(members[s][i]).alignment # 0
    <3>1. 1 \in 1 .. n /\ (n # 1 => 2 \in 2 .. n /\ 2 \in 1 .. n)
      BY <1>6
    <3> QED BY <1>2, <3>1 DEF divides
  <2>3. fieldsOf(s)[i].alignment <= layoutOf(s).alignment
    BY <1>4 DEF FitsAndPads, Fits
  <2>4. fieldsOf(s)[i] = sized(members[s][i])
    BY <1>2 DEF fieldsOf
  <2>5. sized(members[s][i]).alignment \in BuiltinSizes
    BY <1>3 DEF Sized
  <2> QED BY <2>1, <2>2, <2>3, <2>4, <2>5 DEF BuiltinSizes
<1> QED BY <1>5, <1>6

LEMMA HollowExactStep ==
    ASSUME EInv, LayoutsExact, HollowExact, [Next]_vars
    PROVE  HollowExact'
<1>1. members' = members
  BY RecordsStep
<1>2. \A s \in Structs : HollowIn(s)' <=> HollowIn(s)
  BY <1>1 DEF HollowIn, HollowField
<1>3. CASE records' = records
  BY <1>1, <1>2, <1>3 DEF HollowExact
<1>4. ASSUME NEW s \in Structs, LaysOut(s) PROVE HollowExact'
  <2> DEFINE record == [layout |-> layoutOf(s), resolved |-> TRUE]
  <2>1. record.layout = layoutOf(s)
    OBVIOUS
  <2> HIDE DEF record
  <2>2. \A t \in Structs : records'[t] = IF t = s THEN record ELSE records[t]
    BY <1>4 DEF LaysOut, EInv, Types, record
  <2>3. Laid(s) /\ ~ divides(s)
    BY <1>4 DEF LaysOut, Laid
  <2>4. ~ HollowIn(s) /\ (layoutOf(s).alignment = 0 <=> members[s] = <<>>)
    BY <2>3, Divides, LayoutHollow
  <2> HIDE DEF HollowIn
  <2> QED BY <1>1, <1>2, <2>1, <2>2, <2>4 DEF HollowExact
<1> QED BY <1>3, <1>4, RecordsStep

-----------------------------------------------------------------------------
(* How the layout ends.                                                    *)

\* What stopped it is in the program.
Stopped ==
    /\ phase = "division by zero" => Hollow
    /\ phase = "embed cycle" => Cyclic \/ Shared
    /\ phase = "unknown name" => Unknown
    /\ phase \in {"names", "unknown name"} \/ ~ Unknown

LEMMA ProgramKept ==
    ASSUME UNCHANGED members
    PROVE  /\ Hollow' <=> Hollow
           /\ Unknown' <=> Unknown
           /\ Cyclic' <=> Cyclic
           /\ ~ Unknown => (Shared' <=> Shared)
<1>1. Hollow' <=> Hollow
  BY DEF Hollow
<1>2. Unknown' <=> Unknown
  BY EmbedeesKept DEF Unknown
<1>3. Cyclic' <=> Cyclic
  BY ReachKept DEF Cyclic
<1>4. ASSUME ~ Unknown PROVE Shared' <=> Shared
  <2>1. \A s \in Structs : Embedees(s)' = Embedees(s)
    BY EmbedeesKept
  <2>2. \A s \in Structs : \A d \in Embedees(s) : Embedded(d)' = Embedded(d)
    BY <1>4, ReachKept DEF Unknown
  <2> QED BY <2>1, <2>2 DEF Shared
<1> QED BY <1>1, <1>2, <1>3, <1>4

\* A layout that divides by zero is one of a struct whose embedees are laid out.
LEMMA DividesHollow ==
    ASSUME EInv, LayoutsExact, HollowExact, NEW s \in Structs, Laid(s),
           ResolveSizeAndOffset(s), phase' # phase
    PROVE  Hollow
<1>1. divides(s)
  BY DEF ResolveSizeAndOffset
<1>2. HollowIn(s)
  BY <1>1, Divides
<1> QED BY <1>2 DEF Hollow, HollowIn, HollowField

LEMMA StoppedStep ==
    ASSUME EInv, LayoutsExact, GraphOnce, SearchExact, HollowExact, Stopped, [Next]_vars
    PROVE  Stopped'
<1>1. /\ Hollow' <=> Hollow
      /\ Unknown' <=> Unknown
      /\ ~ Unknown => ((Cyclic \/ Shared)' <=> (Cyclic \/ Shared))
  BY RecordsStep, ProgramKept
<1>2. CASE phase' = phase
  BY <1>1, <1>2 DEF Stopped
<1>3. CASE LookUpNames
  <2>1. CASE \A s \in Structs : Embedees(s) \subseteq Structs
    <3>1. phase' = "leaves" /\ ~ Unknown
      BY <1>3, <2>1 DEF LookUpNames, Unknown
    <3> QED BY <1>1, <3>1 DEF Stopped
  <2>2. CASE ~ \A s \in Structs : Embedees(s) \subseteq Structs
    <3>1. phase' = "unknown name" /\ Unknown
      BY <1>3, <2>2 DEF LookUpNames, Unknown
    <3> QED BY <1>1, <3>1 DEF Stopped
  <2> QED BY <2>1, <2>2
<1>4. ASSUME NEW s \in Structs, Laid(s), ResolveSizeAndOffset(s), phase \in {"leaves", "search"}
      PROVE  Stopped'
  <2>1. CASE phase' # phase
    <3>1. phase' = "division by zero"
      BY <1>4, <2>1 DEF ResolveSizeAndOffset
    <3>2. Hollow
      BY <1>4, <2>1, DividesHollow
    <3>3. ~ Unknown
      BY <1>4 DEF Stopped
    <3> QED BY <1>1, <3>1, <3>2, <3>3 DEF Stopped
  <2> QED BY <1>2, <2>1
<1>5. CASE ResolveLeaf
  <2>1. PICK s \in Structs \ nodes : ResolveSizeAndOffset(s)
    BY <1>5 DEF ResolveLeaf
  <2>2. phase = "leaves" /\ Laid(s)
    BY <1>5 DEF ResolveLeaf, EInv, GraphExact, Laid
  <2> QED BY <1>4, <2>1, <2>2
<1>6. CASE ResolveEmbedder
  <2>1. /\ phase = "search" /\ stack # <<>> /\ top.next > Len(embedees)
        /\ ResolveSizeAndOffset(top.struct)
    BY <1>6 DEF ResolveEmbedder
  <2>2. top.struct \in Structs /\ Laid(top.struct)
    BY <2>1, Top, TopEmbedees DEF Laid
  <2> QED BY <1>4, <2>1, <2>2
<1>7. CASE LeavesResolved \/ EndSearch
  <2>1. phase \in {"leaves", "search"} /\ phase' \in {"search", "done"}
    BY <1>7 DEF LeavesResolved, EndSearch
  <2> QED BY <1>1, <2>1 DEF Stopped
<1>8. CASE StartSearch
  <2>1. phase' = phase
    BY <1>8 DEF StartSearch, Visit
  <2> QED BY <1>2, <2>1
<1>9. CASE VisitEmbedee
  <2>1. phase = "search"
    BY <1>9 DEF VisitEmbedee
  <2>2. CASE embedees[top.next] \in visited
    <3>1. phase' = "embed cycle" /\ (Cyclic \/ Shared)
      BY <1>9, <2>2, CycleFound DEF VisitEmbedee, Visit
    <3>2. ~ Unknown
      BY <2>1 DEF Stopped
    <3> QED BY <1>1, <3>1, <3>2 DEF Stopped
  <2>3. CASE embedees[top.next] \notin visited
    <3>1. phase' = phase
      BY <1>9, <2>3 DEF VisitEmbedee, Visit
    <3> QED BY <1>2, <3>1
  <2> QED BY <2>2, <2>3
<1>10. CASE UNCHANGED vars
  BY <1>2, <1>10 DEF vars
<1> QED BY <1>3, <1>5, <1>6, <1>7, <1>8, <1>9, <1>10 DEF Next

OInv == LInv /\ GraphOnce /\ SearchExact /\ Trees /\ HollowExact /\ Stopped

\* Whatever the program and whichever order the map gives the structs in: the layout is
\* stopped exactly when a name is unknown, a struct can be come to twice, or a field is
\* divided by whose alignment is 0.
THEOREM OutcomeAlwaysDetermined == Spec => []OutcomeIsDetermined
<1>1. Init => OInv
  <2> SUFFICES ASSUME Init PROVE OInv
    OBVIOUS
  <2>1. LInv
    BY EInit DEF LInv, LayoutsExact, LayoutsComplete, Init
  <2>2. GraphOnce /\ SearchExact /\ Trees /\ HollowExact /\ Stopped
    BY DEF Init, GraphOnce, SearchExact, Trees, HollowExact, Stopped
  <2> QED BY <2>1, <2>2 DEF OInv
<1>2. OInv /\ [Next]_vars => OInv'
  <2> SUFFICES ASSUME OInv, [Next]_vars PROVE OInv'
    OBVIOUS
  <2>1. LInv'
    BY EStep, LayoutsExactStep, LayoutsCompleteStep DEF OInv, LInv
  <2>2. GraphOnce' /\ SearchExact' /\ Trees' /\ HollowExact' /\ Stopped'
    BY GraphOnceStep, SearchStep, TreesStep, HollowExactStep, StoppedStep DEF OInv, LInv
  <2> QED BY <2>1, <2>2 DEF OInv
<1>3. OInv => OutcomeIsDetermined
  <2> SUFFICES ASSUME OInv, phase \in Ends PROVE OutcomeIsDetermined
    BY DEF OutcomeIsDetermined
  <2>1. CASE phase = "done"
    <3>1. \A s \in Structs : Tree(s) /\ ~ HollowIn(s)
      BY <2>1 DEF OInv, LInv, LayoutsComplete, Trees, HollowExact
    <3>2. ~ Cyclic /\ ~ Shared
      BY <3>1 DEF Tree, Cyclic, Shared, Reach
    <3>3. ~ Hollow
      BY <3>1 DEF Hollow, HollowIn, HollowField
    <3>4. ~ Unknown
      BY <2>1 DEF OInv, Stopped
    <3> QED BY <2>1, <3>2, <3>3, <3>4 DEF OutcomeIsDetermined
  <2>2. CASE phase \in {"unknown name", "embed cycle", "division by zero"}
    BY <2>2 DEF OInv, Stopped, OutcomeIsDetermined
  <2> QED BY <2>1, <2>2 DEF Ends
<1> QED BY <1>1, <1>2, <1>3, PTL DEF Spec

=============================================================================
