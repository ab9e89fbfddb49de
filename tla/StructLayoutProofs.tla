-------------------------- MODULE StructLayoutProofs --------------------------
(***************************************************************************)
(* Proofs about the layout of a struct, for every list of fields.          *)
(***************************************************************************)
EXTENDS StructLayout, TLAPS

-----------------------------------------------------------------------------
(* Remainders.                                                             *)

\* Division with remainder.
LEMMA Remainder ==
    ASSUME NEW n \in Nat, NEW a \in Nat \ {0}
    PROVE  /\ n % a \in 0 .. a - 1
           /\ n \div a \in Nat
           /\ n = a * (n \div a) + (n % a)
<1>1. n % a \in 0 .. a - 1
  OBVIOUS
<1>2. n \div a \in Nat
  OBVIOUS
<1>3. n = a * (n \div a) + (n % a)
  BY Z3
<1> QED BY <1>1, <1>2, <1>3

\* A multiple leaves no remainder.
LEMMA Multiple ==
    ASSUME NEW k \in Nat, NEW a \in Nat \ {0}
    PROVE  (a * k) % a = 0
OBVIOUS

\* What leaves no remainder is a multiple.
LEMMA Factor ==
    ASSUME NEW n \in Nat, NEW a \in Nat \ {0}, n % a = 0
    PROVE  n \div a \in Nat /\ n = a * (n \div a)
BY Remainder

\* Sums of multiples are multiples.
LEMMA SumOfMultiples ==
    ASSUME NEW n \in Nat, NEW m \in Nat, NEW a \in Nat \ {0}, n % a = 0, m % a = 0
    PROVE  (n + m) % a = 0
<1> DEFINE k == n \div a
           l == m \div a
<1>1. k \in Nat /\ l \in Nat /\ n = a * k /\ m = a * l
  BY Factor
<1> HIDE DEF k, l
<1>2. n + m = a * (k + l) /\ k + l \in Nat
  BY <1>1
<1> QED BY <1>2, Multiple

\* A multiple of a multiple is a multiple.
LEMMA MultipleOfMultiple ==
    ASSUME NEW n \in Nat, NEW b \in Nat \ {0}, NEW a \in Nat \ {0}, n % b = 0, b % a = 0
    PROVE  n % a = 0
<1> DEFINE k == n \div b
           l == b \div a
<1>1. k \in Nat /\ l \in Nat /\ n = b * k /\ b = a * l
  BY Factor
<1> HIDE DEF k, l
<1>2. l * k \in Nat /\ n = a * (l * k)
  <2>1. n = (a * l) * k
    BY <1>1
  <2>2. (a * l) * k = a * (l * k)
    BY <1>1
  <2> QED BY <1>1, <2>1, <2>2
<1> QED BY <1>2, Multiple

\* roundUp finds the closest multiple of the alignment from n on.
LEMMA RoundUp ==
    ASSUME NEW n \in Nat, NEW a \in Nat \ {0}
    PROVE  /\ roundUp(n, a) \in Nat /\ roundUp(n, a) % a = 0
           /\ n <= roundUp(n, a) /\ roundUp(n, a) < n + a
<1>1. n % a \in 0 .. a - 1 /\ n % a <= n
  <2>1. a * (n \div a) \in Nat
    <3> DEFINE k == n \div a
    <3>1. k \in Nat
      BY Remainder
    <3> HIDE DEF k
    <3>2. a * k \in Nat
      BY <3>1
    <3> QED BY <3>2 DEF k
  <2> QED BY <2>1, Remainder
<1>2. CASE n % a = 0
  BY <1>2 DEF roundUp
<1>3. CASE n % a # 0
  <2> DEFINE k == n \div a
  <2>1. k \in Nat /\ n = a * k + (n % a)
    BY Remainder
  <2> HIDE DEF k
  <2>2. n - (n % a) + a = a * (k + 1) /\ k + 1 \in Nat
    BY <1>1, <2>1
  <2>3. roundUp(n, a) = n - (n % a) + a
    BY <1>3 DEF roundUp
  <2>4. roundUp(n, a) % a = 0
    BY <2>2, <2>3, Multiple
  <2> QED BY <1>1, <1>3, <2>3, <2>4
<1> QED BY <1>2, <1>3

-----------------------------------------------------------------------------
(* The invariant.                                                          *)

\* The size is where the last field ends, until it is rounded up; the alignment
\* of the struct is the biggest one.
Ends ==
    /\ placed = 0 => layout.size = 0
    /\ \A i \in 1 .. placed : fields[i].alignment <= layout.alignment
    /\ status = "resolved" /\ fields # <<>> =>
          layout.alignment # 0 /\ layout.size % layout.alignment = 0

LInv == TypeOK /\ OffsetsAligned /\ FieldsDisjoint /\ Ends

\* What is known of a field.
LEMMA FieldType ==
    ASSUME TypeOK
    PROVE  /\ fields \in Seq([size : Nat, alignment : Nat]) /\ Len(fields) \in Nat
           /\ layout.offsets \in Seq(Nat) /\ placed \in Nat
           /\ \A i \in 1 .. Len(fields) : fields[i].size \in Nat /\ fields[i].alignment \in Nat
           /\ \A i \in 1 .. placed : layout.offsets[i] \in Nat
           /\ layout.size \in Nat /\ layout.alignment \in Nat
<1>1. fields \in Seq([size : Nat, alignment : Nat]) /\ layout.offsets \in Seq(Nat)
  BY FieldListsAssumption DEF TypeOK
<1>2. \A S : fields \in Seq(S) => Len(fields) \in Nat /\ \A i \in 1 .. Len(fields) : fields[i] \in S
  OBVIOUS
<1>3. Len(fields) \in Nat /\ \A i \in 1 .. Len(fields) : fields[i] \in [size : Nat, alignment : Nat]
  BY <1>1, <1>2
<1>4. layout.size \in Nat /\ layout.alignment \in Nat
  BY DEF TypeOK
<1>5. /\ placed \in Nat
      /\ \A i \in 1 .. placed : layout.offsets[i] \in Nat
  BY <1>1 DEF placed
<1>6. \A i \in 1 .. Len(fields) : fields[i].size \in Nat /\ fields[i].alignment \in Nat
  BY <1>3
<1> QED BY <1>1, <1>3, <1>4, <1>5, <1>6

\* A struct that has no field yet has no property to lose.
LEMMA LInvInit == Init => LInv
<1>1. SUFFICES ASSUME Init PROVE LInv
  OBVIOUS
<1>2. fields \in Seq([size : Nat, alignment : Nat]) /\ Len(fields) \in Nat
  BY <1>1, FieldListsAssumption DEF Init
<1>3. placed = 0 /\ layout.size = 0 /\ status = "placing"
  BY <1>1 DEF Init, placed, EmptyLayout
<1>4. layout \in [offsets : Seq(Nat), size : Nat, alignment : Nat]
  BY <1>1 DEF Init, EmptyLayout
<1>5. TypeOK
  BY <1>1, <1>2, <1>3, <1>4 DEF Init, TypeOK
<1> QED BY <1>3, <1>5 DEF LInv, OffsetsAligned, FieldsDisjoint, Ends

\* The next field starts behind the last one, at a multiple of its alignment.
LEMMA PlaceFieldStep == ASSUME LInv, PlaceField PROVE LInv'
<1> DEFINE field == fields[placed + 1]
           offset == IF layout.offsets = <<>> THEN 0 ELSE roundUp(layout.size, field.alignment)
<1>1. /\ status = "placing" /\ placed < Len(fields) /\ fields' = fields /\ TypeOK
      /\ placed \in Nat /\ Len(fields) \in Nat /\ placed + 1 \in 1 .. Len(fields)
      /\ field.size \in Nat /\ field.alignment \in Nat
      /\ layout.size \in Nat /\ layout.alignment \in Nat /\ layout.offsets \in Seq(Nat)
      /\ \A i \in 1 .. placed : /\ layout.offsets[i] \in Nat /\ i \in 1 .. Len(fields)
                               /\ fields[i].size \in Nat /\ fields[i].alignment \in Nat
  <2>1. status = "placing" /\ placed < Len(fields) /\ fields' = fields /\ TypeOK
    BY DEF PlaceField, LInv
  <2>2. placed \in Nat /\ Len(fields) \in Nat
    BY <2>1, FieldType
  <2>3. placed + 1 \in 1 .. Len(fields) /\ \A i \in 1 .. placed : i \in 1 .. Len(fields)
    BY <2>1, <2>2
  <2> QED BY <2>1, <2>2, <2>3, FieldType
<1> HIDE DEF field
<1>2. CASE ~ placeable(layout, field)
  <2>1. layout' = layout /\ status' = "panic"
    BY <1>2 DEF PlaceField, field
  <2> QED BY <1>1, <2>1 DEF LInv, TypeOK, OffsetsAligned, FieldsDisjoint, Ends, placed
<1>3. CASE placeable(layout, field)
  <2>1. layout' = placeField(layout, field) /\ status' = status
    BY <1>3 DEF PlaceField, field
  <2>2. /\ offset \in Nat /\ layout.size <= offset
        /\ field.alignment # 0 => offset % field.alignment = 0
    <3>1. CASE layout.offsets = <<>>
      <4>1. offset = 0 /\ layout.size = 0
        BY <3>1 DEF LInv, Ends, placed
      <4>2. \A a \in Nat \ {0} : 0 % a = 0
        BY Multiple
      <4> QED BY <1>1, <4>1, <4>2
    <3>2. CASE layout.offsets # <<>>
      <4>1. field.alignment \in Nat \ {0} /\ offset = roundUp(layout.size, field.alignment)
        BY <1>1, <1>3, <3>2 DEF placeable
      <4>2. layout.size \in Nat
        BY <1>1 DEF TypeOK
      <4> HIDE DEF offset
      <4>3. /\ roundUp(layout.size, field.alignment) \in Nat
            /\ roundUp(layout.size, field.alignment) % field.alignment = 0
            /\ layout.size <= roundUp(layout.size, field.alignment)
        BY <4>1, <4>2, RoundUp
      <4> QED BY <4>1, <4>3
    <3> QED BY <3>1, <3>2
  <2>3. /\ layout'.offsets = Append(layout.offsets, offset)
        /\ layout'.size = offset + field.size
        /\ layout'.alignment = IF field.alignment > layout.alignment
                               THEN field.alignment ELSE layout.alignment
        /\ layout' \in [offsets : Seq(Nat), size : Nat, alignment : Nat]
    BY <1>1, <2>1, <2>2 DEF placeField
  <2> HIDE DEF offset
  <2>4. /\ placed' = placed + 1
        /\ \A i \in 1 .. placed : layout'.offsets[i] = layout.offsets[i]
        /\ layout'.offsets[placed + 1] = offset
    BY <1>1, <2>2, <2>3 DEF placed
  <2>5. \A i \in 1 .. placed' : i \in 1 .. placed \/ i = placed + 1
    BY <1>1, <2>4
  <2>6. TypeOK'
    BY <1>1, <2>1, <2>3, <2>4 DEF TypeOK
  <2>7. OffsetsAligned'
    BY <1>1, <2>2, <2>4, <2>5 DEF LInv, OffsetsAligned, field
  <2>8. FieldsDisjoint'
    <3>1. \A i \in 1 .. placed : layout.offsets[i] + fields[i].size <= layout.size
      BY DEF LInv, FieldsDisjoint
    <3>2. ASSUME NEW i \in 1 .. placed
          PROVE  /\ layout.offsets[i] + fields[i].size <= offset
                 /\ layout.offsets[i] + fields[i].size <= offset + field.size
      <4>1. /\ layout.offsets[i] \in Nat /\ fields[i].size \in Nat
            /\ layout.offsets[i] + fields[i].size <= layout.size
        BY <1>1, <3>1
      <4>2. layout.size \in Nat /\ offset \in Nat /\ field.size \in Nat /\ layout.size <= offset
        BY <1>1, <2>2
      <4> QED BY <4>1, <4>2
    <3>3. ASSUME NEW i \in 1 .. placed'
          PROVE  layout'.offsets[i] + fields'[i].size <= layout'.size
      <4>1. CASE i \in 1 .. placed
        BY <1>1, <2>3, <2>4, <3>2, <4>1
      <4>2. CASE i = placed + 1
        <5>1. fields'[i] = field /\ layout'.offsets[i] = offset
          BY <1>1, <2>4, <4>2 DEF field
        <5>2. layout'.size = offset + field.size /\ offset + field.size <= offset + field.size
          BY <1>1, <2>2, <2>3
        <5> QED BY <5>1, <5>2
      <4> QED BY <2>5, <4>1, <4>2
    <3>4. ASSUME NEW i \in 1 .. placed', NEW j \in i + 1 .. placed'
          PROVE  layout'.offsets[i] + fields'[i].size <= layout'.offsets[j]
      <4>1. i \in 1 .. placed /\ (j \in i + 1 .. placed \/ j = placed + 1)
        BY <1>1, <2>4, <3>4
      <4>2. CASE j = placed + 1
        BY <1>1, <2>4, <3>2, <4>1, <4>2
      <4>3. CASE j \in i + 1 .. placed
        <5>1. j \in 1 .. placed
          BY <1>1, <4>1, <4>3
        <5> QED BY <1>1, <2>4, <4>1, <4>3, <5>1 DEF LInv, FieldsDisjoint
      <4> QED BY <4>1, <4>2, <4>3
    <3> QED BY <3>3, <3>4 DEF FieldsDisjoint
  <2>9. Ends'
    <3>1. \A i \in 1 .. placed' : fields[i].alignment <= layout'.alignment
      <4>1. \A i \in 1 .. placed : fields[i].alignment <= layout.alignment
        BY DEF LInv, Ends
      <4>2. layout.alignment <= layout'.alignment /\ field.alignment <= layout'.alignment
        BY <1>1, <2>3
      <4>3. layout'.alignment \in Nat
        BY <1>1, <2>3
      <4> QED BY <1>1, <2>5, <4>1, <4>2, <4>3 DEF field
    <3> QED BY <1>1, <2>1, <2>4, <3>1 DEF Ends
  <2> QED BY <2>6, <2>7, <2>8, <2>9 DEF LInv
<1> QED BY <1>2, <1>3

\* Rounding up the size moves no field.
LEMMA ResolveStep == ASSUME LInv, Resolve PROVE LInv'
<1>1. /\ placed = Len(fields) /\ fields' = fields /\ TypeOK /\ Len(fields) \in Nat
      /\ layout.size \in Nat /\ layout.alignment \in Nat
      /\ \A i \in 1 .. placed : layout.offsets[i] \in Nat /\ fields[i].size \in Nat
  BY FieldType DEF Resolve, LInv
<1>2. ASSUME layout' = layout, status' = "resolved" => fields = <<>>,
             status' \in {"resolved", "panic"}
      PROVE  LInv'
  BY <1>1, <1>2 DEF LInv, TypeOK, OffsetsAligned, FieldsDisjoint, Ends, placed
<1>3. CASE fields = <<>>
  BY <1>2, <1>3 DEF Resolve
<1>4. CASE fields # <<>> /\ ~ closeable(layout)
  BY <1>2, <1>4 DEF Resolve
<1>5. CASE fields # <<>> /\ closeable(layout)
  <2>1. layout' = closeLayout(layout) /\ status' = "resolved"
    BY <1>5 DEF Resolve
  <2>2. /\ layout'.offsets = layout.offsets /\ layout'.alignment = layout.alignment
        /\ layout'.size = roundUp(layout.size, layout.alignment)
    BY <1>1, <2>1 DEF closeLayout, LInv, TypeOK
  <2>3. /\ layout.alignment \in Nat \ {0} /\ layout'.size \in Nat /\ layout.size <= layout'.size
        /\ layout'.size % layout'.alignment = 0
    <3>1. layout.alignment \in Nat \ {0}
      BY <1>1, <1>5 DEF closeable
    <3> QED BY <1>1, <2>2, <3>1, RoundUp
  <2>4. placed' = placed
    BY <2>2 DEF placed
  <2>5. TypeOK'
    BY <1>1, <2>1, <2>2, <2>3, <2>4 DEF TypeOK, closeLayout
  <2>6. OffsetsAligned'
    BY <1>1, <2>2, <2>4 DEF LInv, OffsetsAligned
  <2>7. FieldsDisjoint'
    <3>1. \A i \in 1 .. placed : layout.offsets[i] + fields[i].size <= layout'.size
      BY <1>1, <2>3 DEF LInv, FieldsDisjoint
    <3> QED BY <1>1, <2>2, <2>4, <3>1 DEF LInv, FieldsDisjoint
  <2>8. Ends'
    BY <1>1, <1>5, <2>2, <2>3, <2>4 DEF LInv, Ends, placed
  <2> QED BY <2>5, <2>6, <2>7, <2>8 DEF LInv
<1> QED BY <1>3, <1>4, <1>5

\* The inductive invariant of the layout.
LEMMA LInvariance == Spec => []LInv
<1>1. LInv /\ UNCHANGED vars => LInv'
  BY DEF LInv, vars, TypeOK, OffsetsAligned, FieldsDisjoint, Ends, placed
<1>2. LInv /\ [Next]_vars => LInv'
  BY <1>1, PlaceFieldStep, ResolveStep DEF Next
<1> QED BY LInvInit, <1>2, PTL DEF Spec

\* The layout of a struct keeps its type.
THEOREM LayoutTypes == Spec => []TypeOK
BY LInvariance, PTL DEF LInv

\* Whatever the fields, each starts at a multiple of its alignment.
THEOREM OffsetsAlwaysAligned == Spec => []OffsetsAligned
BY LInvariance, PTL DEF LInv

\* Whatever the fields, they do not overlap and are inside of the struct.
THEOREM FieldsAlwaysDisjoint == Spec => []FieldsDisjoint
BY LInvariance, PTL DEF LInv

\* Whatever the fields, those whose alignment divides that of the struct are
\* aligned in every element of an array of the struct.
THEOREM ElementsAlwaysAligned == Spec => []ElementsAligned
<1>1. ASSUME LInv, status = "resolved", NEW i \in 1 .. placed
      PROVE  /\ fields[i].alignment <= layout.alignment
             /\ fields[i].alignment # 0 /\ layout.alignment % fields[i].alignment = 0 =>
                  (layout.size + layout.offsets[i]) % fields[i].alignment = 0
  <2>1. /\ layout.size \in Nat /\ layout.alignment \in Nat /\ layout.offsets[i] \in Nat
        /\ placed <= Len(fields) /\ placed \in Nat /\ Len(fields) \in Nat
        /\ \A j \in 1 .. Len(fields) : fields[j].alignment \in Nat
    BY <1>1, FieldType DEF LInv, TypeOK
  <2>2. i \in 1 .. Len(fields) /\ fields # <<>> /\ fields[i].alignment \in Nat
    BY <1>1, <2>1
  <2>3. layout.alignment # 0 /\ layout.size % layout.alignment = 0
    BY <1>1, <2>2 DEF LInv, Ends
  <2>4. ASSUME fields[i].alignment # 0, layout.alignment % fields[i].alignment = 0
        PROVE  (layout.size + layout.offsets[i]) % fields[i].alignment = 0
    <3>1. layout.size % fields[i].alignment = 0
      BY <2>1, <2>2, <2>3, <2>4, MultipleOfMultiple
    <3>2. layout.offsets[i] % fields[i].alignment = 0
      BY <1>1, <2>4 DEF LInv, OffsetsAligned
    <3> QED BY <2>1, <2>2, <2>4, <3>1, <3>2, SumOfMultiples
  <2> QED BY <1>1, <2>4 DEF LInv, Ends
<1>2. LInv => ElementsAligned
  BY <1>1 DEF ElementsAligned
<1> QED BY LInvariance, <1>2, PTL

=============================================================================
