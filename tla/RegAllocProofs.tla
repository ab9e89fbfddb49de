--------------------------- MODULE RegAllocProofs ---------------------------
(***************************************************************************)
(* The properties of RegAlloc, for any set of variables, sizes, registers  *)
(* and arguments.  The first part has lemmas about the operators of        *)
(* VarStorage, of any record g of the generator.  In the second, IInv is   *)
(* the inductive invariant: the bookkeeping is Good, slots may be handed   *)
(* out (only morphToState forbids it), and each variable with a value      *)
(* holds it.                                                               *)
(***************************************************************************)
EXTENDS RegAlloc, TLAPS, FiniteSetTheorems

-----------------------------------------------------------------------------
(* Lists, the scan for a victim, and the operators of VarStorage.          *)


\* Dropping one element of a list without repetitions removes that element
\* and no other.
LEMMA WithoutIndexProperties ==
    ASSUME NEW S, NEW s \in Seq(S), NEW i \in 1 .. Len(s),
           \A j, k \in 1 .. Len(s) : s[j] = s[k] => j = k
    PROVE  LET w == WithoutIndex(s, i) IN
           /\ w \in Seq(S)
           /\ Len(w) = Len(s) - 1
           /\ \A j, k \in 1 .. Len(w) : w[j] = w[k] => j = k
           /\ \A x : (\E j \in 1 .. Len(w) : w[j] = x)
                     <=> x # s[i] /\ \E j \in 1 .. Len(s) : s[j] = x
<1> DEFINE w == WithoutIndex(s, i)
<1> DEFINE n == Len(s) - 1
<1>1. /\ n \in Nat
      /\ w = [j \in 1 .. n |-> IF j < i THEN s[j] ELSE s[j + 1]]
  BY DEF WithoutIndex
<1>2. \A j \in 1 .. n : w[j] \in S
  BY <1>1
<1>3. w \in Seq(S) /\ Len(w) = n
  BY <1>1, <1>2
<1>4. ASSUME NEW j \in 1 .. n, NEW k \in 1 .. n, w[j] = w[k]
      PROVE  j = k
  BY <1>1, <1>4
<1>5. ASSUME NEW x
      PROVE  (\E j \in 1 .. n : w[j] = x)
             <=> x # s[i] /\ \E j \in 1 .. Len(s) : s[j] = x
  <2>1. ASSUME NEW j \in 1 .. n, w[j] = x
        PROVE  x # s[i] /\ \E k \in 1 .. Len(s) : s[k] = x
    BY <1>1, <2>1
  <2>2. ASSUME x # s[i], NEW k \in 1 .. Len(s), s[k] = x
        PROVE  \E j \in 1 .. n : w[j] = x
    <3>1. CASE k < i
      <4>1. k \in 1 .. n /\ w[k] = x
        BY <1>1, <2>2, <3>1
      <4> QED BY <4>1
    <3>2. CASE k > i
      <4>1. k - 1 \in 1 .. n /\ w[k - 1] = x
        BY <1>1, <2>2, <3>2
      <4> QED BY <4>1
    <3> QED BY <2>2, <3>1, <3>2
  <2> QED BY <2>1, <2>2
<1> QED BY <1>3, <1>4, <1>5

\* A set of natural numbers has a least element.
LEMMA LeastNatural ==
    ASSUME NEW T, T \subseteq Nat, T # {}
    PROVE  \E k \in T : \A j \in T : k <= j
<1> DEFINE Below(k) == {j \in T : j <= k}
<1> DEFINE F == {Below(k) : k \in T}
<1>0. \A k \in T : k \in Nat
  OBVIOUS
<1>1. F # {} /\ F \subseteq FiniteSubsetsOf(T)
  <2>1. ASSUME NEW k \in T PROVE IsFiniteSet(Below(k))
    <3>1. IsFiniteSet(0 .. k)
      BY FS_Interval
    <3>2. Below(k) \subseteq 0 .. k
      <4> SUFFICES ASSUME NEW j \in T, j <= k PROVE j \in 0 .. k
        BY Zenon
      <4>1. j \in Nat /\ k \in Nat
        BY <1>0
      <4> QED BY <4>1
    <3> QED BY <3>1, <3>2, FS_Subset
  <2> QED BY <2>1 DEF FiniteSubsetsOf
<1>2. PICK X \in F : \A Y \in F : ~ (<<Y, X>> \in StrictSubsetOrdering(T))
  BY <1>1, FS_StrictSubsetOrderingWellFounded, WFMin
<1>3. PICK k \in T : X = Below(k)
  OBVIOUS
<1>4. ASSUME NEW j \in T, ~ (k <= j)
      PROVE  FALSE
  <2>1. Below(j) \in F /\ Below(j) \subseteq T /\ X \subseteq T
    BY <1>3
  <2>2. Below(j) \subseteq X /\ k \in X /\ k \notin Below(j)
    <3>1. k \in Nat /\ j \in Nat /\ j < k
      BY <1>0, <1>4
    <3>2. \A h \in T : h <= j => h <= k
      BY <1>0, <3>1
    <3>3. k <= k /\ ~ (k <= j)
      BY <3>1
    <3>4. Below(j) \subseteq Below(k)
      BY <3>2, Zenon
    <3>5. k \in Below(k) /\ k \notin Below(j)
      BY <3>3, Zenon
    <3> QED BY <1>3, <3>4, <3>5
  <2>3. <<Below(j), X>> \in StrictSubsetOrdering(T)
    BY <2>1, <2>2 DEF StrictSubsetOrdering
  <2> QED BY <1>2, <2>1, <2>3
<1> QED BY <1>4

-----------------------------------------------------------------------------
(* Which fields the primitive operators touch.                             *)

\* The register tables of g and q are the same.
SameTables(g, q) ==
    /\ q.occupiedBy = g.occupiedBy
    /\ q.currentRegister = g.currentRegister
    /\ q.available = g.available

\* The run-time contents of g and q are the same.
SameMachine(g, q) == q.reg = g.reg /\ q.mem = g.mem

\* g and q lay out the stack alike.
SameSlots(g, q) ==
    q.rbpOffset = g.rbpOffset /\ q.currentFrameSize = g.currentFrameSize

\* The rest of the record is the same.
SameFlags(g, q) ==
    /\ q.decommissioned = g.decommissioned
    /\ q.noNewStackStorage = g.noNewStackStorage
    /\ q.dontSwap = g.dontSwap
    /\ q.nextRegToBeSwapped = g.nextRegToBeSwapped
    /\ q.panicked = g.panicked

\* changeRegisterBookKeeping writes the two tables and nothing else.
LEMMA ChangeFields ==
    ASSUME NEW g \in VarState, NEW v \in Vars, NEW r \in Registers
    PROVE  LET q == changeRegisterBookKeeping(g, v, r) IN
           /\ q \in VarState
           /\ q.occupiedBy = [g.occupiedBy EXCEPT ![r] = v]
           /\ q.currentRegister = [g.currentRegister EXCEPT ![v] = r]
           /\ q.available = g.available
           /\ SameMachine(g, q) /\ SameSlots(g, q) /\ SameFlags(g, q)
BY DEF changeRegisterBookKeeping, VarState, SameMachine, SameSlots, SameFlags

\* Taking a free register removes exactly that register from the list.
LEMMA AllocateFields ==
    ASSUME NEW g \in VarState, NEW v \in Vars, NEW r \in Registers,
           AvailableMatches(g), g.occupiedBy[r] = invalidVn
    PROVE  LET q == allocateRegToVar(g, r, v) IN
           /\ q \in VarState
           /\ q.occupiedBy = [g.occupiedBy EXCEPT ![r] = v]
           /\ q.currentRegister = [g.currentRegister EXCEPT ![v] = r]
           /\ AvailableMatches(q)
           /\ SameMachine(g, q) /\ SameSlots(g, q) /\ SameFlags(g, q)
<1> DEFINE i == CHOOSE i \in 1 .. Len(g.available) : g.available[i] = r
<1> DEFINE m == [g EXCEPT !.available = WithoutIndex(g.available, i)]
<1> DEFINE q == allocateRegToVar(g, r, v)
<1>1. ListedAvailable(g, r)
  BY DEF AvailableMatches
<1>2. i \in 1 .. Len(g.available) /\ g.available[i] = r
  BY <1>1 DEF ListedAvailable
<1>3. q = changeRegisterBookKeeping(m, v, r)
  BY <1>1 DEF allocateRegToVar
<1>4. g.available \in Seq(Registers)
  BY DEF VarState
<1> DEFINE w == WithoutIndex(g.available, i)
<1>5. /\ w \in Seq(Registers)
      /\ \A j, k \in 1 .. Len(w) : w[j] = w[k] => j = k
      /\ \A x : (\E j \in 1 .. Len(w) : w[j] = x)
                <=> x # g.available[i] /\ \E j \in 1 .. Len(g.available) : g.available[j] = x
  <2> HIDE DEF i, w
  <2>1. \A j, k \in 1 .. Len(g.available) : g.available[j] = g.available[k] => j = k
    BY DEF AvailableMatches
  <2> QED BY <1>2, <1>4, <2>1, WithoutIndexProperties DEF w
<1> HIDE DEF i
<1>6. /\ m \in VarState /\ m.available = w /\ m.occupiedBy = g.occupiedBy
      /\ m.currentRegister = g.currentRegister
      /\ SameMachine(g, m) /\ SameSlots(g, m) /\ SameFlags(g, m)
  <2> HIDE DEF w
  <2> QED BY <1>5 DEF VarState, SameMachine, SameSlots, SameFlags, w
<1> HIDE DEF m, w
<1>7. /\ q \in VarState
      /\ q.occupiedBy = [g.occupiedBy EXCEPT ![r] = v]
      /\ q.currentRegister = [g.currentRegister EXCEPT ![v] = r]
      /\ q.available = w
      /\ SameMachine(g, q) /\ SameSlots(g, q) /\ SameFlags(g, q)
  <2> DEFINE k == changeRegisterBookKeeping(m, v, r)
  <2>1. /\ k \in VarState
        /\ k.occupiedBy = [m.occupiedBy EXCEPT ![r] = v]
        /\ k.currentRegister = [m.currentRegister EXCEPT ![v] = r]
        /\ k.available = m.available
        /\ SameMachine(m, k) /\ SameSlots(m, k) /\ SameFlags(m, k)
    BY <1>6, ChangeFields
  <2> HIDE DEF k
  <2>2. SameMachine(g, k) /\ SameSlots(g, k) /\ SameFlags(g, k)
    BY <1>6, <2>1 DEF SameMachine, SameSlots, SameFlags
  <2>3. q = k
    BY <1>3 DEF k
  <2> QED BY <1>6, <2>1, <2>2, <2>3
<1> HIDE DEF q
<1>8. \A x \in Registers : ListedAvailable(q, x) <=> q.occupiedBy[x] = invalidVn
  <2> TAKE x \in Registers
  <2>1. ListedAvailable(q, x) <=> x # r /\ ListedAvailable(g, x)
    BY <1>2, <1>5, <1>7 DEF ListedAvailable
  <2>2. q.occupiedBy[x] = IF x = r THEN v ELSE g.occupiedBy[x]
    BY <1>7 DEF VarState
  <2> QED BY <2>1, <2>2, VarsAssumption DEF AvailableMatches
<1>9. AvailableMatches(q)
  BY <1>5, <1>7, <1>8 DEF AvailableMatches
<1> QED BY <1>7, <1>9 DEF q

\* Giving a register up puts it in the list and takes it from its tenant.
LEMMA ReleaseFields ==
    ASSUME NEW g \in VarState, NEW r \in Registers,
           AvailableMatches(g), g.occupiedBy[r] # invalidVn
    PROVE  LET q == releaseRegister(g, r) IN
           /\ q \in VarState
           /\ q.occupiedBy = [g.occupiedBy EXCEPT ![r] = invalidVn]
           /\ q.currentRegister = [v \in Vars |->
                 IF v = g.occupiedBy[r] THEN invalidRegister
                 ELSE g.currentRegister[v]]
           /\ AvailableMatches(q)
           /\ SameMachine(g, q) /\ SameSlots(g, q) /\ SameFlags(g, q)
<1> DEFINE q == releaseRegister(g, r)
<1>1. ~ ListedAvailable(g, r)
  BY DEF AvailableMatches
<1>2. /\ g.available \in Seq(Registers)
      /\ Append(g.available, r) \in Seq(Registers)
  BY DEF VarState
<1>3. /\ q \in VarState
      /\ q.occupiedBy = [g.occupiedBy EXCEPT ![r] = invalidVn]
      /\ q.currentRegister = [v \in Vars |->
            IF v = g.occupiedBy[r] THEN invalidRegister
            ELSE g.currentRegister[v]]
      /\ q.available = Append(g.available, r)
      /\ SameMachine(g, q) /\ SameSlots(g, q) /\ SameFlags(g, q)
  BY <1>1, <1>2 DEF releaseRegister, VarState, SameMachine, SameSlots, SameFlags
<1> HIDE DEF q
<1>4. /\ Len(q.available) = Len(g.available) + 1
      /\ \A j \in 1 .. Len(g.available) : q.available[j] = g.available[j]
      /\ q.available[Len(g.available) + 1] = r
  BY <1>2, <1>3
<1>5. Len(g.available) \in Nat
  BY <1>2
<1>6. \A x \in Registers : ListedAvailable(q, x) <=> x = r \/ ListedAvailable(g, x)
  BY <1>4, <1>5 DEF ListedAvailable
<1>7. \A x \in Registers : ListedAvailable(q, x) <=> q.occupiedBy[x] = invalidVn
  BY <1>3, <1>6 DEF AvailableMatches, VarState
<1>8. ASSUME NEW j \in 1 .. Len(q.available), NEW k \in 1 .. Len(q.available),
             q.available[j] = q.available[k]
      PROVE  j = k
  <2> DEFINE n == Len(g.available)
  <2>1. \A h \in 1 .. n : g.available[h] # r
    BY <1>1 DEF ListedAvailable
  <2>2. /\ j \in 1 .. n \/ j = n + 1
        /\ k \in 1 .. n \/ k = n + 1
    BY <1>4, <1>5
  <2>3. CASE j \in 1 .. n /\ k \in 1 .. n
    BY <1>4, <1>8, <2>3 DEF AvailableMatches
  <2>4. CASE j = n + 1 \/ k = n + 1
    BY <1>4, <1>5, <1>8, <2>1, <2>2, <2>4
  <2> QED BY <2>2, <2>3, <2>4
<1> QED BY <1>3, <1>7, <1>8 DEF AvailableMatches, q

\* mov between registers and the store to a slot touch the contents only.
LEMMA MovFields ==
    ASSUME NEW g \in VarState, NEW dst \in Registers, NEW src \in Registers
    PROVE  LET q == movRegReg(g, dst, src) IN
           /\ q \in VarState
           /\ SameTables(g, q) /\ SameSlots(g, q) /\ SameFlags(g, q)
           /\ q.reg = [g.reg EXCEPT ![dst] = g.reg[src]] /\ q.mem = g.mem
BY DEF movRegReg, VarState, SameTables, SameSlots, SameFlags

\* A store to the slot of v leaves the slots that do not overlap it alone.
LEMMA StoreFields ==
    ASSUME NEW g \in VarState, NEW v \in Vars, NEW x \in Content, SlotsApart(g)
    PROVE  LET q == storeToSlot(g, v, x) IN
           /\ q \in VarState
           /\ SameTables(g, q) /\ SameSlots(g, q) /\ SameFlags(g, q)
           /\ q.mem = [g.mem EXCEPT ![v] = x] /\ q.reg = g.reg
<1> DEFINE m == [w \in Vars |-> IF w = v THEN x
                               ELSE IF Overlap(g, v, w) THEN junk ELSE g.mem[w]]
<1> DEFINE q == storeToSlot(g, v, x)
<1>1. g.mem \in [Vars -> Content] /\ junk \in Content
  BY DEF VarState, Content
<1>2. \A w \in Vars : w # v => ~ Overlap(g, v, w)
  BY DEF SlotsApart
<1>3. m = [g.mem EXCEPT ![v] = x] /\ m \in [Vars -> Content]
  BY <1>1, <1>2
<1>4. q = [g EXCEPT !.mem = m]
  BY DEF storeToSlot
<1> HIDE DEF m, q
<1> QED
  BY <1>3, <1>4 DEF VarState, SameTables, SameSlots, SameFlags, q

\* Filling a register from the slot of its tenant.
LEMMA FillFields ==
    ASSUME NEW g \in VarState, NEW v \in Vars, inRegister(g, v)
    PROVE  LET q == fill(g, v) IN
           /\ q \in VarState
           /\ SameTables(g, q) /\ SameSlots(g, q) /\ SameFlags(g, q)
           /\ q.reg = [g.reg EXCEPT ![g.currentRegister[v]] = g.mem[v]]
           /\ q.mem = g.mem
BY DEF fill, inRegister, VarState, SameTables, SameSlots, SameFlags

-----------------------------------------------------------------------------
(* The invariant of the bookkeeping, and what a function that only moves   *)
(* variables around owes its caller.                                       *)

Good(g) ==
    /\ g \in VarState
    /\ ~ g.panicked
    /\ RegistersMatch(g) /\ AvailableMatches(g) /\ SlotsApart(g)
    /\ \A v \in g.decommissioned : ~ Stored(g, v)
    /\ \A v \in Vars : inRegister(g, v) => varPerfectRegSize(v)

\* Slots that q has and g has not lie beyond the frame of g.
Grows(g, q) ==
    /\ g.currentFrameSize <= q.currentFrameSize
    /\ \A v \in Vars : ~ hasStackStorage(g, v) /\ hasStackStorage(q, v) =>
          g.currentFrameSize <= q.rbpOffset[v] - SizeOf[v]

\* q keeps every slot where it is, and every stored variable has in q the
\* value it has in g.
Extends(g, q) ==
    /\ q.decommissioned = g.decommissioned
    /\ q.noNewStackStorage = g.noNewStackStorage
    /\ Grows(g, q)
    /\ \A v \in Vars : hasStackStorage(g, v) => q.rbpOffset[v] = g.rbpOffset[v]
    /\ \A v \in Vars : Stored(g, v) =>
          Stored(q, v) /\ ReadVar(q, v) = ReadVar(g, v)

LEMMA SameSlotsGrow ==
    ASSUME NEW g \in VarState, NEW q, SameSlots(g, q)
    PROVE  Grows(g, q)
BY DEF Grows, SameSlots, VarState, hasStackStorage

LEMMA GrowsTransitive ==
    ASSUME NEW g \in VarState, NEW q \in VarState, NEW r \in VarState,
           Grows(g, q), Grows(q, r),
           \A v \in Vars : hasStackStorage(q, v) /\ hasStackStorage(r, v) =>
              r.rbpOffset[v] = q.rbpOffset[v]
    PROVE  Grows(g, r)
<1>1. /\ g.currentFrameSize \in Nat /\ q.currentFrameSize \in Nat
      /\ r.currentFrameSize \in Nat
      /\ \A v \in Vars : /\ q.rbpOffset[v] \in Int /\ r.rbpOffset[v] \in Int
                        /\ SizeOf[v] \in Nat
  BY SizeAssumption DEF VarState
<1>2. g.currentFrameSize <= r.currentFrameSize
  BY <1>1 DEF Grows
<1>3. ASSUME NEW v \in Vars, ~ hasStackStorage(g, v), hasStackStorage(r, v)
      PROVE  g.currentFrameSize <= r.rbpOffset[v] - SizeOf[v]
  <2>1. CASE hasStackStorage(q, v)
    BY <1>3, <2>1 DEF Grows
  <2>2. CASE ~ hasStackStorage(q, v)
    <3>1. q.currentFrameSize <= r.rbpOffset[v] - SizeOf[v]
      BY <1>3, <2>2 DEF Grows
    <3>2. g.currentFrameSize <= q.currentFrameSize
      BY DEF Grows
    <3> QED BY <1>1, <3>1, <3>2
  <2> QED BY <2>1, <2>2
<1> QED BY <1>2, <1>3 DEF Grows

LEMMA ExtendsReflexive ==
    ASSUME NEW g, Good(g)
    PROVE  Extends(g, g)
<1>1. g \in VarState /\ SameSlots(g, g)
  BY DEF Good, SameSlots
<1> QED BY <1>1, SameSlotsGrow DEF Extends

LEMMA ExtendsTransitive ==
    ASSUME NEW g, NEW q, NEW r, Good(g), Good(q), Good(r), Extends(g, q), Extends(q, r)
    PROVE  Extends(g, r)
<1>1. Grows(g, r)
  BY GrowsTransitive DEF Extends, Good
<1> QED BY <1>1 DEF Extends, hasStackStorage

\* Handing out a slot leaves all the others apart.
LEMMA EnsureSlot ==
    ASSUME NEW g, Good(g), NEW v \in Vars, v \notin g.decommissioned
    PROVE  LET q == ensureStackOffsetValid(g, v) IN
           /\ Good(q) /\ Extends(g, q)
           /\ hasStackStorage(q, v)
           /\ SameTables(g, q) /\ SameMachine(g, q) /\ SameFlags(g, q)
<1> DEFINE q == ensureStackOffsetValid(g, v)
<1>1. CASE hasStackStorage(g, v)
  BY <1>1, ExtendsReflexive
     DEF ensureStackOffsetValid, SameTables, SameMachine, SameFlags
<1>2. CASE ~ hasStackStorage(g, v)
  <2> DEFINE top == g.currentFrameSize + SizeOf[v]
  <2>1. /\ g \in VarState
        /\ g.currentFrameSize \in Nat /\ g.rbpOffset \in [Vars -> Int]
        /\ g.decommissioned \subseteq Vars
    BY DEF Good, VarState
  <2>2. SizeOf[v] \in Nat \ {0} /\ top \in Nat /\ top > g.currentFrameSize
    BY <2>1, SizeAssumption
  <2>3. /\ q \in VarState
        /\ q.rbpOffset = [g.rbpOffset EXCEPT ![v] = top]
        /\ q.currentFrameSize = top
        /\ SameTables(g, q) /\ SameMachine(g, q) /\ SameFlags(g, q)
    <3> DEFINE f == [g.rbpOffset EXCEPT ![v] = top]
    <3> HIDE DEF top
    <3>1. q = [g EXCEPT !.currentFrameSize = top, !.rbpOffset = f]
      BY <1>2, <2>1 DEF ensureStackOffsetValid, top
    <3>2. f \in [Vars -> Int]
      BY <2>1, <2>2
    <3> HIDE DEF q
    <3> QED BY <2>1, <2>2, <3>1, <3>2 DEF VarState, SameTables, SameMachine, SameFlags
  <2> HIDE DEF q
  <2>4. SlotsApart(q)
    <3>1. \A w \in Vars : w # v => q.rbpOffset[w] = g.rbpOffset[w]
      BY <2>1, <2>3
    <3>2. q.rbpOffset[v] = top
      BY <2>1, <2>3
    <3>3. ASSUME NEW w \in Vars, w # v
          PROVE  ~ Overlap(q, v, w) /\ ~ Overlap(q, w, v)
      <4>1. q.rbpOffset[w] <= g.currentFrameSize
        BY <2>1, <3>1, <3>3 DEF Good, SlotsApart
      <4> QED BY <2>1, <2>2, <3>1, <3>2, <3>3, <4>1 DEF Overlap
    <3>4. ASSUME NEW w \in Vars, NEW u \in Vars, w # u, w # v, u # v
          PROVE  ~ Overlap(q, w, u)
      BY <3>1, <3>4 DEF Good, SlotsApart, Overlap, hasStackStorage
    <3>5. ASSUME NEW w \in Vars, q.rbpOffset[w] > 0
          PROVE  SizeOf[w] <= q.rbpOffset[w] /\ q.rbpOffset[w] <= q.currentFrameSize
      <4>1. CASE w = v
        BY <2>1, <2>2, <2>3, <3>2, <4>1
      <4>2. CASE w # v
        BY <2>1, <2>2, <2>3, <3>1, <3>5, <4>2 DEF Good, SlotsApart
      <4> QED BY <4>1, <4>2
    <3> QED BY <3>3, <3>4, <3>5 DEF SlotsApart
  <2>5. hasStackStorage(q, v)
    BY <2>1, <2>2, <2>3 DEF hasStackStorage
  <2>6. Good(q)
    BY <2>1, <2>3, <2>4 DEF Good, SameTables, SameFlags, RegistersMatch,
       AvailableMatches, ListedAvailable, Stored, inRegister, hasStackStorage
  <2>7. Grows(g, q)
    <3>1. \A w \in Vars : w # v => q.rbpOffset[w] = g.rbpOffset[w]
      BY <2>1, <2>3
    <3>2. q.rbpOffset[v] - SizeOf[v] = g.currentFrameSize
      BY <2>1, <2>2, <2>3
    <3> QED BY <2>1, <2>2, <2>3, <3>1, <3>2 DEF Grows, hasStackStorage
  <2>8. Extends(g, q)
    BY <1>2, <2>1, <2>3, <2>7 DEF Extends, SameTables, SameMachine, SameFlags,
       Stored, inRegister, hasStackStorage, ReadVar
  <2> QED BY <2>3, <2>5, <2>6, <2>8 DEF q
<1> QED BY <1>1, <1>2

-----------------------------------------------------------------------------
(* loadRegisterWithVar.                                                    *)

\* What loadRegisterWithVar(r, v) owes its caller: v is in r, the tenants of
\* other registers stay where they are, when r was free nobody else moves, and
\* when v was in a register no other register is taken.  Only a tenant that no
\* register can be found for may get a slot.
Loaded(g, q, r, v) ==
    /\ Good(q) /\ Extends(g, q)
    /\ q.currentRegister[v] = r
    /\ q.dontSwap = g.dontSwap /\ q.nextRegToBeSwapped = g.nextRegToBeSwapped
    /\ \A s \in Registers : s # r /\ g.occupiedBy[s] \notin {invalidVn, v}
          => q.occupiedBy[s] = g.occupiedBy[s]
    /\ g.occupiedBy[r] = invalidVn =>
          \A s \in Registers : s # r /\ g.occupiedBy[s] \in {invalidVn, v}
             => q.occupiedBy[s] = invalidVn
    /\ inRegister(g, v) =>
          \A s \in Registers : s # r /\ g.occupiedBy[s] = invalidVn
             => q.occupiedBy[s] = invalidVn
    /\ inRegister(g, v) \/ g.occupiedBy[r] = invalidVn => SameSlots(g, q)
    /\ \A w \in Vars : inRegister(q, w) => w = v \/ inRegister(g, w)
    /\ \A w \in Vars : w # g.occupiedBy[r] => q.mem[w] = g.mem[w]

\* Registers are numbers from 0, so invalidRegister is none of them.
LEMMA RegistersFacts ==
    /\ \A r \in Registers : r # invalidRegister /\ r \in Int
    /\ \A g \in VarState, v \in Vars :
          inRegister(g, v) => g.currentRegister[v] \in Registers
BY RegistersAssumption DEF Registers, invalidRegister, inRegister, VarState

\* Reads of a good record have a value or junk, and each tenant is in its
\* register.
LEMMA GoodFacts ==
    ASSUME NEW g, Good(g)
    PROVE  /\ g \in VarState
           /\ g.currentRegister \in [Vars -> Registers \cup {invalidRegister}]
           /\ g.occupiedBy \in [Registers -> Vars \cup {invalidVn}]
           /\ g.rbpOffset \in [Vars -> Int]
           /\ g.reg \in [Registers -> Content]
           /\ g.mem \in [Vars -> Content]
           /\ \A r \in Registers, v \in Vars :
                 g.occupiedBy[r] = v <=> g.currentRegister[v] = r
           /\ \A r \in Registers : g.occupiedBy[r] # invalidVn =>
                 /\ g.occupiedBy[r] \in Vars
                 /\ inRegister(g, g.occupiedBy[r])
                 /\ g.occupiedBy[r] \notin g.decommissioned
                 /\ varPerfectRegSize(g.occupiedBy[r])
<1>1. /\ g \in VarState
      /\ g.currentRegister \in [Vars -> Registers \cup {invalidRegister}]
      /\ g.occupiedBy \in [Registers -> Vars \cup {invalidVn}]
      /\ g.rbpOffset \in [Vars -> Int]
      /\ g.reg \in [Registers -> Content]
      /\ g.mem \in [Vars -> Content]
  BY DEF Good, VarState
<1>2. \A r \in Registers, v \in Vars :
         g.occupiedBy[r] = v <=> g.currentRegister[v] = r
  BY DEF Good, RegistersMatch
<1>3. ASSUME NEW r \in Registers, g.occupiedBy[r] # invalidVn
      PROVE  /\ g.occupiedBy[r] \in Vars
             /\ inRegister(g, g.occupiedBy[r])
             /\ g.occupiedBy[r] \notin g.decommissioned
             /\ varPerfectRegSize(g.occupiedBy[r])
  <2>1. g.occupiedBy[r] \in Vars
    BY <1>1, <1>3
  <2>2. inRegister(g, g.occupiedBy[r])
    BY <1>2, <2>1, RegistersFacts DEF inRegister
  <2> QED BY <2>1, <2>2 DEF Good, Stored
<1> QED BY <1>1, <1>2, <1>3

\* The register is free and v is not in a register.
LEMMA LoadFromStack ==
    ASSUME NEW g, Good(g), NEW r \in Registers, NEW v \in Vars,
           v \notin g.decommissioned, varPerfectRegSize(v),
           g.occupiedBy[r] = invalidVn, ~ inRegister(g, v)
    PROVE  Loaded(g, loadIntoFree(g, r, v), r, v)
<1> DEFINE m == allocateRegToVar(g, r, v)
<1> DEFINE q == loadIntoFree(g, r, v)
<1>1. /\ g \in VarState /\ AvailableMatches(g) /\ SlotsApart(g) /\ ~ g.panicked
      /\ g.decommissioned \subseteq Vars
      /\ g.reg \in [Registers -> Content]
      /\ g.currentRegister \in [Vars -> Registers \cup {invalidRegister}]
      /\ g.occupiedBy \in [Registers -> Vars \cup {invalidVn}]
  BY GoodFacts DEF Good, VarState
<1>2. /\ m \in VarState /\ AvailableMatches(m)
      /\ m.occupiedBy = [g.occupiedBy EXCEPT ![r] = v]
      /\ m.currentRegister = [g.currentRegister EXCEPT ![v] = r]
      /\ SameMachine(g, m) /\ SameSlots(g, m) /\ SameFlags(g, m)
  BY <1>1, AllocateFields
<1>3. q = IF hasStackStorage(g, v) THEN fill(m, v) ELSE m
  BY <1>1, <1>2 DEF loadIntoFree, SameFlags
<1> HIDE DEF m, q
<1>4. m.currentRegister[v] = r /\ inRegister(m, v)
  BY <1>1, <1>2, RegistersFacts DEF inRegister
<1>5. /\ q \in VarState /\ SameTables(m, q) /\ SameSlots(m, q) /\ SameFlags(m, q)
      /\ q.mem = g.mem
      /\ q.reg = IF hasStackStorage(g, v) THEN [g.reg EXCEPT ![r] = g.mem[v]]
                 ELSE g.reg
  <2>1. CASE hasStackStorage(g, v)
    <3>1. q = fill(m, v)
      BY <1>3, <2>1
    <3>2. /\ q \in VarState
          /\ SameTables(m, q) /\ SameSlots(m, q) /\ SameFlags(m, q)
          /\ q.reg = [m.reg EXCEPT ![m.currentRegister[v]] = m.mem[v]]
          /\ q.mem = m.mem
      BY <1>2, <1>4, <3>1, FillFields
    <3> QED BY <1>2, <1>4, <2>1, <3>2 DEF SameMachine
  <2>2. CASE ~ hasStackStorage(g, v)
    BY <1>2, <1>3, <2>2 DEF SameTables, SameSlots, SameFlags, SameMachine
  <2> QED BY <2>1, <2>2
<1>6. /\ q.occupiedBy = [g.occupiedBy EXCEPT ![r] = v]
      /\ q.currentRegister = [g.currentRegister EXCEPT ![v] = r]
      /\ SameSlots(g, q) /\ SameFlags(g, q)
  BY <1>2, <1>5 DEF SameTables, SameSlots, SameFlags
<1>7. AvailableMatches(q)
  BY <1>2, <1>5 DEF AvailableMatches, ListedAvailable, SameTables
<1>8. SlotsApart(q)
  BY <1>1, <1>6 DEF SlotsApart, Overlap, hasStackStorage, SameSlots
<1>9. RegistersMatch(q)
  <2> SUFFICES ASSUME NEW s \in Registers, NEW w \in Vars
               PROVE  q.occupiedBy[s] = w <=> q.currentRegister[w] = s
    BY DEF RegistersMatch
  <2>1. q.occupiedBy[s] = IF s = r THEN v ELSE g.occupiedBy[s]
    BY <1>1, <1>6
  <2>2. q.currentRegister[w] = IF w = v THEN r ELSE g.currentRegister[w]
    BY <1>1, <1>6
  <2>3. g.occupiedBy[s] = w <=> g.currentRegister[w] = s
    BY DEF Good, RegistersMatch
  <2>4. g.currentRegister[v] # s /\ g.currentRegister[w] # r
    BY VarsAssumption, RegistersFacts DEF Good, RegistersMatch, inRegister
  <2> QED BY <2>1, <2>2, <2>3, <2>4
<1>10. \A w \in Vars : w # v =>
          /\ inRegister(q, w) <=> inRegister(g, w)
          /\ q.currentRegister[w] = g.currentRegister[w]
          /\ Stored(q, w) <=> Stored(g, w)
  BY <1>1, <1>6 DEF Stored, inRegister, hasStackStorage, SameSlots
<1>11. Good(q)
  <2>1. \A w \in q.decommissioned : ~ Stored(q, w)
    BY <1>1, <1>6, <1>10 DEF Good, SameFlags
  <2>2. \A w \in Vars : inRegister(q, w) => varPerfectRegSize(w)
    BY <1>10 DEF Good
  <2> QED BY <1>5, <1>6, <1>7, <1>8, <1>9, <2>1, <2>2 DEF Good, SameFlags
<1>12. Extends(g, q)
  <2> SUFFICES ASSUME NEW w \in Vars, Stored(g, w)
               PROVE  Stored(q, w) /\ ReadVar(q, w) = ReadVar(g, w)
    BY <1>1, <1>6, SameSlotsGrow DEF Extends, SameSlots, SameFlags
  <2>1. CASE w = v
    BY <1>1, <1>4, <1>5, <2>1 DEF Stored, ReadVar, inRegister, SameTables
  <2>2. CASE w # v
    <3>1. inRegister(g, w) => g.currentRegister[w] \in Registers \ {r}
      BY <1>1, VarsAssumption, RegistersFacts DEF Good, RegistersMatch
    <3> QED BY <1>1, <1>5, <1>10, <2>2, <3>1 DEF ReadVar
  <2> QED BY <2>1, <2>2
<1>13. q.currentRegister[v] = r
  BY <1>1, <1>6
<1>14. \A s \in Registers : s # r => g.occupiedBy[s] # v /\ q.occupiedBy[s] = g.occupiedBy[s]
  BY <1>1, <1>6, RegistersFacts DEF Good, RegistersMatch, inRegister
<1> QED BY <1>5, <1>6, <1>10, <1>11, <1>12, <1>13, <1>14 DEF Loaded, SameFlags, q

\* The register is free and v comes from another register.
LEMMA LoadFromRegister ==
    ASSUME NEW g, Good(g), NEW r \in Registers, NEW v \in Vars,
           g.occupiedBy[r] = invalidVn, inRegister(g, v)
    PROVE  Loaded(g, loadIntoFree(g, r, v), r, v)
<1> DEFINE old == g.currentRegister[v]
<1> DEFINE m == movRegReg(g, r, old)
<1> DEFINE n == releaseRegister(m, old)
<1> DEFINE q == allocateRegToVar(n, r, v)
<1>1. /\ g \in VarState /\ AvailableMatches(g) /\ SlotsApart(g) /\ RegistersMatch(g)
      /\ g.decommissioned \subseteq Vars
      /\ g.reg \in [Registers -> Content]
      /\ g.currentRegister \in [Vars -> Registers \cup {invalidRegister}]
      /\ g.occupiedBy \in [Registers -> Vars \cup {invalidVn}]
  BY GoodFacts DEF Good, VarState
<1>2. old \in Registers /\ g.occupiedBy[old] = v /\ old # r
  BY <1>1, RegistersFacts, VarsAssumption DEF RegistersMatch
<1>3. loadIntoFree(g, r, v) = q
  BY DEF loadIntoFree
<1> HIDE DEF old
<1>4. /\ m \in VarState /\ SameTables(g, m) /\ SameSlots(g, m) /\ SameFlags(g, m)
      /\ m.reg = [g.reg EXCEPT ![r] = g.reg[old]] /\ m.mem = g.mem
  BY <1>1, <1>2, MovFields
<1> HIDE DEF m
<1>5. AvailableMatches(m)
  BY <1>1, <1>4 DEF AvailableMatches, ListedAvailable, SameTables
<1>6. /\ n \in VarState /\ AvailableMatches(n)
      /\ n.occupiedBy = [m.occupiedBy EXCEPT ![old] = invalidVn]
      /\ n.currentRegister = [w \in Vars |->
            IF w = m.occupiedBy[old] THEN invalidRegister ELSE m.currentRegister[w]]
      /\ SameMachine(m, n) /\ SameSlots(m, n) /\ SameFlags(m, n)
  BY <1>2, <1>4, <1>5, VarsAssumption, ReleaseFields DEF SameTables
<1> HIDE DEF n
<1>7. n.occupiedBy[r] = invalidVn
  BY <1>1, <1>2, <1>4, <1>6 DEF SameTables
<1>8. /\ q \in VarState /\ AvailableMatches(q)
      /\ q.occupiedBy = [n.occupiedBy EXCEPT ![r] = v]
      /\ q.currentRegister = [n.currentRegister EXCEPT ![v] = r]
      /\ SameMachine(n, q) /\ SameSlots(n, q) /\ SameFlags(n, q)
  <2>1. n \in VarState /\ AvailableMatches(n)
    BY <1>6
  <2> QED BY <2>1, <1>7, AllocateFields
<1> HIDE DEF q
<1>9. /\ \A s \in Registers : q.occupiedBy[s] =
            IF s = r THEN v ELSE IF s = old THEN invalidVn ELSE g.occupiedBy[s]
      /\ \A w \in Vars : q.currentRegister[w] =
            IF w = v THEN r ELSE g.currentRegister[w]
  <2>1. /\ n.occupiedBy = [g.occupiedBy EXCEPT ![old] = invalidVn]
        /\ n.currentRegister = [w \in Vars |->
              IF w = v THEN invalidRegister ELSE g.currentRegister[w]]
    BY <1>2, <1>4, <1>6 DEF SameTables
  <2>2. q.occupiedBy = [[g.occupiedBy EXCEPT ![old] = invalidVn] EXCEPT ![r] = v]
    BY <1>8, <2>1
  <2>3. \A w \in Vars : q.currentRegister[w] =
            IF w = v THEN r ELSE g.currentRegister[w]
    BY <1>8, <2>1
  <2> QED BY <1>1, <1>2, <2>2, <2>3
<1>10. /\ q.reg = [g.reg EXCEPT ![r] = g.reg[old]] /\ q.mem = g.mem
       /\ SameSlots(g, q) /\ SameFlags(g, q)
  BY <1>4, <1>6, <1>8 DEF SameMachine, SameSlots, SameFlags
<1>11. RegistersMatch(q)
  BY <1>1, <1>2, <1>9, VarsAssumption DEF RegistersMatch
<1>12. SlotsApart(q)
  BY <1>1, <1>10 DEF SlotsApart, Overlap, hasStackStorage, SameSlots
<1>13. \A w \in Vars :
          /\ inRegister(q, w) <=> inRegister(g, w)
          /\ Stored(q, w) <=> Stored(g, w)
  BY <1>9, <1>10, RegistersFacts DEF Stored, inRegister, hasStackStorage, SameSlots
<1>14. Good(q)
  <2>1. \A w \in q.decommissioned : ~ Stored(q, w)
    BY <1>1, <1>10, <1>13 DEF Good, SameFlags
  <2> QED BY <1>8, <1>10, <1>11, <1>12, <1>13, <2>1 DEF Good, SameFlags
<1>15. Extends(g, q)
  <2> SUFFICES ASSUME NEW w \in Vars PROVE ReadVar(q, w) = ReadVar(g, w)
    BY <1>1, <1>10, <1>13, SameSlotsGrow DEF Extends, SameSlots, SameFlags
  <2>1. CASE w = v
    BY <1>1, <1>2, <1>9, <1>10, <1>13, <2>1 DEF ReadVar, old
  <2>2. CASE w # v
    <3>1. inRegister(g, w) => g.currentRegister[w] \in Registers \ {r}
      BY <1>1, VarsAssumption, RegistersFacts DEF RegistersMatch
    <3> QED BY <1>1, <1>9, <1>10, <1>13, <2>2, <3>1 DEF ReadVar
  <2> QED BY <2>1, <2>2
<1> QED
  BY <1>1, <1>2, <1>3, <1>9, <1>10, <1>13, <1>14, <1>15 DEF Loaded, SameFlags, RegistersMatch

\* Both v and the tenant of r are in registers.
LEMMA LoadByExchange ==
    ASSUME NEW g, Good(g), NEW r \in Registers, NEW v \in Vars,
           g.occupiedBy[r] # invalidVn, g.occupiedBy[r] # v, inRegister(g, v)
    PROVE  Loaded(g, exchange(g, r, v), r, v)
<1> DEFINE tenant == g.occupiedBy[r]
<1> DEFINE old == g.currentRegister[v]
<1> DEFINE m == [g EXCEPT !.reg[r] = g.reg[old], !.reg[old] = g.reg[r]]
<1> DEFINE n == changeRegisterBookKeeping(m, tenant, old)
<1> DEFINE q == changeRegisterBookKeeping(n, v, r)
<1>1. /\ g \in VarState /\ AvailableMatches(g) /\ SlotsApart(g) /\ RegistersMatch(g)
      /\ g.decommissioned \subseteq Vars
      /\ g.reg \in [Registers -> Content]
      /\ g.currentRegister \in [Vars -> Registers \cup {invalidRegister}]
      /\ g.occupiedBy \in [Registers -> Vars \cup {invalidVn}]
  BY GoodFacts DEF Good, VarState
<1>2. /\ old \in Registers /\ g.occupiedBy[old] = v /\ old # r
      /\ tenant \in Vars /\ g.currentRegister[tenant] = r /\ tenant # v
  BY <1>1, RegistersFacts DEF RegistersMatch
<1>3. exchange(g, r, v) = q
  BY DEF exchange
<1>4. /\ m \in VarState /\ SameTables(g, m) /\ SameSlots(g, m) /\ SameFlags(g, m)
      /\ m.reg = [g.reg EXCEPT ![r] = g.reg[old], ![old] = g.reg[r]]
      /\ m.mem = g.mem
  <2> DEFINE f == [g.reg EXCEPT ![r] = g.reg[old], ![old] = g.reg[r]]
  <2> HIDE DEF old
  <2>1. f \in [Registers -> Content]
    BY <1>1, <1>2
  <2>2. m = [g EXCEPT !.reg = f]
    BY <1>1
  <2> HIDE DEF f, m
  <2>3. /\ m \in VarState /\ SameTables(g, m) /\ SameSlots(g, m) /\ SameFlags(g, m)
        /\ m.reg = f /\ m.mem = g.mem
    BY <1>1, <2>1, <2>2 DEF VarState, SameTables, SameSlots, SameFlags
  <2> QED BY <2>3 DEF f
<1> HIDE DEF m, old, tenant
<1>5. /\ n \in VarState
      /\ n.occupiedBy = [m.occupiedBy EXCEPT ![old] = tenant]
      /\ n.currentRegister = [m.currentRegister EXCEPT ![tenant] = old]
      /\ n.available = m.available
      /\ SameMachine(m, n) /\ SameSlots(m, n) /\ SameFlags(m, n)
  BY <1>2, <1>4, ChangeFields
<1> HIDE DEF n
<1>6. /\ q \in VarState
      /\ q.occupiedBy = [n.occupiedBy EXCEPT ![r] = v]
      /\ q.currentRegister = [n.currentRegister EXCEPT ![v] = r]
      /\ q.available = n.available
      /\ SameMachine(n, q) /\ SameSlots(n, q) /\ SameFlags(n, q)
  BY <1>5, ChangeFields
<1> HIDE DEF q
<1>7. /\ \A s \in Registers : q.occupiedBy[s] =
            IF s = r THEN v ELSE IF s = old THEN tenant ELSE g.occupiedBy[s]
      /\ \A w \in Vars : q.currentRegister[w] =
            IF w = v THEN r ELSE IF w = tenant THEN old ELSE g.currentRegister[w]
      /\ q.available = g.available
  BY <1>1, <1>2, <1>4, <1>5, <1>6 DEF SameTables
<1>8. /\ \A s \in Registers : q.reg[s] =
            IF s = old THEN g.reg[r] ELSE IF s = r THEN g.reg[old] ELSE g.reg[s]
      /\ q.mem = g.mem /\ SameSlots(g, q) /\ SameFlags(g, q)
  BY <1>1, <1>2, <1>4, <1>5, <1>6 DEF SameMachine, SameSlots, SameFlags
<1>9. RegistersMatch(q)
  BY <1>1, <1>2, <1>7 DEF RegistersMatch
<1>10. AvailableMatches(q)
  <2>1. \A s \in Registers : q.occupiedBy[s] = invalidVn <=> g.occupiedBy[s] = invalidVn
    BY <1>1, <1>2, <1>7, VarsAssumption DEF tenant
  <2> QED BY <1>1, <1>7, <2>1 DEF AvailableMatches, ListedAvailable
<1>11. SlotsApart(q)
  BY <1>1, <1>8 DEF SlotsApart, Overlap, hasStackStorage, SameSlots
<1>12. \A w \in Vars :
          /\ inRegister(q, w) <=> inRegister(g, w)
          /\ Stored(q, w) <=> Stored(g, w)
  BY <1>2, <1>7, <1>8, RegistersFacts DEF Stored, inRegister, hasStackStorage, SameSlots
<1>13. Good(q)
  <2>1. \A w \in q.decommissioned : ~ Stored(q, w)
    BY <1>1, <1>8, <1>12 DEF Good, SameFlags
  <2> QED BY <1>6, <1>8, <1>9, <1>10, <1>11, <1>12, <2>1 DEF Good, SameFlags
<1>14. Extends(g, q)
  <2> SUFFICES ASSUME NEW w \in Vars PROVE ReadVar(q, w) = ReadVar(g, w)
    BY <1>1, <1>8, <1>12, SameSlotsGrow DEF Extends, SameSlots, SameFlags
  <2>1. CASE ~ inRegister(g, w)
    BY <1>8, <1>12, <2>1 DEF ReadVar
  <2>2. CASE inRegister(g, w)
    <3>1. g.currentRegister[w] \in Registers /\ g.occupiedBy[g.currentRegister[w]] = w
      BY <1>1, <2>2, RegistersFacts DEF RegistersMatch
    <3>2. q.reg[q.currentRegister[w]] = g.reg[g.currentRegister[w]]
      BY <1>1, <1>2, <1>7, <1>8, <3>1 DEF old, tenant
    <3> QED BY <1>12, <2>2, <3>2 DEF ReadVar
  <2> QED BY <2>1, <2>2
<1> QED
  BY <1>1, <1>2, <1>3, <1>7, <1>8, <1>12, <1>13, <1>14, VarsAssumption DEF Loaded, SameFlags

\* The register nextAvailable names has no tenant.
LEMMA NextAvailableIsFree ==
    ASSUME NEW g \in VarState, AvailableMatches(g), freeRegExists(g)
    PROVE  nextAvailable(g) \in Registers /\ g.occupiedBy[nextAvailable(g)] = invalidVn
<1>1. g.available \in Seq(Registers) /\ g.available # <<>>
  BY DEF VarState, freeRegExists
<1>2. Len(g.available) \in 1 .. Len(g.available)
  BY <1>1
<1>3. nextAvailable(g) \in Registers /\ ListedAvailable(g, nextAvailable(g))
  BY <1>1, <1>2 DEF nextAvailable, ListedAvailable
<1> QED BY <1>3 DEF AvailableMatches

\* v is not in a register, and r's tenant moves to a free one.
LEMMA LoadByDisplacing ==
    ASSUME NEW g, Good(g), NEW r \in Registers, NEW v \in Vars,
           v \notin g.decommissioned, varPerfectRegSize(v),
           g.occupiedBy[r] # invalidVn, g.occupiedBy[r] # v, ~ inRegister(g, v),
           freeRegExists(g)
    PROVE  Loaded(g, displaceToRegister(g, r, v), r, v)
<1> DEFINE tenant == g.occupiedBy[r]
<1> DEFINE new == nextAvailable(g)
<1> DEFINE m == movRegReg(g, new, r)
<1> DEFINE n == allocateRegToVar(m, new, tenant)
<1> DEFINE c == changeRegisterBookKeeping(n, v, r)
<1> DEFINE q == displaceToRegister(g, r, v)
<1>1. /\ g \in VarState /\ AvailableMatches(g) /\ SlotsApart(g) /\ RegistersMatch(g)
      /\ g.decommissioned \subseteq Vars
      /\ g.reg \in [Registers -> Content]
      /\ g.currentRegister \in [Vars -> Registers \cup {invalidRegister}]
      /\ g.occupiedBy \in [Registers -> Vars \cup {invalidVn}]
  BY GoodFacts DEF Good, VarState
<1>2. /\ new \in Registers /\ g.occupiedBy[new] = invalidVn /\ new # r
      /\ tenant \in Vars /\ g.currentRegister[tenant] = r /\ tenant # v
  BY <1>1, NextAvailableIsFree, RegistersFacts DEF RegistersMatch
<1>3. q = IF hasStackStorage(g, v) THEN fill(c, v) ELSE c
  BY DEF displaceToRegister
<1> HIDE DEF new, q
<1>4. /\ m \in VarState /\ SameTables(g, m) /\ SameSlots(g, m) /\ SameFlags(g, m)
      /\ m.reg = [g.reg EXCEPT ![new] = g.reg[r]] /\ m.mem = g.mem
  BY <1>1, <1>2, MovFields
<1> HIDE DEF m, tenant
<1>5. AvailableMatches(m) /\ m.occupiedBy[new] = invalidVn
  BY <1>1, <1>2, <1>4 DEF AvailableMatches, ListedAvailable, SameTables
<1>6. /\ n \in VarState /\ AvailableMatches(n)
      /\ n.occupiedBy = [m.occupiedBy EXCEPT ![new] = tenant]
      /\ n.currentRegister = [m.currentRegister EXCEPT ![tenant] = new]
      /\ SameMachine(m, n) /\ SameSlots(m, n) /\ SameFlags(m, n)
  <2>1. m \in VarState
    BY <1>4
  <2> QED BY <2>1, <1>2, <1>5, AllocateFields
<1> HIDE DEF n
<1>7. /\ c \in VarState
      /\ c.occupiedBy = [n.occupiedBy EXCEPT ![r] = v]
      /\ c.currentRegister = [n.currentRegister EXCEPT ![v] = r]
      /\ c.available = n.available
      /\ SameMachine(n, c) /\ SameSlots(n, c) /\ SameFlags(n, c)
  <2>1. n \in VarState
    BY <1>6
  <2> QED BY <2>1, ChangeFields
<1> HIDE DEF c
<1>8. /\ c.occupiedBy = [[g.occupiedBy EXCEPT ![new] = tenant] EXCEPT ![r] = v]
      /\ c.currentRegister = [[g.currentRegister EXCEPT ![tenant] = new] EXCEPT ![v] = r]
      /\ c.reg = [g.reg EXCEPT ![new] = g.reg[r]] /\ c.mem = g.mem
      /\ SameSlots(g, c) /\ SameFlags(g, c)
  BY <1>4, <1>6, <1>7 DEF SameTables, SameMachine, SameSlots, SameFlags
<1>9. /\ \A s \in Registers : c.occupiedBy[s] =
            IF s = r THEN v ELSE IF s = new THEN tenant ELSE g.occupiedBy[s]
      /\ \A w \in Vars : c.currentRegister[w] =
            IF w = v THEN r ELSE IF w = tenant THEN new ELSE g.currentRegister[w]
  BY <1>1, <1>2, <1>8
<1>10. AvailableMatches(c)
  <2>1. \A s \in Registers : c.occupiedBy[s] = invalidVn <=> n.occupiedBy[s] = invalidVn
    BY <1>1, <1>2, <1>4, <1>6, <1>9, VarsAssumption DEF SameTables, tenant
  <2> QED BY <1>6, <1>7, <2>1 DEF AvailableMatches, ListedAvailable
<1>11. /\ q \in VarState /\ SameTables(c, q) /\ SameSlots(c, q) /\ SameFlags(c, q)
       /\ q.mem = g.mem
       /\ \A s \in Registers : q.reg[s] =
             IF s = r /\ hasStackStorage(g, v) THEN g.mem[v]
             ELSE IF s = new THEN g.reg[r] ELSE g.reg[s]
  <2>1. CASE hasStackStorage(g, v)
    <3>1. q = fill(c, v) /\ inRegister(c, v)
      BY <1>3, <1>9, <2>1, RegistersFacts DEF inRegister
    <3>2. /\ q \in VarState
          /\ SameTables(c, q) /\ SameSlots(c, q) /\ SameFlags(c, q)
          /\ q.reg = [c.reg EXCEPT ![c.currentRegister[v]] = c.mem[v]]
          /\ q.mem = c.mem
      BY <1>7, <3>1, FillFields
    <3> QED BY <1>1, <1>2, <1>8, <1>9, <2>1, <3>2
  <2>2. CASE ~ hasStackStorage(g, v)
    BY <1>1, <1>2, <1>3, <1>7, <1>8, <2>2 DEF SameTables, SameSlots, SameFlags
  <2> QED BY <2>1, <2>2
<1>12. /\ \A s \in Registers : q.occupiedBy[s] =
             IF s = r THEN v ELSE IF s = new THEN tenant ELSE g.occupiedBy[s]
       /\ \A w \in Vars : q.currentRegister[w] =
             IF w = v THEN r ELSE IF w = tenant THEN new ELSE g.currentRegister[w]
       /\ AvailableMatches(q)
       /\ SameSlots(g, q) /\ SameFlags(g, q)
  BY <1>8, <1>9, <1>10, <1>11
     DEF SameTables, SameSlots, SameFlags, AvailableMatches, ListedAvailable
<1>13. RegistersMatch(q)
  <2>1. \A s \in Registers : g.currentRegister[v] # s
    BY RegistersFacts DEF inRegister
  <2>2. \A w \in Vars : g.currentRegister[w] # new
    BY <1>1, <1>2, VarsAssumption DEF RegistersMatch
  <2> QED BY <1>1, <1>2, <1>12, <2>1, <2>2 DEF RegistersMatch
<1>14. SlotsApart(q)
  BY <1>1, <1>12 DEF SlotsApart, Overlap, hasStackStorage, SameSlots
<1>15. \A w \in Vars :
          /\ w # v => (inRegister(q, w) <=> inRegister(g, w))
          /\ w # v => (Stored(q, w) <=> Stored(g, w))
          /\ hasStackStorage(q, w) <=> hasStackStorage(g, w)
  BY <1>2, <1>12, RegistersFacts DEF Stored, inRegister, hasStackStorage, SameSlots
<1>16. inRegister(q, v)
  BY <1>12, RegistersFacts DEF inRegister
<1>17. Good(q)
  <2>1. \A w \in q.decommissioned : ~ Stored(q, w)
    BY <1>1, <1>12, <1>15 DEF Good, SameFlags
  <2>2. \A w \in Vars : inRegister(q, w) => varPerfectRegSize(w)
    BY <1>15 DEF Good
  <2> QED BY <1>11, <1>12, <1>13, <1>14, <2>1, <2>2 DEF Good, SameFlags
<1>18. Extends(g, q)
  <2> SUFFICES ASSUME NEW w \in Vars, Stored(g, w)
               PROVE  Stored(q, w) /\ ReadVar(q, w) = ReadVar(g, w)
    BY <1>1, <1>12, SameSlotsGrow DEF Extends, SameSlots, SameFlags
  <2>1. CASE w = v
    BY <1>11, <1>12, <1>15, <1>16, <2>1 DEF Stored, ReadVar
  <2>2. CASE w # v /\ ~ inRegister(g, w)
    BY <1>11, <1>15, <2>2 DEF ReadVar
  <2>3. CASE w # v /\ inRegister(g, w)
    <3>1. g.currentRegister[w] \in Registers /\ g.occupiedBy[g.currentRegister[w]] = w
      BY <1>1, <2>3, RegistersFacts DEF RegistersMatch
    <3>2. g.currentRegister[w] # new
      BY <1>2, <3>1, VarsAssumption
    <3>3. q.reg[q.currentRegister[w]] = g.reg[g.currentRegister[w]]
      BY <1>2, <1>11, <1>12, <2>3, <3>1, <3>2 DEF tenant
    <3> QED BY <1>15, <2>3, <3>3 DEF ReadVar
  <2> QED BY <2>1, <2>2, <2>3
<1> QED
  BY <1>1, <1>2, <1>11, <1>12, <1>15, <1>17, <1>18 DEF Loaded, SameFlags, q

\* v is not in a register, no register is free, and r's tenant is spilled.
LEMMA LoadBySpilling ==
    ASSUME NEW g, Good(g), ~ g.noNewStackStorage, NEW r \in Registers, NEW v \in Vars,
           v \notin g.decommissioned, varPerfectRegSize(v),
           g.occupiedBy[r] # invalidVn, g.occupiedBy[r] # v, ~ inRegister(g, v)
    PROVE  Loaded(g, displaceToStack(g, r, v), r, v)
<1> DEFINE tenant == g.occupiedBy[r]
<1> DEFINE e == ensureStackOffsetValid(g, tenant)
<1> DEFINE m == storeToSlot(e, tenant, e.reg[r])
<1> DEFINE c == changeRegisterBookKeeping(m, v, r)
<1> DEFINE d == [c EXCEPT !.currentRegister[tenant] = invalidRegister]
<1> DEFINE q == displaceToStack(g, r, v)
<1>1. /\ g \in VarState /\ RegistersMatch(g)
      /\ g.decommissioned \subseteq Vars
      /\ g.reg \in [Registers -> Content] /\ g.mem \in [Vars -> Content]
      /\ g.currentRegister \in [Vars -> Registers \cup {invalidRegister}]
      /\ g.occupiedBy \in [Registers -> Vars \cup {invalidVn}]
      /\ g.rbpOffset \in [Vars -> Int]
      /\ ~ g.noNewStackStorage
  BY GoodFacts DEF Good, VarState
<1>2. /\ tenant \in Vars /\ g.currentRegister[tenant] = r /\ tenant # v
      /\ inRegister(g, tenant) /\ tenant \notin g.decommissioned
  BY <1>1, GoodFacts
<1> HIDE DEF tenant
<1>3. /\ Good(e) /\ Extends(g, e) /\ hasStackStorage(e, tenant)
      /\ SameTables(g, e) /\ SameMachine(g, e) /\ SameFlags(g, e)
  BY <1>2, EnsureSlot
<1> HIDE DEF e
<1>4. e \in VarState /\ SlotsApart(e) /\ e.reg[r] \in Content
  BY <1>3, GoodFacts DEF Good
<1>5. /\ m \in VarState
      /\ SameTables(e, m) /\ SameSlots(e, m) /\ SameFlags(e, m)
      /\ m.mem = [e.mem EXCEPT ![tenant] = e.reg[r]] /\ m.reg = e.reg
  BY <1>2, <1>4, StoreFields
<1>6. spill(e, tenant) = m
  BY <1>2, <1>3 DEF spill, SameTables
<1> HIDE DEF m
<1>7. /\ c \in VarState
      /\ c.occupiedBy = [m.occupiedBy EXCEPT ![r] = v]
      /\ c.currentRegister = [m.currentRegister EXCEPT ![v] = r]
      /\ c.available = m.available
      /\ SameMachine(m, c) /\ SameSlots(m, c) /\ SameFlags(m, c)
  BY <1>5, ChangeFields
<1> HIDE DEF c
<1>8. /\ d \in VarState
      /\ d.currentRegister = [c.currentRegister EXCEPT ![tenant] = invalidRegister]
      /\ d.occupiedBy = c.occupiedBy /\ d.available = c.available
      /\ SameMachine(c, d) /\ SameSlots(c, d) /\ SameFlags(c, d)
  <2> DEFINE f == [c.currentRegister EXCEPT ![tenant] = invalidRegister]
  <2>1. d = [c EXCEPT !.currentRegister = f]
    BY <1>7 DEF VarState
  <2>2. f \in [Vars -> Registers \cup {invalidRegister}]
    BY <1>7 DEF VarState
  <2> HIDE DEF d, f
  <2>3. /\ d \in VarState /\ d.currentRegister = f
        /\ d.occupiedBy = c.occupiedBy /\ d.available = c.available
        /\ SameMachine(c, d) /\ SameSlots(c, d) /\ SameFlags(c, d)
    BY <1>7, <2>1, <2>2 DEF VarState, SameMachine, SameSlots, SameFlags
  <2> QED BY <2>3 DEF f
<1>9. q = IF hasStackStorage(d, v) THEN fill(d, v) ELSE d
  BY <1>1, <1>3, <1>6 DEF displaceToStack, tenant, c, e, d
<1> HIDE DEF d, q
<1>10. /\ \A s \in Registers : d.occupiedBy[s] = IF s = r THEN v ELSE g.occupiedBy[s]
       /\ \A w \in Vars : d.currentRegister[w] =
             IF w = v THEN r ELSE IF w = tenant THEN invalidRegister
             ELSE g.currentRegister[w]
  <2>1. /\ d.occupiedBy = [g.occupiedBy EXCEPT ![r] = v]
        /\ d.currentRegister =
              [[g.currentRegister EXCEPT ![v] = r] EXCEPT ![tenant] = invalidRegister]
    BY <1>3, <1>5, <1>7, <1>8 DEF SameTables
  <2> QED BY <1>1, <1>2, <2>1
<1>11. /\ d.reg = g.reg /\ d.available = g.available
       /\ \A w \in Vars : d.mem[w] = IF w = tenant THEN g.reg[r] ELSE g.mem[w]
       /\ SameSlots(e, d) /\ SameFlags(g, d)
  BY <1>1, <1>2, <1>3, <1>5, <1>7, <1>8
     DEF SameTables, SameMachine, SameSlots, SameFlags
<1>12. /\ q \in VarState /\ SameTables(d, q) /\ SameSlots(d, q) /\ SameFlags(d, q)
       /\ q.mem = d.mem
       /\ \A s \in Registers : q.reg[s] =
             IF s = r /\ hasStackStorage(d, v) THEN g.mem[v] ELSE g.reg[s]
  <2>1. CASE hasStackStorage(d, v)
    <3>1. q = fill(d, v) /\ inRegister(d, v)
      BY <1>9, <1>10, <2>1, RegistersFacts DEF inRegister
    <3>2. /\ q \in VarState
          /\ SameTables(d, q) /\ SameSlots(d, q) /\ SameFlags(d, q)
          /\ q.reg = [d.reg EXCEPT ![d.currentRegister[v]] = d.mem[v]]
          /\ q.mem = d.mem
      BY <1>8, <3>1, FillFields
    <3> QED BY <1>1, <1>2, <1>10, <1>11, <2>1, <3>2
  <2>2. CASE ~ hasStackStorage(d, v)
    BY <1>8, <1>9, <1>11, <2>2 DEF SameTables, SameSlots, SameFlags
  <2> QED BY <2>1, <2>2
<1>13. /\ \A s \in Registers : q.occupiedBy[s] = IF s = r THEN v ELSE g.occupiedBy[s]
       /\ \A w \in Vars : q.currentRegister[w] =
             IF w = v THEN r ELSE IF w = tenant THEN invalidRegister
             ELSE g.currentRegister[w]
       /\ q.available = g.available
       /\ SameSlots(e, q) /\ SameFlags(g, q)
  BY <1>10, <1>11, <1>12 DEF SameTables, SameSlots, SameFlags
<1>14. RegistersMatch(q)
  <2>1. \A s \in Registers : g.currentRegister[v] # s
    BY RegistersFacts DEF inRegister
  <2> QED BY <1>1, <1>2, <1>13, <2>1, RegistersFacts DEF RegistersMatch
<1>15. AvailableMatches(q)
  BY <1>2, <1>13, VarsAssumption DEF Good, AvailableMatches, ListedAvailable, tenant
<1>16. SlotsApart(q)
  BY <1>4, <1>13 DEF SlotsApart, Overlap, hasStackStorage, SameSlots
<1>17. \A w \in Vars :
          /\ w \notin {v, tenant} => (inRegister(q, w) <=> inRegister(g, w))
          /\ hasStackStorage(q, w) <=> hasStackStorage(e, w)
          /\ hasStackStorage(d, w) <=> hasStackStorage(e, w)
  BY <1>2, <1>11, <1>13, RegistersFacts DEF inRegister, hasStackStorage, SameSlots
<1>18. inRegister(q, v) /\ ~ inRegister(q, tenant) /\ hasStackStorage(q, tenant)
  BY <1>2, <1>3, <1>13, <1>17, RegistersFacts DEF inRegister
<1>19. \A w \in Vars : inRegister(e, w) <=> inRegister(g, w)
  BY <1>3 DEF SameTables, inRegister
<1>20. Good(q)
  <2>1. \A w \in q.decommissioned : ~ Stored(q, w)
    BY <1>1, <1>2, <1>3, <1>13, <1>17, <1>19 DEF Good, SameFlags, Stored
  <2>2. \A w \in Vars : inRegister(q, w) => varPerfectRegSize(w)
    BY <1>17, <1>18 DEF Good
  <2> QED BY <1>12, <1>13, <1>14, <1>15, <1>16, <2>1, <2>2 DEF Good, SameFlags
<1>21. Extends(e, q)
  <2>1. ASSUME NEW w \in Vars, Stored(e, w)
        PROVE  Stored(q, w) /\ ReadVar(q, w) = ReadVar(e, w)
    <3>1. CASE w = v
      BY <1>3, <1>12, <1>13, <1>17, <1>18, <1>19, <2>1, <3>1
         DEF Stored, ReadVar, SameMachine
    <3>2. CASE w = tenant
      BY <1>2, <1>3, <1>11, <1>12, <1>18, <1>19, <3>2
         DEF Stored, ReadVar, SameTables, SameMachine
    <3>3. CASE w \notin {v, tenant} /\ ~ inRegister(g, w)
      BY <1>3, <1>11, <1>12, <1>17, <1>19, <2>1, <3>3
         DEF Stored, ReadVar, SameMachine
    <3>4. CASE w \notin {v, tenant} /\ inRegister(g, w)
      <4>1. g.currentRegister[w] \in Registers /\ g.currentRegister[w] # r
        BY <1>1, <3>4, RegistersFacts DEF RegistersMatch, tenant
      <4> QED BY <1>3, <1>12, <1>13, <1>17, <1>19, <3>4, <4>1
              DEF Stored, ReadVar, SameTables, SameMachine
    <3> QED BY <3>1, <3>2, <3>3, <3>4
  <2> QED BY <1>3, <1>13, <2>1, SameSlotsGrow DEF Good, Extends, SameSlots, SameFlags
<1>22. Extends(g, q)
  BY <1>3, <1>20, <1>21, ExtendsTransitive
<1>23. \A w \in Vars : w # tenant => q.mem[w] = g.mem[w]
  BY <1>11, <1>12
<1> QED
  BY <1>2, <1>13, <1>17, <1>18, <1>20, <1>22, <1>23 DEF Loaded, SameFlags, q, tenant

\* Every case of loadRegisterWithVar that does not drop the tenant of r.
LEMMA Load ==
    ASSUME NEW g, Good(g), NEW r \in Registers, NEW v \in Vars,
           v \notin g.decommissioned, varPerfectRegSize(v),
           ~ g.noNewStackStorage \/ g.occupiedBy[r] = invalidVn
    PROVE  Loaded(g, loadRegisterWithVar(g, r, v), r, v)
<1> DEFINE tenant == g.occupiedBy[r]
<1>1. ~ (v \in g.decommissioned \/ SizeOf[v] > 8)
  BY DEF varPerfectRegSize
<1>2. CASE tenant = invalidVn
  BY <1>1, <1>2, LoadFromStack, LoadFromRegister DEF loadRegisterWithVar
<1>3. CASE tenant = v
  <2>1. loadRegisterWithVar(g, r, v) = g
    BY <1>1, <1>3, VarsAssumption DEF loadRegisterWithVar
  <2> QED BY <1>3, <2>1, ExtendsReflexive DEF Loaded, Good, RegistersMatch, SameSlots
<1>4. CASE tenant \notin {invalidVn, v} /\ inRegister(g, v)
  BY <1>1, <1>4, LoadByExchange DEF loadRegisterWithVar
<1>5. CASE tenant \notin {invalidVn, v} /\ ~ inRegister(g, v)
  BY <1>1, <1>5, LoadByDisplacing, LoadBySpilling DEF loadRegisterWithVar
<1> QED BY <1>2, <1>3, <1>4, <1>5

-----------------------------------------------------------------------------
(* The callers of loadRegisterWithVar.                                     *)

\* Spilling the tenant of r and releasing r loses nothing.
LEMMA SpillAndRelease ==
    ASSUME NEW g, Good(g), NEW r \in Registers, g.occupiedBy[r] # invalidVn
    PROVE  LET t == g.occupiedBy[r]
               q == releaseRegister(spill(ensureStackOffsetValid(g, t), t), r)
           IN  /\ Good(q) /\ Extends(g, q)
               /\ q.dontSwap = g.dontSwap /\ q.reg = g.reg
               /\ q.occupiedBy = [g.occupiedBy EXCEPT ![r] = invalidVn]
               /\ \A v \in Vars : inRegister(q, v) => inRegister(g, v)
               /\ hasStackStorage(g, t) => SameSlots(g, q)
<1> DEFINE t == g.occupiedBy[r]
<1> DEFINE e == ensureStackOffsetValid(g, t)
<1> DEFINE m == spill(e, t)
<1> DEFINE q == releaseRegister(m, r)
<1>1. /\ g \in VarState /\ RegistersMatch(g)
      /\ g.decommissioned \subseteq Vars
      /\ g.currentRegister \in [Vars -> Registers \cup {invalidRegister}]
      /\ g.occupiedBy \in [Registers -> Vars \cup {invalidVn}]
  BY GoodFacts DEF Good, VarState
<1>2. /\ t \in Vars /\ g.currentRegister[t] = r
      /\ inRegister(g, t) /\ t \notin g.decommissioned
  BY <1>1, GoodFacts
<1> HIDE DEF t
<1>3. /\ Good(e) /\ Extends(g, e) /\ hasStackStorage(e, t)
      /\ SameTables(g, e) /\ SameMachine(g, e) /\ SameFlags(g, e)
  BY <1>2, EnsureSlot
<1> HIDE DEF e
<1>4. /\ e \in VarState /\ SlotsApart(e) /\ AvailableMatches(e)
      /\ e.reg[r] \in Content /\ e.mem \in [Vars -> Content]
  BY <1>3, GoodFacts DEF Good
<1>5. /\ m \in VarState
      /\ SameTables(e, m) /\ SameSlots(e, m) /\ SameFlags(e, m)
      /\ m.mem = [e.mem EXCEPT ![t] = e.reg[r]] /\ m.reg = e.reg
  <2>1. m = storeToSlot(e, t, e.reg[r])
    BY <1>2, <1>3 DEF spill, SameTables
  <2> QED BY <1>2, <1>4, <2>1, StoreFields
<1> HIDE DEF m
<1>6. AvailableMatches(m) /\ m.occupiedBy[r] = t /\ t # invalidVn
  BY <1>2, <1>3, <1>4, <1>5, VarsAssumption
     DEF AvailableMatches, ListedAvailable, SameTables, t
<1>7. /\ q \in VarState /\ AvailableMatches(q)
      /\ q.occupiedBy = [m.occupiedBy EXCEPT ![r] = invalidVn]
      /\ q.currentRegister = [w \in Vars |->
            IF w = m.occupiedBy[r] THEN invalidRegister ELSE m.currentRegister[w]]
      /\ SameMachine(m, q) /\ SameSlots(m, q) /\ SameFlags(m, q)
  <2>1. m \in VarState
    BY <1>5
  <2> QED BY <2>1, <1>6, ReleaseFields
<1> HIDE DEF q
<1>8. /\ q.occupiedBy = [g.occupiedBy EXCEPT ![r] = invalidVn]
      /\ \A w \in Vars : q.currentRegister[w] =
            IF w = t THEN invalidRegister ELSE g.currentRegister[w]
      /\ q.reg = g.reg /\ q.mem = [e.mem EXCEPT ![t] = g.reg[r]]
      /\ SameSlots(e, q) /\ SameFlags(g, q)
  BY <1>3, <1>5, <1>6, <1>7 DEF SameTables, SameMachine, SameSlots, SameFlags
<1>9. RegistersMatch(q)
  BY <1>1, <1>2, <1>8, VarsAssumption, RegistersFacts DEF RegistersMatch, t
<1>10. SlotsApart(q)
  BY <1>4, <1>8 DEF SlotsApart, Overlap, hasStackStorage, SameSlots
<1>11. \A w \in Vars :
          /\ w # t => (inRegister(q, w) <=> inRegister(g, w))
          /\ inRegister(e, w) <=> inRegister(g, w)
          /\ hasStackStorage(q, w) <=> hasStackStorage(e, w)
  BY <1>3, <1>8 DEF inRegister, hasStackStorage, SameSlots, SameTables
<1>12. ~ inRegister(q, t) /\ hasStackStorage(q, t)
  BY <1>2, <1>3, <1>8, <1>11 DEF inRegister
<1>13. Good(q)
  <2>1. \A w \in q.decommissioned : ~ Stored(q, w)
    BY <1>1, <1>2, <1>3, <1>8, <1>11 DEF Good, SameFlags, Stored
  <2>2. \A w \in Vars : inRegister(q, w) => varPerfectRegSize(w)
    BY <1>11, <1>12 DEF Good
  <2> QED BY <1>7, <1>8, <1>9, <1>10, <2>1, <2>2 DEF Good, SameFlags
<1>14. Extends(e, q)
  <2>1. ASSUME NEW w \in Vars, Stored(e, w)
        PROVE  Stored(q, w) /\ ReadVar(q, w) = ReadVar(e, w)
    <3>1. CASE w = t
      BY <1>2, <1>3, <1>4, <1>8, <1>11, <1>12, <3>1
         DEF Stored, ReadVar, SameTables, SameMachine
    <3>2. CASE w # t
      BY <1>3, <1>4, <1>8, <1>11, <2>1, <3>2
         DEF Stored, ReadVar, SameTables, SameMachine
    <3> QED BY <3>1, <3>2
  <2> QED BY <1>3, <1>8, <2>1, SameSlotsGrow DEF Good, Extends, SameSlots, SameFlags
<1>15. Extends(g, q)
  BY <1>3, <1>13, <1>14, ExtendsTransitive
<1>16. hasStackStorage(g, t) => SameSlots(g, q)
  <2>1. hasStackStorage(g, t) => e = g
    BY <1>2 DEF e, ensureStackOffsetValid
  <2> QED BY <1>8, <2>1 DEF SameSlots
<1> QED BY <1>8, <1>11, <1>12, <1>13, <1>15, <1>16 DEF SameFlags, q, m, e, t

\* When every tenant of q was in a register already, q has no newcomers.
LEMMA TenantsComeFromRegisters ==
    ASSUME NEW g, Good(g), NEW q, Good(q),
           \A s \in Registers : q.occupiedBy[s] # invalidVn =>
              \/ q.occupiedBy[s] = g.occupiedBy[s]
              \/ inRegister(g, q.occupiedBy[s])
    PROVE  \A v \in Vars : inRegister(q, v) => inRegister(g, v)
<1> SUFFICES ASSUME NEW v \in Vars, inRegister(q, v) PROVE inRegister(g, v)
  OBVIOUS
<1> DEFINE s == q.currentRegister[v]
<1>1. q \in VarState
  BY DEF Good
<1>2. s \in Registers
  BY <1>1, RegistersFacts
<1>3. q.occupiedBy[s] = v /\ v # invalidVn
  BY <1>2, GoodFacts, VarsAssumption
<1>4. g.occupiedBy[s] = v => inRegister(g, v)
  BY <1>2, <1>3, GoodFacts
<1> QED BY <1>2, <1>3, <1>4

\* One round of freeUpRegisters that may hand out slots: the target ends up
\* without tenant, and targets emptied before stay empty.
LEMMA FreeUpOne ==
    ASSUME NEW g, Good(g), NEW ts \in SUBSET Registers, NEW r \in ts
    PROVE  LET q == freeUpOne(g, TRUE, ts, r) IN
           /\ Good(q) /\ Extends(g, q) /\ q.dontSwap = g.dontSwap
           /\ q.occupiedBy[r] = invalidVn
           /\ \A s \in ts : g.occupiedBy[s] = invalidVn => q.occupiedBy[s] = invalidVn
           /\ \A v \in Vars : inRegister(q, v) => inRegister(g, v)
<1> DEFINE t == g.occupiedBy[r]
<1> DEFINE others == {i \in 1 .. Len(g.available) : g.available[i] \notin ts}
<1> DEFINE i == CHOOSE i \in others : \A j \in others : i <= j
<1> DEFINE q == freeUpOne(g, TRUE, ts, r)
<1>0. r \in Registers
  OBVIOUS
<1>1. CASE t = invalidVn
  <2>1. q = g
    BY <1>1 DEF freeUpOne
  <2> QED BY <1>1, <2>1, ExtendsReflexive
<1>2. CASE t # invalidVn /\ others # {}
  <2>1. q = loadRegisterWithVar(g, g.available[i], t)
    BY <1>2 DEF freeUpOne
  <2>2. PICK k \in others : \A j \in others : k <= j
    <3>1. others \subseteq Nat
      OBVIOUS
    <3> HIDE DEF others
    <3> QED BY <1>2, <3>1, LeastNatural
  <2>3. i \in others
    BY <2>2
  <2> HIDE DEF i
  <2> DEFINE dest == g.available[i]
  <2>4. /\ dest \in Registers \ ts
        /\ g.occupiedBy[dest] = invalidVn
    <3>1. g.available \in Seq(Registers)
      BY DEF Good, VarState
    <3>2. i \in 1 .. Len(g.available) /\ dest \notin ts
      BY <2>3
    <3>3. dest \in Registers /\ ListedAvailable(g, dest)
      BY <3>1, <3>2 DEF ListedAvailable
    <3> QED BY <3>2, <3>3 DEF Good, AvailableMatches
  <2> HIDE DEF dest
  <2>5. t \in Vars /\ t \notin g.decommissioned /\ varPerfectRegSize(t)
    BY <1>2, GoodFacts
  <2>6. Loaded(g, q, dest, t)
    BY <2>1, <2>4, <2>5, Load DEF dest
  <2> HIDE DEF q
  <2>7. inRegister(g, t) /\ Good(q) /\ q.occupiedBy[dest] = t
    <3>1. Good(q) /\ q.currentRegister[t] = dest
      BY <2>6 DEF Loaded
    <3>2. inRegister(g, t)
      BY <1>0, <1>2, GoodFacts
    <3> HIDE DEF t
    <3>3. q.occupiedBy[dest] = t
      BY <2>4, <2>5, <3>1, GoodFacts
    <3> QED BY <3>1, <3>2, <3>3
  <2>8. ASSUME NEW s \in Registers, q.occupiedBy[s] # invalidVn
        PROVE  q.occupiedBy[s] = g.occupiedBy[s] \/ inRegister(g, q.occupiedBy[s])
    BY <2>4, <2>6, <2>7, <2>8 DEF Loaded
  <2>9. \A v \in Vars : inRegister(q, v) => inRegister(g, v)
    BY <2>7, <2>8, TenantsComeFromRegisters
  <2> QED BY <2>4, <2>6, <2>9 DEF Loaded, t, q
<1>3. CASE t # invalidVn /\ others = {}
  <2>1. hasStackStorage(ensureStackOffsetValid(g, t), t)
    <3>1. t \in Vars /\ t \notin g.decommissioned
      BY <1>3, GoodFacts
    <3> QED BY <3>1, EnsureSlot
  <2>2. q = releaseRegister(spill(ensureStackOffsetValid(g, t), t), r)
    BY <1>3, <2>1 DEF freeUpOne
  <2> HIDE DEF q, others, i
  <2>3. /\ Good(q) /\ Extends(g, q) /\ q.dontSwap = g.dontSwap
        /\ q.occupiedBy = [g.occupiedBy EXCEPT ![r] = invalidVn]
    BY <1>0, <1>3, <2>2, SpillAndRelease
  <2>4. g.occupiedBy \in [Registers -> Vars \cup {invalidVn}]
    BY GoodFacts
  <2>5. \A s \in Registers : q.occupiedBy[s] # invalidVn =>
           q.occupiedBy[s] = g.occupiedBy[s]
    BY <1>0, <2>3, <2>4
  <2>6. \A v \in Vars : inRegister(q, v) => inRegister(g, v)
    BY <2>3, <2>5, TenantsComeFromRegisters
  <2> QED BY <1>0, <2>3, <2>4, <2>6 DEF q
<1> QED BY <1>1, <1>2, <1>3

\* freeUpRegisters empties every register it is given; the three lemmas are
\* for one, two and three registers.
LEMMA FreeUp1 ==
    ASSUME NEW g, Good(g), NEW a \in Registers
    PROVE  LET q == freeUp1(g, TRUE, a) IN
           /\ Good(q) /\ Extends(g, q) /\ q.dontSwap = g.dontSwap
           /\ q.occupiedBy[a] = invalidVn
<1>1. {a} \in SUBSET Registers /\ a \in {a}
  OBVIOUS
<1> QED BY <1>1, FreeUpOne DEF freeUp1

\* Two registers; and no variable enters a register that was in none.
LEMMA FreeUp2 ==
    ASSUME NEW g, Good(g), NEW a \in Registers, NEW b \in Registers
    PROVE  LET q == freeUp2(g, TRUE, a, b) IN
           /\ Good(q) /\ Extends(g, q) /\ q.dontSwap = g.dontSwap
           /\ q.occupiedBy[a] = invalidVn /\ q.occupiedBy[b] = invalidVn
           /\ \A v \in Vars : inRegister(q, v) => inRegister(g, v)
<1> DEFINE ts == {a, b}
<1> DEFINE q1 == freeUpOne(g, TRUE, ts, a)
<1> DEFINE q2 == freeUpOne(q1, TRUE, ts, b)
<1>1. ts \in SUBSET Registers /\ a \in ts /\ b \in ts
  OBVIOUS
<1> HIDE DEF ts
<1>2. /\ Good(q1) /\ Extends(g, q1) /\ q1.occupiedBy[a] = invalidVn
      /\ q1.dontSwap = g.dontSwap
      /\ \A v \in Vars : inRegister(q1, v) => inRegister(g, v)
  BY <1>1, FreeUpOne
<1> HIDE DEF q1
<1>3. /\ Good(q2) /\ Extends(q1, q2) /\ q2.occupiedBy[b] = invalidVn
      /\ q2.occupiedBy[a] = invalidVn /\ q2.dontSwap = q1.dontSwap
      /\ \A v \in Vars : inRegister(q2, v) => inRegister(q1, v)
  BY <1>1, <1>2, FreeUpOne
<1> HIDE DEF q2
<1>4. Extends(g, q2)
  BY <1>2, <1>3, ExtendsTransitive
<1> QED BY <1>2, <1>3, <1>4 DEF freeUp2, q2, q1, ts

\* Three registers.
LEMMA FreeUp3 ==
    ASSUME NEW g, Good(g),
           NEW a \in Registers, NEW b \in Registers, NEW c \in Registers
    PROVE  LET q == freeUp3(g, TRUE, a, b, c) IN
           /\ Good(q) /\ Extends(g, q) /\ q.dontSwap = g.dontSwap
           /\ q.occupiedBy[a] = invalidVn /\ q.occupiedBy[b] = invalidVn
           /\ q.occupiedBy[c] = invalidVn
           /\ \A v \in Vars : inRegister(q, v) => inRegister(g, v)
<1> DEFINE ts == {a, b, c}
<1> DEFINE q1 == freeUpOne(g, TRUE, ts, a)
<1> DEFINE q2 == freeUpOne(q1, TRUE, ts, b)
<1> DEFINE q3 == freeUpOne(q2, TRUE, ts, c)
<1>1. ts \in SUBSET Registers /\ a \in ts /\ b \in ts /\ c \in ts
  OBVIOUS
<1> HIDE DEF ts
<1>2. /\ Good(q1) /\ Extends(g, q1) /\ q1.occupiedBy[a] = invalidVn
      /\ q1.dontSwap = g.dontSwap
      /\ \A v \in Vars : inRegister(q1, v) => inRegister(g, v)
  BY <1>1, FreeUpOne
<1> HIDE DEF q1
<1>3. /\ Good(q2) /\ Extends(q1, q2) /\ q2.occupiedBy[b] = invalidVn
      /\ q2.occupiedBy[a] = invalidVn /\ q2.dontSwap = q1.dontSwap
      /\ \A v \in Vars : inRegister(q2, v) => inRegister(q1, v)
  BY <1>1, <1>2, FreeUpOne
<1> HIDE DEF q2
<1>4. /\ Good(q3) /\ Extends(q2, q3) /\ q3.occupiedBy[c] = invalidVn
      /\ q3.occupiedBy[a] = invalidVn /\ q3.occupiedBy[b] = invalidVn
      /\ q3.dontSwap = q2.dontSwap
      /\ \A v \in Vars : inRegister(q3, v) => inRegister(q2, v)
  BY <1>1, <1>3, FreeUpOne
<1> HIDE DEF q3
<1>5. Extends(g, q3)
  BY <1>2, <1>3, <1>4, ExtendsTransitive
<1> QED BY <1>2, <1>3, <1>4, <1>5 DEF freeUp3, q3, q2, q1, ts

\* Giving up the register of v, which has its value elsewhere or needs none,
\* leaves a good record and the other variables as they were.
LEMMA ReleaseTenant ==
    ASSUME NEW q, Good(q), NEW r \in Registers, q.occupiedBy[r] # invalidVn
    PROVE  LET m == releaseRegister(q, r)
               v == q.occupiedBy[r]
           IN  /\ Good(m)
               /\ SameFlags(q, m) /\ SameSlots(q, m) /\ SameMachine(q, m)
               /\ m.occupiedBy = [q.occupiedBy EXCEPT ![r] = invalidVn]
               /\ ~ inRegister(m, v)
               /\ \A w \in Vars : w # v =>
                     /\ inRegister(m, w) <=> inRegister(q, w)
                     /\ Stored(m, w) <=> Stored(q, w)
                     /\ ReadVar(m, w) = ReadVar(q, w)
<1> DEFINE m == releaseRegister(q, r)
<1> DEFINE v == q.occupiedBy[r]
<1>1. /\ q \in VarState /\ AvailableMatches(q) /\ RegistersMatch(q)
      /\ q.decommissioned \subseteq Vars
      /\ q.currentRegister \in [Vars -> Registers \cup {invalidRegister}]
      /\ q.occupiedBy \in [Registers -> Vars \cup {invalidVn}]
      /\ v \in Vars
  BY GoodFacts DEF Good, VarState
<1>2. /\ m \in VarState
      /\ m.occupiedBy = [q.occupiedBy EXCEPT ![r] = invalidVn]
      /\ m.currentRegister = [w \in Vars |->
            IF w = q.occupiedBy[r] THEN invalidRegister
            ELSE q.currentRegister[w]]
      /\ AvailableMatches(m)
      /\ SameMachine(q, m) /\ SameSlots(q, m) /\ SameFlags(q, m)
  BY <1>1, ReleaseFields
<1> HIDE DEF m
<1>3. \A w \in Vars : m.currentRegister[w] =
         IF w = v THEN invalidRegister ELSE q.currentRegister[w]
  BY <1>2
<1>4. RegistersMatch(m)
  BY <1>1, <1>2, <1>3, VarsAssumption, RegistersFacts DEF RegistersMatch
<1>5. /\ ~ inRegister(m, v)
      /\ \A w \in Vars : w # v =>
            /\ inRegister(m, w) <=> inRegister(q, w)
            /\ Stored(m, w) <=> Stored(q, w)
            /\ ReadVar(m, w) = ReadVar(q, w)
  BY <1>1, <1>2, <1>3
     DEF Stored, inRegister, hasStackStorage, ReadVar, SameSlots, SameMachine
<1>6. SlotsApart(m)
  BY <1>2 DEF Good, SlotsApart, Overlap, hasStackStorage, SameSlots
<1>7. Good(m)
  <2>1. v \notin q.decommissioned
    BY GoodFacts
  <2>2. \A w \in m.decommissioned : ~ Stored(m, w)
    BY <1>1, <1>2, <1>5, <2>1 DEF Good, SameFlags
  <2>3. \A w \in Vars : inRegister(m, w) => varPerfectRegSize(w)
    BY <1>5 DEF Good
  <2> QED BY <1>2, <1>4, <1>6, <2>2, <2>3 DEF Good, SameFlags
<1> QED BY <1>2, <1>5, <1>7 DEF m, v

\* q is g with some variables' registers given up: no slot is new, and who
\* still has storage has its value there.
Drops(g, q) ==
    /\ Good(q) /\ SameSlots(g, q)
    /\ q.decommissioned = g.decommissioned
    /\ q.noNewStackStorage = g.noNewStackStorage /\ q.dontSwap = g.dontSwap
    /\ \A v \in Vars : inRegister(q, v) => inRegister(g, v)
    /\ \A v \in Vars : Stored(q, v) => ReadVar(q, v) = ReadVar(g, v)

\* A register is emptied without new slots.
LEMMA DropOne ==
    ASSUME NEW g, Good(g), NEW ts \in SUBSET Registers, NEW r \in ts
    PROVE  Drops(g, freeUpOne(g, FALSE, ts, r))
<1> DEFINE t == g.occupiedBy[r]
<1> DEFINE others == {i \in 1 .. Len(g.available) : g.available[i] \notin ts}
<1> DEFINE first == CHOOSE i \in others : \A j \in others : i <= j
<1> DEFINE q == freeUpOne(g, FALSE, ts, r)
<1> DEFINE saved == IF hasStackStorage(g, t) THEN spill(g, t) ELSE g
<1>1. r \in Registers /\ g.available \in Seq(Registers) /\ AvailableMatches(g)
  BY DEF Good, VarState
<1>2. q = IF t = invalidVn THEN g
          ELSE IF others # {} THEN loadRegisterWithVar(g, g.available[first], t)
          ELSE releaseRegister(saved, r)
  BY DEF freeUpOne
<1>3. t # invalidVn =>
         /\ t \in Vars /\ inRegister(g, t) /\ t \notin g.decommissioned
         /\ varPerfectRegSize(t)
  BY <1>1, GoodFacts
<1>4. \A s : Extends(g, s) /\ SameSlots(g, s)
               /\ (\A v \in Vars : inRegister(s, v) => inRegister(g, v))
             => \A v \in Vars : Stored(s, v) => ReadVar(s, v) = ReadVar(g, v)
  BY DEF Extends, SameSlots, Stored, hasStackStorage
<1>5. CASE t = invalidVn
  BY <1>2, <1>5 DEF Drops, SameSlots
<1>6. CASE t # invalidVn /\ others # {}
  <2>1. \E i \in others : \A j \in others : i <= j
    <3>1. others \subseteq Nat
      OBVIOUS
    <3> HIDE DEF others
    <3> QED BY <1>6, <3>1, LeastNatural
  <2>2. first \in others
    <3> HIDE DEF others
    <3> QED BY <2>1
  <2> DEFINE at == g.available[first]
  <2>3. at \in Registers /\ g.occupiedBy[at] = invalidVn
    <3>1. first \in 1 .. Len(g.available)
      BY <2>2
    <3> HIDE DEF first
    <3>2. at \in Registers /\ ListedAvailable(g, at)
      BY <1>1, <3>1 DEF ListedAvailable
    <3> QED BY <1>1, <3>2 DEF AvailableMatches
  <2>4. q = loadRegisterWithVar(g, at, t)
    BY <1>2, <1>6
  <2> HIDE DEF at, t
  <2>5. Loaded(g, loadRegisterWithVar(g, at, t), at, t)
    BY <1>3, <1>6, <2>3, Load
  <2> HIDE DEF q
  <2>6. /\ Good(q) /\ Extends(g, q) /\ SameSlots(g, q) /\ q.dontSwap = g.dontSwap
        /\ \A v \in Vars : inRegister(q, v) => inRegister(g, v)
    BY <1>3, <1>6, <2>3, <2>4, <2>5 DEF Loaded
  <2> QED BY <1>4, <2>6 DEF Drops, Extends, q
<1>7. CASE t # invalidVn /\ others = {} /\ hasStackStorage(g, t)
  <2>1. q = releaseRegister(spill(ensureStackOffsetValid(g, t), t), r)
    BY <1>2, <1>3, <1>7 DEF ensureStackOffsetValid
  <2> HIDE DEF q
  <2>2. /\ Good(q) /\ Extends(g, q) /\ SameSlots(g, q) /\ q.dontSwap = g.dontSwap
        /\ \A v \in Vars : inRegister(q, v) => inRegister(g, v)
    BY <1>1, <1>7, <2>1, SpillAndRelease
  <2> QED BY <1>4, <2>2 DEF Drops, Extends, q
<1>8. CASE t # invalidVn /\ others = {} /\ ~ hasStackStorage(g, t)
  <2>1. q = releaseRegister(g, r)
    BY <1>2, <1>8
  <2> HIDE DEF q
  <2>2. /\ Good(q) /\ SameSlots(g, q) /\ SameFlags(g, q) /\ ~ inRegister(q, t)
        /\ \A v \in Vars : v # t =>
              /\ inRegister(q, v) <=> inRegister(g, v)
              /\ ReadVar(q, v) = ReadVar(g, v)
    BY <1>1, <1>8, <2>1, ReleaseTenant
  <2>3. ~ Stored(q, t)
    BY <1>8, <2>2 DEF Stored, SameSlots, hasStackStorage
  <2> HIDE DEF t
  <2> QED BY <2>2, <2>3 DEF Drops, SameFlags, q
<1> QED BY <1>5, <1>6, <1>7, <1>8

LEMMA DropsTransitive ==
    ASSUME NEW g, NEW q, NEW s, Drops(g, q), Drops(q, s)
    PROVE  Drops(g, s)
<1>1. \A v \in Vars : Stored(s, v) => Stored(q, v)
  BY DEF Drops, Stored, SameSlots, hasStackStorage
<1> QED BY <1>1 DEF Drops, SameSlots

LEMMA DropThree ==
    ASSUME NEW g, Good(g)
    PROVE  Drops(g, freeUp3(g, FALSE, rsi, rdi, rcx))
<1> DEFINE ts == {rsi, rdi, rcx}
<1> DEFINE q1 == freeUpOne(g, FALSE, ts, rsi)
<1> DEFINE q2 == freeUpOne(q1, FALSE, ts, rdi)
<1> DEFINE q3 == freeUpOne(q2, FALSE, ts, rcx)
<1>1. ts \in SUBSET Registers /\ rsi \in ts /\ rdi \in ts /\ rcx \in ts
  BY FixedRegistersAssumption
<1>2. q3 = freeUp3(g, FALSE, rsi, rdi, rcx)
  BY DEF freeUp3
<1> HIDE DEF ts
<1>3. Drops(g, q1) /\ Good(q1)
  BY <1>1, DropOne DEF Drops
<1> HIDE DEF q1
<1>4. Drops(q1, q2) /\ Good(q2)
  BY <1>1, <1>3, DropOne DEF Drops
<1> HIDE DEF q2
<1>5. Drops(q2, q3)
  BY <1>1, <1>4, DropOne
<1> HIDE DEF q3
<1> QED BY <1>2, <1>3, <1>4, <1>5, DropsTransitive

\* What a return does to the tables: slots stay where they are, and a variable
\* that still has storage has its value there, the result among them.
LEMMA PrepareReturn ==
    ASSUME NEW g, Good(g), ~ g.noNewStackStorage,
           NEW ret \in Vars, ret \notin g.decommissioned
    PROVE  LET q == prepareReturn(g, ret) IN
           /\ Good(q) /\ Grows(g, q)
           /\ q.decommissioned = g.decommissioned
           /\ q.noNewStackStorage = g.noNewStackStorage /\ q.dontSwap = g.dontSwap
           /\ \A v \in Vars : hasStackStorage(g, v) => q.rbpOffset[v] = g.rbpOffset[v]
           /\ \A v \in Vars : Stored(g, v) /\ Stored(q, v) => ReadVar(q, v) = ReadVar(g, v)
           /\ \A v \in Vars : Stored(g, v) /\ ~ Stored(q, v) => v \in droppedFor(g, ret)
           /\ varPerfectRegSize(ret) => q.currentRegister[ret] = rax
           /\ ~ varPerfectRegSize(ret) => hasStackStorage(q, ret) /\ ~ inRegister(q, ret)
<1> DEFINE q == prepareReturn(g, ret)
<1>1. CASE varPerfectRegSize(ret)
  <2>1. q = loadRegisterWithVar(g, rax, ret)
    BY <1>1 DEF prepareReturn
  <2>2. rax \in Registers
    BY FixedRegistersAssumption
  <2> HIDE DEF q
  <2>3. Loaded(g, q, rax, ret)
    BY <1>1, <2>1, <2>2, Load
  <2> QED BY <1>1, <2>3 DEF Loaded, Extends, q
<1>2. CASE ~ varPerfectRegSize(ret)
  <2> DEFINE e == ensureStackOffsetValid(g, ret)
  <2>1. q = freeUp3(e, FALSE, rsi, rdi, rcx)
    BY <1>2 DEF prepareReturn
  <2>2. /\ Good(e) /\ Extends(g, e) /\ hasStackStorage(e, ret)
        /\ SameTables(g, e) /\ SameMachine(g, e) /\ SameFlags(g, e)
    BY EnsureSlot
  <2> HIDE DEF e, q
  <2>3. Drops(e, q)
    BY <2>1, <2>2, DropThree
  <2>4. hasStackStorage(q, ret) /\ ~ inRegister(q, ret)
    BY <1>2, <2>2, <2>3 DEF Drops, Good, SameSlots, hasStackStorage
  <2>5. Grows(g, q)
    BY <2>2, <2>3 DEF Extends, Drops, Grows, SameSlots, hasStackStorage
  <2>6. \A v \in Vars : hasStackStorage(g, v) => q.rbpOffset[v] = g.rbpOffset[v]
    BY <2>2, <2>3 DEF Extends, Drops, SameSlots
  <2>7. \A v \in Vars : Stored(g, v) /\ Stored(q, v) => ReadVar(q, v) = ReadVar(g, v)
    BY <2>2, <2>3 DEF Extends, Drops
  <2>8. \A v \in Vars : Stored(g, v) /\ ~ Stored(q, v) => v \in droppedFor(g, ret)
    BY <1>2 DEF droppedFor, q
  <2> QED BY <1>2, <2>2, <2>3, <2>4, <2>5, <2>6, <2>7, <2>8 DEF Drops, SameFlags, q
<1> QED BY <1>1, <1>2

\* The round-robin scan finds a register the instruction does not use.
LEMMA VictimIsUnprotected ==
    ASSUME NEW g \in VarState, g.dontSwap # Registers
    PROVE  /\ victim(g) \in Registers \ g.dontSwap
           /\ (victim(g) + 1) % numRegisters \in Registers
<1> DEFINE n == numRegisters
<1> DEFINE start == g.nextRegToBeSwapped
<1> DEFINE at(k) == (start + k) % n
<1> DEFINE T == {k \in Registers : at(k) \notin g.dontSwap}
<1> DEFINE k == CHOOSE k \in Registers :
                  /\ at(k) \notin g.dontSwap
                  /\ \A j \in Registers : j < k => at(j) \in g.dontSwap
<1>1. n \in Nat /\ n > 0 /\ Registers = 0 .. n - 1
      /\ start \in Registers /\ g.dontSwap \subseteq Registers
  BY RegistersAssumption DEF Registers, VarState
<1> HIDE DEF n, start
<1>2. \A j \in Nat : j % n \in Registers
  BY <1>1
<1>3. PICK r \in Registers : r \notin g.dontSwap
  BY <1>1
<1>4. \E j \in Registers : at(j) = r
  <2>1. CASE r >= start
    <3>1. r - start \in Registers /\ start + (r - start) = r
      BY <1>1, <2>1
    <3>2. r % n = r
      BY <1>1
    <3> QED BY <3>1, <3>2
  <2>2. CASE r < start
    <3>1. r - start + n \in Registers /\ start + (r - start + n) = r + n
      BY <1>1, <2>2
    <3>2. (r + n) % n = r
      BY <1>1
    <3> QED BY <3>1, <3>2
  <2> QED BY <1>1, <2>1, <2>2
<1>5. T # {} /\ T \subseteq Nat
  <2>1. PICK j \in Registers : at(j) = r
    BY <1>4
  <2>2. j \in T
    BY <1>3, <2>1
  <2>3. \A h \in Registers : h \in Nat
    BY <1>1
  <2> QED BY <2>2, <2>3
<1>6. \E h \in T : \A j \in T : h <= j
  <2> HIDE DEF T
  <2> QED BY <1>5, LeastNatural
<1>7. /\ k \in Registers /\ at(k) \notin g.dontSwap
  <2>1. PICK h \in T : \A j \in T : h <= j
    BY <1>6
  <2>2. \A j \in Registers : j < h => at(j) \in g.dontSwap
    BY <1>1, <2>1
  <2> QED BY <2>1, <2>2
<1>8. victim(g) = at(k)
  BY DEF victim, n, start
<1> HIDE DEF k
<1>9. at(k) \in Registers
  BY <1>1, <1>2, <1>7
<1> HIDE DEF at
<1>10. victim(g) \in Registers \ g.dontSwap /\ victim(g) + 1 \in Nat
  BY <1>1, <1>7, <1>8, <1>9
<1>11. (victim(g) + 1) % n \in Registers
  BY <1>2, <1>10
<1> QED BY <1>10, <1>11 DEF n

\* ensureInRegister leaves the variable in a register and the registers this
\* instruction already uses alone.
LEMMA EnsureInRegister ==
    ASSUME NEW g, Good(g), NEW v \in Vars, v \notin g.decommissioned,
           varPerfectRegSize(v), g.dontSwap # Registers, ~ g.noNewStackStorage
    PROVE  LET q == ensureInRegister(g, v) IN
           /\ Good(q) /\ Extends(g, q) /\ inRegister(q, v)
           /\ q.dontSwap = g.dontSwap \cup {q.currentRegister[v]}
           /\ \A s \in g.dontSwap : g.occupiedBy[s] # invalidVn =>
                 q.occupiedBy[s] = g.occupiedBy[s]
           /\ \A w \in Vars : inRegister(q, w) => w = v \/ inRegister(g, w)
           /\ \A w \in Vars : ~ inRegister(g, w) \/ g.currentRegister[w] \in g.dontSwap
                 => q.mem[w] = g.mem[w]
           /\ inRegister(g, v) => SameTables(g, q) /\ SameMachine(g, q)
<1> DEFINE q == ensureInRegister(g, v)
<1> DEFINE protect(m) == [m EXCEPT !.dontSwap = m.dontSwap \cup {m.currentRegister[v]}]
<1>1. g \in VarState /\ AvailableMatches(g) /\ ~ (SizeOf[v] > 8)
      /\ g.dontSwap \subseteq Registers
      /\ g.currentRegister \in [Vars -> Registers \cup {invalidRegister}]
      /\ \A s \in Registers : g.occupiedBy[s] = v <=> g.currentRegister[v] = s
  BY DEF Good, VarState, RegistersMatch, varPerfectRegSize
\* protect and the scan's position concern no other field.
<1>2. ASSUME NEW m, Good(m), inRegister(m, v), NEW next \in Registers
      PROVE  LET n == protect([m EXCEPT !.nextRegToBeSwapped = next])
                 o == protect(m)
             IN  /\ Good(n) /\ Extends(m, n) /\ inRegister(n, v)
                 /\ SameTables(m, n) /\ SameMachine(m, n)
                 /\ n.dontSwap = m.dontSwap \cup {n.currentRegister[v]}
                 /\ Good(o) /\ Extends(m, o) /\ inRegister(o, v)
                 /\ SameTables(m, o) /\ SameMachine(m, o)
                 /\ o.dontSwap = m.dontSwap \cup {o.currentRegister[v]}
  <2> DEFINE l == [m EXCEPT !.nextRegToBeSwapped = next]
  <2> DEFINE n == protect(l)
  <2> DEFINE o == protect(m)
  <2>1. m \in VarState /\ m.currentRegister[v] \in Registers
    BY <1>2, RegistersFacts DEF Good
  <2>2. /\ l \in VarState /\ SameTables(m, l) /\ SameMachine(m, l) /\ SameSlots(m, l)
        /\ l.decommissioned = m.decommissioned /\ l.dontSwap = m.dontSwap
        /\ l.noNewStackStorage = m.noNewStackStorage /\ l.panicked = m.panicked
    BY <2>1 DEF VarState, SameTables, SameMachine, SameSlots
  <2> HIDE DEF l
  <2>3. /\ n \in VarState /\ SameTables(l, n) /\ SameMachine(l, n) /\ SameSlots(l, n)
        /\ n.decommissioned = l.decommissioned
        /\ n.noNewStackStorage = l.noNewStackStorage /\ n.panicked = l.panicked
        /\ n.dontSwap = l.dontSwap \cup {n.currentRegister[v]}
    <3>1. l.currentRegister[v] \in Registers
      BY <2>1, <2>2 DEF SameTables
    <3> QED BY <2>2, <3>1 DEF VarState, SameTables, SameMachine, SameSlots
  <2>4. /\ o \in VarState /\ SameTables(m, o) /\ SameMachine(m, o) /\ SameSlots(m, o)
        /\ o.decommissioned = m.decommissioned
        /\ o.noNewStackStorage = m.noNewStackStorage /\ o.panicked = m.panicked
        /\ o.dontSwap = m.dontSwap \cup {o.currentRegister[v]}
    BY <2>1 DEF VarState, SameTables, SameMachine, SameSlots
  <2> HIDE DEF n, o
  <2>5. ASSUME NEW c, c \in VarState,
               SameTables(m, c), SameMachine(m, c), SameSlots(m, c),
               c.decommissioned = m.decommissioned,
               c.noNewStackStorage = m.noNewStackStorage, c.panicked = m.panicked
        PROVE  Good(c) /\ Extends(m, c) /\ inRegister(c, v)
    BY <1>2, <2>5, SameSlotsGrow DEF Good, Extends, SameTables, SameMachine, SameSlots,
       RegistersMatch, AvailableMatches, ListedAvailable, SlotsApart, Overlap,
       Stored, inRegister, hasStackStorage, ReadVar
  <2>6. /\ Good(n) /\ Extends(m, n) /\ inRegister(n, v)
        /\ SameTables(m, n) /\ SameMachine(m, n)
        /\ n.dontSwap = m.dontSwap \cup {n.currentRegister[v]}
    BY <2>2, <2>3, <2>5 DEF SameTables, SameMachine, SameSlots
  <2>7. /\ Good(o) /\ Extends(m, o) /\ inRegister(o, v)
        /\ SameTables(m, o) /\ SameMachine(m, o)
        /\ o.dontSwap = m.dontSwap \cup {o.currentRegister[v]}
    BY <2>4, <2>5
  <2> QED BY <2>6, <2>7 DEF n, o, l
<1>3. CASE inRegister(g, v)
  <2>1. q = protect(g)
    BY <1>3 DEF ensureInRegister
  <2> HIDE DEF q, protect
  <2>2. 0 \in Registers
    BY RegistersAssumption DEF Registers
  <2>3. /\ Good(q) /\ Extends(g, q) /\ inRegister(q, v)
        /\ SameTables(g, q) /\ SameMachine(g, q)
        /\ q.dontSwap = g.dontSwap \cup {q.currentRegister[v]}
    BY <1>2, <1>3, <2>1, <2>2
  <2> QED BY <2>3 DEF SameTables, SameMachine, inRegister, q
<1>4. CASE ~ inRegister(g, v) /\ freeRegExists(g)
  <2> DEFINE r == nextAvailable(g)
  <2> DEFINE m == loadRegisterWithVar(g, r, v)
  <2>1. q = protect(m)
    BY <1>1, <1>4 DEF ensureInRegister
  <2>2. r \in Registers /\ g.occupiedBy[r] = invalidVn
    BY <1>1, <1>4, NextAvailableIsFree
  <2> HIDE DEF r
  <2>3. Loaded(g, m, r, v)
    BY <2>2, Load
  <2> HIDE DEF m, q, protect
  <2>4. Good(m) /\ Extends(g, m) /\ inRegister(m, v)
    BY <2>2, <2>3, RegistersFacts DEF Loaded, inRegister
  <2>5. /\ Good(q) /\ Extends(m, q) /\ inRegister(q, v)
        /\ SameTables(m, q) /\ SameMachine(m, q)
        /\ q.dontSwap = m.dontSwap \cup {q.currentRegister[v]}
    BY <1>2, <2>1, <2>2, <2>4
  <2>6. \A s \in g.dontSwap : g.occupiedBy[s] # invalidVn =>
            m.occupiedBy[s] = g.occupiedBy[s]
    BY <1>1, <1>4, <2>2, <2>3, RegistersFacts DEF Loaded, inRegister
  <2>7. \A w \in Vars : inRegister(q, w) => w = v \/ inRegister(g, w)
    BY <2>3, <2>5 DEF Loaded, SameTables, inRegister
  <2>8. ASSUME NEW w \in Vars, ~ inRegister(g, w) \/ g.currentRegister[w] \in g.dontSwap
        PROVE  q.mem[w] = g.mem[w]
    <3>1. g.occupiedBy[r] # w
      BY <1>1, <2>2, <2>8, GoodFacts, RegistersFacts, VarsAssumption DEF inRegister
    <3> QED BY <2>3, <2>5, <3>1 DEF Loaded, SameMachine
  <2>9. q.dontSwap = g.dontSwap \cup {q.currentRegister[v]}
    BY <2>3, <2>5 DEF Loaded
  <2>10. /\ \A s \in g.dontSwap : g.occupiedBy[s] # invalidVn =>
               q.occupiedBy[s] = g.occupiedBy[s]
         /\ Extends(g, q)
    BY <2>4, <2>5, <2>6, ExtendsTransitive DEF SameTables
  <2> QED BY <1>4, <2>5, <2>7, <2>8, <2>9, <2>10 DEF q
<1>5. CASE ~ inRegister(g, v) /\ ~ freeRegExists(g)
  <2> DEFINE r == victim(g)
  <2> DEFINE m == loadRegisterWithVar(g, r, v)
  <2> DEFINE next == (r + 1) % numRegisters
  <2>1. q = protect([m EXCEPT !.nextRegToBeSwapped = next])
    BY <1>1, <1>5 DEF ensureInRegister
  <2>2. r \in Registers \ g.dontSwap /\ next \in Registers
    BY <1>1, VictimIsUnprotected
  <2> HIDE DEF r, next
  <2>3. Loaded(g, m, r, v)
    BY <2>2, Load
  <2> HIDE DEF m, q, protect
  <2>4. Good(m) /\ Extends(g, m) /\ inRegister(m, v)
    BY <2>2, <2>3, RegistersFacts DEF Loaded, inRegister
  <2>5. /\ Good(q) /\ Extends(m, q) /\ inRegister(q, v)
        /\ SameTables(m, q) /\ SameMachine(m, q)
        /\ q.dontSwap = m.dontSwap \cup {q.currentRegister[v]}
    BY <1>2, <2>1, <2>2, <2>4
  <2>6. \A s \in g.dontSwap : g.occupiedBy[s] # invalidVn =>
            m.occupiedBy[s] = g.occupiedBy[s]
    BY <1>1, <1>5, <2>2, <2>3, RegistersFacts DEF Loaded, inRegister
  <2>7. \A w \in Vars : inRegister(q, w) => w = v \/ inRegister(g, w)
    BY <2>3, <2>5 DEF Loaded, SameTables, inRegister
  <2>8. ASSUME NEW w \in Vars, ~ inRegister(g, w) \/ g.currentRegister[w] \in g.dontSwap
        PROVE  q.mem[w] = g.mem[w]
    <3>1. g.occupiedBy[r] # w
      BY <1>1, <2>2, <2>8, GoodFacts, RegistersFacts, VarsAssumption DEF inRegister
    <3> QED BY <2>3, <2>5, <3>1 DEF Loaded, SameMachine
  <2>9. q.dontSwap = g.dontSwap \cup {q.currentRegister[v]}
    BY <2>3, <2>5 DEF Loaded
  <2>10. /\ \A s \in g.dontSwap : g.occupiedBy[s] # invalidVn =>
               q.occupiedBy[s] = g.occupiedBy[s]
         /\ Extends(g, q)
    BY <2>4, <2>5, <2>6, ExtendsTransitive DEF SameTables
  <2> QED BY <1>5, <2>5, <2>7, <2>8, <2>9, <2>10 DEF q
<1> QED BY <1>3, <1>4, <1>5

\* allocateRuntimeStorage leaves the variable with storage.
LEMMA AllocateRuntimeStorage ==
    ASSUME NEW g, Good(g), NEW v \in Vars, v \notin g.decommissioned,
           varPerfectRegSize(v)
    PROVE  LET q == allocateRuntimeStorage(g, v) IN
           Good(q) /\ Extends(g, q) /\ Stored(q, v) /\ q.dontSwap = g.dontSwap
<1> DEFINE q == allocateRuntimeStorage(g, v)
<1>1. g \in VarState /\ AvailableMatches(g)
  BY DEF Good
<1>2. CASE Stored(g, v)
  BY <1>2, ExtendsReflexive DEF allocateRuntimeStorage
<1>3. CASE ~ Stored(g, v) /\ freeRegExists(g)
  <2> DEFINE r == nextAvailable(g)
  <2>1. q = loadRegisterWithVar(g, r, v)
    BY <1>3 DEF allocateRuntimeStorage
  <2>2. r \in Registers /\ g.occupiedBy[r] = invalidVn
    BY <1>1, <1>3, NextAvailableIsFree
  <2> HIDE DEF r
  <2>3. Loaded(g, q, r, v)
    BY <2>1, <2>2, Load
  <2> HIDE DEF q
  <2> QED BY <2>2, <2>3, RegistersFacts DEF Loaded, Stored, inRegister, q
<1>4. CASE ~ Stored(g, v) /\ ~ freeRegExists(g)
  <2>1. q = ensureStackOffsetValid(g, v)
    BY <1>4 DEF allocateRuntimeStorage
  <2> HIDE DEF q
  <2> QED BY <2>1, EnsureSlot DEF Stored, SameFlags, q
<1> QED BY <1>2, <1>3, <1>4

-----------------------------------------------------------------------------
(* Operators that change what a variable holds.                            *)

\* q differs from g in that v now holds x.
Writes(g, q, v, x) ==
    /\ q.decommissioned = g.decommissioned
    /\ q.noNewStackStorage = g.noNewStackStorage
    /\ SameSlots(g, q)
    /\ q.occupiedBy = g.occupiedBy
    /\ Stored(q, v) /\ ReadVar(q, v) = x
    /\ \A w \in Vars : w # v /\ Stored(g, w) =>
          Stored(q, w) /\ ReadVar(q, w) = ReadVar(g, w)

\* A record with the tables and slots of a good one is good.
LEMMA SameIsGood ==
    ASSUME NEW g, Good(g), NEW q \in VarState,
           SameTables(g, q), SameSlots(g, q), SameFlags(g, q)
    PROVE  /\ Good(q)
           /\ \A v \in Vars :
                 /\ Stored(q, v) <=> Stored(g, v)
                 /\ hasStackStorage(q, v) <=> hasStackStorage(g, v)
                 /\ inRegister(q, v) <=> inRegister(g, v)
BY DEF Good, SameTables, SameSlots, SameFlags, RegistersMatch, AvailableMatches,
   ListedAvailable, SlotsApart, Overlap, Stored, inRegister, hasStackStorage

\* Storing to the slot of a variable that is not in a register.
LEMMA WriteSlot ==
    ASSUME NEW g, Good(g), NEW v \in Vars, NEW x \in Content,
           ~ inRegister(g, v), hasStackStorage(g, v)
    PROVE  LET q == storeToSlot(g, v, x) IN
           Good(q) /\ Writes(g, q, v, x) /\ q.dontSwap = g.dontSwap
<1> DEFINE q == storeToSlot(g, v, x)
<1>1. g \in VarState /\ SlotsApart(g) /\ g.mem \in [Vars -> Content]
  BY GoodFacts DEF Good
<1>2. /\ q \in VarState
      /\ SameTables(g, q) /\ SameSlots(g, q) /\ SameFlags(g, q)
      /\ q.mem = [g.mem EXCEPT ![v] = x] /\ q.reg = g.reg
  BY <1>1, StoreFields
<1> HIDE DEF q
<1>3. /\ Good(q)
      /\ \A w \in Vars :
            /\ Stored(q, w) <=> Stored(g, w)
            /\ inRegister(q, w) <=> inRegister(g, w)
  BY <1>2, SameIsGood
<1>4. Stored(g, v)
  BY DEF Stored
<1> QED BY <1>1, <1>2, <1>3, <1>4
        DEF Writes, SameTables, SameSlots, SameFlags, ReadVar, q

\* Writing a variable through the operand the code names it by.
LEMMA WriteOperand ==
    ASSUME NEW g, Good(g), NEW v \in Vars, NEW x \in Content, Stored(g, v)
    PROVE  LET q == writeOperand(g, v, x) IN
           Good(q) /\ Writes(g, q, v, x) /\ q.dontSwap = g.dontSwap
<1> DEFINE q == writeOperand(g, v, x)
<1>1. CASE ~ inRegister(g, v)
  <2>1. hasStackStorage(g, v) /\ q = storeToSlot(g, v, x)
    BY <1>1 DEF Stored, writeOperand
  <2> QED BY <1>1, <2>1, WriteSlot
<1>2. CASE inRegister(g, v)
  <2> DEFINE r == g.currentRegister[v]
  <2>1. q = [g EXCEPT !.reg = [g.reg EXCEPT ![r] = x]]
    BY <1>2 DEF writeOperand
  <2>2. /\ g \in VarState /\ g.reg \in [Registers -> Content] /\ r \in Registers
        /\ RegistersMatch(g)
        /\ g.currentRegister \in [Vars -> Registers \cup {invalidRegister}]
    BY <1>2, GoodFacts, RegistersFacts DEF Good
  <2>3. [g.reg EXCEPT ![r] = x] \in [Registers -> Content]
    BY <2>2
  <2> HIDE DEF r, q
  <2>4. /\ q \in VarState
        /\ SameTables(g, q) /\ SameSlots(g, q) /\ SameFlags(g, q)
        /\ q.mem = g.mem /\ q.reg = [g.reg EXCEPT ![r] = x]
    BY <2>1, <2>2, <2>3 DEF VarState, SameTables, SameSlots, SameFlags
  <2>5. /\ Good(q)
        /\ \A w \in Vars :
              /\ Stored(q, w) <=> Stored(g, w)
              /\ inRegister(q, w) <=> inRegister(g, w)
    BY <2>4, SameIsGood
  <2>6. \A w \in Vars : q.currentRegister[w] = g.currentRegister[w]
    BY <2>4 DEF SameTables
  <2>7. ReadVar(q, v) = x
    BY <1>2, <2>2, <2>4, <2>5, <2>6 DEF ReadVar, r
  <2>8. ASSUME NEW w \in Vars, w # v
        PROVE  ReadVar(q, w) = ReadVar(g, w)
    <3>1. inRegister(g, w) => g.currentRegister[w] \in Registers \ {r}
      BY <2>2, <2>8, RegistersFacts DEF RegistersMatch, r
    <3> QED BY <2>2, <2>4, <2>5, <2>6, <3>1 DEF ReadVar
  <2> QED BY <2>4, <2>5, <2>7, <2>8
          DEF Writes, SameTables, SameSlots, SameFlags, q
<1> QED BY <1>1, <1>2

\* Overwriting registers without tenant disturbs no variable.
LEMMA ClobberFree ==
    ASSUME NEW g, Good(g), NEW rs \in SUBSET Registers,
           \A r \in rs : g.occupiedBy[r] = invalidVn
    PROVE  LET q == clobber(g, rs) IN
           /\ Good(q) /\ Extends(g, q)
           /\ q.mem = g.mem /\ \A r \in Registers \ rs : q.reg[r] = g.reg[r]
           /\ SameTables(g, q) /\ SameSlots(g, q) /\ q.dontSwap = g.dontSwap
<1> DEFINE q == clobber(g, rs)
<1> DEFINE f == [r \in Registers |-> IF r \in rs THEN junk ELSE g.reg[r]]
<1>1. /\ g \in VarState /\ g.reg \in [Registers -> Content] /\ RegistersMatch(g)
  BY GoodFacts DEF Good
<1>2. f \in [Registers -> Content]
  BY <1>1 DEF Content
<1>3. q = [g EXCEPT !.reg = f]
  BY DEF clobber
<1> HIDE DEF q, f
<1>4. /\ q \in VarState
      /\ SameTables(g, q) /\ SameSlots(g, q) /\ SameFlags(g, q)
      /\ q.mem = g.mem /\ q.reg = f
  BY <1>1, <1>2, <1>3 DEF VarState, SameTables, SameSlots, SameFlags
<1>5. /\ Good(q)
      /\ \A w \in Vars :
            /\ Stored(q, w) <=> Stored(g, w)
            /\ inRegister(q, w) <=> inRegister(g, w)
  BY <1>4, SameIsGood
<1>6. ASSUME NEW w \in Vars
      PROVE  ReadVar(q, w) = ReadVar(g, w)
  <2>1. inRegister(g, w) => g.currentRegister[w] \in Registers \ rs
    BY <1>1, RegistersFacts, VarsAssumption DEF RegistersMatch
  <2> QED BY <1>4, <1>5, <2>1 DEF ReadVar, SameTables, f
<1>7. \A r \in Registers \ rs : q.reg[r] = g.reg[r]
  BY <1>4 DEF f
<1> QED BY <1>1, <1>4, <1>5, <1>6, <1>7, SameSlotsGrow DEF Extends, SameSlots, SameFlags, q

\* findOrMakeFreeReg returns a register without tenant and loses nothing.
LEMMA MakeFreeReg ==
    ASSUME NEW g, Good(g), NEW last \in Registers
    PROVE  LET q == makeFreeReg(g, last)
               r == freeReg(g, last)
           IN  /\ Good(q) /\ Extends(g, q) /\ q.dontSwap = g.dontSwap
               /\ r \in Registers /\ q.occupiedBy[r] = invalidVn /\ q.reg = g.reg
               /\ \A v \in Vars : inRegister(q, v) => inRegister(g, v)
<1>1. g \in VarState /\ AvailableMatches(g)
      /\ g.occupiedBy \in [Registers -> Vars \cup {invalidVn}]
  BY GoodFacts DEF Good
<1>2. CASE freeRegExists(g)
  BY <1>1, <1>2, NextAvailableIsFree, ExtendsReflexive DEF makeFreeReg, freeReg
<1>3. CASE ~ freeRegExists(g)
  <2> DEFINE t == g.occupiedBy[last]
  <2> DEFINE q == releaseRegister(spill(ensureStackOffsetValid(g, t), t), last)
  <2>1. makeFreeReg(g, last) = q /\ freeReg(g, last) = last
    BY <1>3 DEF makeFreeReg, freeReg
  <2>2. t # invalidVn
    <3>1. g.available = <<>>
      BY <1>3 DEF freeRegExists
    <3>2. ~ ListedAvailable(g, last)
      BY <3>1 DEF ListedAvailable
    <3> QED BY <1>1, <3>2 DEF AvailableMatches
  <2>3. /\ Good(q) /\ Extends(g, q) /\ q.dontSwap = g.dontSwap /\ q.reg = g.reg
        /\ q.occupiedBy = [g.occupiedBy EXCEPT ![last] = invalidVn]
        /\ \A v \in Vars : inRegister(q, v) => inRegister(g, v)
    BY <2>2, SpillAndRelease
  <2> HIDE DEF q
  <2> QED BY <1>1, <2>1, <2>3
<1> QED BY <1>2, <1>3

\* The end of a variable: it has no storage any more, and the others keep
\* theirs.
LEMMA DecommissionVar ==
    ASSUME NEW g, Good(g), NEW v \in Vars, v \notin g.decommissioned
    PROVE  LET q == decommission(g, v) IN
           /\ Good(q)
           /\ q.decommissioned = g.decommissioned \cup {v}
           /\ q.noNewStackStorage = g.noNewStackStorage
           /\ q.currentFrameSize = g.currentFrameSize
           /\ \A w \in Vars : w # v =>
                 /\ q.rbpOffset[w] = g.rbpOffset[w]
                 /\ Stored(q, w) <=> Stored(g, w)
                 /\ ReadVar(q, w) = ReadVar(g, w)
<1> DEFINE D == g.decommissioned \cup {v}
<1> DEFINE m == [g EXCEPT !.decommissioned = D]
<1> DEFINE r == m.currentRegister[v]
<1> DEFINE s == IF r # invalidRegister THEN releaseRegister(m, r) ELSE m
<1> DEFINE q == decommission(g, v)
<1>1. /\ g \in VarState /\ AvailableMatches(g) /\ SlotsApart(g)
      /\ g.decommissioned \subseteq Vars
      /\ g.currentRegister \in [Vars -> Registers \cup {invalidRegister}]
      /\ g.occupiedBy \in [Registers -> Vars \cup {invalidVn}]
      /\ g.rbpOffset \in [Vars -> Int]
  BY DEF Good, VarState
<1>2. /\ m \in VarState /\ m.decommissioned = D
      /\ SameTables(g, m) /\ SameMachine(g, m) /\ SameSlots(g, m)
      /\ m.noNewStackStorage = g.noNewStackStorage /\ m.panicked = g.panicked
  BY <1>1 DEF VarState, SameTables, SameMachine, SameSlots
<1>3. q = [s EXCEPT !.rbpOffset = [s.rbpOffset EXCEPT ![v] = 0]]
  BY DEF decommission
<1> HIDE DEF m
<1>4. r = g.currentRegister[v] /\ AvailableMatches(m)
  BY <1>1, <1>2 DEF SameTables, AvailableMatches, ListedAvailable
<1> HIDE DEF r
<1>5. /\ s \in VarState /\ AvailableMatches(s) /\ s.decommissioned = D
      /\ SameMachine(g, s) /\ SameSlots(g, s)
      /\ s.noNewStackStorage = g.noNewStackStorage /\ s.panicked = g.panicked
      /\ \A w \in Vars : s.currentRegister[w] =
            IF w = v THEN invalidRegister ELSE g.currentRegister[w]
      /\ \A x \in Registers : s.occupiedBy[x] =
            IF x = r THEN invalidVn ELSE g.occupiedBy[x]
  <2>1. CASE r = invalidRegister
    BY <1>1, <1>2, <1>4, <2>1, RegistersFacts DEF SameTables
  <2>2. CASE r # invalidRegister
    <3>1. r \in Registers
      BY <1>1, <1>4, <2>2
    <3>2. g.occupiedBy[r] = v
      BY <1>4, <3>1, GoodFacts
    <3>3. m.occupiedBy[r] = v /\ v # invalidVn
      BY <1>2, <3>2, VarsAssumption DEF SameTables
    <3>4. /\ s \in VarState
          /\ s.occupiedBy = [m.occupiedBy EXCEPT ![r] = invalidVn]
          /\ s.currentRegister = [w \in Vars |->
                IF w = m.occupiedBy[r] THEN invalidRegister
                ELSE m.currentRegister[w]]
          /\ AvailableMatches(s)
          /\ SameMachine(m, s) /\ SameSlots(m, s) /\ SameFlags(m, s)
      BY <1>2, <1>4, <2>2, <3>1, <3>3, ReleaseFields
    <3> HIDE DEF s
    <3> QED BY <1>1, <1>2, <3>1, <3>3, <3>4
            DEF SameTables, SameMachine, SameSlots, SameFlags
  <2> QED BY <2>1, <2>2
<1> HIDE DEF s
<1>6. /\ q \in VarState /\ AvailableMatches(q) /\ q.decommissioned = D
      /\ SameMachine(g, q) /\ SameTables(s, q)
      /\ q.currentFrameSize = g.currentFrameSize
      /\ q.noNewStackStorage = g.noNewStackStorage /\ q.panicked = g.panicked
      /\ q.rbpOffset = [g.rbpOffset EXCEPT ![v] = 0]
  <2> DEFINE f == [s.rbpOffset EXCEPT ![v] = 0]
  <2>1. f = [g.rbpOffset EXCEPT ![v] = 0] /\ f \in [Vars -> Int]
    BY <1>1, <1>5 DEF SameSlots
  <2> HIDE DEF f, q
  <2>2. /\ q \in VarState /\ q.rbpOffset = f /\ q.decommissioned = s.decommissioned
        /\ SameTables(s, q) /\ SameMachine(s, q)
        /\ q.currentFrameSize = s.currentFrameSize
        /\ q.noNewStackStorage = s.noNewStackStorage /\ q.panicked = s.panicked
    BY <1>3, <1>5, <2>1 DEF VarState, SameTables, SameMachine, f
  <2> QED BY <1>5, <2>1, <2>2
          DEF SameTables, SameMachine, SameSlots, AvailableMatches, ListedAvailable
<1> HIDE DEF q
<1>7. \A w \in Vars :
         /\ w # v => q.rbpOffset[w] = g.rbpOffset[w]
         /\ w # v => q.currentRegister[w] = g.currentRegister[w]
         /\ ~ inRegister(q, v) /\ ~ hasStackStorage(q, v)
  BY <1>1, <1>5, <1>6 DEF SameTables, inRegister, hasStackStorage
<1>8. RegistersMatch(q)
  <2>1. \A x \in Registers, w \in Vars :
           g.occupiedBy[x] = w <=> g.currentRegister[w] = x
    BY GoodFacts
  <2> QED BY <1>4, <1>5, <1>6, <2>1, VarsAssumption, RegistersFacts
          DEF RegistersMatch, SameTables
<1>9. SlotsApart(q)
  BY <1>1, <1>6, <1>7, SizeAssumption DEF SlotsApart, Overlap, hasStackStorage
<1>10. \A w \in Vars : w # v =>
          /\ Stored(q, w) <=> Stored(g, w)
          /\ ReadVar(q, w) = ReadVar(g, w)
          /\ inRegister(q, w) <=> inRegister(g, w)
  BY <1>6, <1>7 DEF Stored, inRegister, hasStackStorage, ReadVar, SameMachine
<1>11. Good(q)
  <2>1. \A w \in q.decommissioned : ~ Stored(q, w)
    BY <1>1, <1>6, <1>7, <1>10 DEF Good, Stored
  <2>2. \A w \in Vars : inRegister(q, w) => varPerfectRegSize(w)
    BY <1>7, <1>10 DEF Good
  <2> QED BY <1>6, <1>8, <1>9, <2>1, <2>2 DEF Good
<1> QED BY <1>6, <1>7, <1>10, <1>11 DEF q

\* Which registers an instruction protects has no bearing on consistency.
LEMMA DontSwapIsFree ==
    ASSUME NEW g, Good(g), NEW S \in SUBSET Registers
    PROVE  LET q == [g EXCEPT !.dontSwap = S] IN
           /\ Good(q) /\ Extends(g, q)
           /\ \A v \in Vars : Stored(q, v) <=> Stored(g, v)
           /\ \A v \in Vars : ReadVar(q, v) = ReadVar(g, v)
           /\ SameSlots(g, q)
<1> DEFINE q == [g EXCEPT !.dontSwap = S]
<1>1. /\ q \in VarState /\ SameTables(g, q) /\ SameMachine(g, q) /\ SameSlots(g, q)
      /\ q.decommissioned = g.decommissioned
      /\ q.noNewStackStorage = g.noNewStackStorage /\ q.panicked = g.panicked
  BY DEF Good, VarState, SameTables, SameMachine, SameSlots
<1> HIDE DEF q
<1>2. \A v \in Vars :
         /\ Stored(q, v) <=> Stored(g, v)
         /\ ReadVar(q, v) = ReadVar(g, v)
         /\ inRegister(q, v) <=> inRegister(g, v)
  BY <1>1 DEF SameTables, SameMachine, SameSlots, Stored, inRegister,
              hasStackStorage, ReadVar
<1>3. RegistersMatch(q) /\ AvailableMatches(q) /\ SlotsApart(q)
  BY <1>1 DEF Good, SameTables, SameSlots, RegistersMatch, AvailableMatches,
              ListedAvailable, SlotsApart, Overlap, hasStackStorage
<1>4. Good(q)
  BY <1>1, <1>2, <1>3, GoodFacts DEF Good, VarState
<1> QED BY <1>1, <1>2, <1>4, SameSlotsGrow DEF Good, Extends, SameSlots, q

-----------------------------------------------------------------------------
(* The invariant of RegAlloc.                                              *)


IInv ==
    /\ Good(p)
    /\ ~ p.noNewStackStorage
    /\ value \in [Vars -> Content]
    /\ Holds(p, value)

\* What SlotsStay says of one step, and that the slots handed out in it were
\* nobody's before.
SlotsKept ==
    /\ Grows(p, p')
    /\ \A v \in Vars : hasStackStorage(p, v) =>
          \/ p'.rbpOffset[v] = p.rbpOffset[v]
          \/ v \in p'.decommissioned

\* No variable ends in this step.
NothingEnds == p'.decommissioned = p.decommissioned

-----------------------------------------------------------------------------
(* How the values fare when the record changes in the ways the lemmas      *)
(* above describe.                                                         *)

\* Moving variables around changes no value.
LEMMA HeldByExtension ==
    ASSUME NEW q, NEW r, NEW val, Extends(q, r), Holds(q, val)
    PROVE  Holds(r, val)
BY DEF Extends, Holds

\* Writing one variable changes its value and no other.
LEMMA HeldByWriting ==
    ASSUME NEW q, NEW r, NEW val \in [Vars -> Content], NEW v \in Vars,
           NEW x \in Content, Writes(q, r, v, x), Holds(q, val)
    PROVE  /\ Holds(r, [val EXCEPT ![v] = x])
           /\ [val EXCEPT ![v] = x] \in [Vars -> Content]
<1>1. ASSUME NEW w \in Vars, [val EXCEPT ![v] = x][w] # junk
      PROVE  Stored(r, w) /\ ReadVar(r, w) = [val EXCEPT ![v] = x][w]
  <2>1. CASE w = v
    BY <2>1 DEF Writes
  <2>2. CASE w # v
    <3>1. [val EXCEPT ![v] = x][w] = val[w]
      BY <2>2
    <3> QED BY <1>1, <2>2, <3>1 DEF Writes, Holds
  <2> QED BY <2>1, <2>2
<1> QED BY <1>1 DEF Holds

\* The slots of q are in r where they were.
LEMMA SlotsOfExtension ==
    ASSUME NEW q, NEW r, Extends(q, r), NEW v \in Vars, hasStackStorage(q, v)
    PROVE  r.rbpOffset[v] = q.rbpOffset[v]
BY DEF Extends

-----------------------------------------------------------------------------
(* The initial state.                                                      *)

\* Before the first instruction every register is free and the only slots
\* are those of the arguments the caller pushed.
LEMMA InitGood == Init => IInv
<1> SUFFICES ASSUME Init PROVE IInv
  OBVIOUS
<1>1. /\ argOffset \in [Vars -> Int] /\ value \in [Vars -> Content]
      /\ \A v \in Vars : argOffset[v] <= 0
      /\ \A v \in Vars : argOffset[v] # 0 => SizeOf[v] <= 8
      /\ \A v, w \in Vars :
            v # w /\ argOffset[v] # 0 /\ argOffset[w] # 0
               => \/ argOffset[v] + 8 <= argOffset[w]
                  \/ argOffset[w] + 8 <= argOffset[v]
      /\ SizeOf \in [Vars -> Nat \ {0}]
  BY ArgOffsetAssumption, SizeAssumption DEF Init
<1>2. /\ initialAvailable \in Seq(Registers) /\ 0 \in Registers
      /\ Len(initialAvailable) = numRegisters /\ junk \in Content
  BY AvailableAssumption, RegistersAssumption DEF Registers, Content
<1>3. /\ p.currentRegister = [v \in Vars |-> invalidRegister]
      /\ p.rbpOffset = argOffset /\ p.decommissioned = {}
      /\ p.occupiedBy = [r \in Registers |-> invalidVn]
      /\ p.available = initialAvailable
      /\ p.dontSwap = {} /\ p.nextRegToBeSwapped = 0
      /\ p.currentFrameSize = 0 /\ p.noNewStackStorage = FALSE
      /\ p.reg = [r \in Registers |-> junk] /\ p.mem = value
      /\ p.panicked = FALSE
      /\ p \in VarState
  BY <1>1, <1>2 DEF Init, newFullVarState, VarState
<1>4. RegistersMatch(p)
  BY <1>3, RegistersFacts, VarsAssumption DEF RegistersMatch
<1>5. AvailableMatches(p)
  BY <1>2, <1>3, AvailableAssumption DEF AvailableMatches, ListedAvailable
<1>6. SlotsApart(p)
  <2>1. ASSUME NEW v \in Vars, NEW w \in Vars, v # w, Overlap(p, v, w)
        PROVE  FALSE
    <3>1. /\ argOffset[v] # 0 /\ argOffset[w] # 0
          /\ argOffset[v] - SizeOf[v] < argOffset[w]
          /\ argOffset[w] - SizeOf[w] < argOffset[v]
      BY <1>3, <2>1 DEF Overlap, hasStackStorage
    <3>2. /\ argOffset[v] \in Int /\ argOffset[w] \in Int
          /\ SizeOf[v] \in Nat /\ SizeOf[w] \in Nat
          /\ SizeOf[v] <= 8 /\ SizeOf[w] <= 8
      BY <1>1, <3>1
    <3>3. \/ argOffset[v] + 8 <= argOffset[w]
          \/ argOffset[w] + 8 <= argOffset[v]
      BY <1>1, <2>1, <3>1
    <3> QED BY <3>1, <3>2, <3>3
  <2>2. ASSUME NEW v \in Vars PROVE ~ (p.rbpOffset[v] > 0)
    <3>1. p.rbpOffset[v] = argOffset[v] /\ argOffset[v] \in Int /\ argOffset[v] <= 0
      BY <1>1, <1>3
    <3> QED BY <3>1
  <2> QED BY <2>1, <2>2 DEF SlotsApart
<1>7. \A v \in Vars : ~ inRegister(p, v)
  BY <1>3 DEF inRegister
<1>8. Good(p)
  BY <1>3, <1>4, <1>5, <1>6, <1>7 DEF Good
<1>9. Holds(p, value)
  <2>1. \A v \in Vars : value[v] # junk => hasStackStorage(p, v)
    BY <1>3 DEF Init, hasStackStorage
  <2> QED BY <1>3, <1>7, <2>1 DEF Holds, Stored, ReadVar
<1> QED BY <1>1, <1>3, <1>8, <1>9 DEF IInv

-----------------------------------------------------------------------------
(* One lemma per action.                                                   *)

\* An action that only moves variables around.
LEMMA Moves ==
    ASSUME IInv, Good(p'), Extends(p, p'), value' = value
    PROVE  IInv' /\ SlotsKept /\ NothingEnds
<1>1. Holds(p', value)
  BY HeldByExtension DEF IInv
<1>2. IInv'
  BY <1>1 DEF IInv, Extends
<1> QED BY <1>2, SlotsOfExtension DEF SlotsKept, NothingEnds, Extends

\* An action that moves variables around, reaching q, and then gives v the
\* value x.
LEMMA MovesAndWrites ==
    ASSUME IInv, NEW q, Extends(p, q), NEW v \in Vars, NEW x \in Content,
           Good(p'), Writes(q, p', v, x), value' = [value EXCEPT ![v] = x]
    PROVE  IInv' /\ SlotsKept /\ NothingEnds
<1>1. Holds(q, value) /\ value \in [Vars -> Content]
  BY HeldByExtension DEF IInv
<1>2. Holds(p', [value EXCEPT ![v] = x]) /\ [value EXCEPT ![v] = x] \in [Vars -> Content]
  BY <1>1, HeldByWriting
<1>3. IInv'
  BY <1>2 DEF IInv, Extends, Writes
<1>4. SlotsKept
  <2>1. Grows(p, p')
    BY DEF Grows, Extends, Writes, SameSlots, hasStackStorage
  <2> QED BY <2>1, SlotsOfExtension DEF SlotsKept, Writes, SameSlots
<1>5. NothingEnds
  BY DEF NothingEnds, Writes, Extends
<1> QED BY <1>3, <1>4, <1>5

\* Forgetting which registers the last instruction used.
LEMMA StartInstructionStep == IInv /\ StartInstruction => IInv' /\ SlotsKept /\ NothingEnds
<1> SUFFICES ASSUME IInv, StartInstruction PROVE IInv' /\ SlotsKept /\ NothingEnds
  OBVIOUS
<1>1. Good(p') /\ Extends(p, p') /\ value' = value
  BY DontSwapIsFree DEF IInv, StartInstruction
<1> QED BY <1>1, Moves

\* Bringing an operand in.
LEMMA UseInRegisterStep ==
    ASSUME NEW v \in Vars
    PROVE  IInv /\ UseInRegister(v) => IInv' /\ SlotsKept /\ NothingEnds
<1> SUFFICES ASSUME IInv, UseInRegister(v) PROVE IInv' /\ SlotsKept /\ NothingEnds
  OBVIOUS
<1>1. Good(p') /\ Extends(p, p') /\ value' = value
  BY EnsureInRegister DEF IInv, UseInRegister, LiveInReg, Live, OperandsLeft
<1> QED BY <1>1, Moves

\* Giving a variable a value in a register.
LEMMA AssignImmInRegisterStep ==
    ASSUME NEW v \in Vars, NEW x \in ImmediatesFor[v]
    PROVE  IInv /\ AssignImmInRegister(v, x) => IInv' /\ SlotsKept /\ NothingEnds
<1> SUFFICES ASSUME IInv, AssignImmInRegister(v, x) PROVE IInv' /\ SlotsKept /\ NothingEnds
  OBVIOUS
<1> DEFINE q == ensureInRegister(p, v)
<1>1. x \in Content
  BY ImmediatesAssumption DEF Content
<1>2. Good(q) /\ Extends(p, q) /\ Stored(q, v)
  BY EnsureInRegister
     DEF IInv, AssignImmInRegister, LiveInReg, Live, OperandsLeft, Stored
<1>3. p' = writeOperand(q, v, x) /\ value' = [value EXCEPT ![v] = x]
  BY DEF AssignImmInRegister
<1> HIDE DEF q
<1>4. Good(p') /\ Writes(q, p', v, x)
  BY <1>1, <1>2, <1>3, WriteOperand
<1> QED BY <1>1, <1>2, <1>3, <1>4, MovesAndWrites

\* Giving a variable a value wherever it finds room.
LEMMA AssignImmAnywhereStep ==
    ASSUME NEW v \in Vars, NEW x \in ImmediatesFor[v]
    PROVE  IInv /\ AssignImmAnywhere(v, x) => IInv' /\ SlotsKept /\ NothingEnds
<1> SUFFICES ASSUME IInv, AssignImmAnywhere(v, x) PROVE IInv' /\ SlotsKept /\ NothingEnds
  OBVIOUS
<1> DEFINE q == allocateRuntimeStorage(p, v)
<1>1. x \in Content
  BY ImmediatesAssumption DEF Content
<1>2. Good(q) /\ Extends(p, q) /\ Stored(q, v)
  BY AllocateRuntimeStorage DEF IInv, AssignImmAnywhere, LiveInReg, Live
<1>3. p' = writeOperand(q, v, x) /\ value' = [value EXCEPT ![v] = x]
  BY DEF AssignImmAnywhere
<1> HIDE DEF q
<1>4. Good(p') /\ Writes(q, p', v, x)
  BY <1>1, <1>2, <1>3, WriteOperand
<1> QED BY <1>1, <1>2, <1>3, <1>4, MovesAndWrites

\* Finding room for a variable.
LEMMA ReserveStorageStep ==
    ASSUME NEW v \in Vars
    PROVE  IInv /\ ReserveStorage(v) => IInv' /\ SlotsKept /\ NothingEnds
<1> SUFFICES ASSUME IInv, ReserveStorage(v) PROVE IInv' /\ SlotsKept /\ NothingEnds
  OBVIOUS
<1>1. Good(p') /\ Extends(p, p') /\ value' = value
  BY AllocateRuntimeStorage DEF IInv, ReserveStorage, LiveInReg, Live
<1> QED BY <1>1, Moves

\* Multiplying into rax, then protecting rax.
LEMMA MultiplyIntoRaxStep ==
    ASSUME NEW v \in Vars, NEW x \in ImmediatesFor[v]
    PROVE  IInv /\ MultiplyIntoRax(v, x) => IInv' /\ SlotsKept /\ NothingEnds
<1> SUFFICES ASSUME IInv, MultiplyIntoRax(v, x) PROVE IInv' /\ SlotsKept /\ NothingEnds
  OBVIOUS
<1> DEFINE q == loadRegisterWithVar(p, rax, v)
<1> DEFINE m == writeOperand(q, v, x)
<1>1. x \in Content /\ rax \in Registers
  BY ImmediatesAssumption, FixedRegistersAssumption DEF Content
<1>2. Good(q) /\ Extends(p, q) /\ Stored(q, v)
  <2>1. Loaded(p, q, rax, v)
    BY <1>1, Load DEF IInv, MultiplyIntoRax, LiveInReg, Live
  <2> QED BY <1>1, <2>1, RegistersFacts DEF Loaded, Stored, inRegister
<1>3. p' = [m EXCEPT !.dontSwap = m.dontSwap \cup {rax}]
      /\ value' = [value EXCEPT ![v] = x]
  BY DEF MultiplyIntoRax
<1> HIDE DEF q
<1>4. Good(m) /\ Writes(q, m, v, x)
  BY <1>1, <1>2, WriteOperand
<1> HIDE DEF m
<1>5. m.dontSwap \cup {rax} \in SUBSET Registers
  BY <1>1, <1>4 DEF Good, VarState
<1>6. /\ Good(p') /\ SameSlots(m, p') /\ p'.occupiedBy = m.occupiedBy
      /\ p'.decommissioned = m.decommissioned
      /\ p'.noNewStackStorage = m.noNewStackStorage
      /\ \A w \in Vars : /\ Stored(p', w) <=> Stored(m, w)
                         /\ ReadVar(p', w) = ReadVar(m, w)
  <2>1. /\ p'.occupiedBy = m.occupiedBy /\ p'.decommissioned = m.decommissioned
        /\ p'.noNewStackStorage = m.noNewStackStorage
    BY <1>3, <1>4 DEF Good, VarState
  <2> QED BY <1>3, <1>4, <1>5, <2>1, DontSwapIsFree
<1>7. Writes(q, p', v, x)
  BY <1>4, <1>6 DEF Writes, SameSlots
<1> QED BY <1>1, <1>2, <1>3, <1>6, <1>7, MovesAndWrites

\* Copying a variable that fits a register.
LEMMA CopyThroughRegisterStep ==
    ASSUME NEW dest \in Vars, NEW source \in Vars
    PROVE  IInv /\ CopyThroughRegister(dest, source) => IInv' /\ SlotsKept /\ NothingEnds
<1> SUFFICES ASSUME IInv, CopyThroughRegister(dest, source)
             PROVE  IInv' /\ SlotsKept /\ NothingEnds
  OBVIOUS
<1> DEFINE q == ensureInRegister(p, source)
<1> DEFINE x == q.reg[q.currentRegister[source]]
<1> DEFINE e == ensureStackOffsetValid(q, dest)
<1>1. Good(q) /\ Extends(p, q) /\ inRegister(q, source)
  BY EnsureInRegister
     DEF IInv, CopyThroughRegister, LiveInReg, Live, OperandsLeft
<1>2. /\ p' = IF inRegister(q, dest) THEN writeOperand(q, dest, x)
              ELSE storeToSlot(e, dest, x)
      /\ value' = [value EXCEPT ![dest] = value[source]]
      /\ dest \notin p.decommissioned
  BY DEF CopyThroughRegister, LiveInReg, Live
<1> HIDE DEF q
<1>3. x \in Content /\ x = ReadVar(q, source)
  BY <1>1, GoodFacts, RegistersFacts DEF ReadVar
<1>4. dest \notin q.decommissioned
  BY <1>1, <1>2 DEF Extends
<1> HIDE DEF x
<1>5. PICK m : Extends(p, m) /\ Good(p') /\ Writes(m, p', dest, x)
  <2>1. CASE inRegister(q, dest)
    <3>1. Good(p') /\ Writes(q, p', dest, x)
      BY <1>1, <1>2, <1>3, <2>1, WriteOperand DEF Stored
    <3> QED BY <1>1, <3>1
  <2>2. CASE ~ inRegister(q, dest)
    <3>1. Good(e) /\ Extends(q, e) /\ hasStackStorage(e, dest) /\ SameTables(q, e)
      BY <1>1, <1>4, EnsureSlot
    <3>2. p' = storeToSlot(e, dest, x) /\ ~ inRegister(e, dest)
      BY <1>2, <2>2, <3>1 DEF SameTables, inRegister
    <3> HIDE DEF e
    <3>3. Good(p') /\ Writes(e, p', dest, x)
      BY <1>3, <3>1, <3>2, WriteSlot
    <3> QED BY <1>1, <3>1, <3>3, ExtendsTransitive DEF IInv
  <2> QED BY <2>1, <2>2
<1>6. CASE value[source] # junk
  <2>1. x = value[source]
    BY <1>1, <1>3, <1>6, HeldByExtension DEF IInv, Holds
  <2> QED BY <1>2, <1>3, <1>5, <2>1, MovesAndWrites
<1>7. CASE value[source] = junk
  <2> DEFINE val == [value EXCEPT ![dest] = junk]
  <2>1. Holds(m, value) /\ value \in [Vars -> Content] /\ junk \in Content
    BY <1>5, HeldByExtension DEF IInv, Content
  <2>2. val \in [Vars -> Content] /\ \A w \in Vars : val[w] # junk => w # dest /\ val[w] = value[w]
    BY <2>1
  <2>3. Holds(p', val)
    BY <1>5, <2>1, <2>2 DEF Holds, Writes
  <2>4. IInv'
    BY <1>2, <1>5, <1>7, <2>2, <2>3 DEF IInv, Writes, Extends
  <2>5. SlotsKept /\ NothingEnds
    <3>1. Grows(p, p')
      BY <1>5 DEF Grows, Extends, Writes, SameSlots, hasStackStorage
    <3> QED BY <1>5, <3>1, SlotsOfExtension
       DEF SlotsKept, NothingEnds, Writes, Extends, SameSlots
  <2> QED BY <2>4, <2>5
<1> QED BY <1>6, <1>7

\* The common end of the actions that write a variable on the stack: the
\* registers they overwrite are free and the slot is v's.
LEMMA ClobberAndStore ==
    ASSUME NEW q, Good(q), NEW rs \in SUBSET Registers,
           \A r \in rs : q.occupiedBy[r] = invalidVn,
           NEW v \in Vars, NEW x \in Content,
           hasStackStorage(q, v), ~ inRegister(q, v)
    PROVE  LET m == clobber(q, rs)
               s == storeToSlot(m, v, x)
           IN  /\ Good(m) /\ Good(s) /\ Extends(q, m) /\ Writes(m, s, v, x)
               /\ s.dontSwap = q.dontSwap
<1> DEFINE m == clobber(q, rs)
<1>1. /\ Good(m) /\ Extends(q, m) /\ SameTables(q, m) /\ SameSlots(q, m)
      /\ m.dontSwap = q.dontSwap
  BY ClobberFree
<1>2. hasStackStorage(m, v) /\ ~ inRegister(m, v)
  BY <1>1 DEF SameTables, SameSlots, hasStackStorage, inRegister
<1> HIDE DEF m
<1> QED BY <1>1, <1>2, WriteSlot DEF m

\* The three registers that a copy of memory overwrites are emptied.
LEMMA EmptyForMemcpy ==
    ASSUME NEW q, Good(q)
    PROVE  LET f == freeUp3(q, TRUE, rsi, rdi, rcx) IN
           /\ Good(f) /\ Extends(q, f) /\ f.dontSwap = q.dontSwap
           /\ {rsi, rdi, rcx} \subseteq Registers
           /\ \A r \in {rsi, rdi, rcx} : f.occupiedBy[r] = invalidVn
           /\ \A v \in Vars : inRegister(f, v) => inRegister(q, v)
<1> DEFINE f == freeUp3(q, TRUE, rsi, rdi, rcx)
<1>1. rsi \in Registers /\ rdi \in Registers /\ rcx \in Registers
  BY FixedRegistersAssumption
<1>2. /\ Good(f) /\ Extends(q, f) /\ f.dontSwap = q.dontSwap
      /\ f.occupiedBy[rsi] = invalidVn /\ f.occupiedBy[rdi] = invalidVn
      /\ f.occupiedBy[rcx] = invalidVn
      /\ \A v \in Vars : inRegister(f, v) => inRegister(q, v)
  BY <1>1, FreeUp3
<1> HIDE DEF f
<1> QED BY <1>1, <1>2 DEF f

\* A copy of memory gives dest what source has.
LEMMA CopyMemory ==
    ASSUME NEW q, Good(q), NEW dest \in Vars, NEW source \in Vars,
           dest \notin q.decommissioned, ~ varPerfectRegSize(dest),
           ~ varPerfectRegSize(source), Stored(q, source)
    PROVE  LET f == freeUp3(ensureStackOffsetValid(q, dest), TRUE, rsi, rdi, rcx)
               m == clobber(f, {rsi, rdi, rcx})
               s == storeToSlot(m, dest, f.mem[source])
           IN  /\ Good(m) /\ Extends(q, m)
               /\ Good(s) /\ Writes(m, s, dest, ReadVar(q, source))
               /\ s.dontSwap = q.dontSwap
<1> DEFINE e == ensureStackOffsetValid(q, dest)
<1> DEFINE f == freeUp3(e, TRUE, rsi, rdi, rcx)
<1> DEFINE rs == {rsi, rdi, rcx}
<1> DEFINE m == clobber(f, rs)
<1> DEFINE s == storeToSlot(m, dest, f.mem[source])
<1>1. Good(e) /\ Extends(q, e) /\ hasStackStorage(e, dest) /\ e.dontSwap = q.dontSwap
  BY EnsureSlot DEF SameFlags
<1> HIDE DEF e
<1>2. /\ Good(f) /\ Extends(e, f) /\ f.dontSwap = e.dontSwap
      /\ rs \subseteq Registers /\ \A r \in rs : f.occupiedBy[r] = invalidVn
  BY <1>1, EmptyForMemcpy
<1> HIDE DEF f, rs
<1>3. /\ Extends(q, f) /\ hasStackStorage(f, dest)
      /\ ~ inRegister(f, dest) /\ ~ inRegister(f, source)
  <2>1. f.rbpOffset[dest] = e.rbpOffset[dest]
    BY <1>1, <1>2, SlotsOfExtension
  <2> QED BY <1>1, <1>2, <2>1, ExtendsTransitive DEF hasStackStorage, Good
<1>4. f.mem[source] = ReadVar(q, source) /\ f.mem[source] \in Content
  BY <1>2, <1>3, GoodFacts DEF Extends, ReadVar
<1>5. /\ Good(m) /\ Good(s) /\ Extends(f, m) /\ Writes(m, s, dest, f.mem[source])
      /\ s.dontSwap = f.dontSwap
  BY <1>2, <1>3, <1>4, ClobberAndStore
<1> HIDE DEF m, s
<1>6. Extends(q, m)
  BY <1>2, <1>3, <1>5, ExtendsTransitive
<1> QED BY <1>1, <1>2, <1>4, <1>5, <1>6 DEF e, f, m, s, rs

\* memcpy between two slots.
LEMMA CopyThroughMemcpyStep ==
    ASSUME NEW dest \in Vars, NEW source \in Vars
    PROVE  IInv /\ CopyThroughMemcpy(dest, source) => IInv' /\ SlotsKept /\ NothingEnds
<1> SUFFICES ASSUME IInv, CopyThroughMemcpy(dest, source)
             PROVE  IInv' /\ SlotsKept /\ NothingEnds
  OBVIOUS
<1> DEFINE f == freeUp3(ensureStackOffsetValid(p, dest), TRUE, rsi, rdi, rcx)
<1> DEFINE m == clobber(f, {rsi, rdi, rcx})
<1> DEFINE s == storeToSlot(m, dest, f.mem[source])
<1>1. /\ dest \notin p.decommissioned /\ Good(p)
      /\ ~ varPerfectRegSize(source) /\ ~ varPerfectRegSize(dest)
      /\ value[source] # junk /\ value[source] \in Content
      /\ value' = [value EXCEPT ![dest] = value[source]]
  BY DEF CopyThroughMemcpy, Live, varPerfectRegSize, IInv
<1>2. /\ ~ inRegister(p, source) /\ Stored(p, source) /\ hasStackStorage(p, source)
      /\ ReadVar(p, source) = value[source]
  BY <1>1 DEF IInv, Holds, Stored, Good
<1>3. /\ Good(m) /\ Extends(p, m) /\ Good(s) /\ Writes(m, s, dest, ReadVar(p, source))
  BY <1>1, <1>2, CopyMemory
<1>4. p' = s
  BY <1>2 DEF CopyThroughMemcpy
<1> HIDE DEF m, s
<1> QED BY <1>1, <1>2, <1>3, <1>4, MovesAndWrites

\* Zeroing the slot of a variable.
LEMMA ZeroMemory ==
    ASSUME NEW q, Good(q), NEW v \in Vars, v \notin q.decommissioned, ~ inRegister(q, v)
    PROVE  LET m == clobber(freeUp2(ensureStackOffsetValid(q, v), TRUE, rdi, rcx),
                            {rdi, rcx})
               s == storeToSlot(m, v, zero)
           IN  /\ Good(m) /\ Extends(q, m)
               /\ Good(s) /\ Writes(m, s, v, zero) /\ s.dontSwap = q.dontSwap
<1> DEFINE e == ensureStackOffsetValid(q, v)
<1> DEFINE f == freeUp2(e, TRUE, rdi, rcx)
<1> DEFINE rs == {rdi, rcx}
<1> DEFINE m == clobber(f, rs)
<1> DEFINE s == storeToSlot(m, v, zero)
<1>1. /\ rdi \in Registers /\ rcx \in Registers /\ zero \in Content
      /\ rs \subseteq Registers
  BY FixedRegistersAssumption, ImmediatesAssumption DEF Content
<1>2. /\ Good(e) /\ Extends(q, e) /\ hasStackStorage(e, v)
      /\ ~ inRegister(e, v) /\ e.dontSwap = q.dontSwap
  BY EnsureSlot DEF SameTables, SameFlags, inRegister
<1> HIDE DEF e
<1>3. /\ Good(f) /\ Extends(e, f) /\ f.dontSwap = e.dontSwap
      /\ f.occupiedBy[rdi] = invalidVn /\ f.occupiedBy[rcx] = invalidVn
      /\ ~ inRegister(f, v)
  <2>1. /\ Good(f) /\ Extends(e, f) /\ f.dontSwap = e.dontSwap
        /\ f.occupiedBy[rdi] = invalidVn /\ f.occupiedBy[rcx] = invalidVn
        /\ \A w \in Vars : inRegister(f, w) => inRegister(e, w)
    BY <1>1, <1>2, FreeUp2
  <2> HIDE DEF f
  <2> QED BY <1>2, <2>1
<1> HIDE DEF f
<1>4. \A r \in rs : f.occupiedBy[r] = invalidVn
  BY <1>3
<1>5. Extends(q, f) /\ hasStackStorage(f, v)
  <2>1. f.rbpOffset[v] = e.rbpOffset[v]
    BY <1>2, <1>3, SlotsOfExtension
  <2> QED BY <1>2, <1>3, <2>1, ExtendsTransitive DEF hasStackStorage
<1> HIDE DEF rs
<1>6. /\ Good(m) /\ Good(s) /\ Extends(f, m) /\ Writes(m, s, v, zero)
      /\ s.dontSwap = f.dontSwap
  BY <1>1, <1>3, <1>4, <1>5, ClobberAndStore
<1> HIDE DEF m, s
<1>7. Extends(q, m)
  BY <1>3, <1>5, <1>6, ExtendsTransitive
<1> QED BY <1>2, <1>3, <1>6, <1>7 DEF e, f, m, s, rs

\* Zeroing a declared variable in place.
LEMMA ZeroOutVarOnStackStep ==
    ASSUME NEW v \in Vars
    PROVE  IInv /\ ZeroOutVarOnStack(v) => IInv' /\ SlotsKept /\ NothingEnds
<1> SUFFICES ASSUME IInv, ZeroOutVarOnStack(v) PROVE IInv' /\ SlotsKept /\ NothingEnds
  OBVIOUS
<1> DEFINE m == clobber(freeUp2(ensureStackOffsetValid(p, v), TRUE, rdi, rcx), {rdi, rcx})
<1>1. /\ v \notin p.decommissioned /\ ~ inRegister(p, v) /\ Good(p)
      /\ p' = storeToSlot(m, v, zero)
      /\ value' = [value EXCEPT ![v] = zero] /\ zero \in Content
  BY ImmediatesAssumption DEF ZeroOutVarOnStack, Live, IInv, Content
<1>2. Good(m) /\ Extends(p, m) /\ Good(p') /\ Writes(m, p', v, zero)
  BY <1>1, ZeroMemory
<1> HIDE DEF m
<1> QED BY <1>1, <1>2, MovesAndWrites

\* Emptying rdx for a division.
LEMMA EmptyRdxStep == IInv /\ EmptyRdx => IInv' /\ SlotsKept /\ NothingEnds
<1> SUFFICES ASSUME IInv, EmptyRdx PROVE IInv' /\ SlotsKept /\ NothingEnds
  OBVIOUS
<1> DEFINE q == freeUp1(p, TRUE, rdx)
<1>1. p' = clobber(q, {rdx}) /\ value' = value /\ rdx \in Registers
  BY FixedRegistersAssumption DEF EmptyRdx
<1>2. Good(q) /\ Extends(p, q) /\ q.occupiedBy[rdx] = invalidVn
  BY <1>1, FreeUp1 DEF IInv
<1> HIDE DEF q
<1>3. Good(p') /\ Extends(q, p')
  BY <1>1, <1>2, ClobberFree
<1> QED BY <1>1, <1>2, <1>3, ExtendsTransitive, Moves DEF IInv

\* Taking a scratch register.
LEMMA UseScratchRegisterStep == IInv /\ UseScratchRegister => IInv' /\ SlotsKept /\ NothingEnds
<1> SUFFICES ASSUME IInv, UseScratchRegister PROVE IInv' /\ SlotsKept /\ NothingEnds
  OBVIOUS
<1> DEFINE q == makeFreeReg(p, r9)
<1> DEFINE r == freeReg(p, r9)
<1>1. p' = clobber(q, {r}) /\ value' = value /\ r9 \in Registers
  BY FixedRegistersAssumption DEF UseScratchRegister
<1>2. Good(q) /\ Extends(p, q) /\ r \in Registers /\ q.occupiedBy[r] = invalidVn
  BY <1>1, MakeFreeReg DEF IInv
<1> HIDE DEF q, r
<1>3. Good(p') /\ Extends(q, p')
  BY <1>1, <1>2, ClobberFree
<1> QED BY <1>1, <1>2, <1>3, ExtendsTransitive, Moves DEF IInv

\* The end of a variable.
LEMMA DecommissionStep ==
    ASSUME NEW v \in Vars
    PROVE  IInv /\ Decommission(v) => IInv' /\ SlotsKept
<1> SUFFICES ASSUME IInv, Decommission(v) PROVE IInv' /\ SlotsKept
  OBVIOUS
<1> DEFINE val == [value EXCEPT ![v] = junk]
<1>1. /\ Good(p') /\ value' = val
      /\ p'.decommissioned = p.decommissioned \cup {v}
      /\ p'.noNewStackStorage = p.noNewStackStorage
      /\ p'.currentFrameSize = p.currentFrameSize
      /\ \A w \in Vars : w # v =>
            /\ p'.rbpOffset[w] = p.rbpOffset[w]
            /\ Stored(p', w) <=> Stored(p, w)
            /\ ReadVar(p', w) = ReadVar(p, w)
  BY DecommissionVar DEF IInv, Decommission, Live
<1>2. value \in [Vars -> Content] /\ junk \in Content /\ Holds(p, value)
  BY DEF IInv, Content
<1>3. /\ val \in [Vars -> Content]
      /\ \A w \in Vars : val[w] # junk => w # v /\ val[w] = value[w]
  BY <1>2
<1>4. Holds(p', val)
  BY <1>1, <1>2, <1>3 DEF Holds
<1>5. IInv'
  BY <1>1, <1>3, <1>4 DEF IInv
<1>6. SlotsKept
  <2>1. ~ hasStackStorage(p', v)
    BY <1>1 DEF Good, Stored
  <2>2. p.currentFrameSize \in Nat
    BY DEF IInv, Good, VarState
  <2>3. Grows(p, p')
    BY <1>1, <2>1, <2>2 DEF Grows, hasStackStorage
  <2> QED BY <1>1, <2>3 DEF SlotsKept
<1> QED BY <1>5, <1>6

-----------------------------------------------------------------------------
(* The theorems.                                                           *)

\* Every step keeps the inductive invariant, and no slot moves.
LEMMA NextStep ==
    IInv /\ [Next]_vars =>
        /\ IInv' /\ SlotsKept
        /\ NothingEnds \/ \E v \in Vars : Decommission(v)
<1> SUFFICES ASSUME IInv, [Next]_vars
             PROVE  /\ IInv' /\ SlotsKept
                    /\ NothingEnds \/ \E v \in Vars : Decommission(v)
  OBVIOUS
<1>1. CASE StartInstruction
  BY <1>1, StartInstructionStep
<1>2. ASSUME NEW v \in Vars, UseInRegister(v)
      PROVE  IInv' /\ SlotsKept /\ NothingEnds
  BY <1>2, UseInRegisterStep
<1>3. ASSUME NEW v \in Vars, NEW x \in ImmediatesFor[v], AssignImmInRegister(v, x)
      PROVE  IInv' /\ SlotsKept /\ NothingEnds
  BY <1>3, AssignImmInRegisterStep
<1>4. ASSUME NEW v \in Vars, NEW x \in ImmediatesFor[v], AssignImmAnywhere(v, x)
      PROVE  IInv' /\ SlotsKept /\ NothingEnds
  BY <1>4, AssignImmAnywhereStep
<1>5. ASSUME NEW v \in Vars, ReserveStorage(v)
      PROVE  IInv' /\ SlotsKept /\ NothingEnds
  BY <1>5, ReserveStorageStep
<1>6. ASSUME NEW v \in Vars, NEW x \in ImmediatesFor[v], MultiplyIntoRax(v, x)
      PROVE  IInv' /\ SlotsKept /\ NothingEnds
  BY <1>6, MultiplyIntoRaxStep
<1>7. ASSUME NEW dest \in Vars, NEW source \in Vars,
             CopyThroughRegister(dest, source)
      PROVE  IInv' /\ SlotsKept /\ NothingEnds
  BY <1>7, CopyThroughRegisterStep
<1>8. ASSUME NEW dest \in Vars, NEW source \in Vars,
             CopyThroughMemcpy(dest, source)
      PROVE  IInv' /\ SlotsKept /\ NothingEnds
  BY <1>8, CopyThroughMemcpyStep
<1>9. ASSUME NEW v \in Vars, ZeroOutVarOnStack(v)
      PROVE  IInv' /\ SlotsKept /\ NothingEnds
  BY <1>9, ZeroOutVarOnStackStep
<1>10. CASE EmptyRdx
  BY <1>10, EmptyRdxStep
<1>11. CASE UseScratchRegister
  BY <1>11, UseScratchRegisterStep
<1>12. ASSUME NEW v \in Vars, Decommission(v)
       PROVE  IInv' /\ SlotsKept
  BY <1>12, DecommissionStep
<1>13. CASE UNCHANGED vars
  <2>1. Grows(p, p) /\ p' = p
    BY <1>13, SameSlotsGrow DEF vars, IInv, Good, SameSlots
  <2> QED BY <1>13, <2>1 DEF vars, IInv, SlotsKept, NothingEnds
<1> QED BY <1>1, <1>2, <1>3, <1>4, <1>5, <1>6, <1>7, <1>8, <1>9, <1>10,
           <1>11, <1>12, <1>13 DEF Next

\* The inductive invariant of the allocator.
THEOREM Invariance == Spec => []IInv
<1>1. IInv /\ [Next]_vars => IInv'
  BY NextStep
<1> QED BY InitGood, <1>1, PTL DEF Spec

\* The record and the values are of their types in every state.
THEOREM TypeCorrect == Spec => []TypeOK
<1>1. IInv => TypeOK
  BY DEF IInv, Good, TypeOK
<1> QED BY Invariance, <1>1, PTL

\* The two copies of the register assignment never disagree.
THEOREM RegistersAlwaysAgree == Spec => []RegistersAgree
<1>1. IInv => RegistersAgree
  BY DEF IInv, Good, RegistersAgree
<1> QED BY Invariance, <1>1, PTL

\* No register is lost from the free list or listed while taken.
THEOREM AvailableAlwaysFree == Spec => []AvailableIsFree
<1>1. IInv => AvailableIsFree
  BY DEF IInv, Good, AvailableIsFree
<1> QED BY Invariance, <1>1, PTL

\* The stack slots never share a byte.
THEOREM SlotsAlwaysDisjoint == Spec => []SlotsDisjoint
<1>1. IInv => SlotsDisjoint
  BY DEF IInv, Good, SlotsDisjoint
<1> QED BY Invariance, <1>1, PTL

\* No sequence of instructions loses or changes the value of a variable.
THEOREM ValuesAlwaysSurvive == Spec => []ValuesSurvive
<1>1. IInv => ValuesSurvive
  BY DEF IInv, ValuesSurvive
<1> QED BY Invariance, <1>1, PTL

\* None of the allocator's panics can be reached.
THEOREM NeverAPanic == Spec => []NeverPanics
<1>1. IInv => NeverPanics
  BY DEF IInv, Good, NeverPanics
<1> QED BY Invariance, <1>1, PTL

\* An address that was taken stays right while its variable is in use.
THEOREM SlotsAlwaysStay == Spec => SlotsStay
<1>1. IInv /\ [Next]_vars => [SlotsKept]_vars
  BY NextStep
<1> DEFINE Stay == \A v \in Vars : hasStackStorage(p, v) =>
                      \/ p'.rbpOffset[v] = p.rbpOffset[v]
                      \/ v \in p'.decommissioned
<1>2. SlotsKept => Stay
  BY DEF SlotsKept
<1>3. SlotsStay <=> [][Stay]_vars
  BY DEF SlotsStay
<1> HIDE DEF Stay
<1> QED BY Invariance, <1>1, <1>2, <1>3, PTL DEF Spec

\* Fetching an operand does not evict the operands fetched before it.
THEOREM OperandsAlwaysStay == Spec => OperandsStay
<1> DEFINE Kept == (\E v \in Vars : UseInRegister(v)) =>
                      \A r \in p.dontSwap : p.occupiedBy[r] # invalidVn =>
                          p'.occupiedBy[r] = p.occupiedBy[r]
<1>1. ASSUME IInv, NEW v \in Vars, UseInRegister(v)
      PROVE  \A r \in p.dontSwap : p.occupiedBy[r] # invalidVn =>
                 p'.occupiedBy[r] = p.occupiedBy[r]
  BY <1>1, EnsureInRegister DEF IInv, UseInRegister, LiveInReg, Live, OperandsLeft
<1>2. IInv /\ [Next]_vars => [Kept]_vars
  BY <1>1
<1>3. OperandsStay <=> [][Kept]_vars
  BY DEF OperandsStay
<1> HIDE DEF Kept
<1> QED BY Invariance, <1>2, <1>3, PTL DEF Spec

-----------------------------------------------------------------------------
(* The allocator implements the store of VarStore.                         *)

\* What the code reads is what the IR says.
LEMMA StoredValueIsValue == IInv => StoredValue = value
BY DEF IInv, Holds, StoredValue

\* A step that ends no variable writes or copies live variables, or leaves all
\* values alone.
LEMMA ValueStep ==
    ASSUME IInv, [Next]_vars, ~ \E v \in Vars : Decommission(v)
    PROVE  \/ \E v \in Vars, x \in Val :
                 v \notin p.decommissioned /\ value' = [value EXCEPT ![v] = x]
           \/ \E dest, source \in Vars :
                 /\ dest \notin p.decommissioned /\ source \notin p.decommissioned
                 /\ value[source] # junk
                 /\ value' = [value EXCEPT ![dest] = value[source]]
           \/ value' = value
<1>1. \A v \in Vars : ImmediatesFor[v] \subseteq Val
  BY ImmediatesAssumption
<1>2. zero \in Val
  BY ImmediatesAssumption
<1>3. CASE \E v \in Vars : \E x \in ImmediatesFor[v] :
              \/ AssignImmInRegister(v, x) \/ AssignImmAnywhere(v, x)
              \/ MultiplyIntoRax(v, x)
  BY <1>1, <1>3, Zenon
     DEF AssignImmInRegister, AssignImmAnywhere, MultiplyIntoRax, LiveInReg, Live
<1>4. CASE \E dest, source \in Vars :
              CopyThroughRegister(dest, source) \/ CopyThroughMemcpy(dest, source)
  BY <1>4, Zenon DEF CopyThroughRegister, CopyThroughMemcpy, LiveInReg, Live
<1>5. CASE \E v \in Vars : ZeroOutVarOnStack(v)
  BY <1>2, <1>5, Zenon DEF ZeroOutVarOnStack, Live
<1>6. CASE \/ StartInstruction \/ EmptyRdx \/ UseScratchRegister
           \/ \E v \in Vars : UseInRegister(v) \/ ReserveStorage(v)
  BY <1>6, Zenon DEF StartInstruction, EmptyRdx, UseScratchRegister,
                     UseInRegister, ReserveStorage
<1>7. CASE UNCHANGED vars
  BY <1>7 DEF vars
<1> QED BY <1>3, <1>4, <1>5, <1>6, <1>7, Zenon DEF Next

\* The allocator refines the abstract store: TLC checks the same refinement
\* on the small instances.
THEOREM Refinement == Spec => ImplementsStore
<1> DEFINE stored == <<StoredValue, p.decommissioned>>
<1>1. Init => Store!Init
  <2> SUFFICES ASSUME Init PROVE Store!Init
    OBVIOUS
  <2>1. value \in [Vars -> Content] /\ StoredValue = value
    BY InitGood, StoredValueIsValue DEF Init
  <2>2. p.decommissioned = {}
    BY DEF Init, newFullVarState
  <2> QED BY <2>1, <2>2 DEF Store!Init, Content, StoredValue
<1>2. IInv /\ IInv' /\ [Next]_vars => [Store!Next]_stored
  <2> SUFFICES ASSUME IInv, IInv', [Next]_vars
               PROVE  \/ Store!Next
                      \/ StoredValue' = StoredValue /\ NothingEnds
    BY DEF NothingEnds
  <2>1. StoredValue = value /\ StoredValue' = value'
    <3>1. IInv' => StoredValue' = value'
      BY DEF IInv, Holds, StoredValue
    <3> QED BY <3>1, StoredValueIsValue
  <2>2. CASE \E v \in Vars : Decommission(v)
    <3>1. PICK v \in Vars : Decommission(v)
      BY <2>2
    <3>2. /\ v \notin p.decommissioned
          /\ p'.decommissioned = p.decommissioned \cup {v}
          /\ value' = [value EXCEPT ![v] = junk]
      BY <3>1, DecommissionVar DEF Decommission, Live, IInv
    <3>3. Store!End(v)
      BY <2>1, <3>2 DEF Store!End, StoredValue
    <3> QED BY <3>3 DEF Store!Next
  <2>3. CASE ~ \E v \in Vars : Decommission(v)
    <3>1. NothingEnds
      BY <2>3, NextStep
    <3>2. \/ \E v \in Vars, x \in Val :
                /\ v \notin p.decommissioned
                /\ StoredValue' = [StoredValue EXCEPT ![v] = x]
          \/ \E dest, source \in Vars :
                /\ dest \notin p.decommissioned /\ source \notin p.decommissioned
                /\ StoredValue[source] # junk
                /\ StoredValue' = [StoredValue EXCEPT ![dest] = StoredValue[source]]
          \/ StoredValue' = StoredValue
      BY <2>1, <2>3, ValueStep
    <3> QED BY <3>1, <3>2
            DEF Store!Next, Store!Write, Store!Copy, NothingEnds, StoredValue
  <2> QED BY <2>2, <2>3
<1>3. ImplementsStore <=> Store!Init /\ [][Store!Next]_stored
  BY DEF ImplementsStore, Store!Spec, Store!store, StoredValue
<1> QED BY Invariance, <1>1, <1>2, <1>3, PTL DEF Spec

=============================================================================
