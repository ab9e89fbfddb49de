----------------------------- MODULE CallsProofs ----------------------------
(***************************************************************************)
(* The properties of Calls, for any registers, variables, lists of         *)
(* arguments and pointers, as long as none of the programs that are known  *)
(* to be compiled wrongly is generated.                                    *)
(*                                                                         *)
(* CInv is the inductive invariant.  It is the allocator's, but for the    *)
(* variables in spent: genCall gives up the register of an argument that   *)
(* is used for the last time without saving it.                            *)
(***************************************************************************)
EXTENDS Calls, RegAllocProofs

\* What the rest of the program may still read is where the tables say.
HeldUnlessSpent ==
    \A v \in Vars \ spent : value[v] # junk => Stored(p, v) /\ ReadVar(p, v) = value[v]

\* A variable whose address was taken has a slot for as long as it is in use.
TakenHaveSlots ==
    \A v \in ToSet(stackBoundVars) : v \in p.decommissioned \/ hasStackStorage(p, v)

CInv ==
    /\ Good(p) /\ ~ p.noNewStackStorage /\ p.dontSwap = {}
    /\ value \in [Vars -> Content]
    /\ stackBoundVars \in Seq(Vars) /\ spent \subseteq Vars
    /\ HeldUnlessSpent /\ TakenHaveSlots
    /\ ArgumentsArrive

-----------------------------------------------------------------------------
(* Loops.  No prover here can use a theorem with an operator parameter, so *)
(* that a loop has a record after each pass is shown for passes given as   *)
(* functions, and every loop brings its own.                               *)

LEMMA ParameterFacts ==
    /\ paramPassingRegOrder \in Seq(Registers) /\ Len(paramPassingRegOrder) \in Nat \ {0}
    /\ regsThatGetDestroyed \in Seq(Registers) /\ Len(regsThatGetDestroyed) \in Nat
    /\ numPreserved \in Nat
    /\ \A args \in ArgLists :
          /\ args \in Seq(Vars) /\ Len(args) \in Nat
          /\ \A i \in 1 .. Len(args) : args[i] \in Vars /\ varPerfectRegSize(args[i])
<1>1. /\ paramPassingRegOrder \in Seq(Registers) /\ paramPassingRegOrder # <<>>
      /\ regsThatGetDestroyed \in Seq(Registers) /\ numPreserved \in Nat
  BY ParameterAssumption
<1>2. \A S : \A s \in Seq(S) : Len(s) \in Nat /\ (s # <<>> => Len(s) # 0)
  OBVIOUS
<1>3. ASSUME NEW args \in ArgLists
      PROVE  /\ args \in Seq(Vars)
             /\ \A i \in 1 .. Len(args) : args[i] \in Vars /\ varPerfectRegSize(args[i])
  <2> DEFINE S == {v \in Vars : varPerfectRegSize(v)}
  <2>1. args \in Seq(S)
    BY ParameterAssumption
  <2>2. S \subseteq Vars /\ \A v \in S : v \in Vars /\ varPerfectRegSize(v)
    OBVIOUS
  <2> HIDE DEF S
  <2> QED BY <2>1, <2>2
<1> QED BY <1>1, <1>2, <1>3

Iterates(f, n, S, b, g) ==
    f \in [0 .. n -> S] /\ f[0] = b /\ \A i \in 1 .. n : f[i] = g[i][f[i - 1]]

LEMMA Iteration ==
    ASSUME NEW n \in Nat, NEW S, NEW b \in S, NEW g \in [1 .. n -> [S -> S]]
    PROVE  \E f : Iterates(f, n, S, b, g)
<1> DEFINE Runs(k) == {f \in [0 .. k -> S] :
                          f[0] = b /\ \A i \in 1 .. k : f[i] = g[i][f[i - 1]]}
<1> DEFINE T == {k \in 0 .. n : Runs(k) = {}}
<1>1. ASSUME T # {} PROVE FALSE
  <2>1. PICK k \in T : \A j \in T : k <= j
    <3>1. T \subseteq Nat
      OBVIOUS
    <3> HIDE DEF T
    <3> QED BY <1>1, <3>1, LeastNatural
  <2>2. k \in 0 .. n /\ Runs(k) = {}
    OBVIOUS
  <2>3. CASE k = 0
    <3> DEFINE h == [i \in 0 .. 0 |-> b]
    <3>1. h \in Runs(0)
      OBVIOUS
    <3> QED BY <2>2, <2>3, <3>1
  <2>4. CASE k # 0
    <3>1. k \in 1 .. n /\ k - 1 \in 0 .. n /\ ~ (k <= k - 1) /\ 0 \in 0 .. k - 1
      BY <2>2, <2>4
    <3>2. Runs(k - 1) # {}
      BY <2>1, <3>1
    <3>3. PICK f \in Runs(k - 1) : TRUE
      BY <3>2
    <3>4. /\ f \in [0 .. k - 1 -> S] /\ f[0] = b
          /\ \A i \in 1 .. k - 1 : f[i] = g[i][f[i - 1]]
      BY <3>3
    <3> DEFINE h == [i \in 0 .. k |-> IF i < k THEN f[i] ELSE g[k][f[k - 1]]]
    <3>5. \A i \in 0 .. k : h[i] \in S
      <4>1. f[k - 1] \in S /\ g[k] \in [S -> S]
        BY <3>1, <3>4
      <4>2. g[k][f[k - 1]] \in S
        BY <4>1
      <4>3. ASSUME NEW i \in 0 .. k, i < k PROVE f[i] \in S
        <5>1. i \in 0 .. k - 1
          BY <3>1, <4>3
        <5> QED BY <3>4, <5>1
      <4> QED BY <4>2, <4>3
    <3>6. h \in [0 .. k -> S]
      BY <3>5
    <3>7. h[0] = b
      BY <3>1, <3>4
    <3>8. ASSUME NEW i \in 1 .. k PROVE h[i] = g[i][h[i - 1]]
      <4>1. i - 1 \in 0 .. k /\ i - 1 < k /\ h[i - 1] = f[i - 1] /\ i \in 0 .. k
        BY <3>1
      <4>2. CASE i < k
        <5>1. i \in 1 .. k - 1
          BY <3>1, <4>2
        <5> QED BY <3>4, <4>1, <4>2, <5>1
      <4>3. CASE ~ (i < k)
        <5>1. i = k
          BY <3>1, <4>3
        <5> QED BY <4>1, <5>1
      <4> QED BY <4>2, <4>3
    <3> HIDE DEF h
    <3>9. h \in Runs(k)
      BY <3>6, <3>7, <3>8
    <3> QED BY <2>2, <3>9
  <2> QED BY <2>3, <2>4
<1>2. n \notin T /\ n \in 0 .. n
  BY <1>1
<1>3. Runs(n) # {}
  BY <1>2
<1>4. PICK f : f \in Runs(n)
  BY <1>3
<1> QED BY <1>4 DEF Iterates

-----------------------------------------------------------------------------
(* What a step keeps when some variables may lose their values.            *)

\* Slots stay, and so do the values of all the variables but those of D.
Keeps(q, r, D) ==
    /\ r.decommissioned = q.decommissioned
    /\ r.noNewStackStorage = q.noNewStackStorage
    /\ \A v \in Vars : hasStackStorage(q, v) => r.rbpOffset[v] = q.rbpOffset[v]
    /\ \A v \in Vars \ D : Stored(q, v) =>
          Stored(r, v) /\ ReadVar(r, v) = ReadVar(q, v)

LEMMA ExtensionKeeps ==
    ASSUME NEW q, NEW r, Extends(q, r), NEW D
    PROVE  Keeps(q, r, D)
BY DEF Extends, Keeps

LEMMA WritingKeeps ==
    ASSUME NEW q, NEW r, NEW v, NEW x, Writes(q, r, v, x)
    PROVE  Keeps(q, r, {v})
BY DEF Writes, Keeps, SameSlots

LEMMA KeepsTransitive ==
    ASSUME NEW q, NEW r, NEW s, NEW D, NEW E, Keeps(q, r, D), Keeps(r, s, E)
    PROVE  Keeps(q, s, D \cup E)
BY DEF Keeps, hasStackStorage

\* A register is given up without saving its tenant.
LEMMA Release ==
    ASSUME NEW q, Good(q), NEW r \in Registers, q.occupiedBy[r] # invalidVn
    PROVE  LET s == releaseRegister(q, r) IN
           /\ Good(s) /\ Keeps(q, s, {q.occupiedBy[r]})
           /\ SameMachine(q, s) /\ s.dontSwap = q.dontSwap
           /\ s.occupiedBy = [q.occupiedBy EXCEPT ![r] = invalidVn]
<1> DEFINE s == releaseRegister(q, r)
<1> DEFINE t == q.occupiedBy[r]
<1> HIDE DEF s
<1>1. /\ Good(s) /\ SameFlags(q, s) /\ SameSlots(q, s) /\ SameMachine(q, s)
      /\ s.occupiedBy = [q.occupiedBy EXCEPT ![r] = invalidVn]
      /\ \A w \in Vars : w # t =>
            (Stored(s, w) <=> Stored(q, w)) /\ ReadVar(s, w) = ReadVar(q, w)
  BY ReleaseTenant DEF s
<1>2. Keeps(q, s, {t})
  BY <1>1 DEF Keeps, SameFlags, SameSlots
<1> QED BY <1>1, <1>2 DEF SameFlags, s, t

-----------------------------------------------------------------------------
(* swapStackBoundVars.                                                     *)

LEMMA SwapOut ==
    ASSUME NEW q, Good(q), NEW v \in Vars,
           v \in q.decommissioned \/ hasStackStorage(q, v)
    PROVE  LET r == swapOut(q, v) IN
           /\ Good(r) /\ Extends(q, r) /\ r.dontSwap = q.dontSwap
           /\ ~ inRegister(r, v)
           /\ \A w \in Vars : inRegister(r, w) => inRegister(q, w)
<1> DEFINE r == swapOut(q, v)
<1>1. CASE ~ inRegister(q, v)
  BY <1>1, ExtendsReflexive DEF swapOut
<1>2. CASE inRegister(q, v)
  <2> DEFINE at == q.currentRegister[v]
  <2>1. /\ at \in Registers /\ q.occupiedBy[at] = v /\ v # invalidVn
        /\ hasStackStorage(q, v) /\ v \notin q.decommissioned
        /\ q.occupiedBy \in [Registers -> Vars \cup {invalidVn}]
    BY <1>2, GoodFacts, RegistersFacts, VarsAssumption DEF Good, Stored
  <2>2. r = releaseRegister(spill(ensureStackOffsetValid(q, v), v), at)
    BY <1>2, <2>1 DEF swapOut, ensureStackOffsetValid
  <2> HIDE DEF at, r
  <2>3. /\ Good(r) /\ Extends(q, r) /\ r.dontSwap = q.dontSwap
        /\ r.occupiedBy = [q.occupiedBy EXCEPT ![at] = invalidVn]
        /\ \A w \in Vars : inRegister(r, w) => inRegister(q, w)
    BY <2>1, <2>2, SpillAndRelease
  <2>4. ~ inRegister(r, v)
    <3>1. SUFFICES ASSUME inRegister(r, v) PROVE FALSE
      OBVIOUS
    <3> DEFINE s == r.currentRegister[v]
    <3>2. s \in Registers /\ r.occupiedBy[s] = v
      BY <2>3, <3>1, GoodFacts, RegistersFacts
    <3>3. s # at /\ q.occupiedBy[s] = v
      BY <2>1, <2>3, <3>2
    <3>4. q.currentRegister[v] = s
      BY <3>2, <3>3, GoodFacts
    <3> QED BY <3>3, <3>4 DEF at
  <2> QED BY <2>3, <2>4 DEF r
<1> QED BY <1>1, <1>2

\* What has been done when the first n variables of b are in their slots.
Swapped(q, r, b, n) ==
    /\ Good(r) /\ Extends(q, r) /\ r.dontSwap = q.dontSwap
    /\ \A j \in 1 .. n : ~ inRegister(r, b[j])
    /\ \A w \in Vars : inRegister(r, w) => inRegister(q, w)

LEMMA SwapPasses ==
    ASSUME NEW q, Good(q), NEW b \in Seq(Vars),
           \A v \in ToSet(b) : v \in q.decommissioned \/ hasStackStorage(q, v),
           NEW f, f[0] = q,
           \A i \in 1 .. Len(b) : swapOut(f[i - 1], b[i]) \in VarState =>
              f[i] = swapOut(f[i - 1], b[i])
    PROVE  \A i \in 0 .. Len(b) :
              /\ Swapped(q, f[i], b, i)
              /\ i > 0 => f[i] = swapOut(f[i - 1], b[i])
<1> DEFINE Done(i) == /\ Swapped(q, f[i], b, i)
                      /\ i > 0 => f[i] = swapOut(f[i - 1], b[i])
<1> DEFINE T == {i \in 0 .. Len(b) : ~ Done(i)}
<1>1. Len(b) \in Nat /\ \A i \in 1 .. Len(b) : b[i] \in Vars
  OBVIOUS
<1>2. Done(0)
  BY ExtendsReflexive DEF Swapped
<1>3. ASSUME NEW i \in 1 .. Len(b), Done(i - 1) PROVE Done(i)
  <2> DEFINE r == f[i - 1]
  <2> DEFINE s == swapOut(r, b[i])
  <2>1. /\ Good(r) /\ Extends(q, r) /\ r.dontSwap = q.dontSwap
        /\ \A j \in 1 .. i - 1 : ~ inRegister(r, b[j])
        /\ \A w \in Vars : inRegister(r, w) => inRegister(q, w)
    BY <1>3 DEF Swapped
  <2>2. b[i] \in Vars /\ b[i] \in ToSet(b)
    BY <1>1 DEF ToSet
  <2>3. b[i] \in r.decommissioned \/ hasStackStorage(r, b[i])
    BY <2>1, <2>2 DEF Extends, hasStackStorage
  <2>4. s = f[i]
    <3>1. Good(s)
      BY <2>1, <2>2, <2>3, SwapOut
    <3> QED BY <3>1 DEF Good
  <2> HIDE DEF r, Done
  <2>5. /\ Good(s) /\ Extends(r, s) /\ s.dontSwap = r.dontSwap
        /\ ~ inRegister(s, b[i])
        /\ \A w \in Vars : inRegister(s, w) => inRegister(r, w)
    BY <2>1, <2>2, <2>3, SwapOut
  <2>6. s = swapOut(r, b[i])
    OBVIOUS
  <2> HIDE DEF s
  <2>7. Extends(q, s)
    BY <2>1, <2>5, ExtendsTransitive
  <2>8. \A j \in 1 .. i : ~ inRegister(s, b[j])
    <3>1. SUFFICES ASSUME NEW j \in 1 .. i PROVE ~ inRegister(s, b[j])
      OBVIOUS
    <3>2. CASE j = i
      BY <3>2, <2>5
    <3>3. CASE j # i
      <4>1. j \in 1 .. i - 1 /\ j \in 1 .. Len(b)
        BY <1>1, <3>3
      <4>2. b[j] \in Vars
        BY <1>1, <4>1
      <4> QED BY <2>1, <2>5, <4>1, <4>2
    <3> QED BY <3>2, <3>3
  <2>9. Swapped(q, s, b, i)
    BY <2>1, <2>5, <2>7, <2>8 DEF Swapped
  <2> QED BY <2>4, <2>6, <2>9 DEF Done, r
<1>4. ASSUME T # {} PROVE FALSE
  <2>1. PICK k \in T : \A j \in T : k <= j
    <3>1. T \subseteq Nat
      BY <1>1
    <3> HIDE DEF T
    <3> QED BY <1>4, <3>1, LeastNatural
  <2>2. k \in 0 .. Len(b) /\ ~ Done(k)
    OBVIOUS
  <2> HIDE DEF Done
  <2>3. k # 0
    BY <1>2, <2>2
  <2>4. k \in 1 .. Len(b) /\ k - 1 \in 0 .. Len(b) /\ ~ (k <= k - 1)
    BY <1>1, <2>2, <2>3
  <2>5. Done(k - 1)
    BY <2>1, <2>4
  <2> QED BY <1>3, <2>2, <2>4, <2>5
<1> HIDE DEF Done
<1>5. \A i \in 0 .. Len(b) : Done(i)
  BY <1>4
<1> QED BY <1>5 DEF Done

LEMMA SwapStackBoundVars ==
    ASSUME NEW q, Good(q), stackBoundVars \in Seq(Vars),
           \A v \in ToSet(stackBoundVars) : v \in q.decommissioned \/ hasStackStorage(q, v)
    PROVE  LET r == swapStackBoundVars(q) IN
           /\ Good(r) /\ Extends(q, r) /\ r.dontSwap = q.dontSwap
           /\ \A v \in ToSet(stackBoundVars) : ~ inRegister(r, v)
           /\ \A w \in Vars : inRegister(r, w) => inRegister(q, w)
<1> DEFINE b == stackBoundVars
<1> DEFINE n == Len(b)
<1> DEFINE g == [i \in 1 .. n |-> [r \in VarState |->
                   IF swapOut(r, b[i]) \in VarState THEN swapOut(r, b[i]) ELSE r]]
<1> DEFINE Runs(f) == f = [i \in 0 .. n |-> IF i = 0 THEN q ELSE swapOut(f[i - 1], b[i])]
<1>1. n \in Nat /\ q \in VarState /\ g \in [1 .. n -> [VarState -> VarState]]
  BY DEF Good
<1>2. \E f : Runs(f)
  <2> HIDE DEF n, g
  <2>0. PICK f : Iterates(f, n, VarState, q, g)
    BY <1>1, Iteration
  <2>1. /\ f \in [0 .. n -> VarState] /\ f[0] = q
        /\ \A i \in 1 .. n : f[i] = g[i][f[i - 1]]
    BY <2>0 DEF Iterates
  <2> USE DEF n, g
  <2>2. ASSUME NEW i \in 1 .. n, swapOut(f[i - 1], b[i]) \in VarState
        PROVE  f[i] = swapOut(f[i - 1], b[i])
    <3>1. f[i - 1] \in VarState
      BY <1>1, <2>1
    <3>2. g[i][f[i - 1]] = swapOut(f[i - 1], b[i])
      BY <2>2, <3>1
    <3> QED BY <2>1, <3>2
  <2>3. \A i \in 0 .. n : i > 0 => f[i] = swapOut(f[i - 1], b[i])
    BY <2>1, <2>2, SwapPasses
  <2> HIDE DEF n, g, b
  <2>4. Runs(f)
    BY <1>1, <2>1, <2>3
  <2> QED BY <2>4
<1>3. \E f : Runs(f) /\ swapStackBoundVars(q) = f[n]
  <2> DEFINE f == CHOOSE f : Runs(f)
  <2>1. Runs(f)
    BY <1>2
  <2>2. swapStackBoundVars(q) = f[n]
    BY DEF swapStackBoundVars, loop
  <2> QED BY <2>1, <2>2
<1>4. PICK f : Runs(f) /\ swapStackBoundVars(q) = f[n]
  BY <1>3
<1>5. f[0] = q /\ \A i \in 1 .. n : f[i] = swapOut(f[i - 1], b[i])
  <2> HIDE DEF b
  <2>1. 0 \in 0 .. n /\ \A i \in 1 .. n : i \in 0 .. n /\ i # 0
    BY <1>1
  <2> HIDE DEF n
  <2> QED BY <1>4, <2>1
<1>6. Swapped(q, f[n], b, n)
  BY <1>1, <1>5, SwapPasses
<1>7. \A v \in ToSet(b) : \E i \in 1 .. n : v = b[i]
  BY DEF ToSet
<1> QED BY <1>4, <1>6, <1>7 DEF Swapped

-----------------------------------------------------------------------------
(* loadArguments.                                                          *)

\* What has been done when the first n arguments are in their registers.
Loading(q, r, args, first, n) ==
    /\ Good(r) /\ Extends(q, r) /\ r.dontSwap = q.dontSwap
    /\ \A j \in 1 .. n : r.currentRegister[args[j]] = paramPassingRegOrder[j + first]
    /\ \A w \in Vars : inRegister(r, w) =>
          inRegister(q, w) \/ \E j \in 1 .. n : w = args[j]

\* The next argument goes to another register than those before it.
LEMMA LoadNext ==
    ASSUME NEW q, Good(q), ~ q.noNewStackStorage, NEW args \in Seq(Vars),
           IsInjective(args), NEW first \in {0, 1}, NEW i \in 1 .. Len(args),
           i + first <= Len(paramPassingRegOrder),
           varPerfectRegSize(args[i]), args[i] \notin q.decommissioned,
           NEW r, Loading(q, r, args, first, i - 1)
    PROVE  Loading(q, loadRegisterWithVar(r, paramPassingRegOrder[i + first], args[i]),
                   args, first, i)
<1> DEFINE order == paramPassingRegOrder
<1> DEFINE at == order[i + first]
<1> DEFINE s == loadRegisterWithVar(r, at, args[i])
<1>1. /\ order \in Seq(Registers)
      /\ \A j, k \in DOMAIN order : order[j] = order[k] => j = k
  BY ParameterAssumption DEF IsInjective
<1>2. \A j, k \in DOMAIN args : args[j] = args[k] => j = k
  BY DEF IsInjective
<1>3. i \in DOMAIN args /\ args[i] \in Vars /\ i \in Nat
  OBVIOUS
<1>4. \A j \in 1 .. i : j \in DOMAIN args /\ args[j] \in Vars
  OBVIOUS
<1>5. \A j \in 1 .. i : j + first \in DOMAIN order /\ order[j + first] \in Registers
  BY <1>1, <1>3
<1>6. at \in Registers
  BY <1>3, <1>5
<1>7. /\ Good(r) /\ Extends(q, r) /\ r.dontSwap = q.dontSwap
      /\ \A j \in 1 .. i - 1 : r.currentRegister[args[j]] = order[j + first]
      /\ \A w \in Vars : inRegister(r, w) =>
            inRegister(q, w) \/ \E j \in 1 .. i - 1 : w = args[j]
  BY DEF Loading
<1>8. Loaded(r, s, at, args[i])
  <2>1. args[i] \notin r.decommissioned /\ ~ r.noNewStackStorage
    BY <1>7 DEF Extends
  <2> HIDE DEF at
  <2> QED BY <1>3, <1>6, <1>7, <2>1, Load
<1>9. /\ Good(s) /\ Extends(r, s) /\ s.dontSwap = r.dontSwap
      /\ s.currentRegister[args[i]] = at
      /\ \A w \in Vars : inRegister(s, w) => w = args[i] \/ inRegister(r, w)
      /\ \A u \in Registers : u # at /\ r.occupiedBy[u] \notin {invalidVn, args[i]}
            => s.occupiedBy[u] = r.occupiedBy[u]
  BY <1>8 DEF Loaded
<1> HIDE DEF s
<1>10. Extends(q, s)
  BY <1>7, <1>9, ExtendsTransitive
<1>11. ASSUME NEW j \in 1 .. i PROVE s.currentRegister[args[j]] = order[j + first]
  <2>1. CASE j = i
    BY <1>9, <2>1
  <2>2. CASE j # i
    <3> DEFINE u == order[j + first]
    <3>1. j \in 1 .. i - 1 /\ args[j] \in Vars /\ u \in Registers
      BY <1>3, <1>4, <1>5, <2>2
    <3>2. r.occupiedBy[u] = args[j]
      BY <1>7, <3>1, GoodFacts
    <3>3. args[j] # args[i]
      BY <1>2, <1>3, <1>4, <2>2
    <3>4. u # at
      <4>1. j + first # i + first /\ j + first \in DOMAIN order /\ i + first \in DOMAIN order
        BY <1>3, <1>5, <2>2
      <4> QED BY <1>1, <4>1
    <3>5. args[j] # invalidVn
      BY <3>1, VarsAssumption
    <3> HIDE DEF u, at
    <3>6. s.occupiedBy[u] = args[j]
      BY <1>9, <3>1, <3>2, <3>3, <3>4, <3>5
    <3>7. s.currentRegister[args[j]] = u
      BY <1>9, <3>1, <3>6, GoodFacts
    <3> QED BY <3>7 DEF u
  <2> QED BY <2>1, <2>2
<1>12. ASSUME NEW w \in Vars, inRegister(s, w)
       PROVE  inRegister(q, w) \/ \E j \in 1 .. i : w = args[j]
  <2>1. i \in 1 .. i /\ \A j \in 1 .. i - 1 : j \in 1 .. i
    BY <1>3
  <2> QED BY <1>7, <1>9, <1>12, <2>1
<1>13. Loading(q, s, args, first, i)
  BY <1>7, <1>9, <1>10, <1>11, <1>12 DEF Loading
<1> QED BY <1>13 DEF s

\* f has the records after each of n passes.
Loads(f, q, args, first, n) ==
    /\ f[0] = q
    /\ \A i \in 1 .. n :
          LET s == loadRegisterWithVar(f[i - 1], paramPassingRegOrder[i + first], args[i])
          IN  s \in VarState => f[i] = s

LEMMA LoadPasses ==
    ASSUME NEW q, Good(q), ~ q.noNewStackStorage, NEW args \in Seq(Vars),
           IsInjective(args), NEW first \in {0, 1}, NEW n \in 0 .. Len(args),
           n + first <= Len(paramPassingRegOrder),
           \A i \in 1 .. Len(args) :
              varPerfectRegSize(args[i]) /\ args[i] \notin q.decommissioned,
           NEW f, Loads(f, q, args, first, n)
    PROVE  /\ \A i \in 0 .. n : Loading(q, f[i], args, first, i)
           /\ \A i \in 1 .. n : f[i] = loadRegisterWithVar(f[i - 1],
                                            paramPassingRegOrder[i + first], args[i])
<1> DEFINE Step(i) == loadRegisterWithVar(f[i - 1], paramPassingRegOrder[i + first], args[i])
<1> DEFINE Done(i) == /\ Loading(q, f[i], args, first, i)
                      /\ i > 0 => f[i] = Step(i)
<1> DEFINE T == {i \in 0 .. n : ~ Done(i)}
<1>1. n \in Nat /\ Len(args) \in Nat /\ Len(paramPassingRegOrder) \in Nat
  BY ParameterFacts
<1>2. Done(0)
  BY ExtendsReflexive DEF Loading, Loads
<1>3. ASSUME NEW i \in 1 .. n, Done(i - 1) PROVE Done(i)
  <2>1. Loading(q, f[i - 1], args, first, i - 1)
    BY <1>3
  <2>2. i \in 1 .. Len(args) /\ i + first <= Len(paramPassingRegOrder)
    BY <1>1
  <2>3. Loading(q, Step(i), args, first, i)
    BY <2>1, <2>2, LoadNext
  <2>4. Step(i) \in VarState
    <3> HIDE DEF Step
    <3> QED BY <2>3 DEF Loading, Good
  <2>5. f[i] = Step(i)
    BY <2>4 DEF Loads
  <2> HIDE DEF Step
  <2> QED BY <2>3, <2>5
<1>4. ASSUME T # {} PROVE FALSE
  <2>1. PICK k \in T : \A j \in T : k <= j
    <3>1. T \subseteq Nat
      BY <1>1
    <3> HIDE DEF T
    <3> QED BY <1>4, <3>1, LeastNatural
  <2>2. k \in 0 .. n /\ ~ Done(k)
    OBVIOUS
  <2> HIDE DEF Done
  <2>3. k # 0
    BY <1>2, <2>2
  <2>4. k \in 1 .. n /\ k - 1 \in 0 .. n /\ ~ (k <= k - 1)
    BY <1>1, <2>2, <2>3
  <2>5. Done(k - 1)
    BY <2>1, <2>4
  <2> QED BY <1>3, <2>2, <2>4, <2>5
<1> HIDE DEF Done
<1>5. \A i \in 0 .. n : Done(i)
  BY <1>4
<1>6. \A i \in 1 .. n : i \in 0 .. n /\ i > 0
  BY <1>1
<1> QED BY <1>5, <1>6 DEF Done

LEMMA LoadArguments ==
    ASSUME NEW q, Good(q), ~ q.noNewStackStorage, NEW args \in Seq(Vars),
           IsInjective(args), NEW first \in {0, 1},
           \A i \in 1 .. Len(args) :
              varPerfectRegSize(args[i]) /\ args[i] \notin q.decommissioned
    PROVE  LET room == Len(paramPassingRegOrder) - first
               n == IF Len(args) < room THEN Len(args) ELSE room
           IN  /\ n \in 0 .. Len(args) /\ n + first <= Len(paramPassingRegOrder)
               /\ Loading(q, loadArguments(q, args, first), args, first, n)
<1> DEFINE order == paramPassingRegOrder
<1> DEFINE room == Len(order) - first
<1> DEFINE n == IF Len(args) < room THEN Len(args) ELSE room
<1> DEFINE pass(r, i) == loadRegisterWithVar(r, order[i + first], args[i])
<1> DEFINE g == [i \in 1 .. n |-> [r \in VarState |->
                   IF pass(r, i) \in VarState THEN pass(r, i) ELSE r]]
<1> DEFINE Runs(f) == f = [i \in 0 .. n |-> IF i = 0 THEN q ELSE pass(f[i - 1], i)]
<1>1. /\ n \in Nat /\ n \in 0 .. Len(args) /\ n + first <= Len(order)
  <2>1. Len(order) \in Nat /\ Len(order) > 0 /\ Len(args) \in Nat
    BY ParameterFacts
  <2> QED BY <2>1
<1>2. q \in VarState /\ g \in [1 .. n -> [VarState -> VarState]]
  BY DEF Good
<1>3. \E f : Runs(f)
  <2> HIDE DEF n, g
  <2>0. PICK f : Iterates(f, n, VarState, q, g)
    BY <1>1, <1>2, Iteration
  <2>1. /\ f \in [0 .. n -> VarState] /\ f[0] = q
        /\ \A i \in 1 .. n : f[i] = g[i][f[i - 1]]
    BY <2>0 DEF Iterates
  <2> USE DEF g
  <2>2. ASSUME NEW i \in 1 .. n, pass(f[i - 1], i) \in VarState
        PROVE  f[i] = pass(f[i - 1], i)
    <3>1. f[i - 1] \in VarState
      BY <1>1, <2>1
    <3> HIDE DEF pass
    <3>2. g[i][f[i - 1]] = pass(f[i - 1], i)
      BY <2>2, <3>1
    <3> QED BY <2>1, <3>2
  <2>3. \A i \in 0 .. n : i > 0 => f[i] = pass(f[i - 1], i)
    <3> HIDE DEF g
    <3>1. Loads(f, q, args, first, n)
      BY <2>1, <2>2 DEF Loads
    <3> HIDE DEF pass
    <3>2. \A i \in 1 .. n :
             f[i] = loadRegisterWithVar(f[i - 1], paramPassingRegOrder[i + first], args[i])
      <4>1. n \in 0 .. Len(args) /\ n + first <= Len(paramPassingRegOrder)
        BY <1>1 DEF order
      <4> HIDE DEF order, Runs, room
      <4> QED BY <3>1, <4>1, LoadPasses
    <3>3. \A i \in 0 .. n : i > 0 => i \in 1 .. n
      BY <1>1
    <3> QED BY <3>2, <3>3 DEF pass
  <2> HIDE DEF g, pass
  <2>4. Runs(f)
    BY <1>1, <2>1, <2>3
  <2> QED BY <2>4
<1>4. \E f : Runs(f) /\ loadArguments(q, args, first) = f[n]
  <2> DEFINE f == CHOOSE f : Runs(f)
  <2>1. Runs(f)
    BY <1>3
  <2>2. loadArguments(q, args, first) = f[n]
    BY DEF loadArguments, loop
  <2> QED BY <2>1, <2>2
<1>5. PICK f : Runs(f) /\ loadArguments(q, args, first) = f[n]
  BY <1>4
<1>6. f[0] = q /\ \A i \in 1 .. n : f[i] = pass(f[i - 1], i)
  <2> HIDE DEF n, pass
  <2>1. 0 \in 0 .. n /\ \A i \in 1 .. n : i \in 0 .. n /\ i # 0
    BY <1>1
  <2> QED BY <1>5, <2>1
<1>7. Loading(q, f[n], args, first, n)
  <2> HIDE DEF n
  <2>1. n \in 0 .. n
    BY <1>1
  <2>2. Loads(f, q, args, first, n)
    BY <1>6 DEF Loads
  <2> HIDE DEF pass
  <2>3. \A i \in 0 .. n : Loading(q, f[i], args, first, i)
    BY <1>1, <2>2, LoadPasses
  <2> QED BY <2>1, <2>3
<1> QED BY <1>1, <1>5, <1>7

-----------------------------------------------------------------------------
(* saveDestroyed.                                                          *)

LEMMA KeepsMore ==
    ASSUME NEW q, NEW r, NEW D, NEW E, Keeps(q, r, D), D \subseteq E
    PROVE  Keeps(q, r, E)
BY DEF Keeps

LEMMA SaveTenant ==
    ASSUME NEW q, Good(q), NEW r \in Registers, NEW dying
    PROVE  LET s == saveTenant(q, r, dying) IN
           /\ Good(s) /\ Keeps(q, s, dying)
           /\ s.reg = q.reg /\ s.dontSwap = q.dontSwap
           /\ s.occupiedBy = [q.occupiedBy EXCEPT ![r] = invalidVn]
<1> DEFINE owner == q.occupiedBy[r]
<1> DEFINE s == saveTenant(q, r, dying)
<1>0. q.occupiedBy \in [Registers -> Vars \cup {invalidVn}]
  BY GoodFacts
<1>1. CASE owner = invalidVn
  <2>1. s = q
    BY <1>1 DEF saveTenant
  <2>2. q.occupiedBy = [q.occupiedBy EXCEPT ![r] = invalidVn]
    BY <1>0, <1>1
  <2> HIDE DEF s
  <2>3. Good(s) /\ Keeps(q, s, dying)
    BY <2>1, ExtendsReflexive, ExtensionKeeps
  <2> QED BY <2>1, <2>2, <2>3 DEF s
<1>2. CASE owner # invalidVn /\ owner \in dying
  <2>1. s = releaseRegister(q, r)
    BY <1>2 DEF saveTenant
  <2> HIDE DEF s
  <2>2. /\ Good(s) /\ Keeps(q, s, {owner}) /\ SameMachine(q, s)
        /\ s.dontSwap = q.dontSwap
        /\ s.occupiedBy = [q.occupiedBy EXCEPT ![r] = invalidVn]
    BY <1>2, <2>1, Release
  <2>3. Keeps(q, s, dying)
    BY <1>2, <2>2, KeepsMore
  <2> QED BY <2>2, <2>3 DEF SameMachine, s
<1>3. CASE owner # invalidVn /\ owner \notin dying
  <2>1. s = releaseRegister(spill(ensureStackOffsetValid(q, owner), owner), r)
    BY <1>3 DEF saveTenant
  <2> HIDE DEF s
  <2>2. /\ Good(s) /\ Extends(q, s) /\ s.reg = q.reg /\ s.dontSwap = q.dontSwap
        /\ s.occupiedBy = [q.occupiedBy EXCEPT ![r] = invalidVn]
    BY <1>3, <2>1, SpillAndRelease
  <2>3. Keeps(q, s, dying)
    BY <2>2, ExtensionKeeps
  <2> QED BY <2>2, <2>3 DEF s
<1> QED BY <1>1, <1>2, <1>3

\* What has been done when the first n registers of d are given up.
Saved(q, r, d, dying, n) ==
    /\ Good(r) /\ Keeps(q, r, dying)
    /\ r.reg = q.reg /\ r.dontSwap = q.dontSwap
    /\ \A j \in 1 .. n : r.occupiedBy[d[j]] = invalidVn
    /\ \A s \in Registers : r.occupiedBy[s] \in {invalidVn, q.occupiedBy[s]}

\* f has the records after each register of d.
Saves(f, q, d, dying) ==
    /\ f[0] = q
    /\ \A i \in 1 .. Len(d) : saveTenant(f[i - 1], d[i], dying) \in VarState =>
          f[i] = saveTenant(f[i - 1], d[i], dying)

LEMMA SavePasses ==
    ASSUME NEW q, Good(q), NEW d \in Seq(Registers), NEW dying,
           NEW f, Saves(f, q, d, dying)
    PROVE  \A i \in 0 .. Len(d) :
              /\ Saved(q, f[i], d, dying, i)
              /\ i > 0 => f[i] = saveTenant(f[i - 1], d[i], dying)
<1> DEFINE Done(i) == /\ Saved(q, f[i], d, dying, i)
                      /\ i > 0 => f[i] = saveTenant(f[i - 1], d[i], dying)
<1> DEFINE T == {i \in 0 .. Len(d) : ~ Done(i)}
<1>1. Len(d) \in Nat /\ \A i \in 1 .. Len(d) : d[i] \in Registers
  OBVIOUS
<1>2. Done(0)
  <2>1. Keeps(q, q, dying)
    BY ExtendsReflexive, ExtensionKeeps
  <2> QED BY <2>1 DEF Saved, Saves
<1>3. ASSUME NEW i \in 1 .. Len(d), Done(i - 1) PROVE Done(i)
  <2> DEFINE r == f[i - 1]
  <2> DEFINE s == saveTenant(r, d[i], dying)
  <2>1. /\ Good(r) /\ Keeps(q, r, dying) /\ r.reg = q.reg /\ r.dontSwap = q.dontSwap
        /\ \A j \in 1 .. i - 1 : r.occupiedBy[d[j]] = invalidVn
        /\ \A u \in Registers : r.occupiedBy[u] \in {invalidVn, q.occupiedBy[u]}
    BY <1>3 DEF Saved
  <2>2. d[i] \in Registers
    BY <1>1
  <2> HIDE DEF r, Done
  <2>3. /\ Good(s) /\ Keeps(r, s, dying) /\ s.reg = r.reg /\ s.dontSwap = r.dontSwap
        /\ s.occupiedBy = [r.occupiedBy EXCEPT ![d[i]] = invalidVn]
    <3>1. Good(r)
      BY <2>1
    <3> QED BY <3>1, <2>2, SaveTenant
  <2>4. s = saveTenant(r, d[i], dying)
    OBVIOUS
  <2> HIDE DEF s
  <2>5. s = f[i]
    <3>1. s \in VarState
      BY <2>3 DEF Good
    <3> QED BY <3>1, <2>4 DEF r, Saves
  <2>6. Keeps(q, s, dying)
    <3>1. dying \cup dying = dying
      OBVIOUS
    <3> QED BY <2>1, <2>3, <3>1, KeepsTransitive
  <2>7. r.occupiedBy \in [Registers -> Vars \cup {invalidVn}]
    BY <2>1, GoodFacts
  <2>8. \A u \in Registers :
           s.occupiedBy[u] = IF u = d[i] THEN invalidVn ELSE r.occupiedBy[u]
    BY <2>3, <2>7
  <2>9. \A j \in 1 .. i : s.occupiedBy[d[j]] = invalidVn
    <3>1. SUFFICES ASSUME NEW j \in 1 .. i PROVE s.occupiedBy[d[j]] = invalidVn
      OBVIOUS
    <3>2. j \in 1 .. Len(d) /\ (j = i \/ j \in 1 .. i - 1)
      BY <1>1
    <3>3. d[j] \in Registers
      BY <1>1, <3>2
    <3> QED BY <2>1, <2>8, <3>2, <3>3
  <2>10. Saved(q, s, d, dying, i)
    BY <2>1, <2>3, <2>6, <2>8, <2>9 DEF Saved
  <2> QED BY <2>4, <2>5, <2>10 DEF Done, r
<1>4. ASSUME T # {} PROVE FALSE
  <2>1. PICK k \in T : \A j \in T : k <= j
    <3>1. T \subseteq Nat
      BY <1>1
    <3> HIDE DEF T
    <3> QED BY <1>4, <3>1, LeastNatural
  <2>2. k \in 0 .. Len(d) /\ ~ Done(k)
    OBVIOUS
  <2> HIDE DEF Done
  <2>3. k # 0
    BY <1>2, <2>2
  <2>4. k \in 1 .. Len(d) /\ k - 1 \in 0 .. Len(d) /\ ~ (k <= k - 1)
    BY <1>1, <2>2, <2>3
  <2>5. Done(k - 1)
    BY <2>1, <2>4
  <2> QED BY <1>3, <2>2, <2>4, <2>5
<1> HIDE DEF Done
<1>5. \A i \in 0 .. Len(d) : Done(i)
  BY <1>4
<1> QED BY <1>5 DEF Done

LEMMA SaveDestroyed ==
    ASSUME NEW q, Good(q), NEW dying
    PROVE  LET r == saveDestroyed(q, dying) IN
           /\ Good(r) /\ Keeps(q, r, dying)
           /\ r.reg = q.reg /\ r.dontSwap = q.dontSwap
           /\ \A s \in ToSet(regsThatGetDestroyed) : r.occupiedBy[s] = invalidVn
           /\ \A s \in Registers : r.occupiedBy[s] \in {invalidVn, q.occupiedBy[s]}
<1> DEFINE d == regsThatGetDestroyed
<1> DEFINE n == Len(d)
<1> DEFINE pass(r, i) == saveTenant(r, d[i], dying)
<1> DEFINE g == [i \in 1 .. n |-> [r \in VarState |->
                   IF pass(r, i) \in VarState THEN pass(r, i) ELSE r]]
<1> DEFINE Runs(f) == f = [i \in 0 .. n |-> IF i = 0 THEN q ELSE pass(f[i - 1], i)]
<1>1. n \in Nat /\ d \in Seq(Registers)
  BY ParameterFacts
<1>2. q \in VarState /\ g \in [1 .. n -> [VarState -> VarState]]
  BY DEF Good
<1>3. \E f : Runs(f)
  <2> HIDE DEF n, g
  <2>0. PICK f : Iterates(f, n, VarState, q, g)
    BY <1>1, <1>2, Iteration
  <2>1. /\ f \in [0 .. n -> VarState] /\ f[0] = q
        /\ \A i \in 1 .. n : f[i] = g[i][f[i - 1]]
    BY <2>0 DEF Iterates
  <2> USE DEF g
  <2>2. ASSUME NEW i \in 1 .. n, pass(f[i - 1], i) \in VarState
        PROVE  f[i] = pass(f[i - 1], i)
    <3>1. f[i - 1] \in VarState
      BY <1>1, <2>1
    <3> HIDE DEF pass
    <3>2. g[i][f[i - 1]] = pass(f[i - 1], i)
      BY <2>2, <3>1
    <3> QED BY <2>1, <3>2
  <2>3. \A i \in 0 .. n : i > 0 => f[i] = pass(f[i - 1], i)
    <3> HIDE DEF g
    <3> USE DEF n
    <3>1. Saves(f, q, d, dying)
      BY <2>1, <2>2 DEF Saves
    <3> HIDE DEF pass
    <3>2. \A i \in 0 .. Len(d) :
             i > 0 => f[i] = saveTenant(f[i - 1], d[i], dying)
      BY <1>1, <3>1, SavePasses
    <3> QED BY <3>2 DEF pass
  <2> HIDE DEF g, pass
  <2>4. Runs(f)
    BY <1>1, <2>1, <2>3
  <2> QED BY <2>4
<1>4. \E f : Runs(f) /\ saveDestroyed(q, dying) = f[n]
  <2> DEFINE f == CHOOSE f : Runs(f)
  <2>1. Runs(f)
    BY <1>3
  <2>2. saveDestroyed(q, dying) = f[n]
    BY DEF saveDestroyed, loop
  <2> QED BY <2>1, <2>2
<1>5. PICK f : Runs(f) /\ saveDestroyed(q, dying) = f[n]
  BY <1>4
<1>6. f[0] = q /\ \A i \in 1 .. n : f[i] = pass(f[i - 1], i)
  <2> HIDE DEF n, pass
  <2>1. 0 \in 0 .. n /\ \A i \in 1 .. n : i \in 0 .. n /\ i # 0
    BY <1>1
  <2> QED BY <1>5, <2>1
<1>7. Saved(q, f[n], d, dying, n)
  <2>1. Saves(f, q, d, dying)
    BY <1>6 DEF Saves
  <2> HIDE DEF pass, g
  <2>2. \A i \in 0 .. Len(d) : Saved(q, f[i], d, dying, i)
    BY <1>1, <2>1, SavePasses
  <2>3. n \in 0 .. n
    BY <1>1
  <2> QED BY <2>2, <2>3
<1>8. \A s \in ToSet(d) : \E i \in 1 .. n : s = d[i]
  BY DEF ToSet
<1> QED BY <1>5, <1>7, <1>8 DEF Saved

-----------------------------------------------------------------------------
(* Scratch registers, and stores to a slot whose variable may be in a      *)
(* register.                                                               *)

LEMMA TakeTmpReg ==
    ASSUME NEW q, Good(q)
    PROVE  LET s == takeTmpReg(q) IN
           /\ Good(s) /\ Extends(q, s) /\ s.dontSwap = q.dontSwap
           /\ \A w \in Vars : inRegister(s, w) => inRegister(q, w)
           /\ \A r \in Registers : r # freeReg(q, r9) => s.reg[r] = q.reg[r]
<1> DEFINE m == makeFreeReg(q, r9)
<1> DEFINE at == freeReg(q, r9)
<1> DEFINE s == clobber(m, {at})
<1>1. r9 \in Registers
  BY FixedRegistersAssumption
<1>2. /\ Good(m) /\ Extends(q, m) /\ m.dontSwap = q.dontSwap
      /\ at \in Registers /\ m.occupiedBy[at] = invalidVn /\ m.reg = q.reg
      /\ \A w \in Vars : inRegister(m, w) => inRegister(q, w)
  BY <1>1, MakeFreeReg
<1> HIDE DEF m, at
<1>3. {at} \in SUBSET Registers /\ \A r \in {at} : m.occupiedBy[r] = invalidVn
  BY <1>2
<1>4. /\ Good(s) /\ Extends(m, s) /\ s.dontSwap = m.dontSwap /\ SameTables(m, s)
      /\ \A r \in Registers \ {at} : s.reg[r] = m.reg[r]
  BY <1>2, <1>3, ClobberFree
<1>5. s = takeTmpReg(q)
  BY DEF takeTmpReg, m, at
<1> HIDE DEF s
<1>6. Extends(q, s)
  BY <1>2, <1>4, ExtendsTransitive
<1>7. \A w \in Vars : inRegister(s, w) => inRegister(q, w)
  BY <1>2, <1>4 DEF SameTables, inRegister
<1>8. \A r \in Registers : r # at => s.reg[r] = q.reg[r]
  BY <1>2, <1>4
<1> QED BY <1>2, <1>4, <1>5, <1>6, <1>7, <1>8 DEF at

LEMMA StoreToSlot ==
    ASSUME NEW q, Good(q), NEW v \in Vars, NEW x \in Content
    PROVE  LET s == storeToSlot(q, v, x) IN
           /\ Good(s) /\ Keeps(q, s, {v}) /\ s.dontSwap = q.dontSwap
           /\ Stored(s, v) <=> Stored(q, v)
           /\ ReadVar(s, v) = IF inRegister(q, v) THEN ReadVar(q, v) ELSE x
<1> DEFINE s == storeToSlot(q, v, x)
<1>1. q \in VarState /\ SlotsApart(q) /\ q.mem \in [Vars -> Content]
  BY GoodFacts DEF Good
<1>2. /\ s \in VarState /\ SameTables(q, s) /\ SameSlots(q, s) /\ SameFlags(q, s)
      /\ s.mem = [q.mem EXCEPT ![v] = x] /\ s.reg = q.reg
  BY <1>1, StoreFields
<1> HIDE DEF s
<1>3. /\ Good(s)
      /\ \A w \in Vars : Stored(s, w) <=> Stored(q, w)
      /\ \A w \in Vars : inRegister(s, w) <=> inRegister(q, w)
  BY <1>2, SameIsGood
<1>4. \A w \in Vars : s.currentRegister[w] = q.currentRegister[w]
                      /\ s.mem[w] = IF w = v THEN x ELSE q.mem[w]
  BY <1>1, <1>2 DEF SameTables
<1>5. \A w \in Vars :
         ReadVar(s, w) = IF w = v /\ ~ inRegister(q, w) THEN x ELSE ReadVar(q, w)
  BY <1>2, <1>3, <1>4 DEF ReadVar
<1>6. Keeps(q, s, {v})
  BY <1>2, <1>3, <1>5 DEF Keeps, SameFlags, SameSlots
<1> QED BY <1>2, <1>3, <1>5, <1>6 DEF SameFlags, s

-----------------------------------------------------------------------------
(* Calls.                                                                  *)

\* Eight bytes for each word that is pushed and for the one that may be
\* added to them.
LEMMA StackAligned ==
    ASSUME NEW n \in Nat
    PROVE  (8 * (n + (n % 2))) % 16 = 0
<1>1. n % 2 \in {0, 1} /\ n = 2 * (n \div 2) + (n % 2) /\ n \div 2 \in Nat
  OBVIOUS
<1> DEFINE m == (n \div 2) + (n % 2)
<1>2. m \in Nat /\ 8 * (n + (n % 2)) = 16 * m
  BY <1>1
<1> HIDE DEF m
<1>3. (16 * m) % 16 = 0
  BY <1>2
<1> QED BY <1>2, <1>3

LEMMA VisibleArgs ==
    ASSUME NEW args \in Seq(Vars), NEW ret
    PROVE  LET room == Len(paramPassingRegOrder) - provided(ret)
           IN  /\ provided(ret) \in {0, 1}
               /\ visibleArgsInReg(args, ret) = IF Len(args) < room THEN Len(args) ELSE room
<1>1. Len(paramPassingRegOrder) \in Nat /\ Len(args) \in Nat /\ provided(ret) \in {0, 1}
  BY ParameterFacts DEF provided
<1> QED BY <1>1 DEF visibleArgsInReg

LEMMA AfterTheFirst ==
    ASSUME NEW S, NEW s \in Seq(S), NEW t \in Seq(S), NEW i \in 1 .. Len(t)
    PROVE  (s \o t)[Len(s) + i] = t[i]
OBVIOUS

\* The called procedure finds every argument.
LEMMA CalleeFinds ==
    ASSUME NEW args \in Seq(Vars), NEW ret, NEW q, NEW o, NEW val,
           \A i \in 1 .. Len(args) : ReadVar(o, args[i]) = val[args[i]],
           \A i \in 1 .. visibleArgsInReg(args, ret) :
              q.reg[paramPassingRegOrder[i + provided(ret)]] = val[args[i]]
    PROVE  \A i \in 1 .. Len(args) :
              calleeFinds(q, pushed(o, args, visibleArgsInReg(args, ret)),
                          Len(args), provided(ret))[i] = val[args[i]]
<1> DEFINE order == paramPassingRegOrder
<1> DEFINE first == provided(ret)
<1> DEFINE room == Len(order) - first
<1> DEFINE visible == visibleArgsInReg(args, ret)
<1> DEFINE words == pushed(o, args, visible)
<1> DEFINE frame == [j \in 1 .. numPreserved + 2 |-> junk] \o words
<1> DEFINE k(i) == i + first - Len(order) - 1
<1> DEFINE offset(i) == -16 - 8 * numPreserved - 8 * k(i)
<1>1. /\ Len(order) \in Nat /\ Len(order) > 0 /\ Len(args) \in Nat /\ numPreserved \in Nat
      /\ first \in {0, 1} /\ visible = IF Len(args) < room THEN Len(args) ELSE room
  BY ParameterFacts, VisibleArgs
<1>2. SUFFICES ASSUME NEW i \in 1 .. Len(args)
               PROVE  calleeFinds(q, words, Len(args), first)[i] = val[args[i]]
  OBVIOUS
<1>3. calleeFinds(q, words, Len(args), first)[i] =
        IF i + first <= Len(order) THEN q.reg[order[i + first]]
        ELSE frame[1 - offset(i) \div 8]
  BY DEF calleeFinds
<1>4. CASE i + first <= Len(order)
  <2>1. i \in 1 .. visible
    <3> HIDE DEF visible, first, order
    <3> QED BY <1>1, <1>4
  <2> QED BY <1>3, <1>4, <2>1
<1>5. CASE ~ (i + first <= Len(order))
  <2>1. /\ k(i) \in Nat /\ visible = room /\ visible \in Nat
        /\ k(i) + 1 = i - visible /\ k(i) + 1 \in 1 .. Len(args) - visible
    <3> HIDE DEF visible, first, order
    <3>1. room \in Nat /\ i > room /\ ~ (Len(args) < room)
      BY <1>1, <1>5
    <3>2. visible = room
      BY <1>1, <3>1
    <3> QED BY <1>1, <3>1, <3>2
  <2> DEFINE j == numPreserved + 3 + k(i)
  <2>2. 1 - offset(i) \div 8 = j
    <3> HIDE DEF k
    <3>1. offset(i) = 8 * (-2 - numPreserved - k(i))
      BY <1>1, <2>1
    <3> DEFINE m == -2 - numPreserved - k(i)
    <3>2. m \in Int /\ 1 - m = j
      BY <1>1, <2>1
    <3> HIDE DEF m, offset
    <3>3. (8 * m) \div 8 = m
      BY <3>2
    <3>4. offset(i) \div 8 = m
      BY <3>1, <3>3 DEF m
    <3> QED BY <3>2, <3>4
  <2> DEFINE low == [l \in 1 .. numPreserved + 2 |-> junk]
  <2> DEFINE S == {junk} \cup {ReadVar(o, args[l]) : l \in 1 .. Len(args)}
  <2>3. low \in Seq(S) /\ Len(low) = numPreserved + 2
    BY <1>1
  <2>4. /\ words \in Seq(S) /\ Len(words) = Len(args) - visible
        /\ words[k(i) + 1] = ReadVar(o, args[i])
    <3> HIDE DEF visible, k
    <3>1. Len(args) - visible \in Nat
      BY <1>1, <2>1
    <3>2. \A l \in 1 .. Len(args) - visible :
             visible + l \in 1 .. Len(args) /\ ReadVar(o, args[visible + l]) \in S
      BY <1>1, <2>1
    <3>3. words = [l \in 1 .. Len(args) - visible |-> ReadVar(o, args[visible + l])]
      BY DEF pushed
    <3>4. visible + (k(i) + 1) = i
      BY <1>1, <2>1
    <3> HIDE DEF words, S
    <3>5. words \in Seq(S) /\ Len(words) = Len(args) - visible
      BY <3>1, <3>2, <3>3
    <3>6. words[k(i) + 1] = ReadVar(o, args[visible + (k(i) + 1)])
      BY <2>1, <3>3
    <3> QED BY <3>4, <3>5, <3>6
  <2>5. (low \o words)[j] = words[k(i) + 1]
    <3>1. k(i) + 1 \in 1 .. Len(words) /\ j = Len(low) + (k(i) + 1)
      <4>1. k(i) + 1 \in 1 .. Len(words)
        <5> HIDE DEF words, k, visible
        <5> QED BY <2>1, <2>4
      <4>2. k(i) \in Nat /\ numPreserved \in Nat /\ Len(low) = numPreserved + 2
        BY <1>1, <2>1, <2>3
      <4> HIDE DEF words, k, low
      <4> QED BY <4>1, <4>2
    <3> HIDE DEF low, words, k, S, visible, j
    <3> QED BY <2>3, <2>4, <3>1, AfterTheFirst
  <2>6. frame = low \o words
    OBVIOUS
  <2> HIDE DEF frame, low, words, j, offset, k
  <2> QED BY <1>3, <1>5, <2>2, <2>4, <2>5, <2>6
<1> QED BY <1>4, <1>5

\* What the invariant says of the records that an instruction starts from.
LEMMA StartOfInstruction ==
    ASSUME CInv
    PROVE  LET q == swapStackBoundVars(p) IN
           /\ Good(q) /\ Extends(p, q) /\ q.dontSwap = {} /\ ~ q.noNewStackStorage
           /\ \A v \in ToSet(stackBoundVars) : v \in Vars /\ ~ inRegister(q, v)
           /\ \A w \in Vars : inRegister(q, w) => inRegister(p, w)
<1>1. Good(p) /\ stackBoundVars \in Seq(Vars) /\ p.dontSwap = {} /\ ~ p.noNewStackStorage
  BY DEF CInv
<1>2. \A v \in ToSet(stackBoundVars) : v \in p.decommissioned \/ hasStackStorage(p, v)
  BY DEF CInv, TakenHaveSlots
<1> DEFINE q == swapStackBoundVars(p)
<1> HIDE DEF q
<1>3. /\ Good(q) /\ Extends(p, q) /\ q.dontSwap = p.dontSwap
      /\ \A v \in ToSet(stackBoundVars) : ~ inRegister(q, v)
      /\ \A w \in Vars : inRegister(q, w) => inRegister(p, w)
  BY <1>1, <1>2, SwapStackBoundVars DEF q
<1>4. \A v \in ToSet(stackBoundVars) : v \in Vars
  BY <1>1 DEF ToSet
<1> QED BY <1>1, <1>3, <1>4 DEF Extends, q

\* A variable with a value still has it in a record that extends this one.
LEMMA StillHeld ==
    ASSUME CInv, NEW q, Extends(p, q), NEW v \in Vars, HasValue(v)
    PROVE  /\ Stored(q, v) /\ ReadVar(q, v) = value[v]
           /\ value[v] \in Content /\ value[v] \in Val /\ v \notin q.decommissioned
BY DEF CInv, HeldUnlessSpent, Extends, HasValue, Usable, Live, Content

LEMMA BeforeCall ==
    ASSUME CInv, KnownDefects = {}, NEW args \in ArgLists, NEW dying,
           Passable(args, dying), NEW ret,
           provided(ret) = 1 => ret \in Vars /\ Usable(ret)
    PROVE  LET call == beforeCall(args, ret, dying)
               q == call.q
           IN  /\ Good(q) /\ Keeps(p, q, dying) /\ q.dontSwap = {}
               /\ \A r \in ToSet(regsThatGetDestroyed) : q.occupiedBy[r] = invalidVn
               /\ \A v \in ToSet(stackBoundVars) : ~ inRegister(q, v)
               /\ provided(ret) = 1 => hasStackStorage(q, ret)
               /\ handedTo(call, args, ret).astray = {}
               /\ handedTo(call, args, ret).atCall % 16 = 0
               /\ handedTo(call, args, ret).after = 0
<1> DEFINE order == paramPassingRegOrder
<1> DEFINE first == provided(ret)
<1> DEFINE visible == visibleArgsInReg(args, ret)
<1> DEFINE swapped == swapStackBoundVars(p)
<1> DEFINE onStack == IF visible < Len(args) THEN takeTmpReg(swapped) ELSE swapped
<1> DEFINE loaded == loadArguments(onStack, args, first)
<1> DEFINE saved == saveDestroyed(loaded, dying)
<1> DEFINE q == IF first = 1 THEN ensureStackOffsetValid(saved, ret) ELSE saved
<1> DEFINE words == pushed(onStack, args, visible)
<1>1. /\ args \in Seq(Vars) /\ Len(args) \in Nat
      /\ \A i \in 1 .. Len(args) : args[i] \in Vars /\ varPerfectRegSize(args[i])
  BY ParameterFacts
<1>2. \A i \in 1 .. Len(args) : HasValue(args[i])
  BY DEF Passable
<1>3. IsInjective(args)
  BY DEF Passable
<1>4. /\ Len(order) \in Nat /\ Len(order) > 0 /\ first \in {0, 1}
      /\ visible = IF Len(args) < Len(order) - first THEN Len(args) ELSE Len(order) - first
  BY <1>1, VisibleArgs, ParameterFacts
<1>5. beforeCall(args, ret, dying) = [words |-> words, q |-> q]
  BY DEF beforeCall
<1>6. /\ Good(swapped) /\ Extends(p, swapped) /\ swapped.dontSwap = {}
      /\ ~ swapped.noNewStackStorage
      /\ \A v \in ToSet(stackBoundVars) : v \in Vars /\ ~ inRegister(swapped, v)
  BY StartOfInstruction
<1> HIDE DEF swapped
<1>7. /\ Good(onStack) /\ Extends(p, onStack) /\ onStack.dontSwap = {}
      /\ ~ onStack.noNewStackStorage
      /\ \A v \in ToSet(stackBoundVars) : v \in Vars /\ ~ inRegister(onStack, v)
  <2> DEFINE t == takeTmpReg(swapped)
  <2> HIDE DEF t
  <2>1. /\ Good(t) /\ Extends(swapped, t) /\ t.dontSwap = swapped.dontSwap
        /\ \A w \in Vars : inRegister(t, w) => inRegister(swapped, w)
    BY <1>6, TakeTmpReg DEF t
  <2>2. Extends(p, t)
    BY <1>6, <2>1, ExtendsTransitive DEF CInv
  <2>3. /\ Good(t) /\ Extends(p, t) /\ t.dontSwap = {} /\ ~ t.noNewStackStorage
        /\ \A v \in ToSet(stackBoundVars) : v \in Vars /\ ~ inRegister(t, v)
    BY <1>6, <2>1, <2>2 DEF Extends
  <2> QED BY <1>6, <2>3 DEF t
<1> HIDE DEF onStack
<1>8. \A i \in 1 .. Len(args) :
         /\ Stored(onStack, args[i]) /\ ReadVar(onStack, args[i]) = value[args[i]]
         /\ args[i] \notin onStack.decommissioned
  BY <1>1, <1>2, <1>7, StillHeld
<1>9. Loading(onStack, loaded, args, first, visible)
      /\ visible \in 0 .. Len(args) /\ visible + first <= Len(order)
  <2> HIDE DEF visible, first, order, loaded
  <2> DEFINE room == Len(order) - first
  <2> DEFINE n == IF Len(args) < room THEN Len(args) ELSE room
  <2>1. /\ n \in 0 .. Len(args) /\ n + first <= Len(order)
        /\ Loading(onStack, loaded, args, first, n)
    BY <1>1, <1>3, <1>4, <1>7, <1>8, LoadArguments DEF loaded, order
  <2> QED BY <1>4, <2>1
<1> HIDE DEF loaded
<1>10. /\ Good(loaded) /\ Extends(onStack, loaded) /\ loaded.dontSwap = {}
       /\ \A j \in 1 .. visible : loaded.currentRegister[args[j]] = order[j + first]
       /\ \A w \in Vars : inRegister(loaded, w) =>
             inRegister(onStack, w) \/ \E j \in 1 .. visible : w = args[j]
  BY <1>7, <1>9 DEF Loading
<1>11. Extends(p, loaded)
  BY <1>7, <1>10, ExtendsTransitive DEF CInv
<1>12. \A j \in 1 .. visible :
          /\ j \in 1 .. Len(args) /\ j + first \in 1 .. Len(order)
          /\ order[j + first] \in Registers
          /\ order[j + first] \in ToSet(regsThatGetDestroyed)
  <2>1. ASSUME NEW j \in 1 .. visible
        PROVE j \in 1 .. Len(args) /\ j + first \in 1 .. Len(order)
    <3> HIDE DEF visible, first, order
    <3> QED BY <1>1, <1>4, <1>9
  <2>2. \A j \in 1 .. Len(order) : order[j] \in Registers /\ order[j] \in ToSet(order)
    BY ParameterFacts DEF ToSet
  <2>3. ToSet(order) \subseteq ToSet(regsThatGetDestroyed)
    BY ParameterAssumption
  <2> HIDE DEF visible, first, order
  <2> QED BY <2>1, <2>2, <2>3
<1>13. /\ Good(saved) /\ Keeps(loaded, saved, dying)
       /\ saved.reg = loaded.reg /\ saved.dontSwap = {}
       /\ \A s \in ToSet(regsThatGetDestroyed) : saved.occupiedBy[s] = invalidVn
       /\ \A s \in Registers : saved.occupiedBy[s] \in {invalidVn, loaded.occupiedBy[s]}
  BY <1>10, SaveDestroyed
<1> HIDE DEF saved
<1>14. Keeps(p, saved, dying)
  <2>1. Keeps(p, loaded, {}) /\ {} \cup dying = dying
    BY <1>11, ExtensionKeeps
  <2> QED BY <1>13, <2>1, KeepsTransitive
<1>15. /\ Good(q) /\ Keeps(p, q, dying) /\ q.dontSwap = {}
       /\ q.occupiedBy = saved.occupiedBy /\ q.reg = saved.reg
       /\ first = 1 => hasStackStorage(q, ret)
  <2>1. CASE first # 1
    BY <1>13, <1>14, <2>1
  <2>2. CASE first = 1
    <3>1. ret \in Vars /\ ret \notin saved.decommissioned
      BY <1>14, <2>2 DEF Usable, Live, Keeps
    <3> DEFINE e == ensureStackOffsetValid(saved, ret)
    <3> HIDE DEF e
    <3>2. /\ Good(e) /\ Extends(saved, e) /\ hasStackStorage(e, ret)
          /\ SameTables(saved, e) /\ SameMachine(saved, e) /\ SameFlags(saved, e)
      BY <1>13, <3>1, EnsureSlot DEF e
    <3>3. Keeps(p, e, dying)
      <4>1. Keeps(saved, e, {}) /\ dying \cup {} = dying
        BY <3>2, ExtensionKeeps
      <4> QED BY <1>14, <4>1, KeepsTransitive
    <3>4. q = e
      BY <2>2 DEF e
    <3> QED BY <1>13, <3>2, <3>3, <3>4 DEF SameTables, SameMachine, SameFlags
  <2> QED BY <2>1, <2>2
<1> HIDE DEF q
<1>16. ASSUME NEW v \in ToSet(stackBoundVars), inRegister(q, v) PROVE FALSE
  <2>1. v \in Vars /\ ~ inRegister(onStack, v)
    BY <1>7
  <2>2. PICK s \in Registers : q.currentRegister[v] = s
    BY <1>15, <1>16, <2>1, RegistersFacts, GoodFacts
  <2>3. q.occupiedBy[s] = v /\ v # invalidVn
    BY <1>15, <2>1, <2>2, GoodFacts, VarsAssumption
  <2>4. loaded.occupiedBy[s] = v /\ saved.occupiedBy[s] = v
    BY <1>13, <1>15, <2>3
  <2>5. inRegister(loaded, v) /\ loaded.currentRegister[v] = s
    BY <1>10, <2>1, <2>3, <2>4, GoodFacts, RegistersFacts DEF inRegister
  <2>6. PICK j \in 1 .. visible : v = args[j]
    BY <1>10, <2>1, <2>5
  <2>7. s \in ToSet(regsThatGetDestroyed)
    BY <1>10, <1>12, <2>5, <2>6
  <2> QED BY <1>13, <2>3, <2>4, <2>7
<1>17. \A i \in 1 .. visible : q.reg[order[i + first]] = value[args[i]]
  <2>1. SUFFICES ASSUME NEW i \in 1 .. visible
                 PROVE  q.reg[order[i + first]] = value[args[i]]
    OBVIOUS
  <2>2. i \in 1 .. Len(args) /\ order[i + first] \in Registers /\ args[i] \in Vars
    BY <1>1, <1>12
  <2>3. inRegister(loaded, args[i]) /\ loaded.currentRegister[args[i]] = order[i + first]
    BY <1>10, <2>2, RegistersFacts DEF inRegister
  <2>4. ReadVar(loaded, args[i]) = value[args[i]]
    BY <1>8, <1>10, <2>2 DEF Extends
  <2> QED BY <1>13, <1>15, <2>3, <2>4 DEF ReadVar
<1> DEFINE call == [words |-> words, q |-> q]
<1>18. \A i \in 1 .. Len(args) :
          calleeFinds(q, words, Len(args), first)[i] = value[args[i]]
  BY <1>1, <1>8, <1>17, CalleeFinds
<1>19. handedTo(call, args, ret).astray = {}
  <2>1. handedTo(call, args, ret).astray =
          {i \in 1 .. Len(args) :
              calleeFinds(q, words, Len(args), first)[i] # value[args[i]]}
    BY DEF handedTo
  <2> HIDE DEF words, first
  <2> QED BY <1>18, <2>1
<1>20. Len(words) = Len(args) - visible /\ Len(words) \in Nat
  <2>1. Len(args) - visible \in Nat
    BY <1>1, <1>9
  <2> HIDE DEF visible
  <2> QED BY <2>1 DEF pushed
<1> DEFINE bytes == 8 * (Len(words) + (Len(words) % 2))
<1>21. /\ handedTo(call, args, ret).atCall = bytes
       /\ handedTo(call, args, ret).after =
             bytes - (IF Len(args) + first > Len(order) THEN bytes ELSE 0)
  BY DEF handedTo, padding
<1>22. bytes % 16 = 0 /\ bytes \in Int
  <2> HIDE DEF words
  <2> QED BY <1>20, StackAligned
<1>23. ~ (Len(args) + first > Len(order)) => bytes = 0
  <2>1. ~ (Len(args) + first > Len(order)) => Len(words) = 0
    <3> HIDE DEF words, visible, first, order
    <3> QED BY <1>1, <1>4, <1>20
  <2> HIDE DEF words
  <2> QED BY <2>1
<1>24. /\ handedTo(call, args, ret).atCall % 16 = 0
       /\ handedTo(call, args, ret).after = 0
  <2> HIDE DEF bytes, first, call
  <2> QED BY <1>21, <1>22, <1>23
<1>25. \A r \in ToSet(regsThatGetDestroyed) : q.occupiedBy[r] = invalidVn
  BY <1>13, <1>15
<1>26. call = beforeCall(args, ret, dying) /\ call.q = q
  BY <1>5
<1> HIDE DEF call, visible, words
<1> QED BY <1>15, <1>16, <1>19, <1>24, <1>25, <1>26

-----------------------------------------------------------------------------
(* How the invariant comes out of an instruction.                          *)

\* D are the variables that the instruction gives a value or uses up.
LEMMA Closing ==
    ASSUME CInv, NEW q, Good(q), p' = finished(q), NEW D, Keeps(p, q, D),
           spent \subseteq spent', spent' \subseteq Vars, value' \in [Vars -> Content],
           \A v \in Vars : v \notin D /\ v \notin spent' => value'[v] = value[v],
           \A v \in Vars : v \in D /\ v \notin spent' /\ value'[v] # junk =>
              Stored(q, v) /\ ReadVar(q, v) = value'[v],
           stackBoundVars' = stackBoundVars, ArgumentsArrive'
    PROVE  CInv' /\ NothingEnds
<1> DEFINE r == finished(q)
<1>1. /\ r.dontSwap = {} /\ r.decommissioned = q.decommissioned
      /\ r.noNewStackStorage = q.noNewStackStorage
  BY DEF Good, VarState, finished
<1>2. /\ Good(r) /\ SameSlots(q, r)
      /\ \A v \in Vars : (Stored(r, v) <=> Stored(q, v)) /\ ReadVar(r, v) = ReadVar(q, v)
  <2>1. r = [q EXCEPT !.dontSwap = {}]
    BY DEF finished
  <2>2. \A S \in SUBSET Registers :
           /\ Good([q EXCEPT !.dontSwap = S]) /\ SameSlots(q, [q EXCEPT !.dontSwap = S])
           /\ \A v \in Vars :
                 /\ Stored([q EXCEPT !.dontSwap = S], v) <=> Stored(q, v)
                 /\ ReadVar([q EXCEPT !.dontSwap = S], v) = ReadVar(q, v)
    BY DontSwapIsFree
  <2>3. {} \in SUBSET Registers
    OBVIOUS
  <2> QED BY <2>1, <2>2, <2>3, Zenon
<1>3. p' = r
  OBVIOUS
<1> HIDE DEF r
<1>4. Keeps(p, r, D)
  BY <1>1, <1>2 DEF Keeps, SameSlots
<1>5. \A v \in Vars : v \notin spent' /\ value'[v] # junk =>
         Stored(r, v) /\ ReadVar(r, v) = value'[v]
  <2>1. SUFFICES ASSUME NEW v \in Vars, v \notin spent', value'[v] # junk
                 PROVE  Stored(r, v) /\ ReadVar(r, v) = value'[v]
    OBVIOUS
  <2>2. CASE v \in D
    BY <1>2, <2>1, <2>2
  <2>3. CASE v \notin D
    <3>1. v \in Vars \ spent /\ value'[v] = value[v]
      BY <2>1, <2>3
    <3>2. Stored(p, v) /\ ReadVar(p, v) = value[v]
      BY <2>1, <3>1 DEF CInv, HeldUnlessSpent
    <3> QED BY <1>4, <2>3, <3>1, <3>2 DEF Keeps
  <2> QED BY <2>2, <2>3
<1>6. HeldUnlessSpent'
  BY <1>3, <1>5 DEF HeldUnlessSpent
<1>7. \A v \in ToSet(stackBoundVars) : v \in r.decommissioned \/ hasStackStorage(r, v)
  <2>1. \A v \in ToSet(stackBoundVars) : v \in Vars
    BY DEF CInv, ToSet
  <2> QED BY <1>4, <2>1 DEF CInv, TakenHaveSlots, Keeps, hasStackStorage
<1>8. TakenHaveSlots'
  BY <1>3, <1>7 DEF TakenHaveSlots
<1>9. ~ r.noNewStackStorage
  BY <1>4 DEF CInv, Keeps
<1> QED BY <1>1, <1>2, <1>3, <1>4, <1>6, <1>8, <1>9 DEF CInv, NothingEnds, Keeps

\* Variable v is given the value x, and no other changes.
LEMMA OneWritten ==
    ASSUME CInv, NEW q, Good(q), p' = finished(q), NEW v \in Vars, NEW x \in Content,
           Keeps(p, q, {v}), Stored(q, v), ReadVar(q, v) = x,
           value' = [value EXCEPT ![v] = x], spent' = spent,
           stackBoundVars' = stackBoundVars, ArgumentsArrive'
    PROVE  CInv' /\ NothingEnds
<1>1. value \in [Vars -> Content] /\ spent \subseteq Vars
  BY DEF CInv
<1>2. value' \in [Vars -> Content]
  BY <1>1
<1>3. \A w \in Vars : value'[w] = IF w = v THEN x ELSE value[w]
  BY <1>1
<1> QED BY <1>1, <1>2, <1>3, Closing

LEMMA NoneWritten ==
    ASSUME CInv, NEW q, Good(q), p' = finished(q), Extends(p, q),
           value' = value, spent' = spent,
           stackBoundVars' = stackBoundVars, ArgumentsArrive'
    PROVE  CInv' /\ NothingEnds
<1>1. value \in [Vars -> Content] /\ spent \subseteq Vars
  BY DEF CInv
<1>2. Keeps(p, q, {})
  BY ExtensionKeeps
<1> QED BY <1>1, <1>2, Closing

LEMMA ExtendAndWrite ==
    ASSUME NEW q, NEW r, NEW s, NEW v, NEW x, Extends(q, r), Writes(r, s, v, x)
    PROVE  Keeps(q, s, {v}) /\ Stored(s, v) /\ ReadVar(s, v) = x
<1>1. Keeps(q, r, {}) /\ Keeps(r, s, {v})
  BY ExtensionKeeps, WritingKeeps
<1>2. {} \cup {v} = {v}
  OBVIOUS
<1>3. Keeps(q, s, {v})
  BY <1>1, <1>2, KeepsTransitive
<1> QED BY <1>3 DEF Writes

\* Nothing is handed over, or all of it is found.
LEMMA NothingAstray ==
    /\ [nothingHanded EXCEPT !.astray = {}] = nothingHanded
    /\ handover' = nothingHanded => ArgumentsArrive'
BY DEF nothingHanded, ArgumentsArrive

LEMMA ValuesAssumed ==
    /\ zero \in Val /\ zero \in Content
    /\ \A v \in Vars : \A x \in ImmediatesFor[v] : x \in Val /\ x \in Content
BY ImmediatesAssumption DEF Content

\* A record whose dontSwap is empty already.
LEMMA FinishedAlready ==
    ASSUME NEW q, Good(q), q.dontSwap = {}
    PROVE  finished(q) = q
BY DEF Good, VarState, finished

-----------------------------------------------------------------------------
(* The instructions of RegAlloc.                                           *)

LEMMA CAssignImmAnywhere ==
    ASSUME NEW v \in Vars, NEW x \in ImmediatesFor[v]
    PROVE  CInv /\ AssignImmAnywhere(v, x) /\ NothingHanded => CInv' /\ NothingEnds
<1> SUFFICES ASSUME CInv, AssignImmAnywhere(v, x), NothingHanded
             PROVE  CInv' /\ NothingEnds
  OBVIOUS
<1> DEFINE q == allocateRuntimeStorage(p, v)
<1> DEFINE s == writeOperand(q, v, x)
<1>1. Good(p) /\ p.dontSwap = {} /\ x \in Content
  BY ValuesAssumed DEF CInv
<1>2. /\ v \notin p.decommissioned /\ varPerfectRegSize(v)
      /\ p' = s /\ value' = [value EXCEPT ![v] = x]
      /\ spent' = spent /\ stackBoundVars' = stackBoundVars /\ ArgumentsArrive'
  BY NothingAstray DEF AssignImmAnywhere, LiveInReg, Live, NothingHanded
<1> HIDE DEF q
<1>3. Good(q) /\ Extends(p, q) /\ Stored(q, v) /\ q.dontSwap = p.dontSwap
  BY <1>1, <1>2, AllocateRuntimeStorage DEF q
<1> HIDE DEF s
<1>4. Good(s) /\ Writes(q, s, v, x) /\ s.dontSwap = q.dontSwap
  BY <1>1, <1>3, WriteOperand DEF s
<1>5. Keeps(p, s, {v}) /\ Stored(s, v) /\ ReadVar(s, v) = x
  BY <1>3, <1>4, ExtendAndWrite
<1>6. p' = finished(s)
  BY <1>1, <1>2, <1>3, <1>4, FinishedAlready
<1> QED BY <1>1, <1>2, <1>4, <1>5, <1>6, OneWritten

LEMMA CCopyThroughMemcpy ==
    ASSUME NEW dest \in Vars, NEW source \in Vars \ spent
    PROVE  CInv /\ CopyThroughMemcpy(dest, source) /\ NothingHanded => CInv' /\ NothingEnds
<1> SUFFICES ASSUME CInv, CopyThroughMemcpy(dest, source), NothingHanded
             PROVE  CInv' /\ NothingEnds
  OBVIOUS
<1> DEFINE x == value[source]
<1>1. Good(p) /\ p.dontSwap = {} /\ x \in Content
  BY DEF CInv
<1>2. /\ dest \notin p.decommissioned
      /\ ~ varPerfectRegSize(source) /\ ~ varPerfectRegSize(dest) /\ x # junk
      /\ spent' = spent /\ stackBoundVars' = stackBoundVars /\ ArgumentsArrive'
      /\ value' = [value EXCEPT ![dest] = x]
  BY NothingAstray DEF CopyThroughMemcpy, Live, NothingHanded, varPerfectRegSize
<1>3. Stored(p, source) /\ ReadVar(p, source) = x
  BY <1>2 DEF CInv, HeldUnlessSpent
<1>4. hasStackStorage(p, source)
  BY <1>1, <1>2, <1>3 DEF Good, Stored
<1> DEFINE f == freeUp3(ensureStackOffsetValid(p, dest), TRUE, rsi, rdi, rcx)
<1> DEFINE m == clobber(f, {rsi, rdi, rcx})
<1> DEFINE s == storeToSlot(m, dest, f.mem[source])
<1>5. /\ Good(m) /\ Extends(p, m)
      /\ Good(s) /\ Writes(m, s, dest, ReadVar(p, source)) /\ s.dontSwap = p.dontSwap
  BY <1>1, <1>2, <1>3, CopyMemory
<1>6. p' = s
  BY <1>4 DEF CopyThroughMemcpy
<1> HIDE DEF f, m, s, x
<1>7. Keeps(p, s, {dest}) /\ Stored(s, dest) /\ ReadVar(s, dest) = x
  BY <1>3, <1>5, ExtendAndWrite
<1>8. p' = finished(s)
  BY <1>1, <1>5, <1>6, FinishedAlready
<1> QED BY <1>1, <1>2, <1>5, <1>7, <1>8, OneWritten

LEMMA CZeroOutVarOnStack ==
    ASSUME NEW v \in Vars
    PROVE  CInv /\ ZeroOutVarOnStack(v) /\ NothingHanded => CInv' /\ NothingEnds
<1> SUFFICES ASSUME CInv, ZeroOutVarOnStack(v), NothingHanded
             PROVE  CInv' /\ NothingEnds
  OBVIOUS
<1> DEFINE m == clobber(freeUp2(ensureStackOffsetValid(p, v), TRUE, rdi, rcx), {rdi, rcx})
<1> DEFINE s == storeToSlot(m, v, zero)
<1>1. Good(p) /\ p.dontSwap = {} /\ zero \in Content
  BY ValuesAssumed DEF CInv
<1>2. /\ v \notin p.decommissioned /\ ~ inRegister(p, v)
      /\ p' = s /\ value' = [value EXCEPT ![v] = zero]
      /\ spent' = spent /\ stackBoundVars' = stackBoundVars /\ ArgumentsArrive'
  BY NothingAstray DEF ZeroOutVarOnStack, Live, NothingHanded
<1>3. /\ Good(m) /\ Extends(p, m)
      /\ Good(s) /\ Writes(m, s, v, zero) /\ s.dontSwap = p.dontSwap
  BY <1>1, <1>2, ZeroMemory
<1> HIDE DEF m, s
<1>4. Keeps(p, s, {v}) /\ Stored(s, v) /\ ReadVar(s, v) = zero
  BY <1>3, ExtendAndWrite
<1>5. p' = finished(s)
  BY <1>1, <1>2, <1>3, FinishedAlready
<1> QED BY <1>1, <1>2, <1>3, <1>4, <1>5, OneWritten

LEMMA CDecommission ==
    ASSUME NEW v \in Vars
    PROVE  CInv /\ Decommission(v) /\ NothingHanded =>
              CInv' /\ p'.decommissioned = p.decommissioned \cup {v}
<1> SUFFICES ASSUME CInv, Decommission(v), NothingHanded
             PROVE  CInv' /\ p'.decommissioned = p.decommissioned \cup {v}
  OBVIOUS
<1> DEFINE s == decommission(p, v)
<1>1. /\ Good(p) /\ p.dontSwap = {} /\ ~ p.noNewStackStorage
      /\ value \in [Vars -> Content] /\ spent \subseteq Vars
      /\ stackBoundVars \in Seq(Vars)
  BY DEF CInv
<1>2. /\ v \notin p.decommissioned
      /\ p' = s /\ value' = [value EXCEPT ![v] = junk]
      /\ spent' = spent /\ stackBoundVars' = stackBoundVars /\ ArgumentsArrive'
  BY NothingAstray DEF Decommission, Live, NothingHanded
<1> HIDE DEF s
<1>3. /\ Good(s) /\ s.decommissioned = p.decommissioned \cup {v}
      /\ s.noNewStackStorage = p.noNewStackStorage
      /\ \A w \in Vars : w # v =>
            /\ s.rbpOffset[w] = p.rbpOffset[w]
            /\ Stored(s, w) <=> Stored(p, w)
            /\ ReadVar(s, w) = ReadVar(p, w)
  BY <1>1, <1>2, DecommissionVar DEF s
<1>4. s.dontSwap = {}
  <2>1. \A q \in VarState, r \in Registers : releaseRegister(q, r).dontSwap = q.dontSwap
    BY DEF releaseRegister, Panic, VarState
  <2> DEFINE q == [p EXCEPT !.decommissioned = @ \cup {v}]
  <2>2. q \in VarState /\ q.dontSwap = {} /\ q.currentRegister = p.currentRegister
    BY <1>1 DEF Good, VarState
  <2>3. q.currentRegister[v] # invalidRegister => q.currentRegister[v] \in Registers
    BY <2>2 DEF VarState
  <2> DEFINE t == IF q.currentRegister[v] # invalidRegister
                  THEN releaseRegister(q, q.currentRegister[v]) ELSE q
  <2>4. s = [t EXCEPT !.rbpOffset[v] = 0]
    BY DEF s, decommission
  <2>5. t.dontSwap = {}
    <3> HIDE DEF q
    <3> QED BY <2>1, <2>2, <2>3
  <2> HIDE DEF t
  <2>6. s \in VarState
    BY <1>3 DEF Good
  <2> QED BY <2>4, <2>5, <2>6 DEF VarState
<1>5. value' \in [Vars -> Content] /\ \A w \in Vars : w # v => value'[w] = value[w]
  BY <1>1, <1>2 DEF Content
<1>6. value'[v] = junk
  BY <1>1, <1>2
<1>7. HeldUnlessSpent'
  <2>1. \A w \in Vars \ spent : value'[w] # junk =>
           Stored(s, w) /\ ReadVar(s, w) = value'[w]
    BY <1>3, <1>5, <1>6 DEF CInv, HeldUnlessSpent
  <2> QED BY <1>2, <2>1 DEF HeldUnlessSpent
<1>8. TakenHaveSlots'
  <2>1. \A w \in ToSet(stackBoundVars) : w \in Vars
    BY <1>1 DEF ToSet
  <2>2. \A w \in ToSet(stackBoundVars) : w \in s.decommissioned \/ hasStackStorage(s, w)
    BY <1>3, <2>1 DEF CInv, TakenHaveSlots, hasStackStorage
  <2> QED BY <1>2, <2>2 DEF TakenHaveSlots
<1> QED BY <1>1, <1>2, <1>3, <1>4, <1>5, <1>7, <1>8 DEF CInv

-----------------------------------------------------------------------------
(* Calls and returns.                                                      *)

\* A free register is given to a variable that is in none; what the register
\* holds is not its value yet.
LEMMA Allocate ==
    ASSUME NEW q, Good(q), NEW r \in Registers, q.occupiedBy[r] = invalidVn,
           NEW v \in Vars, ~ inRegister(q, v), v \notin q.decommissioned,
           varPerfectRegSize(v)
    PROVE  LET s == allocateRegToVar(q, r, v) IN
           Good(s) /\ Keeps(q, s, {v}) /\ inRegister(s, v)
<1> DEFINE s == allocateRegToVar(q, r, v)
<1>1. /\ q \in VarState /\ AvailableMatches(q) /\ RegistersMatch(q) /\ SlotsApart(q)
      /\ q.decommissioned \subseteq Vars
      /\ q.currentRegister \in [Vars -> Registers \cup {invalidRegister}]
      /\ q.occupiedBy \in [Registers -> Vars \cup {invalidVn}]
  BY DEF Good, VarState
<1>2. /\ s \in VarState /\ AvailableMatches(s)
      /\ s.occupiedBy = [q.occupiedBy EXCEPT ![r] = v]
      /\ s.currentRegister = [q.currentRegister EXCEPT ![v] = r]
      /\ SameMachine(q, s) /\ SameSlots(q, s) /\ SameFlags(q, s)
  BY <1>1, AllocateFields
<1> HIDE DEF s
<1>3. \A w \in Vars : s.currentRegister[w] = IF w = v THEN r ELSE q.currentRegister[w]
  BY <1>1, <1>2
<1>4. \A u \in Registers : s.occupiedBy[u] = IF u = r THEN v ELSE q.occupiedBy[u]
  BY <1>1, <1>2
<1>5. RegistersMatch(s)
  <2>1. SUFFICES ASSUME NEW u \in Registers, NEW w \in Vars
                 PROVE  s.occupiedBy[u] = w <=> s.currentRegister[w] = u
    BY DEF RegistersMatch
  <2>2. /\ q.occupiedBy[u] = w <=> q.currentRegister[w] = u
        /\ q.currentRegister[v] # u /\ q.occupiedBy[r] # w
    BY <1>1, RegistersFacts, VarsAssumption DEF RegistersMatch, inRegister
  <2> QED BY <1>3, <1>4, <2>2
<1>6. SlotsApart(s)
  BY <1>1, <1>2 DEF SlotsApart, Overlap, hasStackStorage, SameSlots
<1>7. \A w \in Vars :
          /\ inRegister(s, w) <=> w = v \/ inRegister(q, w)
          /\ hasStackStorage(s, w) <=> hasStackStorage(q, w)
  BY <1>2, <1>3, RegistersFacts DEF inRegister, hasStackStorage, SameSlots
<1>8. Good(s)
  <2>1. \A w \in s.decommissioned : ~ Stored(s, w)
    BY <1>1, <1>2, <1>7 DEF Good, SameFlags, Stored
  <2>2. \A w \in Vars : inRegister(s, w) => varPerfectRegSize(w)
    BY <1>7 DEF Good
  <2> QED BY <1>2, <1>5, <1>6, <2>1, <2>2 DEF Good, SameFlags
<1>9. Keeps(q, s, {v})
  <2>1. \A w \in Vars \ {v} : Stored(q, w) => Stored(s, w) /\ ReadVar(s, w) = ReadVar(q, w)
    BY <1>2, <1>3, <1>7 DEF Stored, ReadVar, SameMachine
  <2> QED BY <1>2, <2>1 DEF Keeps, SameFlags, SameSlots
<1> QED BY <1>7, <1>8, <1>9 DEF s

\* The result arrives in rax, which is given to its variable.
LEMMA ResultInRax ==
    ASSUME NEW q, Good(q), q.occupiedBy[rax] = invalidVn, NEW ret \in Vars,
           ret \notin q.decommissioned, varPerfectRegSize(ret), NEW x \in Content
    PROVE  LET freed == IF inRegister(q, ret)
                        THEN releaseRegister(q, q.currentRegister[ret]) ELSE q
               s == writeOperand(allocateRegToVar(freed, rax, ret), ret, x)
           IN  Good(s) /\ Keeps(q, s, {ret}) /\ Stored(s, ret) /\ ReadVar(s, ret) = x
<1> DEFINE at == q.currentRegister[ret]
<1> DEFINE freed == IF inRegister(q, ret) THEN releaseRegister(q, at) ELSE q
<1> DEFINE given == allocateRegToVar(freed, rax, ret)
<1> DEFINE s == writeOperand(given, ret, x)
<1>1. rax \in Registers
  BY FixedRegistersAssumption
<1>2. /\ Good(freed) /\ Keeps(q, freed, {ret}) /\ freed.occupiedBy[rax] = invalidVn
      /\ ~ inRegister(freed, ret)
  <2>1. CASE ~ inRegister(q, ret)
    <3>1. Keeps(q, q, {ret})
      BY ExtendsReflexive, ExtensionKeeps
    <3> QED BY <2>1, <3>1
  <2>2. CASE inRegister(q, ret)
    <3> DEFINE t == releaseRegister(q, at)
    <3>1. at \in Registers /\ q.occupiedBy[at] = ret /\ ret # invalidVn
      BY <2>2, GoodFacts, RegistersFacts, VarsAssumption
    <3> HIDE DEF at, t
    <3>2. /\ Good(t) /\ Keeps(q, t, {ret})
          /\ t.occupiedBy = [q.occupiedBy EXCEPT ![at] = invalidVn]
      BY <3>1, Release DEF t
    <3>3. \A u \in Registers : t.occupiedBy[u] = IF u = at THEN invalidVn ELSE q.occupiedBy[u]
      BY <3>1, <3>2, GoodFacts
    <3>4. ~ inRegister(t, ret)
      <4>1. SUFFICES ASSUME inRegister(t, ret) PROVE FALSE
        OBVIOUS
      <4> DEFINE u == t.currentRegister[ret]
      <4>2. u \in Registers /\ t.occupiedBy[u] = ret
        BY <3>2, <4>1, GoodFacts, RegistersFacts
      <4>3. u # at /\ q.occupiedBy[u] = ret
        BY <3>1, <3>3, <4>2
      <4>4. q.currentRegister[ret] = u
        BY <4>2, <4>3, GoodFacts
      <4> QED BY <4>3, <4>4 DEF at
    <3>5. freed = t
      BY <2>2 DEF t
    <3> QED BY <1>1, <3>2, <3>3, <3>4, <3>5
  <2> QED BY <2>1, <2>2
<1> HIDE DEF freed
<1>3. ret \notin freed.decommissioned
  BY <1>2 DEF Keeps
<1>4. Good(given) /\ Keeps(freed, given, {ret}) /\ inRegister(given, ret)
  BY <1>1, <1>2, <1>3, Allocate
<1> HIDE DEF given
<1>5. Good(s) /\ Writes(given, s, ret, x)
  BY <1>4, WriteOperand DEF Stored
<1> HIDE DEF s
<1>6. Keeps(given, s, {ret}) /\ Stored(s, ret) /\ ReadVar(s, ret) = x
  BY <1>5, WritingKeeps DEF Writes
<1>7. Keeps(q, s, {ret})
  <2>1. {ret} \cup {ret} = {ret}
    OBVIOUS
  <2>2. Keeps(q, given, {ret})
    BY <1>2, <1>4, <2>1, KeepsTransitive
  <2> QED BY <1>6, <2>1, <2>2, KeepsTransitive
<1> QED BY <1>5, <1>6, <1>7 DEF s, given, freed

\* One variable is written by a call that uses up the variables of dying.
LEMMA WrittenByCall ==
    ASSUME CInv, NEW q, Good(q), p' = finished(q), NEW v \in Vars, NEW x \in Content,
           NEW dying, dying \subseteq Vars, Keeps(p, q, dying \cup {v}),
           Stored(q, v), ReadVar(q, v) = x, v \notin dying,
           value' = [value EXCEPT ![v] = x], spent' = spent \cup dying,
           stackBoundVars' = stackBoundVars, ArgumentsArrive'
    PROVE  CInv' /\ NothingEnds
<1> DEFINE D == dying \cup {v}
<1>1. value \in [Vars -> Content] /\ spent \subseteq Vars
  BY DEF CInv
<1>2. value' \in [Vars -> Content] /\ \A w \in Vars : value'[w] = IF w = v THEN x ELSE value[w]
  BY <1>1
<1>3. spent \subseteq spent' /\ spent' \subseteq Vars
  BY <1>1
<1>4. \A w \in Vars : w \notin D /\ w \notin spent' => value'[w] = value[w]
  BY <1>2
<1>5. \A w \in Vars : w \in D /\ w \notin spent' => Stored(q, w) /\ ReadVar(q, w) = value'[w]
  BY <1>2
<1>6. Keeps(p, q, D)
  OBVIOUS
<1> HIDE DEF D
<1> QED BY <1>2, <1>3, <1>4, <1>5, <1>6, Closing

\* The registers that a call may overwrite belong to no one by then.
LEMMA Called ==
    ASSUME NEW q, Good(q),
           \A r \in ToSet(regsThatGetDestroyed) : q.occupiedBy[r] = invalidVn
    PROVE  LET s == clobber(q, ToSet(regsThatGetDestroyed)) IN
           /\ Good(s) /\ Extends(q, s) /\ SameTables(q, s)
           /\ s.occupiedBy[rax] = invalidVn
<1> DEFINE rs == ToSet(regsThatGetDestroyed)
<1>1. rs \in SUBSET Registers
  BY ParameterFacts DEF ToSet
<1>2. rax \in rs /\ rax \in Registers
  BY ParameterAssumption, FixedRegistersAssumption
<1> HIDE DEF rs
<1>3. LET s == clobber(q, rs) IN Good(s) /\ Extends(q, s) /\ SameTables(q, s)
  BY <1>1, ClobberFree DEF rs
<1> QED BY <1>2, <1>3 DEF SameTables, rs

LEMMA CGenCall ==
    ASSUME NEW args \in ArgLists, NEW ret \in Vars, NEW dying \in SUBSET Ending,
           NEW x \in ImmediatesFor[ret], KnownDefects = {}
    PROVE  CInv /\ GenCall(args, ret, x, dying) => CInv' /\ NothingEnds
<1> SUFFICES ASSUME CInv, GenCall(args, ret, x, dying)
             PROVE  CInv' /\ NothingEnds
  OBVIOUS
<1> DEFINE call == beforeCall(args, ret, dying)
<1> DEFINE c == call.q
<1> DEFINE q == clobber(c, ToSet(regsThatGetDestroyed))
<1> DEFINE freed == IF inRegister(q, ret) THEN releaseRegister(q, q.currentRegister[ret]) ELSE q
<1> DEFINE inRax == writeOperand(allocateRegToVar(freed, rax, ret), ret, x)
<1> DEFINE s == IF provided(ret) = 1 THEN storeToSlot(q, ret, x) ELSE inRax
<1>1. /\ Passable(args, dying) /\ Usable(ret) /\ ret \notin ToSet(args)
      /\ varPerfectRegSize(ret) \/ provided(ret) = 1
      /\ p' = finished(s) /\ handover' = handedTo(call, args, ret)
      /\ value' = [value EXCEPT ![ret] = x] /\ spent' = spent \cup dying
      /\ stackBoundVars' = stackBoundVars
  BY DEF GenCall
<1>2. x \in Content /\ dying \subseteq Vars /\ ret \notin dying /\ ret \notin p.decommissioned
  <2>1. dying \subseteq ToSet(args) /\ Ending \subseteq Vars
    BY <1>1, ParameterAssumption DEF Passable
  <2> QED BY <1>1, <2>1, ValuesAssumed DEF Usable, Live
<1>3. /\ Good(c) /\ Keeps(p, c, dying) /\ c.dontSwap = {}
      /\ \A r \in ToSet(regsThatGetDestroyed) : c.occupiedBy[r] = invalidVn
      /\ provided(ret) = 1 => hasStackStorage(c, ret)
      /\ handedTo(call, args, ret).astray = {}
      /\ handedTo(call, args, ret).atCall % 16 = 0
      /\ handedTo(call, args, ret).after = 0
  BY <1>1, BeforeCall
<1>4. ArgumentsArrive'
  BY <1>1, <1>3 DEF ArgumentsArrive
<1> HIDE DEF c, call
<1>5. Good(q) /\ Extends(c, q) /\ SameTables(c, q) /\ q.occupiedBy[rax] = invalidVn
  BY <1>3, Called
<1>6. ret \notin q.decommissioned
  BY <1>2, <1>3, <1>5 DEF Keeps, Extends
<1> HIDE DEF q
<1>7. Good(s) /\ Keeps(q, s, {ret}) /\ Stored(s, ret) /\ ReadVar(s, ret) = x
  <2>1. CASE provided(ret) = 1
    <3>1. hasStackStorage(q, ret)
      BY <1>3, <1>5, <2>1 DEF Extends, hasStackStorage
    <3>2. ~ varPerfectRegSize(ret)
      BY <2>1 DEF provided, varPerfectRegSize
    <3>3. ~ inRegister(q, ret)
      BY <1>5, <3>2 DEF Good
    <3> DEFINE w == storeToSlot(q, ret, x)
    <3>4. /\ Good(w) /\ Keeps(q, w, {ret})
          /\ Stored(w, ret) <=> Stored(q, ret)
          /\ ReadVar(w, ret) = IF inRegister(q, ret) THEN ReadVar(q, ret) ELSE x
      BY <1>2, <1>5, StoreToSlot
    <3>5. s = w
      BY <2>1
    <3> HIDE DEF w, s
    <3> QED BY <3>1, <3>3, <3>4, <3>5 DEF Stored
  <2>2. CASE provided(ret) # 1
    <3>1. Good(inRax) /\ Keeps(q, inRax, {ret}) /\ Stored(inRax, ret) /\ ReadVar(inRax, ret) = x
      BY <1>1, <1>2, <1>5, <1>6, <2>2, ResultInRax
    <3>2. s = inRax
      BY <2>2
    <3> HIDE DEF s, inRax
    <3> QED BY <3>1, <3>2
  <2> QED BY <2>1, <2>2
<1> HIDE DEF s
<1>8. Keeps(p, s, dying \cup {ret})
  <2>1. Keeps(p, q, dying)
    <3>1. Keeps(c, q, {}) /\ dying \cup {} = dying
      BY <1>5, ExtensionKeeps
    <3> QED BY <1>3, <3>1, KeepsTransitive
  <2> QED BY <1>7, <2>1, KeepsTransitive
<1> QED BY <1>1, <1>2, <1>4, <1>7, <1>8, WrittenByCall

LEMMA CGenCallWriting ==
    ASSUME NEW args \in ArgLists, NEW w \in Addressed, NEW dying \in SUBSET Ending,
           NEW x \in ImmediatesFor[w], KnownDefects = {}
    PROVE  CInv /\ GenCallWriting(args, w, x, dying) => CInv' /\ NothingEnds
<1> SUFFICES ASSUME CInv, GenCallWriting(args, w, x, dying)
             PROVE  CInv' /\ NothingEnds
  OBVIOUS
<1> DEFINE call == beforeCall(args, invalidVn, dying)
<1> DEFINE c == call.q
<1> DEFINE q == clobber(c, ToSet(regsThatGetDestroyed))
<1> DEFINE s == storeToSlot(q, w, x)
<1>1. /\ Passable(args, dying) /\ w \in ToSet(stackBoundVars) /\ Usable(w)
      /\ p' = finished(s) /\ handover' = handedTo(call, args, invalidVn)
      /\ value' = [value EXCEPT ![w] = x] /\ spent' = spent \cup dying
      /\ stackBoundVars' = stackBoundVars
  BY DEF GenCallWriting
<1>2. /\ w \in Vars /\ x \in Content /\ dying \subseteq Vars /\ w \notin dying
      /\ hasStackStorage(p, w)
  <2>1. /\ dying \subseteq ToSet(args) \ ToSet(stackBoundVars)
        /\ Ending \subseteq Vars /\ Addressed \subseteq Vars
    BY <1>1, ParameterAssumption DEF Passable
  <2>2. w \in Vars
    BY <2>1
  <2> QED BY <1>1, <2>1, <2>2, ValuesAssumed DEF Usable, Live, CInv, TakenHaveSlots
<1>3. /\ Good(c) /\ Keeps(p, c, dying) /\ c.dontSwap = {}
      /\ \A r \in ToSet(regsThatGetDestroyed) : c.occupiedBy[r] = invalidVn
      /\ \A v \in ToSet(stackBoundVars) : ~ inRegister(c, v)
      /\ handedTo(call, args, invalidVn).astray = {}
      /\ handedTo(call, args, invalidVn).atCall % 16 = 0
      /\ handedTo(call, args, invalidVn).after = 0
  <2>1. provided(invalidVn) # 1
    BY DEF provided
  <2> QED BY <1>1, <2>1, BeforeCall
<1>4. ArgumentsArrive'
  BY <1>1, <1>3 DEF ArgumentsArrive
<1> HIDE DEF c, call
<1>5. Good(q) /\ Extends(c, q) /\ SameTables(c, q)
  BY <1>3, Called
<1>6. ~ inRegister(q, w) /\ hasStackStorage(q, w)
  BY <1>1, <1>2, <1>3, <1>5 DEF SameTables, inRegister, Keeps, Extends, hasStackStorage
<1> HIDE DEF q
<1>7. /\ Good(s) /\ Keeps(q, s, {w})
      /\ Stored(s, w) <=> Stored(q, w)
      /\ ReadVar(s, w) = IF inRegister(q, w) THEN ReadVar(q, w) ELSE x
  BY <1>2, <1>5, StoreToSlot
<1> HIDE DEF s
<1>8. Stored(s, w) /\ ReadVar(s, w) = x
  BY <1>6, <1>7 DEF Stored
<1>9. Keeps(p, s, dying \cup {w})
  <2>1. Keeps(p, q, dying)
    <3>1. Keeps(c, q, {}) /\ dying \cup {} = dying
      BY <1>5, ExtensionKeeps
    <3> QED BY <1>3, <3>1, KeepsTransitive
  <2> QED BY <1>7, <2>1, KeepsTransitive
<1> QED BY <1>1, <1>2, <1>4, <1>7, <1>8, <1>9, WrittenByCall

\* A return drops nothing that may still be read, and the result is where the
\* caller looks.
LEMMA CGenReturn ==
    ASSUME KnownDefects = {}, NEW ret \in Vars
    PROVE  CInv /\ GenReturn(ret) => CInv' /\ NothingEnds
<1> SUFFICES ASSUME CInv, GenReturn(ret)
             PROVE  CInv' /\ NothingEnds
  OBVIOUS
<1> DEFINE q == prepareReturn(p, ret)
<1> DEFINE D == {v \in Vars : v \in spent \/ value[v] = junk}
<1>1. HasValue(ret) /\ \A v \in droppedFor(p, ret) : ~ HasValue(v)
  BY Zenon DEF GenReturn
<1>2. /\ p' = finished(q) /\ value' = value /\ spent' = spent
      /\ stackBoundVars' = stackBoundVars
      /\ handover' = [nothingHanded EXCEPT
                         !.astray = IF returned(q, ret) = value[ret] THEN {} ELSE {1}]
  BY Zenon DEF GenReturn
<1>3. /\ Good(p) /\ ~ p.noNewStackStorage /\ p.dontSwap = {}
      /\ value \in [Vars -> Content] /\ spent \subseteq Vars
  BY DEF CInv
<1>4. Stored(p, ret) /\ ReadVar(p, ret) = value[ret] /\ ret \notin p.decommissioned
  BY <1>1, <1>3, ExtendsReflexive, StillHeld
<1> HIDE DEF q
<1>5. /\ Good(q)
      /\ q.decommissioned = p.decommissioned
      /\ q.noNewStackStorage = p.noNewStackStorage
      /\ \A v \in Vars : hasStackStorage(p, v) => q.rbpOffset[v] = p.rbpOffset[v]
      /\ \A v \in Vars : Stored(p, v) /\ Stored(q, v) => ReadVar(q, v) = ReadVar(p, v)
      /\ \A v \in Vars : Stored(p, v) /\ ~ Stored(q, v) => v \in droppedFor(p, ret)
      /\ varPerfectRegSize(ret) => q.currentRegister[ret] = rax
      /\ ~ varPerfectRegSize(ret) => hasStackStorage(q, ret) /\ ~ inRegister(q, ret)
  BY <1>3, <1>4, PrepareReturn DEF q
<1>6. \A v \in Vars \ D : Stored(p, v) => Stored(q, v) /\ ReadVar(q, v) = ReadVar(p, v)
  <2>1. \A v \in Vars \ D : Stored(p, v) => HasValue(v)
    BY <1>3 DEF HasValue, Usable, Live, Good
  <2> QED BY <1>1, <1>5, <2>1
<1>7. Keeps(p, q, D)
  BY <1>5, <1>6 DEF Keeps
<1>8. returned(q, ret) = value[ret]
  <2>1. ReadVar(q, ret) = value[ret]
    BY <1>1, <1>4, <1>5
  <2>2. rax # invalidRegister
    BY FixedRegistersAssumption, RegistersFacts
  <2> QED BY <1>5, <2>1, <2>2 DEF returned, ReadVar, inRegister
<1>9. ArgumentsArrive'
  BY <1>2, <1>8, NothingAstray
<1> QED BY <1>2, <1>3, <1>5, <1>7, <1>9, Closing

LEMMA CTakeAddress ==
    ASSUME NEW v \in Addressed
    PROVE  CInv /\ TakeAddress(v) => CInv' /\ NothingEnds
<1> SUFFICES ASSUME CInv, TakeAddress(v)
             PROVE  CInv' /\ NothingEnds
  OBVIOUS
<1> DEFINE q == ensureStackOffsetValid(p, v)
<1>1. /\ Good(p) /\ ~ p.noNewStackStorage /\ p.dontSwap = {}
      /\ value \in [Vars -> Content] /\ spent \subseteq Vars
      /\ stackBoundVars \in Seq(Vars) /\ v \in Vars
  BY ParameterAssumption DEF CInv
<1>2. /\ v \notin p.decommissioned
      /\ p' = q /\ stackBoundVars' = Append(stackBoundVars, v)
      /\ value' = value /\ spent' = spent /\ ArgumentsArrive'
  BY NothingAstray DEF TakeAddress, Usable, Live
<1>3. /\ Good(q) /\ Extends(p, q) /\ hasStackStorage(q, v) /\ SameFlags(p, q)
  BY <1>1, <1>2, EnsureSlot
<1> HIDE DEF q
<1>4. HeldUnlessSpent'
  <2>1. \A w \in Vars \ spent : value[w] # junk => Stored(q, w) /\ ReadVar(q, w) = value[w]
    BY <1>3 DEF CInv, HeldUnlessSpent, Extends
  <2> QED BY <1>2, <2>1 DEF HeldUnlessSpent
<1>5. TakenHaveSlots'
  <2>1. \A w \in ToSet(stackBoundVars) : w \in Vars
    BY <1>1 DEF ToSet
  <2>2. \A w \in ToSet(stackBoundVars) : w \in q.decommissioned \/ hasStackStorage(q, w)
    BY <1>3, <2>1 DEF CInv, TakenHaveSlots, Extends, hasStackStorage
  <2>3. \A w \in ToSet(Append(stackBoundVars, v)) : w = v \/ w \in ToSet(stackBoundVars)
    BY <1>1 DEF ToSet
  <2> QED BY <1>2, <1>3, <2>2, <2>3 DEF TakenHaveSlots
<1>6. stackBoundVars' \in Seq(Vars)
  BY <1>1, <1>2
<1> QED BY <1>1, <1>2, <1>3, <1>4, <1>5, <1>6 DEF CInv, SameFlags, NothingEnds

-----------------------------------------------------------------------------
(* Accesses through pointers.                                              *)

LEMMA OneIsNotAll ==
    /\ {} # Registers /\ \A r : {r} # Registers
<1>1. 0 \in Registers /\ 1 \in Registers /\ 0 # 1
  <2>1. numRegisters > 1
    BY ParameterAssumption
  <2> QED BY <2>1, RegistersAssumption DEF Registers
<1> HIDE DEF Registers
<1> QED BY <1>1

\* The base of an access is brought into a register, where its value is.
LEMMA Address ==
    ASSUME CInv, NEW base \in Pointers \cup {invalidVn}, NEW w, Reaches(base, w),
           NEW q, Good(q), Extends(p, q), q.dontSwap # Registers
    PROVE  LET s == prepareAddress(q, base) IN
           /\ Good(s) /\ Extends(p, s) /\ Extends(q, s)
           /\ s.dontSwap = IF base = invalidVn THEN q.dontSwap
                           ELSE q.dontSwap \cup {addressIn(s, base)}
           /\ base # invalidVn =>
                 /\ base \in Vars /\ HasValue(base) /\ inRegister(s, base)
                 /\ addressIn(s, base) \in Registers
                 /\ s.occupiedBy[addressIn(s, base)] = base
                 /\ s.reg[addressIn(s, base)] = value[base]
           /\ \A u \in Vars : inRegister(s, u) => u = base \/ inRegister(q, u)
           /\ \A u \in Vars : ~ inRegister(q, u) \/ q.currentRegister[u] \in q.dontSwap
                 => s.mem[u] = q.mem[u]
           /\ base # invalidVn /\ inRegister(q, base) =>
                 SameTables(q, s) /\ SameMachine(q, s)
<1>1. Good(p) /\ ~ p.noNewStackStorage
  BY DEF CInv
<1>2. CASE base = invalidVn
  BY <1>2, ExtendsReflexive DEF prepareAddress
<1>3. CASE base # invalidVn
  <2> DEFINE s == ensureInRegister(q, base)
  <2>1. s = prepareAddress(q, base)
    BY <1>3 DEF prepareAddress
  <2>2. base \in Vars /\ HasValue(base) /\ varPerfectRegSize(base)
    BY <1>3, ParameterAssumption DEF Reaches, UsableInReg
  <2>3. base \notin q.decommissioned /\ ~ q.noNewStackStorage
    BY <1>1, <2>2, StillHeld DEF Extends
  <2> HIDE DEF s
  <2>4. /\ Good(s) /\ Extends(q, s) /\ inRegister(s, base)
        /\ s.dontSwap = q.dontSwap \cup {s.currentRegister[base]}
        /\ \A u \in Vars : inRegister(s, u) => u = base \/ inRegister(q, u)
        /\ \A u \in Vars : ~ inRegister(q, u) \/ q.currentRegister[u] \in q.dontSwap
              => s.mem[u] = q.mem[u]
        /\ inRegister(q, base) => SameTables(q, s) /\ SameMachine(q, s)
    BY <2>2, <2>3, EnsureInRegister DEF s
  <2>5. Extends(p, s)
    BY <1>1, <2>4, ExtendsTransitive
  <2> DEFINE at == s.currentRegister[base]
  <2>6. at = addressIn(s, base)
    BY <1>3 DEF addressIn
  <2>7. at \in Registers /\ s.occupiedBy[at] = base
    BY <2>2, <2>4, GoodFacts, RegistersFacts
  <2>8. s.reg[at] = value[base]
    BY <2>2, <2>4, <2>5, StillHeld DEF ReadVar
  <2> HIDE DEF at
  <2> QED BY <1>3, <2>1, <2>2, <2>4, <2>5, <2>6, <2>7, <2>8 DEF at
<1> QED BY <1>2, <1>3

\* The variable that an access leads to is on the stack, with its value.
LEMMA Target ==
    ASSUME CInv, NEW base, NEW w \in Addressed, Reaches(base, w)
    PROVE  /\ w \in Vars /\ w \in ToSet(stackBoundVars)
           /\ w \notin p.decommissioned /\ w \notin spent /\ w # base
           /\ hasStackStorage(p, w)
<1>1. w \in Vars /\ w # invalidVn
  BY ParameterAssumption, VarsAssumption
<1> QED BY <1>1 DEF Reaches, Usable, Live, CInv, TakenHaveSlots

\* What the code loads is what the program finds.
LEMMA LoadThrough ==
    ASSUME CInv, NEW base, NEW w \in Addressed \cup {invalidVn}, Reaches(base, w),
           NEW out \in Vars, NEW x, Found(w, out, x),
           NEW q, Extends(p, q), w # invalidVn => ~ inRegister(q, w)
    PROVE  x \in Val /\ x \in Content /\ loadFrom(q, w, x) = x
<1>1. CASE w = invalidVn
  BY <1>1, ValuesAssumed DEF Found, loadFrom
<1>2. CASE w # invalidVn
  <2>1. w \in Vars /\ HasValue(w) /\ x = value[w]
    BY <1>2, Target DEF Found
  <2>2. ReadVar(q, w) = value[w] /\ value[w] \in Content /\ value[w] \in Val
    BY <2>1, StillHeld
  <2> QED BY <1>2, <2>1, <2>2 DEF loadFrom, ReadVar
<1> QED BY <1>1, <1>2

\* What the code stores becomes the value of the variable that is led to.
LEMMA StoreThrough ==
    ASSUME CInv, NEW base, NEW w \in Addressed \cup {invalidVn}, Reaches(base, w),
           NEW q, Good(q), Extends(p, q), NEW x \in Content,
           w # invalidVn /\ inRegister(q, w) => ReadVar(q, w) = x,
           p' = finished(storeTo(q, w, x)),
           value' = [v \in Vars |-> IF v = w THEN x ELSE value[v]], spent' = spent,
           stackBoundVars' = stackBoundVars, ArgumentsArrive'
    PROVE  CInv' /\ NothingEnds
<1>1. value \in [Vars -> Content]
  BY DEF CInv
<1>2. CASE w = invalidVn
  <2>1. value' = value
    BY <1>1, <1>2, VarsAssumption
  <2>2. p' = finished(q)
    BY <1>2 DEF storeTo
  <2> QED BY <2>1, <2>2, NoneWritten
<1>3. CASE w # invalidVn
  <2> DEFINE s == storeToSlot(q, w, x)
  <2>1. w \in Vars /\ hasStackStorage(p, w)
    BY <1>3, Target
  <2>2. Stored(q, w)
    BY <2>1 DEF Extends, Stored
  <2>3. /\ Good(s) /\ Keeps(q, s, {w})
        /\ Stored(s, w) <=> Stored(q, w)
        /\ ReadVar(s, w) = IF inRegister(q, w) THEN ReadVar(q, w) ELSE x
    BY <2>1, StoreToSlot
  <2>4. p' = finished(s)
    BY <1>3 DEF storeTo
  <2> HIDE DEF s
  <2>5. Keeps(p, s, {w})
    <3>1. Keeps(p, q, {}) /\ {} \cup {w} = {w}
      BY ExtensionKeeps
    <3> QED BY <2>3, <3>1, KeepsTransitive
  <2>6. value' = [value EXCEPT ![w] = x]
    BY <1>1, <2>1
  <2> QED BY <1>3, <2>1, <2>2, <2>3, <2>4, <2>5, <2>6, OneWritten
<1> QED BY <1>2, <1>3

\* The register that is used for an address holds the pointer's value.
LEMMA NotMisled ==
    ASSUME NEW q, NEW base, NEW r, base # invalidVn => q.reg[r] = value[base],
           handover' = misled(q, base, r)
    PROVE  ArgumentsArrive'
BY NothingAstray DEF misled

LEMMA CGenIndirectLoad ==
    ASSUME NEW base \in Pointers \cup {invalidVn}, NEW w \in Addressed \cup {invalidVn},
           NEW out \in Vars, NEW x \in Val
    PROVE  CInv /\ GenIndirectLoad(out, base, w, x) => CInv' /\ NothingEnds
<1> SUFFICES ASSUME CInv, GenIndirectLoad(out, base, w, x)
             PROVE  CInv' /\ NothingEnds
  OBVIOUS
<1> DEFINE start == swapStackBoundVars(p)
<1> DEFINE loaded == ensureInRegister(start, out)
<1> DEFINE q == prepareAddress(loaded, base)
<1> DEFINE s == writeOperand(q, out, loadFrom(q, w, x))
<1>1. /\ Reaches(base, w) /\ Found(w, out, x) /\ UsableInReg(out) /\ out # base
      /\ p' = finished(s) /\ handover' = misled(q, base, addressIn(q, base))
      /\ value' = [value EXCEPT ![out] = x]
      /\ stackBoundVars' = stackBoundVars /\ spent' = spent
  BY DEF GenIndirectLoad
<1>2. Good(p)
  BY DEF CInv
<1>3. /\ Good(start) /\ Extends(p, start) /\ start.dontSwap = {} /\ ~ start.noNewStackStorage
      /\ \A v \in ToSet(stackBoundVars) : v \in Vars /\ ~ inRegister(start, v)
  BY StartOfInstruction
<1> HIDE DEF start
<1>4. out \notin start.decommissioned /\ varPerfectRegSize(out)
  BY <1>1, <1>3 DEF UsableInReg, Usable, Live, Extends
<1>5. /\ Good(loaded) /\ Extends(start, loaded) /\ inRegister(loaded, out)
      /\ loaded.dontSwap = start.dontSwap \cup {loaded.currentRegister[out]}
      /\ \A u \in Vars : inRegister(loaded, u) => u = out \/ inRegister(start, u)
      /\ \A u \in Vars : ~ inRegister(start, u) \/ start.currentRegister[u] \in start.dontSwap
            => loaded.mem[u] = start.mem[u]
  BY <1>3, <1>4, OneIsNotAll, EnsureInRegister
<1>6. Extends(p, loaded)
  BY <1>2, <1>3, <1>5, ExtendsTransitive
<1>7. loaded.dontSwap = {loaded.currentRegister[out]} /\ loaded.dontSwap # Registers
  BY <1>3, <1>5, OneIsNotAll
<1> HIDE DEF loaded
<1>8. /\ Good(q) /\ Extends(p, q) /\ Extends(loaded, q)
      /\ base # invalidVn => q.reg[addressIn(q, base)] = value[base]
      /\ \A u \in Vars : inRegister(q, u) => u = base \/ inRegister(loaded, u)
      /\ \A u \in Vars : ~ inRegister(loaded, u) \/ loaded.currentRegister[u] \in loaded.dontSwap
            => q.mem[u] = loaded.mem[u]
  BY <1>1, <1>5, <1>6, <1>7, Address
<1> HIDE DEF q
<1>9. ArgumentsArrive'
  BY <1>1, <1>8, NotMisled
<1>10. x \in Content /\ loadFrom(q, w, x) = x
  <2>1. CASE w # out
    <3>1. w # invalidVn => ~ inRegister(q, w)
      BY <1>1, <1>3, <1>5, <1>8, <2>1, Target
    <3> QED BY <1>1, <1>8, <3>1, LoadThrough
  <2>2. CASE w = out
    <3>1. w # invalidVn
      BY <2>2, VarsAssumption
    <3>2. /\ w \in Vars /\ ~ inRegister(start, w) /\ w \in ToSet(stackBoundVars)
      BY <1>1, <1>3, <3>1, Target
    <3>3. x \in Content /\ loadFrom(start, w, x) = x
      BY <1>1, <1>3, <3>2, LoadThrough
    <3>4. loaded.mem[w] = start.mem[w]
      BY <1>5, <3>2
    <3>5. q.mem[w] = loaded.mem[w]
      BY <1>7, <1>8, <2>2, <3>2
    <3> QED BY <3>1, <3>3, <3>4, <3>5 DEF loadFrom
  <2> QED BY <2>1, <2>2
<1>11. Stored(q, out)
  BY <1>5, <1>8 DEF Extends, Stored
<1>12. s = writeOperand(q, out, x)
  BY <1>10
<1> HIDE DEF s
<1>13. Good(s) /\ Writes(q, s, out, x)
  BY <1>8, <1>10, <1>11, <1>12, WriteOperand
<1>14. Keeps(p, s, {out}) /\ Stored(s, out) /\ ReadVar(s, out) = x
  BY <1>8, <1>13, ExtendAndWrite
<1> QED BY <1>1, <1>9, <1>10, <1>13, <1>14, OneWritten

LEMMA CGenIndirectWrite ==
    ASSUME NEW base \in Pointers \cup {invalidVn}, NEW w \in Addressed \cup {invalidVn},
           NEW data \in Vars
    PROVE  CInv /\ GenIndirectWrite(base, w, data) => CInv' /\ NothingEnds
<1> SUFFICES ASSUME CInv, GenIndirectWrite(base, w, data)
             PROVE  CInv' /\ NothingEnds
  OBVIOUS
<1> DEFINE x == value[data]
<1> DEFINE start == swapStackBoundVars(p)
<1> DEFINE addressed == prepareAddress(start, base)
<1> DEFINE at == addressIn(addressed, base)
<1> DEFINE q == ensureInRegister(addressed, data)
<1>1. /\ Reaches(base, w) /\ UsableInReg(data) /\ HasValue(data) /\ data # base
      /\ p' = finished(storeTo(q, w, q.reg[q.currentRegister[data]]))
      /\ handover' = misled(q, base, at)
      /\ value' = [v \in Vars |-> IF v = w THEN x ELSE value[v]]
      /\ stackBoundVars' = stackBoundVars /\ spent' = spent
  BY DEF GenIndirectWrite
<1>2. Good(p)
  BY DEF CInv
<1>3. /\ Good(start) /\ Extends(p, start) /\ start.dontSwap = {} /\ ~ start.noNewStackStorage
      /\ \A v \in ToSet(stackBoundVars) : v \in Vars /\ ~ inRegister(start, v)
  BY StartOfInstruction
<1>4. start.dontSwap # Registers
  BY <1>3, OneIsNotAll
<1> HIDE DEF start
<1>5. /\ Good(addressed) /\ Extends(p, addressed) /\ Extends(start, addressed)
      /\ addressed.dontSwap = IF base = invalidVn THEN start.dontSwap
                              ELSE start.dontSwap \cup {at}
      /\ base # invalidVn =>
            /\ base \in Vars /\ HasValue(base) /\ at \in Registers
            /\ addressed.occupiedBy[at] = base
      /\ \A u \in Vars : inRegister(addressed, u) => u = base \/ inRegister(start, u)
  BY <1>1, <1>3, <1>4, Address
<1>6. addressed.dontSwap # Registers /\ ~ addressed.noNewStackStorage
  <2>1. addressed.dontSwap = {} \/ addressed.dontSwap = {at}
    BY <1>3, <1>5
  <2> QED BY <1>3, <1>5, <2>1, OneIsNotAll DEF Extends
<1>7. base # invalidVn => at \in addressed.dontSwap
  BY <1>5
<1> HIDE DEF addressed, at
<1>8. data \notin addressed.decommissioned /\ varPerfectRegSize(data)
  BY <1>1, <1>5 DEF UsableInReg, Usable, Live, Extends
<1>9. /\ Good(q) /\ Extends(addressed, q) /\ inRegister(q, data)
      /\ \A r \in addressed.dontSwap : addressed.occupiedBy[r] # invalidVn =>
            q.occupiedBy[r] = addressed.occupiedBy[r]
      /\ \A u \in Vars : inRegister(q, u) => u = data \/ inRegister(addressed, u)
  BY <1>5, <1>6, <1>8, EnsureInRegister
<1> HIDE DEF q
<1>10. Extends(p, q)
  BY <1>2, <1>5, <1>9, ExtendsTransitive
<1>11. x \in Content /\ q.reg[q.currentRegister[data]] = x
  BY <1>1, <1>9, <1>10, StillHeld DEF ReadVar
<1>12. base # invalidVn => q.reg[at] = value[base]
  <2>1. SUFFICES ASSUME base # invalidVn PROVE q.reg[at] = value[base]
    OBVIOUS
  <2>2. q.occupiedBy[at] = base /\ base \in Vars /\ at \in Registers
    BY <1>5, <1>7, <1>9, <2>1
  <2>3. q.currentRegister[base] = at
    BY <1>9, <2>2, GoodFacts
  <2>4. ReadVar(q, base) = value[base]
    BY <1>5, <1>10, <2>1, StillHeld
  <2> QED BY <2>2, <2>3, <2>4, RegistersFacts DEF ReadVar, inRegister
<1>13. ArgumentsArrive'
  BY <1>1, <1>12, NotMisled
<1>14. w # invalidVn /\ inRegister(q, w) => ReadVar(q, w) = x
  <2>1. SUFFICES ASSUME w # invalidVn, inRegister(q, w) PROVE ReadVar(q, w) = x
    OBVIOUS
  <2>2. w \in Vars /\ w \in ToSet(stackBoundVars) /\ w # base
    BY <1>1, <2>1, Target
  <2>3. w = data
    BY <1>3, <1>5, <1>9, <2>1, <2>2
  <2> QED BY <1>9, <1>11, <2>3 DEF ReadVar
<1>15. p' = finished(storeTo(q, w, x))
  BY <1>1, <1>11
<1> HIDE DEF x
<1> QED BY <1>1, <1>9, <1>10, <1>11, <1>13, <1>14, <1>15, StoreThrough

LEMMA CGenIndirectWriteAddress ==
    ASSUME NEW base \in Pointers \cup {invalidVn}, NEW w \in Addressed \cup {invalidVn},
           NEW x \in Val, KnownDefects = {}
    PROVE  CInv /\ GenIndirectWriteAddress(base, w, x) => CInv' /\ NothingEnds
<1> SUFFICES ASSUME CInv, GenIndirectWriteAddress(base, w, x)
             PROVE  CInv' /\ NothingEnds
  OBVIOUS
<1> DEFINE start == swapStackBoundVars(p)
<1> DEFINE addressed == prepareAddress(start, base)
<1> DEFINE at == addressIn(addressed, base)
<1> DEFINE q == takeTmpReg(addressed)
<1>1. /\ Reaches(base, w)
      /\ freeRegExists(addressed) \/ at # r9
      /\ p' = finished(storeTo(q, w, x)) /\ handover' = misled(q, base, at)
      /\ value' = [v \in Vars |-> IF v = w THEN x ELSE value[v]]
      /\ stackBoundVars' = stackBoundVars /\ spent' = spent
  BY DEF GenIndirectWriteAddress
<1>2. Good(p) /\ x \in Content
  BY DEF CInv, Content
<1>3. /\ Good(start) /\ Extends(p, start) /\ start.dontSwap = {}
      /\ \A v \in ToSet(stackBoundVars) : v \in Vars /\ ~ inRegister(start, v)
  BY StartOfInstruction
<1>4. start.dontSwap # Registers
  BY <1>3, OneIsNotAll
<1> HIDE DEF start
<1>5. /\ Good(addressed) /\ Extends(p, addressed)
      /\ base # invalidVn =>
            /\ base \in Vars /\ at \in Registers
            /\ addressed.occupiedBy[at] = base /\ addressed.reg[at] = value[base]
      /\ \A u \in Vars : inRegister(addressed, u) => u = base \/ inRegister(start, u)
  BY <1>1, <1>3, <1>4, Address
<1> HIDE DEF addressed, at
<1>6. /\ Good(q) /\ Extends(addressed, q)
      /\ \A u \in Vars : inRegister(q, u) => inRegister(addressed, u)
      /\ \A r \in Registers : r # freeReg(addressed, r9) => q.reg[r] = addressed.reg[r]
  BY <1>5, TakeTmpReg
<1> HIDE DEF q
<1>7. Extends(p, q)
  BY <1>2, <1>5, <1>6, ExtendsTransitive
<1>8. base # invalidVn => q.reg[at] = value[base]
  <2>1. SUFFICES ASSUME base # invalidVn PROVE q.reg[at] = value[base]
    OBVIOUS
  <2>2. at # freeReg(addressed, r9)
    <3>1. CASE freeRegExists(addressed)
      <4>1. addressed.occupiedBy[nextAvailable(addressed)] = invalidVn
        BY <1>5, <3>1, NextAvailableIsFree DEF Good
      <4> QED BY <1>5, <2>1, <3>1, <4>1, VarsAssumption DEF freeReg
    <3>2. CASE ~ freeRegExists(addressed)
      BY <1>1, <3>2 DEF freeReg
    <3> QED BY <3>1, <3>2
  <2> QED BY <1>5, <1>6, <2>1, <2>2
<1>9. ArgumentsArrive'
  BY <1>1, <1>8, NotMisled
<1>10. w # invalidVn => ~ inRegister(q, w)
  BY <1>1, <1>3, <1>5, <1>6, Target
<1> QED BY <1>1, <1>2, <1>6, <1>7, <1>9, <1>10, StoreThrough

\* The registers for copying memory have no tenants, and the pointer's value is
\* still where the code reads it.
LEMMA ReadyToCopy ==
    ASSUME CInv, KnownDefects = {}, NEW base \in Pointers \cup {invalidVn}, NEW w,
           Reaches(base, w), NEW toMember \in BOOLEAN,
           Loadable(emptied(p), base, toMember)
    PROVE  LET q == loadPointer(emptied(p), base, toMember) IN
           /\ Good(q) /\ Extends(p, q)
           /\ \A r \in {rsi, rdi, rcx} : q.occupiedBy[r] = invalidVn
           /\ \A v \in ToSet(stackBoundVars) : v \in Vars /\ ~ inRegister(q, v)
           /\ foundAddress(q, base) = nothingHanded
<1> DEFINE start == swapStackBoundVars(p)
<1> DEFINE e == emptied(p)
<1> DEFINE q == loadPointer(e, base, toMember)
<1>1. Good(p)
  BY DEF CInv
<1>2. /\ Good(start) /\ Extends(p, start) /\ start.dontSwap = {}
      /\ \A v \in ToSet(stackBoundVars) : v \in Vars /\ ~ inRegister(start, v)
  BY StartOfInstruction
<1>3. e = freeUp3(start, TRUE, rsi, rdi, rcx)
  BY DEF emptied
<1> HIDE DEF start, e
<1>4. /\ Good(e) /\ Extends(start, e) /\ e.dontSwap = start.dontSwap
      /\ \A r \in {rsi, rdi, rcx} : e.occupiedBy[r] = invalidVn
      /\ {rsi, rdi, rcx} \subseteq Registers
      /\ \A v \in Vars : inRegister(e, v) => inRegister(start, v)
  BY <1>2, <1>3, EmptyForMemcpy
<1>5. Extends(p, e) /\ e.dontSwap # Registers
  BY <1>1, <1>2, <1>4, ExtendsTransitive, OneIsNotAll
<1>6. /\ Good(q) /\ Extends(p, q) /\ SameTables(e, q)
  <2>1. CASE toMember
    <3>1. base # invalidVn /\ inRegister(e, base)
      BY <2>1 DEF Loadable, e
    <3>2. q = prepareAddress(e, base)
      BY <2>1 DEF loadPointer
    <3> HIDE DEF q
    <3> QED BY <1>4, <1>5, <3>1, <3>2, Address
  <2>2. CASE ~ toMember
    <3>1. q = e
      BY <2>2 DEF loadPointer
    <3> HIDE DEF q
    <3> QED BY <1>4, <1>5, <3>1 DEF SameTables
  <2> QED BY <2>1, <2>2
<1> HIDE DEF q
<1>7. \A r \in {rsi, rdi, rcx} : q.occupiedBy[r] = invalidVn
  BY <1>4, <1>6 DEF SameTables
<1>8. \A v \in ToSet(stackBoundVars) : v \in Vars /\ ~ inRegister(q, v)
  BY <1>2, <1>4, <1>6 DEF SameTables, inRegister
<1>9. base # invalidVn => ReadVar(q, base) = value[base]
  <2>1. base # invalidVn => base \in Vars /\ HasValue(base)
    BY ParameterAssumption DEF Reaches
  <2> QED BY <1>6, <2>1, StillHeld
<1>10. foundAddress(q, base) = nothingHanded
  BY <1>9, NothingAstray DEF foundAddress
<1> QED BY <1>6, <1>7, <1>8, <1>10 DEF q, e

\* The slot that a copy needs is there, and nothing else has changed.
LEMMA SlotForCopy ==
    ASSUME CInv, NEW q, Good(q), Extends(p, q), NEW v \in Vars, Usable(v),
           ~ varPerfectRegSize(v),
           \A r \in {rsi, rdi, rcx} : q.occupiedBy[r] = invalidVn
    PROVE  LET e == ensureStackOffsetValid(q, v)
               c == clobber(e, {rsi, rdi, rcx})
           IN  /\ Good(c) /\ Extends(p, c) /\ Extends(p, e) /\ SameTables(q, e)
               /\ SameTables(q, c) /\ c.mem = e.mem /\ e.mem = q.mem
               /\ ~ inRegister(e, v) /\ ~ inRegister(c, v) /\ Stored(c, v)
<1> DEFINE e == ensureStackOffsetValid(q, v)
<1> DEFINE c == clobber(e, {rsi, rdi, rcx})
<1>1. Good(p) /\ v \notin q.decommissioned
  BY DEF CInv, Usable, Live, Extends
<1>2. /\ Good(e) /\ Extends(q, e) /\ hasStackStorage(e, v)
      /\ SameTables(q, e) /\ SameMachine(q, e)
  BY <1>1, EnsureSlot
<1> HIDE DEF e
<1>3. {rsi, rdi, rcx} \in SUBSET Registers
  BY FixedRegistersAssumption
<1>4. \A r \in {rsi, rdi, rcx} : e.occupiedBy[r] = invalidVn
  BY <1>2 DEF SameTables
<1> DEFINE rs == {rsi, rdi, rcx}
<1> HIDE DEF rs
<1>5. /\ Good(c) /\ Extends(e, c) /\ c.mem = e.mem /\ SameTables(e, c)
  BY <1>2, <1>3, <1>4, ClobberFree DEF rs
<1> HIDE DEF c
<1>6. Extends(p, e)
  BY <1>1, <1>2, ExtendsTransitive
<1>7. Extends(p, c)
  BY <1>1, <1>2, <1>5, <1>6, ExtendsTransitive
<1>8. Stored(c, v) /\ ~ inRegister(c, v) /\ ~ inRegister(e, v)
  BY <1>2, <1>5 DEF Good, Extends, Stored
<1> QED BY <1>2, <1>5, <1>6, <1>7, <1>8 DEF SameTables, SameMachine, c, e

LEMMA CGenIndirectLoadBig ==
    ASSUME NEW base \in Pointers \cup {invalidVn}, NEW w \in Addressed \cup {invalidVn},
           NEW out \in Vars, NEW x \in Val, NEW toMember \in BOOLEAN, KnownDefects = {}
    PROVE  CInv /\ GenIndirectLoadBig(out, base, w, x, toMember) => CInv' /\ NothingEnds
<1> SUFFICES ASSUME CInv, GenIndirectLoadBig(out, base, w, x, toMember)
             PROVE  CInv' /\ NothingEnds
  OBVIOUS
<1> DEFINE q == loadPointer(emptied(p), base, toMember)
<1> DEFINE c == clobber(ensureStackOffsetValid(q, out), {rsi, rdi, rcx})
<1> DEFINE s == storeToSlot(c, out, x)
<1>1. /\ Reaches(base, w) /\ Found(w, out, x) /\ Usable(out) /\ ~ varPerfectRegSize(out)
      /\ Loadable(emptied(p), base, toMember)
      /\ p' = copied(ensureStackOffsetValid(q, out), out, loadFrom(q, w, x))
      /\ handover' = foundAddress(q, base)
      /\ value' = [value EXCEPT ![out] = x]
      /\ stackBoundVars' = stackBoundVars /\ spent' = spent
  BY DEF GenIndirectLoadBig
<1>2. /\ Good(q) /\ Extends(p, q)
      /\ \A r \in {rsi, rdi, rcx} : q.occupiedBy[r] = invalidVn
      /\ \A v \in ToSet(stackBoundVars) : v \in Vars /\ ~ inRegister(q, v)
      /\ foundAddress(q, base) = nothingHanded
  BY <1>1, ReadyToCopy
<1> HIDE DEF q
<1>3. ArgumentsArrive'
  BY <1>1, <1>2, NothingAstray
<1>4. x \in Content /\ loadFrom(q, w, x) = x
  <2>1. w # invalidVn => ~ inRegister(q, w)
    BY <1>1, <1>2, Target
  <2> QED BY <1>1, <1>2, <2>1, LoadThrough
<1>5. /\ Good(c) /\ Extends(p, c) /\ ~ inRegister(c, out) /\ Stored(c, out)
  BY <1>1, <1>2, SlotForCopy
<1>6. p' = finished(s)
  <2>1. out # invalidVn
    BY VarsAssumption
  <2> QED BY <1>1, <1>4, <2>1 DEF copied, storeTo
<1> HIDE DEF c
<1>7. /\ Good(s) /\ Keeps(c, s, {out})
      /\ Stored(s, out) <=> Stored(c, out)
      /\ ReadVar(s, out) = IF inRegister(c, out) THEN ReadVar(c, out) ELSE x
  BY <1>4, <1>5, StoreToSlot
<1> HIDE DEF s
<1>8. Keeps(p, s, {out})
  <2>1. Keeps(p, c, {}) /\ {} \cup {out} = {out}
    BY <1>5, ExtensionKeeps
  <2> QED BY <1>7, <2>1, KeepsTransitive
<1> QED BY <1>1, <1>3, <1>4, <1>5, <1>6, <1>7, <1>8, OneWritten

LEMMA CGenIndirectWriteBig ==
    ASSUME NEW base \in Pointers \cup {invalidVn}, NEW w \in Addressed \cup {invalidVn},
           NEW data \in Vars, NEW toMember \in BOOLEAN, KnownDefects = {}
    PROVE  CInv /\ GenIndirectWriteBig(base, w, data, toMember) => CInv' /\ NothingEnds
<1> SUFFICES ASSUME CInv, GenIndirectWriteBig(base, w, data, toMember)
             PROVE  CInv' /\ NothingEnds
  OBVIOUS
<1> DEFINE x == value[data]
<1> DEFINE q == loadPointer(emptied(p), base, toMember)
<1> DEFINE e == ensureStackOffsetValid(q, data)
<1> DEFINE c == clobber(e, {rsi, rdi, rcx})
<1>1. /\ Reaches(base, w) /\ HasValue(data) /\ Usable(data) /\ ~ varPerfectRegSize(data)
      /\ Loadable(emptied(p), base, toMember)
      /\ p' = copied(e, w, e.mem[data])
      /\ handover' = foundAddress(e, base)
      /\ value' = [v \in Vars |-> IF v = w THEN x ELSE value[v]]
      /\ stackBoundVars' = stackBoundVars /\ spent' = spent
  BY DEF GenIndirectWriteBig, HasValue
<1>2. /\ Good(q) /\ Extends(p, q)
      /\ \A r \in {rsi, rdi, rcx} : q.occupiedBy[r] = invalidVn
      /\ \A v \in ToSet(stackBoundVars) : v \in Vars /\ ~ inRegister(q, v)
  BY <1>1, ReadyToCopy
<1> HIDE DEF q
<1>3. /\ Good(c) /\ Extends(p, c) /\ Extends(p, e) /\ SameTables(q, c)
      /\ ~ inRegister(e, data)
  BY <1>1, <1>2, SlotForCopy
<1>4. p' = finished(storeTo(c, w, e.mem[data]))
  BY <1>1 DEF copied
<1> HIDE DEF c, e
<1>5. x \in Content /\ e.mem[data] = x
  BY <1>1, <1>3, StillHeld DEF ReadVar
<1>6. ArgumentsArrive'
  <2>1. base # invalidVn => base \in Vars /\ HasValue(base)
    BY <1>1, ParameterAssumption DEF Reaches
  <2>2. base # invalidVn => ReadVar(e, base) = value[base]
    BY <1>3, <2>1, StillHeld
  <2> QED BY <1>1, <2>2, NothingAstray DEF foundAddress
<1>7. w # invalidVn => ~ inRegister(c, w)
  BY <1>1, <1>2, <1>3, Target DEF SameTables, inRegister
<1>8. p' = finished(storeTo(c, w, x))
  BY <1>4, <1>5
<1> HIDE DEF x
<1> QED BY <1>1, <1>3, <1>5, <1>6, <1>7, <1>8, StoreThrough

-----------------------------------------------------------------------------
(* The division.                                                           *)

\* rax has l, and rdx is nobody's.
LEMMA EmptyRdxFor ==
    ASSUME CInv, NEW l \in Vars, HasValue(l), varPerfectRegSize(l)
    PROVE  LET q == emptyRdxFor(l) IN
           Good(q) /\ Extends(p, q) /\ q.occupiedBy[rdx] = invalidVn
<1> DEFINE a == loadRegisterWithVar(p, rax, l)
<1> DEFINE b == freeUp1(a, TRUE, rdx)
<1> DEFINE q == clobber(b, {rdx})
<1>1. Good(p) /\ ~ p.noNewStackStorage /\ l \notin p.decommissioned
  BY DEF CInv, HasValue, Usable, Live
<1>2. rax \in Registers /\ rdx \in Registers
  BY FixedRegistersAssumption
<1>3. Good(a) /\ Extends(p, a)
  <2>1. Loaded(p, a, rax, l)
    BY <1>1, <1>2, Load
  <2> HIDE DEF a
  <2> QED BY <2>1 DEF Loaded
<1> HIDE DEF a
<1>4. Good(b) /\ Extends(a, b) /\ b.occupiedBy[rdx] = invalidVn
  BY <1>2, <1>3, FreeUp1
<1> HIDE DEF b
<1>5. {rdx} \in SUBSET Registers /\ \A r \in {rdx} : b.occupiedBy[r] = invalidVn
  BY <1>2, <1>4
<1>6. Good(q) /\ Extends(b, q) /\ SameTables(b, q)
  BY <1>4, <1>5, ClobberFree
<1>7. q = emptyRdxFor(l)
  BY DEF emptyRdxFor, a, b
<1> HIDE DEF q
<1>8. Extends(p, b)
  BY <1>1, <1>3, <1>4, ExtendsTransitive
<1>9. Extends(p, q)
  BY <1>1, <1>4, <1>6, <1>8, ExtendsTransitive
<1> QED BY <1>4, <1>6, <1>7, <1>9 DEF SameTables

LEMMA CDivide ==
    ASSUME NEW l \in Vars, NEW r \in Vars, NEW x \in ImmediatesFor[l], KnownDefects = {}
    PROVE  CInv /\ Divide(l, r, x) => CInv' /\ NothingEnds
<1> SUFFICES ASSUME CInv, Divide(l, r, x)
             PROVE  CInv' /\ NothingEnds
  OBVIOUS
<1> DEFINE empty == emptyRdxFor(l)
<1> DEFINE extend == ~ inRegister(empty, r) /\ SizeOf[l] > SizeOf[r]
<1> DEFINE q == IF extend THEN loadRegisterWithVar(empty, r8, r) ELSE empty
<1> DEFINE wr == writeOperand(q, l, x)
<1> DEFINE s == clobber(wr, {rdx})
<1>1. /\ UsableInReg(l) /\ UsableInReg(r) /\ HasValue(l) /\ HasValue(r)
      /\ extend => empty.occupiedBy[r8] = invalidVn
      /\ p' = finished(s)
      /\ handover' = [nothingHanded EXCEPT !.astray = {v \in {l, r} : ReadVar(q, v) # value[v]}]
      /\ value' = [value EXCEPT ![l] = x]
      /\ stackBoundVars' = stackBoundVars /\ spent' = spent
  BY DEF Divide
<1>2. /\ Good(p) /\ x \in Content /\ varPerfectRegSize(l) /\ varPerfectRegSize(r)
      /\ rdx \in Registers /\ r8 \in Registers /\ r8 # rdx
  <2>1. r8 \in Registers \ {rdx}
    BY ParameterAssumption
  <2> QED BY <1>1, <2>1, ValuesAssumed, FixedRegistersAssumption DEF CInv, UsableInReg
<1>3. Good(empty) /\ Extends(p, empty) /\ empty.occupiedBy[rdx] = invalidVn
  BY <1>1, <1>2, EmptyRdxFor
<1> HIDE DEF empty
<1>4. Good(q) /\ Extends(p, q) /\ q.occupiedBy[rdx] = invalidVn
  <2>1. CASE ~ extend
    <3>1. q = empty
      BY <2>1
    <3> HIDE DEF q
    <3> QED BY <1>3, <3>1
  <2>2. CASE extend
    <3> DEFINE d == loadRegisterWithVar(empty, r8, r)
    <3>1. empty.occupiedBy[r8] = invalidVn /\ r \notin empty.decommissioned
      BY <1>1, <1>3, <2>2, StillHeld
    <3>2. Loaded(empty, d, r8, r)
      BY <1>2, <1>3, <3>1, Load
    <3> HIDE DEF d
    <3>3. Good(d) /\ Extends(empty, d) /\ d.occupiedBy[rdx] = invalidVn
      BY <1>2, <1>3, <3>1, <3>2 DEF Loaded
    <3>4. Extends(p, d)
      BY <1>2, <1>3, <3>3, ExtendsTransitive
    <3>5. q = d
      BY <2>2 DEF d
    <3> HIDE DEF q
    <3> QED BY <3>3, <3>4, <3>5
  <2> QED BY <2>1, <2>2
<1> HIDE DEF q, extend
<1>5. /\ Stored(q, l) /\ ReadVar(q, l) = value[l] /\ ReadVar(q, r) = value[r]
  BY <1>1, <1>4, StillHeld
<1>6. ArgumentsArrive'
  <2>1. {v \in {l, r} : ReadVar(q, v) # value[v]} = {}
    BY <1>5
  <2> QED BY <1>1, <2>1, NothingAstray
<1>7. Good(wr) /\ Writes(q, wr, l, x)
  BY <1>2, <1>4, <1>5, WriteOperand
<1>8. Keeps(p, wr, {l}) /\ Stored(wr, l) /\ ReadVar(wr, l) = x
  BY <1>4, <1>7, ExtendAndWrite
<1>9. {rdx} \in SUBSET Registers /\ \A u \in {rdx} : wr.occupiedBy[u] = invalidVn
  BY <1>2, <1>4, <1>7 DEF Writes
<1> HIDE DEF wr
<1>10. Good(s) /\ Extends(wr, s)
  BY <1>7, <1>9, ClobberFree
<1> HIDE DEF s
<1>11. Stored(s, l) /\ ReadVar(s, l) = x
  BY <1>8, <1>10 DEF Extends
<1>12. Keeps(p, s, {l})
  <2>1. Keeps(wr, s, {}) /\ {l} \cup {} = {l}
    BY <1>10, ExtensionKeeps
  <2> QED BY <1>8, <2>1, KeepsTransitive
<1> QED BY <1>1, <1>2, <1>6, <1>10, <1>11, <1>12, OneWritten

-----------------------------------------------------------------------------
(* Any step, and the theorems.                                             *)

\* A variable ends.
Ends == \E v \in Ending : Decommission(v) /\ NothingHanded

LEMMA CInitHolds == CInit => CInv
<1> SUFFICES ASSUME CInit PROVE CInv
  OBVIOUS
<1>1. /\ IInv /\ stackBoundVars = <<>> /\ spent = {} /\ handover = nothingHanded
      /\ p.dontSwap = {}
  BY InitGood DEF CInit, Init, newFullVarState
<1>2. stackBoundVars \in Seq(Vars) /\ ToSet(stackBoundVars) = {}
  BY <1>1 DEF ToSet
<1>3. ArgumentsArrive
  BY <1>1 DEF ArgumentsArrive, nothingHanded
<1>4. HeldUnlessSpent
  BY <1>1 DEF IInv, Holds, HeldUnlessSpent
<1>5. TakenHaveSlots
  BY <1>2 DEF TakenHaveSlots
<1> QED BY <1>1, <1>2, <1>3, <1>4, <1>5 DEF CInv, IInv

LEMMA CNextStep ==
    ASSUME KnownDefects = {}, CInv, [CNext]_allVars
    PROVE  CInv' /\ (NothingEnds \/ Ends)
<1>1. CASE \E v \in Vars \ spent : \E x \in ImmediatesFor[v] :
              AssignImmAnywhere(v, x) /\ NothingHanded
  BY <1>1, CAssignImmAnywhere
<1>2. CASE \E dest, source \in Vars \ spent : CopyThroughMemcpy(dest, source) /\ NothingHanded
  BY <1>2, CCopyThroughMemcpy
<1>3. CASE \E v \in Vars \ spent : ZeroOutVarOnStack(v) /\ NothingHanded
  BY <1>3, CZeroOutVarOnStack
<1>4. CASE \E v \in Ending : Decommission(v) /\ NothingHanded
  <2>1. Ending \subseteq Vars
    BY ParameterAssumption
  <2> QED BY <1>4, <2>1, CDecommission DEF Ends
<1>5. CASE \E args \in ArgLists, ret \in Vars, dying \in SUBSET Ending :
              \E x \in ImmediatesFor[ret] : GenCall(args, ret, x, dying)
  BY <1>5, CGenCall
<1>6. CASE \E args \in ArgLists, w \in Addressed, dying \in SUBSET Ending :
              \E x \in ImmediatesFor[w] : GenCallWriting(args, w, x, dying)
  BY <1>6, CGenCallWriting
<1>7. CASE \E ret \in Vars : GenReturn(ret)
  BY <1>7, CGenReturn
<1>8. CASE \E v \in Addressed : TakeAddress(v)
  BY <1>8, CTakeAddress
<1>9. CASE \E base \in Pointers \cup {invalidVn}, w \in Addressed \cup {invalidVn} :
              \/ \E out \in Vars, x \in Val : GenIndirectLoad(out, base, w, x)
              \/ \E data \in Vars : GenIndirectWrite(base, w, data)
              \/ \E x \in Val : GenIndirectWriteAddress(base, w, x)
              \/ \E out \in Vars, x \in Val, toMember \in BOOLEAN :
                    GenIndirectLoadBig(out, base, w, x, toMember)
              \/ \E data \in Vars, toMember \in BOOLEAN :
                    GenIndirectWriteBig(base, w, data, toMember)
  BY <1>9, CGenIndirectLoad, CGenIndirectWrite, CGenIndirectWriteAddress,
     CGenIndirectLoadBig, CGenIndirectWriteBig
<1>10. CASE \E l, r \in Vars : \E x \in ImmediatesFor[l] : Divide(l, r, x)
  BY <1>10, CDivide
<1>11. CASE UNCHANGED allVars
  BY <1>11 DEF allVars, CInv, HeldUnlessSpent, TakenHaveSlots, ArgumentsArrive, NothingEnds
<1> QED BY <1>1, <1>2, <1>3, <1>4, <1>5, <1>6, <1>7, <1>8, <1>9, <1>10, <1>11 DEF CNext

\* CInv holds in every state: what the program may still read is where the
\* tables say, whatever was called and whatever was reached through pointers.
THEOREM CallInvariance ==
    ASSUME KnownDefects = {}
    PROVE  CSpec => []CInv
<1>1. CInv /\ [CNext]_allVars => CInv'
  BY CNextStep
<1> QED BY CInitHolds, <1>1, PTL DEF CSpec

\* Each argument of a call, each returned value and each operand of a division
\* is found where the other side looks for it, an access through a pointer uses
\* the pointer's value, and the stack pointer is a multiple of 16 at a call and
\* where it was after it (genCall, genReturn, the indirect accesses).
THEOREM ArgumentsAlwaysArrive ==
    ASSUME KnownDefects = {}
    PROVE  CSpec => []ArgumentsArrive
<1>1. CInv => ArgumentsArrive
  BY DEF CInv
<1> QED BY CallInvariance, <1>1, PTL

-----------------------------------------------------------------------------
(* The instructions implement the store of VarStore.                       *)

\* What the code reads is what the IR says, but for variables that are spent.
LEMMA ProgramValueIsValue == CInv => ProgramValue = value
BY DEF CInv, HeldUnlessSpent, ProgramValue, StoredValue

\* A step that ends no variable writes or copies variables that have not ended,
\* or leaves all values alone.
ValueStored ==
    \/ \E v \in Vars, x \in Val :
          v \notin p.decommissioned /\ value' = [value EXCEPT ![v] = x]
    \/ \E dest, source \in Vars :
          /\ dest \notin p.decommissioned /\ source \notin p.decommissioned
          /\ value[source] # junk
          /\ value' = [value EXCEPT ![dest] = value[source]]
    \/ value' = value

\* A store through a pointer changes one variable, or none if it leads elsewhere.
LEMMA WrittenThrough ==
    ASSUME CInv, NEW w, w # invalidVn => w \in Vars, NEW x,
           value' = [v \in Vars |-> IF v = w THEN x ELSE value[v]]
    PROVE  value' = IF w = invalidVn THEN value ELSE [value EXCEPT ![w] = x]
<1>1. value = [v \in Vars |-> value[v]] /\ invalidVn \notin Vars
  BY VarsAssumption DEF CInv
<1> QED BY <1>1

LEMMA WriteThroughStored ==
    ASSUME CInv,
           NEW base \in Pointers \cup {invalidVn}, NEW w \in Addressed \cup {invalidVn},
           \/ \E data \in Vars :
                 GenIndirectWrite(base, w, data)
           \/ \E x \in Val : GenIndirectWriteAddress(base, w, x)
           \/ \E data \in Vars, toMember \in BOOLEAN :
                 GenIndirectWriteBig(base, w, data, toMember)
    PROVE  ValueStored
<1>1. w # invalidVn => w \in Vars
  BY ParameterAssumption
<1>2. Reaches(base, w) => (w # invalidVn => w \notin p.decommissioned)
  BY DEF Reaches, Usable, Live
<1>3. ASSUME NEW data \in Vars, HasValue(data), Reaches(base, w),
             value' = [v \in Vars |-> IF v = w THEN value[data] ELSE value[v]]
      PROVE  ValueStored
  <2>1. data \notin p.decommissioned /\ value[data] # junk
    BY <1>3 DEF HasValue, Usable, Live
  <2>2. value' = IF w = invalidVn THEN value ELSE [value EXCEPT ![w] = value[data]]
    BY <1>1, <1>3, WrittenThrough
  <2> QED BY <1>1, <1>2, <1>3, <2>1, <2>2 DEF ValueStored
<1>4. CASE \E data \in Vars : GenIndirectWrite(base, w, data)
  BY <1>3, <1>4, Zenon DEF GenIndirectWrite
<1>5. CASE \E x \in Val : GenIndirectWriteAddress(base, w, x)
  <2>1. PICK x \in Val : GenIndirectWriteAddress(base, w, x)
    BY <1>5
  <2>2. /\ Reaches(base, w)
        /\ value' = [v \in Vars |-> IF v = w THEN x ELSE value[v]]
    BY <2>1, Zenon DEF GenIndirectWriteAddress
  <2>3. value' = IF w = invalidVn THEN value ELSE [value EXCEPT ![w] = x]
    BY <1>1, <2>2, WrittenThrough
  <2> QED BY <1>1, <1>2, <2>2, <2>3 DEF ValueStored
<1>6. CASE \E data \in Vars, toMember \in BOOLEAN :
              GenIndirectWriteBig(base, w, data, toMember)
  BY <1>3, <1>6, Zenon DEF GenIndirectWriteBig
<1> QED BY <1>4, <1>5, <1>6

LEMMA CValueStep ==
    ASSUME CInv, [CNext]_allVars, ~ Ends
    PROVE  ValueStored
<1>1. \A v \in Vars : ImmediatesFor[v] \subseteq Val
  BY ImmediatesAssumption
<1>2. zero \in Val
  BY ImmediatesAssumption
<1>3. CASE \E v \in Vars \ spent : \E x \in ImmediatesFor[v] :
              AssignImmAnywhere(v, x) /\ NothingHanded
  BY <1>1, <1>3, Zenon DEF AssignImmAnywhere, LiveInReg, Live, ValueStored
<1>4. CASE \E dest, source \in Vars \ spent : CopyThroughMemcpy(dest, source) /\ NothingHanded
  BY <1>4, Zenon DEF CopyThroughMemcpy, Live, ValueStored
<1>5. CASE \E v \in Vars \ spent : ZeroOutVarOnStack(v) /\ NothingHanded
  BY <1>2, <1>5, Zenon DEF ZeroOutVarOnStack, Live, ValueStored
<1>6. CASE \E v \in Ending : Decommission(v) /\ NothingHanded
  BY <1>6 DEF Ends
<1>7. CASE \E args \in ArgLists, ret \in Vars, dying \in SUBSET Ending :
              \E x \in ImmediatesFor[ret] : GenCall(args, ret, x, dying)
  <2>1. PICK args \in ArgLists, ret \in Vars, dying \in SUBSET Ending :
              \E x \in ImmediatesFor[ret] : GenCall(args, ret, x, dying)
    BY <1>7
  <2>2. PICK x \in ImmediatesFor[ret] : GenCall(args, ret, x, dying)
    BY <2>1
  <2>3. ret \notin p.decommissioned /\ value' = [value EXCEPT ![ret] = x]
    BY <2>2 DEF GenCall, Usable, Live
  <2> QED BY <1>1, <2>3 DEF ValueStored
<1>8. CASE \E args \in ArgLists, w \in Addressed, dying \in SUBSET Ending :
              \E x \in ImmediatesFor[w] : GenCallWriting(args, w, x, dying)
  <2>1. Addressed \subseteq Vars
    BY ParameterAssumption
  <2> QED BY <1>1, <1>8, <2>1, Zenon DEF GenCallWriting, Usable, Live, ValueStored
<1>9. CASE \E ret \in Vars : GenReturn(ret)
  BY <1>9, Zenon DEF GenReturn, ValueStored
<1>10. CASE \E v \in Addressed : TakeAddress(v)
  BY <1>10, Zenon DEF TakeAddress, ValueStored
<1>11. CASE \E base \in Pointers \cup {invalidVn}, w \in Addressed \cup {invalidVn} :
               \E out \in Vars, x \in Val : GenIndirectLoad(out, base, w, x)
  BY <1>11, Zenon DEF GenIndirectLoad, UsableInReg, Usable, Live, ValueStored
<1>12. CASE \E base \in Pointers \cup {invalidVn}, w \in Addressed \cup {invalidVn} :
               \E out \in Vars, x \in Val, toMember \in BOOLEAN :
                  GenIndirectLoadBig(out, base, w, x, toMember)
  <2>1. PICK out \in Vars, x \in Val : \E base, w, toMember :
              GenIndirectLoadBig(out, base, w, x, toMember)
    BY <1>12
  <2>2. out \notin p.decommissioned /\ value' = [value EXCEPT ![out] = x]
    BY <2>1 DEF GenIndirectLoadBig, Usable, Live
  <2> QED BY <2>2 DEF ValueStored
<1>13. CASE \E base \in Pointers \cup {invalidVn}, w \in Addressed \cup {invalidVn} :
               \/ \E data \in Vars : GenIndirectWrite(base, w, data)
               \/ \E x \in Val : GenIndirectWriteAddress(base, w, x)
               \/ \E data \in Vars, toMember \in BOOLEAN :
                     GenIndirectWriteBig(base, w, data, toMember)
  BY <1>13, WriteThroughStored
<1>14. CASE \E l, r \in Vars : \E x \in ImmediatesFor[l] : Divide(l, r, x)
  BY <1>1, <1>14, Zenon DEF Divide, UsableInReg, Usable, Live, ValueStored
<1>15. CASE UNCHANGED allVars
  BY <1>15 DEF allVars, ValueStored
<1> QED BY <1>3, <1>4, <1>5, <1>6, <1>7, <1>8, <1>9, <1>10, <1>11, <1>12, <1>13,
           <1>14, <1>15, Zenon DEF CNext

\* Calls, accesses through pointers and divisions refine the abstract store: a
\* call changes the one variable it gives its result to or writes through a
\* pointer, and every other variable that is still read has its value.
THEOREM CallRefinement ==
    ASSUME KnownDefects = {}
    PROVE  CSpec => ImplementsProgram
<1> DEFINE read == <<ProgramValue, p.decommissioned>>
<1>1. CInit => Program!Init
  <2> SUFFICES ASSUME CInit PROVE Program!Init
    OBVIOUS
  <2>1. value \in [Vars -> Content] /\ ProgramValue = value
    BY CInitHolds, ProgramValueIsValue DEF CInv
  <2>2. p.decommissioned = {}
    BY DEF CInit, Init, newFullVarState
  <2> QED BY <2>1, <2>2 DEF Program!Init, Content, ProgramValue
<1>2. CInv /\ CInv' /\ [CNext]_allVars => [Program!Next]_read
  <2> SUFFICES ASSUME CInv, CInv', [CNext]_allVars
               PROVE  Program!Next \/ (ProgramValue' = ProgramValue /\ NothingEnds)
    BY DEF NothingEnds
  <2>1. ProgramValue = value /\ ProgramValue' = value'
    <3>1. CInv' => ProgramValue' = value'
      BY DEF CInv, HeldUnlessSpent, ProgramValue, StoredValue
    <3> QED BY <3>1, ProgramValueIsValue
  <2>2. CASE Ends
    <3>1. PICK v \in Vars : Decommission(v) /\ NothingHanded
      BY <2>2, ParameterAssumption DEF Ends
    <3>2. /\ v \notin p.decommissioned
          /\ p'.decommissioned = p.decommissioned \cup {v}
          /\ value' = [value EXCEPT ![v] = junk]
      BY <3>1, CDecommission DEF Decommission, Live
    <3>3. Program!End(v)
      BY <2>1, <3>2 DEF Program!End, ProgramValue
    <3> QED BY <3>3 DEF Program!Next
  <2>3. CASE ~ Ends
    <3>1. NothingEnds
      BY <2>3, CNextStep
    <3>2. \/ \E v \in Vars, x \in Val :
                /\ v \notin p.decommissioned
                /\ ProgramValue' = [ProgramValue EXCEPT ![v] = x]
          \/ \E dest, source \in Vars :
                /\ dest \notin p.decommissioned /\ source \notin p.decommissioned
                /\ ProgramValue[source] # junk
                /\ ProgramValue' = [ProgramValue EXCEPT ![dest] = ProgramValue[source]]
          \/ ProgramValue' = ProgramValue
      BY <2>1, <2>3, CValueStep DEF ValueStored
    <3> QED BY <3>1, <3>2
            DEF Program!Next, Program!Write, Program!Copy, NothingEnds, ProgramValue
  <2> QED BY <2>2, <2>3
<1>3. ImplementsProgram <=> Program!Init /\ [][Program!Next]_read
  BY DEF ImplementsProgram, Program!Spec, Program!store, ProgramValue
<1> QED BY CallInvariance, <1>1, <1>2, <1>3, PTL DEF CSpec

=============================================================================
