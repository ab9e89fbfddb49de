-------------------------- MODULE PrecomputeProofs --------------------------
(***************************************************************************)
(* Evaluation at compile time, for any procedure: of any length, with any  *)
(* variables and with ifs and loops as deep as one likes.                  *)
(***************************************************************************)
EXTENDS Precompute, SequenceTheorems, TLAPS

-----------------------------------------------------------------------------
(* The functions of procGen.                                               *)

Info == [value : Content, precomputedOnce : BOOLEAN]
State == [precompute : [Vars -> Info], stored : [Vars -> Content], panicked : BOOLEAN]

givenUp == [value |-> junk, precomputedOnce |-> TRUE]

\* Numbers are in variables of a number's type, addresses in pointers.
Fits(v) == IF v \in Pointers THEN Addressed \cup {junk} ELSE Number \cup {junk}

\* What r is after an instruction that changes v: nothing else has changed, and
\* what was given up is not computed again.
Touches(q, r, v) ==
    /\ r \in State /\ r.panicked = q.panicked
    /\ \A u \in Vars \ {v} : r.precompute[u] = q.precompute[u] /\ r.stored[u] = q.stored[u]
    /\ ~ executing => r.stored = q.stored
    /\ q.precompute[v] = givenUp => r.precompute[v] = givenUp

\* Numbers, addresses and junk are told apart.
LEMMA Contents ==
    /\ junk \notin Number /\ junk \notin Vars /\ Number \cap Vars = {}
    /\ Number \subseteq Int
BY VarsAssumption, NumbersAssumption DEF Number

LEMMA FitsContent == \A v \in Vars : Fits(v) \subseteq Content /\ junk \in Fits(v)
BY ProgramAssumption DEF Fits, Content

\* Arithmetic gives a number, or nothing when it is not given numbers.
LEMMA ApplyFits ==
    ASSUME NEW op \in {"Add", "And", "Or", "Lesser"}, NEW x, NEW y
    PROVE  /\ x \in Number /\ y \in Number => Apply(op, x, y) \in Number
           /\ x \notin Number \/ y \notin Number => Apply(op, x, y) = junk
<1>1. CASE x \in Number /\ y \in Number
  <2>1. {0, 1} \subseteq Number
    BY NumbersAssumption DEF Number
  <2>2. (x + y) % Base \in Number
    BY <1>1, NumbersAssumption DEF Number
  <2> QED BY <1>1, <2>1, <2>2 DEF Apply
<1>2. CASE x \notin Number \/ y \notin Number
  BY <1>2 DEF Apply
<1> QED BY <1>1, <1>2

LEMMA EmitFacts ==
    ASSUME NEW q \in State, NEW v \in Vars, NEW x \in Content
    PROVE  LET r == Emit(q, v, x) IN
           /\ r \in State /\ r.precompute = q.precompute /\ r.panicked = q.panicked
           /\ ~ executing => r.stored = q.stored
           /\ \A u \in Vars \ {v} : r.stored[u] = q.stored[u]
           /\ executing => r.stored[v] = x
<1>1. CASE executing
  BY <1>1 DEF Emit, State
<1>2. CASE ~ executing
  BY <1>2 DEF Emit, State
<1> QED BY <1>1, <1>2

\* Storing a value that is known, and forgetting it.
LEMMA MaterializeFacts ==
    ASSUME NEW q \in State, NEW v \in Vars
    PROVE  LET r == endPrecomputingAndMaterialize(q, v) IN
           /\ Touches(q, r, v) /\ ~ valueKnown(r, v)
           /\ executing => Operand(r, v) = Operand(q, v)
           /\ r.precompute[v] = IF valueKnown(q, v) THEN givenUp ELSE q.precompute[v]
<1> DEFINE r == endPrecomputingAndMaterialize(q, v)
<1>1. CASE valueKnown(q, v)
  <2> DEFINE x == q.precompute[v].value
             e == Emit(q, v, x)
  <2>1. x \in Content
    BY DEF State, Info
  <2>2. /\ e \in State /\ e.precompute = q.precompute /\ e.panicked = q.panicked
        /\ ~ executing => e.stored = q.stored
        /\ \A u \in Vars \ {v} : e.stored[u] = q.stored[u]
        /\ executing => e.stored[v] = x
    BY <2>1, EmitFacts
  <2>3. r = [e EXCEPT !.precompute[v] = givenUp]
    BY <1>1 DEF endPrecomputingAndMaterialize, endPrecomputation, givenUp
  <2> HIDE DEF e
  <2>4. givenUp \in Info
    BY DEF givenUp, Info, Content
  <2>5. /\ r \in State /\ r.stored = e.stored /\ r.panicked = e.panicked
        /\ r.precompute = [q.precompute EXCEPT ![v] = givenUp]
    BY <2>2, <2>3, <2>4 DEF State
  <2>6. r.precompute[v] = givenUp /\ \A u \in Vars \ {v} : r.precompute[u] = q.precompute[u]
    BY <2>5 DEF State
  <2> HIDE DEF r
  <2>7. q.precompute[v] # givenUp
    BY <1>1 DEF valueKnown, givenUp
  <2>8. Touches(q, r, v)
    BY <2>2, <2>5, <2>6, <2>7 DEF Touches
  <2>9. ~ valueKnown(r, v)
    BY <2>6 DEF valueKnown, givenUp
  <2>10. executing => Operand(r, v) = Operand(q, v)
    BY <1>1, <2>2, <2>5, <2>9 DEF valueKnown, Operand
  <2> QED BY <1>1, <2>6, <2>8, <2>9, <2>10 DEF r
<1>2. CASE ~ valueKnown(q, v)
  BY <1>2 DEF endPrecomputingAndMaterialize, Touches, valueKnown, Operand
<1> QED BY <1>1, <1>2

LEMMA BeforeMutationFacts ==
    ASSUME NEW q \in State, NEW v \in Vars, NEW inputs \in SUBSET Vars
    PROVE  LET r == beforeMutation(q, v, inputs) IN
           /\ Touches(q, r, v)
           /\ executing => Operand(r, v) = Operand(q, v)
           /\ r.precompute[v] = q.precompute[v]
                 \/ (valueKnown(q, v) /\ r.precompute[v] = givenUp)
           /\ valueKnown(r, v) => r = q /\ \A w \in inputs \ {v} : valueKnown(q, w)
           /\ (\A w \in inputs \ {v} : valueKnown(q, w)) => r = q
<1>1. CASE \A w \in inputs \ {v} : valueKnown(q, w)
  BY <1>1 DEF beforeMutation, Touches
<1>2. CASE ~ \A w \in inputs \ {v} : valueKnown(q, w)
  <2>1. beforeMutation(q, v, inputs) = endPrecomputingAndMaterialize(q, v)
    BY <1>2 DEF beforeMutation
  <2> QED BY <1>2, <2>1, MaterializeFacts
<1> QED BY <1>1, <1>2

\* What an operand is has a type.
LEMMA OperandContent ==
    ASSUME NEW q \in State, NEW v \in Vars
    PROVE  Operand(q, v) \in Content /\ q.precompute[v] \in Info
BY DEF Operand, State, Info

LEMMA ImmediateFacts ==
    ASSUME NEW q \in State, NEW v \in Vars, NEW x \in Number
    PROVE  LET r == genAssignImm(q, v, x) IN
           /\ Touches(q, r, v)
           /\ executing => Operand(r, v) = x
           /\ r.precompute[v] = IF q.precompute[v].precomputedOnce THEN givenUp
                                ELSE [value |-> x, precomputedOnce |-> TRUE]
<1> DEFINE r == genAssignImm(q, v, x)
<1>1. x \in Content /\ x # junk /\ q.precompute[v] \in Info
  BY Contents, OperandContent DEF Content
<1>2. CASE q.precompute[v].precomputedOnce
  <2> DEFINE e == [q EXCEPT !.precompute[v].value = junk]
  <2>1. e \in State /\ e.stored = q.stored /\ e.panicked = q.panicked
        /\ e.precompute = [q.precompute EXCEPT ![v] = [@ EXCEPT !.value = junk]]
    BY DEF State, Info, Content
  <2>2. e.precompute[v] = givenUp /\ \A u \in Vars \ {v} : e.precompute[u] = q.precompute[u]
    BY <1>1, <1>2, <2>1 DEF State, Info, givenUp
  <2> HIDE DEF e
  <2>3. r = Emit(e, v, x)
    BY <1>2 DEF genAssignImm, e
  <2>4. /\ r \in State /\ r.precompute = e.precompute /\ r.panicked = e.panicked
        /\ ~ executing => r.stored = e.stored
        /\ \A u \in Vars \ {v} : r.stored[u] = e.stored[u]
        /\ executing => r.stored[v] = x
    BY <1>1, <2>1, <2>3, EmitFacts
  <2> HIDE DEF r
  <2>5. Touches(q, r, v)
    BY <2>1, <2>2, <2>4 DEF Touches
  <2>6. executing => Operand(r, v) = x
    BY <2>2, <2>4 DEF Operand, valueKnown, givenUp
  <2> QED BY <1>2, <2>2, <2>4, <2>5, <2>6 DEF r
<1>3. CASE ~ q.precompute[v].precomputedOnce
  <2> DEFINE k == [value |-> x, precomputedOnce |-> TRUE]
  <2>1. r = [q EXCEPT !.precompute[v] = k] /\ k \in Info
    BY <1>1, <1>3 DEF genAssignImm, Info
  <2>2. /\ r \in State /\ r.stored = q.stored /\ r.panicked = q.panicked
        /\ r.precompute = [q.precompute EXCEPT ![v] = k]
    BY <2>1 DEF State
  <2>3. r.precompute[v] = k /\ \A u \in Vars \ {v} : r.precompute[u] = q.precompute[u]
    BY <2>2 DEF State
  <2> HIDE DEF r
  <2>4. Touches(q, r, v)
    BY <1>3, <2>2, <2>3 DEF Touches, givenUp
  <2>5. Operand(r, v) = x
    BY <1>1, <2>3 DEF Operand, valueKnown
  <2> QED BY <1>3, <2>3, <2>4, <2>5 DEF r
<1> QED BY <1>2, <1>3

LEMMA AssignFacts ==
    ASSUME NEW q \in State, NEW v \in Vars, NEW w \in Vars, v # w
    PROVE  LET r == assign(q, v, w) IN
           /\ Touches(q, r, v)
           /\ executing => Operand(r, v) = Operand(q, w)
           /\ \/ r.precompute[v] = q.precompute[v]
              \/ r.precompute[v] = givenUp
              \/ valueKnown(q, w) /\ r.precompute[v] = q.precompute[w]
<1> DEFINE r == assign(q, v, w)
           b == beforeMutation(q, v, {w})
           again == b.precompute[v].precomputedOnce /\ ~ valueKnown(b, v)
<1>1. /\ Touches(q, b, v)
      /\ b.precompute[v] = q.precompute[v] \/ b.precompute[v] = givenUp
      /\ valueKnown(b, v) => b = q /\ valueKnown(q, w)
      /\ valueKnown(q, w) => b = q
  BY BeforeMutationFacts
<1>2. r = IF ~ valueKnown(b, w)
          THEN IF valueKnown(b, v) THEN Panic(b) ELSE Emit(b, v, b.stored[w])
          ELSE IF again THEN Emit(b, v, b.precompute[w].value)
          ELSE [b EXCEPT !.precompute[v] = b.precompute[w]]
  BY DEF assign
<1> HIDE DEF b
<1>3. b \in State /\ b.panicked = q.panicked
      /\ b.precompute[w] = q.precompute[w] /\ b.stored[w] = q.stored[w]
  BY <1>1 DEF Touches
<1>4. b.stored[w] \in Content /\ b.precompute[w] \in Info /\ b.precompute[w].value \in Content
  BY <1>3 DEF State, Info
<1>5. CASE ~ valueKnown(q, w)
  <2>1. ~ valueKnown(b, w) /\ ~ valueKnown(b, v)
    BY <1>1, <1>3, <1>5 DEF valueKnown
  <2> DEFINE y == b.stored[w]
  <2>2. r = Emit(b, v, y) /\ y \in Content
    BY <1>2, <1>4, <2>1
  <2> HIDE DEF r, y
  <2>3. /\ r \in State /\ r.precompute = b.precompute /\ r.panicked = b.panicked
        /\ ~ executing => r.stored = b.stored
        /\ \A u \in Vars \ {v} : r.stored[u] = b.stored[u]
        /\ executing => r.stored[v] = y
    BY <1>3, <2>2, EmitFacts
  <2> HIDE DEF r
  <2>4. Touches(q, r, v)
    BY <1>1, <2>3 DEF Touches
  <2>5. executing => Operand(r, v) = Operand(q, w)
    BY <1>3, <1>5, <2>1, <2>3 DEF Operand, valueKnown, y
  <2> QED BY <1>1, <2>3, <2>4, <2>5 DEF r
<1>6. CASE valueKnown(q, w) /\ again
  <2> DEFINE y == q.precompute[w].value
  <2>1. b = q /\ r = Emit(q, v, y) /\ y \in Content
    BY <1>1, <1>2, <1>3, <1>4, <1>6 DEF valueKnown
  <2> HIDE DEF r, y
  <2>2. /\ r \in State /\ r.precompute = q.precompute /\ r.panicked = q.panicked
        /\ ~ executing => r.stored = q.stored
        /\ \A u \in Vars \ {v} : r.stored[u] = q.stored[u]
        /\ executing => r.stored[v] = y
    BY <2>1, EmitFacts
  <2>3. Touches(q, r, v)
    BY <2>2 DEF Touches
  <2>4. executing => Operand(r, v) = Operand(q, w)
    BY <1>6, <2>1, <2>2 DEF Operand, valueKnown, y
  <2> QED BY <2>2, <2>3, <2>4 DEF r
<1>7. CASE valueKnown(q, w) /\ ~ again
  <2>1. b = q /\ r = [q EXCEPT !.precompute[v] = q.precompute[w]]
    BY <1>1, <1>2, <1>3, <1>7 DEF valueKnown
  <2>2. /\ r \in State /\ r.stored = q.stored /\ r.panicked = q.panicked
        /\ r.precompute = [q.precompute EXCEPT ![v] = q.precompute[w]]
    BY <1>3, <1>4, <2>1 DEF State
  <2>3. r.precompute[v] = q.precompute[w]
        /\ \A u \in Vars \ {v} : r.precompute[u] = q.precompute[u]
    BY <2>2 DEF State
  <2>4. q.precompute[v] # givenUp
    BY <1>7, <2>1 DEF givenUp, valueKnown
  <2> HIDE DEF r, again
  <2>5. Touches(q, r, v)
    BY <2>2, <2>3, <2>4 DEF Touches
  <2>6. Operand(r, v) = Operand(q, w)
    BY <1>7, <2>3 DEF Operand, valueKnown
  <2> QED BY <1>7, <2>3, <2>5, <2>6 DEF r
<1> QED BY <1>5, <1>6, <1>7

\* Arithmetic in place.
LEMMA UpdateFacts ==
    ASSUME NEW q \in State, NEW v \in Vars, NEW w \in Vars, NEW op \in {"Add", "And", "Or"}
    PROVE  LET r == update(q, op, v, w)
               x == Apply(op, q.precompute[v].value, q.precompute[w].value)
           IN
           /\ Touches(q, r, v)
           /\ \/ r.precompute[v] = q.precompute[v]
              \/ r.precompute[v] = givenUp
              \/ /\ valueKnown(q, v) /\ valueKnown(q, w) /\ r.precompute[v].value = x
                 /\ r.precompute[v].precomputedOnce = q.precompute[v].precomputedOnce
           /\ executing /\ (valueKnown(q, v) /\ valueKnown(q, w) => x # junk)
                 => Operand(r, v) = Apply(op, Operand(q, v), Operand(q, w))
<1> DEFINE r == update(q, op, v, w)
           x == Apply(op, q.precompute[v].value, q.precompute[w].value)
           b == beforeMutation(q, v, {w})
<1>1. /\ Touches(q, b, v)
      /\ executing => Operand(b, v) = Operand(q, v)
      /\ b.precompute[v] = q.precompute[v]
            \/ (valueKnown(q, v) /\ b.precompute[v] = givenUp)
      /\ valueKnown(b, v) => b = q /\ \A u \in {w} \ {v} : valueKnown(q, u)
      /\ (\A u \in {w} \ {v} : valueKnown(q, u)) => b = q
  BY BeforeMutationFacts
<1>2. r = CASE valueKnown(b, v) /\ valueKnown(b, w) ->
                 [b EXCEPT !.precompute[v].value = Apply(op, @, b.precompute[w].value)]
            [] valueKnown(b, v) /\ ~ valueKnown(b, w) -> Panic(b)
            [] OTHER -> Emit(b, v, Apply(op, b.stored[v], Operand(b, w)))
  BY DEF update
<1> HIDE DEF b
<1>3. b \in State /\ b.panicked = q.panicked
  BY <1>1 DEF Touches
<1>4. \A y, z : Apply(op, y, z) \in Number \cup {junk}
  BY ApplyFits
<1> HIDE DEF x
<1>5. CASE valueKnown(b, v)
  <2>1. b = q /\ valueKnown(q, v) /\ valueKnown(q, w)
    BY <1>1, <1>5
  <2>2. r = [q EXCEPT !.precompute[v].value = x]
    BY <1>2, <2>1 DEF x
  <2>3. x \in Content /\ q.precompute[v] \in Info
    BY <1>4, OperandContent DEF Content, x
  <2> DEFINE k == [q.precompute[v] EXCEPT !.value = x]
  <2>4. k \in Info /\ k.value = x /\ k.precomputedOnce = q.precompute[v].precomputedOnce
    BY <2>3 DEF Info
  <2>5. /\ r \in State /\ r.stored = q.stored /\ r.panicked = q.panicked
        /\ r.precompute = [q.precompute EXCEPT ![v] = k]
    BY <2>2, <2>4 DEF State
  <2>6. r.precompute[v] = k /\ \A u \in Vars \ {v} : r.precompute[u] = q.precompute[u]
    BY <2>5 DEF State
  <2>7. q.precompute[v] # givenUp
    BY <2>1 DEF givenUp, valueKnown
  <2> HIDE DEF r
  <2>8. Touches(q, r, v)
    BY <2>5, <2>6, <2>7 DEF Touches
  <2>9. x # junk => Operand(r, v) = Apply(op, Operand(q, v), Operand(q, w))
    BY <2>1, <2>4, <2>6 DEF Operand, valueKnown, x
  <2> QED BY <2>1, <2>6, <2>8, <2>9 DEF r, x
<1>6. CASE ~ valueKnown(b, v)
  <2> DEFINE y == Apply(op, b.stored[v], Operand(b, w))
  <2>1. r = Emit(b, v, y) /\ y \in Content
    BY <1>2, <1>4, <1>6 DEF Content
  <2>2. /\ r \in State /\ r.precompute = b.precompute /\ r.panicked = b.panicked
        /\ ~ executing => r.stored = b.stored
        /\ \A u \in Vars \ {v} : r.stored[u] = b.stored[u]
        /\ executing => r.stored[v] = y
    BY <1>3, <2>1, EmitFacts
  <2>3. executing => b.stored[v] = Operand(q, v)
    BY <1>1, <1>6 DEF Operand
  <2>4. executing => Operand(b, w) = Operand(q, w)
    <3>1. CASE w = v
      BY <1>1, <3>1
    <3>2. CASE w # v
      BY <1>1, <3>2 DEF Touches, Operand, valueKnown
    <3> QED BY <3>1, <3>2
  <2> HIDE DEF r
  <2>5. Touches(q, r, v)
    BY <1>1, <2>2 DEF Touches
  <2>6. executing => Operand(r, v) = Apply(op, Operand(q, v), Operand(q, w))
    <3>1. ~ valueKnown(r, v)
      BY <1>6, <2>2 DEF valueKnown
    <3> QED BY <2>2, <2>3, <2>4, <3>1 DEF Operand
  <2> QED BY <1>1, <2>2, <2>5, <2>6 DEF r
<1> QED BY <1>5, <1>6

LEMMA IncrementFacts ==
    ASSUME NEW q \in State, NEW v \in Vars
    PROVE  LET r == increment(q, v)
               x == Apply("Add", q.precompute[v].value, 1)
           IN
           /\ Touches(q, r, v)
           /\ \/ r.precompute[v] = q.precompute[v]
              \/ /\ valueKnown(q, v) /\ r.precompute[v].value = x
                 /\ r.precompute[v].precomputedOnce = q.precompute[v].precomputedOnce
           /\ ~ valueKnown(q, v) => r.precompute = q.precompute
           /\ executing /\ ~ valueKnown(q, v)
                 => Operand(r, v) = Apply("Add", Operand(q, v), 1)
<1> DEFINE r == increment(q, v)
           x == Apply("Add", q.precompute[v].value, 1)
<1>1. \A y, z : Apply("Add", y, z) \in Content
  BY ApplyFits DEF Content
<1>2. CASE valueKnown(q, v)
  <2>1. x \in Content /\ q.precompute[v] \in Info
    BY <1>1, OperandContent
  <2>2. r = [q EXCEPT !.precompute[v].value = x]
    BY <1>2 DEF increment
  <2> HIDE DEF x
  <2> DEFINE k == [q.precompute[v] EXCEPT !.value = x]
  <2>3. k \in Info /\ k.value = x /\ k.precomputedOnce = q.precompute[v].precomputedOnce
    BY <2>1 DEF Info
  <2>4. /\ r \in State /\ r.stored = q.stored /\ r.panicked = q.panicked
        /\ r.precompute = [q.precompute EXCEPT ![v] = k]
    BY <2>2, <2>3 DEF State
  <2>5. r.precompute[v] = k /\ \A u \in Vars \ {v} : r.precompute[u] = q.precompute[u]
    BY <2>4 DEF State
  <2>6. q.precompute[v] # givenUp
    BY <1>2 DEF givenUp, valueKnown
  <2> HIDE DEF r
  <2>7. Touches(q, r, v)
    BY <2>4, <2>5, <2>6 DEF Touches
  <2> QED BY <1>2, <2>3, <2>5, <2>7 DEF r, x
<1>3. CASE ~ valueKnown(q, v)
  <2> DEFINE y == Apply("Add", q.stored[v], 1)
  <2>1. r = Emit(q, v, y) /\ y \in Content
    BY <1>1, <1>3 DEF increment
  <2>2. /\ r \in State /\ r.precompute = q.precompute /\ r.panicked = q.panicked
        /\ ~ executing => r.stored = q.stored
        /\ \A u \in Vars \ {v} : r.stored[u] = q.stored[u]
        /\ executing => r.stored[v] = y
    BY <2>1, EmitFacts
  <2> HIDE DEF r
  <2>3. Touches(q, r, v)
    BY <2>2 DEF Touches
  <2>4. executing => Operand(r, v) = Apply("Add", Operand(q, v), 1)
    BY <1>3, <2>2 DEF Operand, valueKnown
  <2> QED BY <1>3, <2>2, <2>3, <2>4 DEF r
<1> QED BY <1>2, <1>3

LEMMA CompareFacts ==
    ASSUME NEW q \in State, NEW v \in Vars, NEW l \in Vars, NEW w \in Vars,
           q.precompute[v] = unknown, l # v, w # v
    PROVE  LET r == compare(q, v, l, w)
               x == Apply("Lesser", Operand(q, l), Operand(q, w))
           IN
           /\ Touches(q, r, v)
           /\ r.precompute[v] = unknown \/ r.precompute[v] = [unknown EXCEPT !.value = x]
           /\ executing /\ (valueKnown(q, l) /\ valueKnown(q, w) => x # junk)
                 => Operand(r, v) = x
<1> DEFINE r == compare(q, v, l, w)
           x == Apply("Lesser", Operand(q, l), Operand(q, w))
<1>1. beforeMutation(q, v, {l, w}) = q
  BY DEF beforeMutation, endPrecomputingAndMaterialize, valueKnown, unknown
<1>2. x \in Content
  BY ApplyFits DEF Content
<1>3. r = IF valueKnown(q, l) /\ valueKnown(q, w) THEN [q EXCEPT !.precompute[v].value = x]
          ELSE Emit(q, v, x)
  BY <1>1 DEF compare
<1> HIDE DEF x, r
<1>4. CASE valueKnown(q, l) /\ valueKnown(q, w)
  <2> DEFINE k == [unknown EXCEPT !.value = x]
  <2>1. k \in Info /\ k.value = x
    BY <1>2 DEF Info, unknown
  <2>2. /\ r \in State /\ r.stored = q.stored /\ r.panicked = q.panicked
        /\ r.precompute = [q.precompute EXCEPT ![v] = k]
    BY <1>3, <1>4, <2>1 DEF State
  <2>3. r.precompute[v] = k /\ \A u \in Vars \ {v} : r.precompute[u] = q.precompute[u]
    BY <2>2 DEF State
  <2>4. q.precompute[v] # givenUp
    BY DEF givenUp, unknown
  <2>5. Touches(q, r, v)
    BY <2>2, <2>3, <2>4 DEF Touches
  <2>6. x # junk => Operand(r, v) = x
    BY <2>1, <2>3 DEF Operand, valueKnown
  <2> QED BY <1>4, <2>3, <2>5, <2>6 DEF r, x
<1>5. CASE ~ (valueKnown(q, l) /\ valueKnown(q, w))
  <2>1. /\ r \in State /\ r.precompute = q.precompute /\ r.panicked = q.panicked
        /\ ~ executing => r.stored = q.stored
        /\ \A u \in Vars \ {v} : r.stored[u] = q.stored[u]
        /\ executing => r.stored[v] = x
    BY <1>2, <1>3, <1>5, EmitFacts
  <2>2. Touches(q, r, v)
    BY <2>1 DEF Touches
  <2>3. executing => Operand(r, v) = x
    BY <2>1 DEF Operand, valueKnown, unknown
  <2> QED BY <2>1, <2>2, <2>3 DEF r, x
<1> QED BY <1>4, <1>5

\* What a pointer is made to point to is put to storage for good.
LEMMA TakeAddressFacts ==
    ASSUME NEW q \in State, NEW out \in Vars, NEW in \in Vars,
           q.precompute[out] = unknown, in # out
    PROVE  LET r == genTakeAddress(q, out, in) IN
           /\ r \in State /\ r.panicked = q.panicked
           /\ \A u \in Vars \ {in} : r.stored[u] = q.stored[u]
           /\ ~ executing => r.stored = q.stored
           /\ executing => Operand(r, in) = Operand(q, in)
           /\ r.precompute[in] = givenUp
           /\ r.precompute[out] = [value |-> in, precomputedOnce |-> TRUE]
           /\ \A u \in Vars \ {in, out} : r.precompute[u] = q.precompute[u]
<1> DEFINE r == genTakeAddress(q, out, in)
           b == [q EXCEPT !.precompute[in].precomputedOnce = TRUE]
           m == endPrecomputingAndMaterialize(b, in)
           k == [value |-> in, precomputedOnce |-> TRUE]
<1>1. q.precompute[in] \in Info
  BY DEF State
<1>2. b.stored = q.stored /\ b.panicked = q.panicked
      /\ b.precompute = [q.precompute EXCEPT ![in] = [@ EXCEPT !.precomputedOnce = TRUE]]
  BY DEF State
<1>3. b \in State
  BY DEF State, Info
<1>4. /\ b.precompute[in] = [value |-> q.precompute[in].value, precomputedOnce |-> TRUE]
      /\ \A u \in Vars \ {in} : b.precompute[u] = q.precompute[u]
  BY <1>1, <1>2 DEF State, Info
<1>5. r = [m EXCEPT !.precompute[out] = k]
  BY DEF genTakeAddress, valueKnown, unknown
<1> HIDE DEF b
<1>6. /\ Touches(b, m, in)
      /\ executing => Operand(m, in) = Operand(b, in)
      /\ m.precompute[in] = IF valueKnown(b, in) THEN givenUp ELSE b.precompute[in]
  BY <1>3, MaterializeFacts
<1> HIDE DEF m, r
<1>7. m \in State /\ k \in Info
  BY <1>6 DEF Touches, Info, Content
<1>8. /\ r \in State /\ r.stored = m.stored /\ r.panicked = m.panicked
      /\ r.precompute = [m.precompute EXCEPT ![out] = k]
  BY <1>5, <1>7 DEF State
<1> HIDE DEF k
<1>9. r.precompute[out] = k /\ \A u \in Vars \ {out} : r.precompute[u] = m.precompute[u]
  BY <1>7, <1>8 DEF State
<1>10. m.precompute[in] = givenUp
  <2>1. CASE valueKnown(b, in)
    BY <1>6, <2>1
  <2>2. CASE ~ valueKnown(b, in)
    <3>1. m.precompute[in] = b.precompute[in]
      BY <1>6, <2>2
    <3>2. b.precompute[in].value = junk
      BY <2>2 DEF valueKnown
    <3>3. q.precompute[in].value = junk
      BY <1>4, <3>2
    <3> QED BY <1>4, <3>1, <3>3 DEF givenUp
  <2> QED BY <2>1, <2>2
<1>11. executing => Operand(r, in) = Operand(q, in)
  <2>1. Operand(b, in) = Operand(q, in)
    BY <1>2, <1>4 DEF Operand, valueKnown
  <2>2. Operand(r, in) = Operand(m, in)
    BY <1>8, <1>9 DEF Operand, valueKnown
  <2> QED BY <1>6, <2>1, <2>2
<1>12. \A u \in Vars \ {in} : r.stored[u] = q.stored[u] /\ m.precompute[u] = q.precompute[u]
  BY <1>2, <1>4, <1>6, <1>8 DEF Touches
<1>13. r.panicked = q.panicked /\ (~ executing => r.stored = q.stored)
  BY <1>2, <1>6, <1>8 DEF Touches
<1> QED BY <1>8, <1>9, <1>10, <1>11, <1>12, <1>13 DEF r, k

LEMMA LoadFacts ==
    ASSUME NEW q \in State, NEW out \in Vars, NEW in \in Vars
    PROVE  LET r == genIndirectLoad(q, out, in)
               address == Operand(q, in)
           IN
           /\ Touches(q, r, out) /\ r.precompute[out] = givenUp
           /\ executing => Operand(r, out) = IF address \in Vars THEN q.stored[address] ELSE junk
<1> DEFINE r == genIndirectLoad(q, out, in)
           e == endPrecomputation(q, out)
           x == IF Operand(q, in) \in Vars THEN q.stored[Operand(q, in)] ELSE junk
<1>1. x \in Content
  BY DEF State, Content
<1>2. /\ e \in State /\ e.stored = q.stored /\ e.panicked = q.panicked
      /\ e.precompute = [q.precompute EXCEPT ![out] = givenUp]
  BY DEF endPrecomputation, State, Info, Content, givenUp
<1>3. e.precompute[out] = givenUp /\ \A u \in Vars \ {out} : e.precompute[u] = q.precompute[u]
  BY <1>2 DEF State
<1>4. r = Emit(e, out, x)
  BY DEF genIndirectLoad
<1> HIDE DEF e, x, r
<1>5. /\ r \in State /\ r.precompute = e.precompute /\ r.panicked = e.panicked
      /\ ~ executing => r.stored = e.stored
      /\ \A u \in Vars \ {out} : r.stored[u] = e.stored[u]
      /\ executing => r.stored[out] = x
  BY <1>1, <1>2, <1>4, EmitFacts
<1>6. Touches(q, r, out)
  BY <1>2, <1>3, <1>5 DEF Touches
<1>7. executing => Operand(r, out) = x
  BY <1>3, <1>5 DEF Operand, valueKnown, givenUp
<1> QED BY <1>3, <1>5, <1>6, <1>7 DEF r, x

LEMMA WriteFacts ==
    ASSUME NEW q \in State, NEW target \in Vars, NEW data \in Vars
    PROVE  LET r == genIndirectWrite(q, target, data)
               address == Operand(q, target)
           IN
           /\ r \in State /\ r.precompute = q.precompute /\ r.panicked = q.panicked
           /\ ~ executing \/ address \notin Vars => r.stored = q.stored
           /\ \A u \in Vars \ {address} : r.stored[u] = q.stored[u]
           /\ executing /\ address \in Vars => r.stored[address] = Operand(q, data)
<1> DEFINE a == Operand(q, target)
           x == Operand(q, data)
           r == genIndirectWrite(q, target, data)
<1>1. x \in Content
  BY OperandContent
<1>2. r = IF a \in Vars THEN Emit(q, a, x) ELSE q
  BY DEF genIndirectWrite
<1> HIDE DEF a, x, r
<1>3. CASE a \in Vars
  <2>1. /\ r \in State /\ r.precompute = q.precompute /\ r.panicked = q.panicked
        /\ ~ executing => r.stored = q.stored
        /\ \A u \in Vars \ {a} : r.stored[u] = q.stored[u]
        /\ executing => r.stored[a] = x
    BY <1>1, <1>2, <1>3, EmitFacts
  <2> QED BY <1>3, <2>1 DEF r, a, x
<1>4. CASE a \notin Vars
  <2>1. r = q
    BY <1>2, <1>4
  <2> QED BY <1>4, <2>1 DEF r, a, x
<1> QED BY <1>3, <1>4

-----------------------------------------------------------------------------
(* The start and the end of branches and loops.                            *)

Entries == UNION {[S -> Info] : S \in SUBSET Vars}

\* Putting a value that is known to storage: an address gets lost.
Moved(q, v) == IF q.precompute[v].value \in Vars THEN junk ELSE q.precompute[v].value

LEMMA MoveFacts ==
    ASSUME NEW q \in State, NEW v \in Vars
    PROVE  movValue(q, v).stored[v] = (IF executing THEN Moved(q, v) ELSE q.stored[v])
           /\ Moved(q, v) \in Content
<1>1. Moved(q, v) \in Content
  BY DEF Moved, State, Info, Content
<1>2. movValue(q, v) = Emit(q, v, Moved(q, v))
  BY DEF movValue, Moved
<1> HIDE DEF Moved
<1>3. CASE executing
  BY <1>1, <1>2, <1>3, EmitFacts
<1>4. CASE ~ executing
  BY <1>1, <1>2, <1>4, EmitFacts
<1> QED BY <1>1, <1>3, <1>4

LEMMA StartFacts ==
    ASSUME NEW q \in State, NEW list \in SUBSET Vars
    PROVE  LET r == startOptionSelect(q, list) IN
           /\ r \in State /\ r.precompute = q.precompute /\ r.panicked = q.panicked
           /\ \A v \in Vars : r.stored[v] =
                 IF executing /\ v \in list /\ valueKnown(q, v) THEN Moved(q, v) ELSE q.stored[v]
<1> DEFINE r == startOptionSelect(q, list)
           known == {v \in list : valueKnown(q, v)}
           s == [v \in Vars |-> IF v \in known THEN movValue(q, v).stored[v] ELSE q.stored[v]]
<1>1. r = [q EXCEPT !.stored = s]
  BY DEF startOptionSelect
<1>2. s \in [Vars -> Content]
  BY MoveFacts DEF State
<1> HIDE DEF s
<1>3. r \in State /\ r.precompute = q.precompute /\ r.panicked = q.panicked /\ r.stored = s
  BY <1>1, <1>2 DEF State
<1>4. \A v \in Vars : s[v] =
         IF executing /\ v \in list /\ valueKnown(q, v) THEN Moved(q, v) ELSE q.stored[v]
  BY MoveFacts DEF s
<1> QED BY <1>3, <1>4

LEMMA OptionEndFacts ==
    ASSUME NEW q \in State, NEW entry \in Entries
    PROVE  LET r == genOptionEnd(q, entry) IN
           /\ r \in State /\ r.panicked = q.panicked
           /\ \A v \in Vars : r.precompute[v] =
                 IF v \in DOMAIN entry THEN entry[v] ELSE q.precompute[v]
           /\ \A v \in Vars : r.stored[v] =
                 IF executing /\ v \in DOMAIN entry /\ valueKnown(q, v)
                 THEN Moved(q, v) ELSE q.stored[v]
<1> DEFINE r == genOptionEnd(q, entry)
           s == [v \in Vars |-> IF v \in DOMAIN entry /\ valueKnown(q, v)
                                THEN movValue(q, v).stored[v] ELSE q.stored[v]]
           k == [v \in Vars |-> IF v \in DOMAIN entry THEN entry[v] ELSE q.precompute[v]]
<1>1. r = [q EXCEPT !.stored = s, !.precompute = k]
  BY DEF genOptionEnd
<1>2. s \in [Vars -> Content]
  BY MoveFacts DEF State
<1>3. k \in [Vars -> Info]
  BY DEF State, Entries
<1> HIDE DEF s
<1>4. r \in State /\ r.precompute = k /\ r.panicked = q.panicked /\ r.stored = s
  <2> HIDE DEF k
  <2> QED BY <1>1, <1>2, <1>3 DEF State
<1>5. \A v \in Vars : s[v] =
         IF executing /\ v \in DOMAIN entry /\ valueKnown(q, v) THEN Moved(q, v) ELSE q.stored[v]
  BY MoveFacts DEF s
<1> QED BY <1>4, <1>5

LEMMA EndSelectFacts ==
    ASSUME NEW q \in State, NEW entry \in Entries
    PROVE  LET r == endOptionSelect(q, entry) IN
           /\ r \in State /\ r.panicked = q.panicked /\ r.stored = q.stored
           /\ \A v \in Vars \ DOMAIN entry : r.precompute[v] = q.precompute[v]
           /\ \A v \in Vars \cap DOMAIN entry :
                 r.precompute[v] = [q.precompute[v] EXCEPT !.value = junk]
<1> DEFINE r == endOptionSelect(q, entry)
           k == [v \in Vars |-> IF v \in DOMAIN entry THEN [q.precompute[v] EXCEPT !.value = junk]
                                ELSE q.precompute[v]]
<1>1. r = [q EXCEPT !.precompute = k]
  BY DEF endOptionSelect
<1>2. k \in [Vars -> Info]
  BY DEF State, Info, Content
<1>3. r \in State /\ r.precompute = k /\ r.panicked = q.panicked /\ r.stored = q.stored
  <2> HIDE DEF k
  <2> QED BY <1>1, <1>2 DEF State
<1> QED BY <1>3

LEMMA StopFacts ==
    ASSUME NEW q \in State, NEW list \in SUBSET Vars
    PROVE  LET r == stopPrecomputation(q, list)
               stops(v) == v \in list /\ v \notin stopped /\ valueKnown(q, v)
           IN
           /\ r \in State /\ r.panicked = q.panicked
           /\ \A v \in Vars : r.precompute[v] = IF stops(v) THEN givenUp ELSE q.precompute[v]
           /\ ~ executing => r.stored = q.stored
           /\ \A v \in Vars : r.stored[v] =
                 IF executing /\ stops(v) THEN q.precompute[v].value ELSE q.stored[v]
<1> DEFINE r == stopPrecomputation(q, list)
           known == {v \in list \ stopped : valueKnown(q, v)}
           s == [v \in Vars |-> IF v \in known THEN endPrecomputingAndMaterialize(q, v).stored[v]
                                ELSE q.stored[v]]
           k == [v \in Vars |-> IF v \in known THEN endPrecomputation(q, v).precompute[v]
                                ELSE q.precompute[v]]
<1>1. r = [q EXCEPT !.stored = s, !.precompute = k]
  BY DEF stopPrecomputation
<1>2. \A v \in known :
         /\ endPrecomputation(q, v).precompute[v] = givenUp
         /\ endPrecomputingAndMaterialize(q, v).stored[v]
               = IF executing THEN q.precompute[v].value ELSE q.stored[v]
  <2> TAKE v \in known
  <2> DEFINE m == endPrecomputingAndMaterialize(q, v)
  <2>1. v \in Vars /\ valueKnown(q, v)
    OBVIOUS
  <2>2. endPrecomputation(q, v).precompute[v] = givenUp
    BY <2>1 DEF endPrecomputation, givenUp, State
  <2>3. /\ Touches(q, m, v) /\ ~ valueKnown(m, v)
        /\ executing => Operand(m, v) = Operand(q, v)
    BY <2>1, MaterializeFacts
  <2> HIDE DEF m
  <2>4. m.stored[v] = IF executing THEN q.precompute[v].value ELSE q.stored[v]
    <3>1. CASE executing
      BY <2>1, <2>3, <3>1 DEF Operand
    <3>2. CASE ~ executing
      BY <2>3, <3>2 DEF Touches
    <3> QED BY <3>1, <3>2
  <2> QED BY <2>2, <2>4 DEF m
<1>3. s \in [Vars -> Content] /\ k \in [Vars -> Info]
  <2>1. givenUp \in Info /\ \A v \in Vars : q.precompute[v].value \in Content
                                            /\ q.stored[v] \in Content
    BY DEF givenUp, Info, Content, State
  <2>2. k \in [Vars -> Info]
    BY <1>2, <2>1 DEF State
  <2>3. \A v \in Vars : s[v] \in Content
    BY <1>2, <2>1
  <2> QED BY <2>2, <2>3
<1>4. /\ \A v \in Vars : k[v] = IF v \in known THEN givenUp ELSE q.precompute[v]
      /\ \A v \in Vars : s[v] = IF executing /\ v \in known THEN q.precompute[v].value
                                ELSE q.stored[v]
  BY <1>2
<1> HIDE DEF s, k
<1>5. r \in State /\ r.precompute = k /\ r.panicked = q.panicked /\ r.stored = s
  BY <1>1, <1>3 DEF State
<1>6. ~ executing => s = q.stored
  BY <1>3, <1>4 DEF State
<1> QED BY <1>4, <1>5, <1>6

-----------------------------------------------------------------------------
(* The open blocks.                                                        *)

Frames == [kind : {"option", "loop", "logical"}, list : SUBSET Vars, todo : SUBSET Vars,
           entry : Entries \cup {"And", "Or"}, arm : {1, 2},
           waiting : BOOLEAN, left : BOOLEAN]

\* The variables that the end of a branch takes back to what was known before.
restored(f) == IF f.kind = "option" THEN DOMAIN f.entry ELSE {}

\* The i-th block stays open.
Keeps(i) ==
    /\ i \in DOMAIN open /\ open'[i].kind = open[i].kind
    /\ open'[i].list = open[i].list /\ open'[i].entry = open[i].entry

LEMMA OpenFacts ==
    ASSUME open \in Seq(Frames)
    PROVE  /\ depth \in Nat /\ DOMAIN open = 1 .. depth
           /\ \A i \in DOMAIN open : open[i] \in Frames
           /\ depth > 0 => depth \in DOMAIN open /\ innermost \in Frames
<1>1. depth \in Nat /\ DOMAIN open = 1 .. depth /\ open \in [1 .. depth -> Frames]
  BY LenProperties DEF depth
<1> QED BY <1>1 DEF innermost

LEMMA PushFacts ==
    ASSUME open \in Seq(Frames), NEW f \in Frames, Push(f)
    PROVE  /\ open' \in Seq(Frames) /\ depth' = depth + 1 /\ DOMAIN open' = 1 .. depth + 1
           /\ \A i \in DOMAIN open : open'[i] = open[i]
           /\ open'[depth + 1] = f
<1>1. open' = Append(open, f)
  BY DEF Push
<1>2. /\ open' \in Seq(Frames) /\ Len(open') = depth + 1 /\ open'[depth + 1] = f
      /\ \A i \in 1 .. depth : open'[i] = open[i]
  BY <1>1, AppendProperties DEF depth
<1>3. DOMAIN open' = 1 .. depth + 1 /\ DOMAIN open = 1 .. depth
  BY <1>2, LenProperties DEF depth
<1> QED BY <1>2, <1>3 DEF depth

LEMMA PopFacts ==
    ASSUME open \in Seq(Frames), depth > 0, Pop
    PROVE  /\ open' \in Seq(Frames) /\ depth' = depth - 1 /\ DOMAIN open' = 1 .. depth - 1
           /\ \A i \in DOMAIN open' : i \in DOMAIN open /\ open'[i] = open[i]
<1>1. depth \in Nat /\ DOMAIN open = 1 .. depth /\ \A i \in DOMAIN open : open[i] \in Frames
  BY OpenFacts
<1> DEFINE n == depth - 1
<1>2. n \in Nat /\ \A i \in 1 .. n : open[i] \in Frames
  BY <1>1
<1>3. open' = SubSeq(open, 1, n)
  BY DEF Pop
<1> HIDE DEF n
<1>4. /\ open' \in Seq(Frames) /\ Len(open') = IF 1 <= n THEN n - 1 + 1 ELSE 0
      /\ \A i \in 1 .. n - 1 + 1 : open'[i] = open[1 + i - 1]
  BY <1>2, <1>3, SubSeqProperties
<1>5. Len(open') = n /\ \A i \in 1 .. n : open'[i] = open[i]
  BY <1>2, <1>4
<1>6. DOMAIN open' = 1 .. n
  BY <1>4, <1>5, LenProperties
<1>7. \A i \in 1 .. n : i \in DOMAIN open
  BY <1>1 DEF n
<1> QED BY <1>4, <1>5, <1>6, <1>7 DEF n, depth

\* A frame takes the place of the i-th.
LEMMA ReplaceFacts ==
    ASSUME open \in Seq(Frames), NEW i \in DOMAIN open, NEW f \in Frames,
           open' = [open EXCEPT ![i] = f]
    PROVE  /\ open' \in Seq(Frames) /\ depth' = depth /\ DOMAIN open' = DOMAIN open
           /\ \A j \in DOMAIN open : open'[j] = IF j = i THEN f ELSE open[j]
<1>1. DOMAIN open = 1 .. Len(open)
  BY LenProperties
<1>2. /\ open' \in Seq(Frames) /\ Len(open') = Len(open)
      /\ \A j \in 1 .. Len(open) : open'[j] = IF j = i THEN f ELSE open[j]
  BY <1>1, ExceptSeq
<1> QED BY <1>1, <1>2, LenProperties DEF depth

LEMMA MutatedFacts ==
    ASSUME open \in Seq(Frames), NEW v \in Vars, open' = Mutated(v)
    PROVE  /\ open' \in Seq(Frames) /\ depth' = depth /\ DOMAIN open' = DOMAIN open
           /\ \A i \in DOMAIN open : open'[i] = [open[i] EXCEPT !.todo = @ \ {v}]
           /\ \A i \in DOMAIN open :
                 /\ Keeps(i) /\ open'[i].todo = open[i].todo \ {v}
                 /\ open'[i].arm = open[i].arm /\ open'[i].waiting = open[i].waiting
                 /\ open'[i].left = open[i].left
<1> DEFINE f(i) == [open[i] EXCEPT !.todo = @ \ {v}]
<1>1. depth \in Nat /\ DOMAIN open = 1 .. depth /\ \A i \in DOMAIN open : open[i] \in Frames
  BY OpenFacts
<1>2. open' = [i \in 1 .. depth |-> f(i)]
  BY <1>1 DEF Mutated
<1>3. \A i \in DOMAIN open : f(i) \in Frames
  BY <1>1 DEF Frames
<1>4. \A i \in DOMAIN open : f(i).kind = open[i].kind /\ f(i).list = open[i].list
         /\ f(i).entry = open[i].entry /\ f(i).todo = open[i].todo \ {v}
         /\ f(i).arm = open[i].arm /\ f(i).waiting = open[i].waiting
         /\ f(i).left = open[i].left
  BY <1>1 DEF Frames
<1> HIDE DEF f
<1>5. open' \in Seq(Frames)
  BY <1>1, <1>2, <1>3, IsASeq
<1>6. DOMAIN open' = 1 .. depth
  BY <1>2
<1>7. Len(open') = depth
  BY <1>1, <1>5, <1>6, LenProperties
<1> QED BY <1>1, <1>2, <1>4, <1>5, <1>6, <1>7 DEF depth, Keeps, f

-----------------------------------------------------------------------------
(* What holds for any program: types, and that nothing is known of a       *)
(* variable before its declaration.                                        *)

TypesOK ==
    /\ p \in State /\ value \in [Vars -> Content]
    /\ \A v \in Vars : p.precompute[v].value \in Fits(v) /\ value[v] \in Fits(v)
    /\ executing \in BOOLEAN /\ open \in Seq(Frames) /\ scope \in [Vars -> Int]
    /\ stopped \subseteq Reassigned

\* A branch and a loop have kept values, an && or || has its operator and is
\* about a number; a branch takes nothing back to before a declaration.
WellFormed(f) ==
    /\ f.entry \in IF f.kind = "logical" THEN {"And", "Or"} ELSE Entries
    /\ \A v \in restored(f) : scope[v] # notYet /\ f.entry[v].value \in Fits(v) \ {junk}
    /\ f.kind = "logical" => f.list \cap Pointers = {}

FreshUnknown ==
    /\ \A v \in Vars : scope[v] = notYet => p.precompute[v] = unknown
    /\ \A i \in DOMAIN open : WellFormed(open[i])

BasicInv == TypesOK /\ FreshUnknown /\ NeverPanics

\* What the parts of the invariant need of a step.
LEMMA BasicStep ==
    ASSUME BasicInv, p' \in State, p'.panicked = p.panicked,
           value' \in [Vars -> Content],
           \A v \in Vars : p'.precompute[v].value \in Fits(v) /\ value'[v] \in Fits(v),
           executing' \in BOOLEAN, open' \in Seq(Frames), scope' \in [Vars -> Int],
           stopped' \subseteq Reassigned,
           \A v \in Vars : scope'[v] = notYet =>
               scope[v] = notYet /\ p'.precompute[v] = p.precompute[v],
           \A i \in DOMAIN open' : Keeps(i) \/ WellFormed(open'[i])
    PROVE  BasicInv'
<1>1. TypesOK'
  BY DEF TypesOK, Fits
<1>2. NeverPanics'
  BY DEF NeverPanics, BasicInv
<1>3. (\A v \in Vars : scope[v] = notYet => p.precompute[v] = unknown)'
  BY DEF BasicInv, FreshUnknown
<1>4. \A i \in DOMAIN open' : open'[i] \in Frames
  BY LenProperties
<1>5. ASSUME NEW i \in DOMAIN open' PROVE WellFormed(open[i])'
  <2>1. WellFormed(open'[i])
    <3>1. CASE Keeps(i)
      <4>1. WellFormed(open[i])
        BY <3>1 DEF BasicInv, FreshUnknown, Keeps
      <4> QED BY <3>1, <4>1 DEF WellFormed, restored, Keeps
    <3> QED BY <1>5, <3>1
  <2>2. restored(open'[i]) \subseteq Vars
    BY <1>4, <1>5, <2>1 DEF restored, WellFormed, Entries
  <2>3. \A v \in Vars : scope[v] # notYet => scope'[v] # notYet
    OBVIOUS
  <2> QED BY <2>1, <2>2, <2>3 DEF WellFormed, restored, Fits
<1> QED BY <1>1, <1>2, <1>3, <1>5 DEF BasicInv, FreshUnknown

\* The value of one variable changes.
LEMMA SetFacts ==
    ASSUME value \in [Vars -> Content], NEW v \in Vars, NEW x, Set(v, x),
           \A u \in Vars : value[u] \in Fits(u), executing => x \in Fits(v)
    PROVE  /\ value' \in [Vars -> Content] /\ \A u \in Vars : value'[u] \in Fits(u)
           /\ \A u \in Vars \ {v} : value'[u] = value[u]
           /\ executing => value'[v] = x
           /\ ~ executing => value' = value
BY FitsContent DEF Set

\* An instruction, inside of the blocks that are open.
LEMMA InstructionStep ==
    ASSUME BasicInv, NEW v \in Vars, NEW x, Set(v, x), executing => x \in Fits(v),
           p' \in State, p'.panicked = p.panicked,
           \A u \in Vars : p'.precompute[u].value \in Fits(u),
           \A u \in Vars : scope'[u] = notYet => p'.precompute[u] = p.precompute[u],
           scope' = scope \/ (scope' = [scope EXCEPT ![v] = depth] /\ open' = open),
           open' = open \/ (\E u \in Vars : open' = Mutated(u)),
           executing' = executing, stopped' = stopped
    PROVE  BasicInv'
<1>1. TypesOK
  BY DEF BasicInv
<1>2. value' \in [Vars -> Content] /\ \A u \in Vars : value'[u] \in Fits(u)
  BY <1>1, SetFacts DEF TypesOK
<1>3. open' \in Seq(Frames) /\ \A i \in DOMAIN open' : Keeps(i)
  <2>1. CASE open' = open
    BY <1>1, <2>1 DEF TypesOK, Keeps
  <2>2. CASE \E u \in Vars : open' = Mutated(u)
    BY <1>1, <2>2, MutatedFacts DEF TypesOK
  <2> QED BY <2>1, <2>2
<1>4. depth \in Nat /\ depth # notYet
  BY <1>1, OpenFacts DEF TypesOK, notYet
<1>5. scope' \in [Vars -> Int] /\ \A u \in Vars : scope'[u] = notYet => scope[u] = notYet
  BY <1>1, <1>4 DEF TypesOK
<1> QED BY <1>1, <1>2, <1>3, <1>5, BasicStep DEF TypesOK

-----------------------------------------------------------------------------
(* What each instruction does.                                             *)

\* A variable that a pointer points to is in storage for good.
Pinned(v) ==
    /\ scope[v] = 0 /\ p.precompute[v] = givenUp
    /\ \A i \in DOMAIN open : v \notin restored(open[i])

PointeesPinned ==
    \A v \in Vars : \A w \in {value[v], p.precompute[v].value} \cap Vars : Pinned(w)

\* The code that is emitted now finds each variable.
Right == executing => SameAsIR /\ PointeesPinned

\* v gets the value that it has in the IR.
GetsValue(v) == Right /\ executing /\ value'[v] # junk => value'[v] = Operand(p', v)

\* An instruction that changes v only.
Instruction(v) ==
    /\ Touches(p, p', v) /\ p'.precompute[v].value \in Fits(v)
    /\ value' \in [Vars -> Content] /\ value'[v] \in Fits(v)
    /\ \A u \in Vars \ {v} : value'[u] = value[u]
    /\ ~ executing => value' = value
    /\ executing' = executing /\ stopped' = stopped
    /\ GetsValue(v)

Declaration(v) ==
    /\ Instruction(v) /\ scope[v] = notYet /\ p.precompute[v] = unknown /\ ~ CountingOn
    /\ scope' = [scope EXCEPT ![v] = depth] /\ open' = open

Mutation(v) ==
    Instruction(v) /\ Declared(v) /\ scope' = scope /\ open' = Mutated(v)

\* What was given up stays so.
StayGivenUp == \A v \in Vars : p.precompute[v] = givenUp => p'.precompute[v] = givenUp

LEMMA InstructionBasic ==
    ASSUME BasicInv, NEW v \in Vars, Declaration(v) \/ Mutation(v)
    PROVE  BasicInv' /\ StayGivenUp
<1>1. TypesOK /\ Instruction(v)
  BY DEF BasicInv, Declaration, Mutation
<1>2. /\ p' \in State /\ p'.panicked = p.panicked
      /\ \A u \in Vars \ {v} : p'.precompute[u] = p.precompute[u]
      /\ p.precompute[v] = givenUp => p'.precompute[v] = givenUp
  BY <1>1 DEF Instruction, Touches
<1>3. \A u \in Vars : p'.precompute[u].value \in Fits(u) /\ value'[u] \in Fits(u)
  BY <1>1, <1>2 DEF Instruction, TypesOK
<1>4. StayGivenUp
  BY <1>2 DEF StayGivenUp
<1>5. depth \in Nat /\ depth # notYet
  BY <1>1, OpenFacts DEF TypesOK, notYet
<1>6. /\ scope' \in [Vars -> Int] /\ open' \in Seq(Frames)
      /\ \A u \in Vars : scope'[u] = notYet => scope[u] = notYet /\ u # v
      /\ \A i \in DOMAIN open' : Keeps(i)
  <2>1. CASE Declaration(v)
    BY <1>1, <1>5, <2>1 DEF Declaration, TypesOK, Keeps
  <2>2. CASE Mutation(v)
    BY <1>1, <2>2, MutatedFacts DEF Mutation, TypesOK, Declared, notYet
  <2> QED BY <2>1, <2>2
<1>7. BasicInv'
  BY <1>1, <1>2, <1>3, <1>6, BasicStep DEF TypesOK, Instruction
<1> QED BY <1>4, <1>7

\* Operands are declared, and where the execution is they have a value.
LEMMA UsableFacts ==
    ASSUME BasicInv, NEW w \in Vars, Usable(w)
    PROVE  /\ Declared(w) /\ scope[w] # notYet /\ value[w] \in Fits(w)
           /\ executing => value[w] # junk
           /\ Right /\ executing => value[w] = Operand(p, w)
           /\ w \notin Pointers /\ executing => value[w] \in Number
           /\ w \notin Pointers /\ valueKnown(p, w) => p.precompute[w].value \in Number
           /\ w \in Pointers /\ executing => value[w] \in Addressed
BY DEF BasicInv, TypesOK, Usable, Declared, notYet, Right, SameAsIR, Agrees, Operand, valueKnown,
       Fits

LEMMA DeclareFacts ==
    ASSUME BasicInv, NEW v \in Vars, NEW way \in Ways, Declare(v, way)
    PROVE  /\ scope[v] = notYet /\ p.precompute[v] = unknown /\ ~ CountingOn
           /\ scope' = [scope EXCEPT ![v] = depth] /\ open' = open
           /\ executing' = executing /\ stopped' = stopped
           /\ way \in Declares[v] /\ (v \in Pointers => way \in {"copy", "address"})
           /\ p \in State /\ value \in [Vars -> Content]
           /\ \A u \in Vars : value[u] \in Fits(u)
BY ProgramAssumption DEF Declare, Statement, BasicInv, FreshUnknown, TypesOK

LEMMA DeclareImmediateDoes ==
    ASSUME BasicInv, NEW v \in Vars, NEW x \in Immediates, DeclareImmediate(v, x)
    PROVE  Declaration(v)
           /\ p'.precompute[v] = [value |-> x, precomputedOnce |-> TRUE]
<1>1. Declare(v, "immediate") /\ p' = genAssignImm(p, v, x) /\ Set(v, x) /\ x \in Number
  BY NumbersAssumption DEF DeclareImmediate
<1>2. /\ scope[v] = notYet /\ p.precompute[v] = unknown /\ ~ CountingOn /\ v \notin Pointers
      /\ scope' = [scope EXCEPT ![v] = depth] /\ open' = open
      /\ executing' = executing /\ stopped' = stopped
      /\ p \in State /\ value \in [Vars -> Content]
      /\ \A u \in Vars : value[u] \in Fits(u)
  BY <1>1, DeclareFacts DEF Ways
<1>3. /\ Touches(p, p', v)
      /\ executing => Operand(p', v) = x
      /\ p'.precompute[v] = [value |-> x, precomputedOnce |-> TRUE]
  BY <1>1, <1>2, ImmediateFacts DEF unknown
<1>4. x \in Fits(v)
  BY <1>1, <1>2 DEF Fits
<1>5. /\ value' \in [Vars -> Content] /\ \A u \in Vars : value'[u] \in Fits(u)
      /\ \A u \in Vars \ {v} : value'[u] = value[u]
      /\ executing => value'[v] = x
      /\ ~ executing => value' = value
  BY <1>1, <1>2, <1>4, SetFacts
<1>6. Instruction(v)
  BY <1>2, <1>3, <1>4, <1>5 DEF Instruction, GetsValue
<1> QED BY <1>2, <1>3, <1>6 DEF Declaration

LEMMA DeclareCopyDoes ==
    ASSUME BasicInv, NEW v \in Vars, NEW w \in Vars, DeclareCopy(v, w)
    PROVE  Declaration(v)
           /\ value'[v] \in {value[v], value[w]}
           /\ p'.precompute[v] \in {p.precompute[v], givenUp, p.precompute[w]}
<1>1. /\ Declare(v, "copy") /\ Usable(w) /\ (v \in Pointers <=> w \in Pointers)
      /\ p' = assign(p, v, w) /\ Set(v, value[w])
  BY DEF DeclareCopy
<1>2. /\ scope[v] = notYet /\ p.precompute[v] = unknown /\ ~ CountingOn
      /\ scope' = [scope EXCEPT ![v] = depth] /\ open' = open
      /\ executing' = executing /\ stopped' = stopped
      /\ p \in State /\ value \in [Vars -> Content]
      /\ \A u \in Vars : value[u] \in Fits(u)
  BY <1>1, DeclareFacts DEF Ways
<1>3. v # w /\ (Right /\ executing => value[w] = Operand(p, w))
  BY <1>1, <1>2, UsableFacts
<1>4. Fits(v) = Fits(w)
  BY <1>1 DEF Fits
<1>5. /\ Touches(p, p', v)
      /\ executing => Operand(p', v) = Operand(p, w)
      /\ \/ p'.precompute[v] = p.precompute[v]
         \/ p'.precompute[v] = givenUp
         \/ p'.precompute[v] = p.precompute[w]
  BY <1>1, <1>2, <1>3, AssignFacts
<1>6. p'.precompute[v].value \in Fits(v)
  BY <1>4, <1>5, FitsContent DEF BasicInv, TypesOK, givenUp
<1>7. /\ value' \in [Vars -> Content] /\ \A u \in Vars : value'[u] \in Fits(u)
      /\ \A u \in Vars \ {v} : value'[u] = value[u]
      /\ executing => value'[v] = value[w]
      /\ ~ executing => value' = value
  BY <1>1, <1>2, <1>4, SetFacts
<1>8. Instruction(v)
  BY <1>2, <1>3, <1>5, <1>6, <1>7 DEF Instruction, GetsValue
<1>9. value'[v] \in {value[v], value[w]}
  BY <1>7
<1> QED BY <1>2, <1>5, <1>8, <1>9 DEF Declaration

LEMMA DeclareCompareDoes ==
    ASSUME BasicInv, NEW v \in Vars, NEW l \in Vars, NEW r \in Vars, DeclareCompare(v, l, r)
    PROVE  Declaration(v)
<1> DEFINE x == Apply("Lesser", Operand(p, l), Operand(p, r))
           y == Apply("Lesser", value[l], value[r])
<1>1. /\ Declare(v, "compare") /\ Usable(l) /\ Usable(r) /\ l \notin Pointers /\ r \notin Pointers
      /\ p' = compare(p, v, l, r) /\ Set(v, y)
  BY DEF DeclareCompare, UsableNumber
<1>2. /\ scope[v] = notYet /\ p.precompute[v] = unknown /\ ~ CountingOn /\ v \notin Pointers
      /\ scope' = [scope EXCEPT ![v] = depth] /\ open' = open
      /\ executing' = executing /\ stopped' = stopped
      /\ p \in State /\ value \in [Vars -> Content]
      /\ \A u \in Vars : value[u] \in Fits(u)
  BY <1>1, DeclareFacts DEF Ways
<1>3. \A w \in {l, r} :
         /\ scope[w] # notYet /\ (executing => value[w] \in Number)
         /\ Right /\ executing => value[w] = Operand(p, w)
  BY <1>1, UsableFacts
<1>4. v # l /\ v # r /\ x \in Fits(v) /\ y \in Fits(v)
  <2>1. x \in Number \cup {junk} /\ y \in Number \cup {junk}
    BY ApplyFits
  <2> HIDE DEF x, y
  <2> QED BY <1>2, <1>3, <2>1 DEF Fits
<1>5. Right /\ executing => x = y
  BY <1>3
<1>6. executing => y \in Number /\ y # junk
  BY <1>3, ApplyFits, Contents
<1>7. /\ Touches(p, p', v)
      /\ p'.precompute[v] = unknown \/ p'.precompute[v] = [unknown EXCEPT !.value = x]
      /\ executing /\ (valueKnown(p, l) /\ valueKnown(p, r) => x # junk) => Operand(p', v) = x
  BY <1>1, <1>2, <1>4, CompareFacts
<1> HIDE DEF x, y
<1>8. p'.precompute[v].value \in Fits(v)
  BY <1>4, <1>7, FitsContent DEF unknown
<1>9. /\ value' \in [Vars -> Content] /\ \A u \in Vars : value'[u] \in Fits(u)
      /\ \A u \in Vars \ {v} : value'[u] = value[u]
      /\ executing => value'[v] = y
      /\ ~ executing => value' = value
  BY <1>1, <1>2, <1>4, SetFacts
<1>10. Instruction(v)
  BY <1>2, <1>5, <1>6, <1>7, <1>8, <1>9 DEF Instruction, GetsValue
<1> QED BY <1>2, <1>10 DEF Declaration

LEMMA DeclareAtRuntimeDoes ==
    ASSUME BasicInv, NEW v \in Vars, NEW x \in Number, DeclareAtRuntime(v, x)
    PROVE  Declaration(v) /\ p'.precompute = p.precompute
<1>1. Declare(v, "runtime") /\ p' = Emit(p, v, x) /\ Set(v, x)
  BY DEF DeclareAtRuntime
<1>2. /\ scope[v] = notYet /\ p.precompute[v] = unknown /\ ~ CountingOn /\ v \notin Pointers
      /\ scope' = [scope EXCEPT ![v] = depth] /\ open' = open
      /\ executing' = executing /\ stopped' = stopped
      /\ p \in State /\ value \in [Vars -> Content]
      /\ \A u \in Vars : value[u] \in Fits(u)
  BY <1>1, DeclareFacts DEF Ways
<1>3. x \in Fits(v) /\ x \in Content
  BY <1>2 DEF Fits, Content
<1>4. /\ p' \in State /\ p'.precompute = p.precompute /\ p'.panicked = p.panicked
      /\ ~ executing => p'.stored = p.stored
      /\ \A u \in Vars \ {v} : p'.stored[u] = p.stored[u]
      /\ executing => p'.stored[v] = x
  BY <1>1, <1>2, <1>3, EmitFacts
<1>5. Touches(p, p', v) /\ (executing => Operand(p', v) = x)
  BY <1>2, <1>4 DEF Touches, Operand, valueKnown, unknown, givenUp
<1>6. p'.precompute[v].value \in Fits(v)
  BY <1>2, <1>4, FitsContent DEF unknown
<1>7. /\ value' \in [Vars -> Content] /\ \A u \in Vars : value'[u] \in Fits(u)
      /\ \A u \in Vars \ {v} : value'[u] = value[u]
      /\ executing => value'[v] = x
      /\ ~ executing => value' = value
  BY <1>1, <1>2, <1>3, SetFacts
<1>8. Instruction(v)
  BY <1>2, <1>5, <1>6, <1>7 DEF Instruction, GetsValue
<1> QED BY <1>2, <1>4, <1>8 DEF Declaration

LEMMA IndirectLoadDoes ==
    ASSUME BasicInv, NEW v \in Vars, NEW w \in Vars, IndirectLoad(v, w)
    PROVE  Declaration(v) /\ p'.precompute[v] = givenUp
<1> DEFINE x == IF executing THEN value[value[w]] ELSE junk
           address == Operand(p, w)
<1>1. /\ Declare(v, "load") /\ w \in Pointers /\ Usable(w)
      /\ p' = genIndirectLoad(p, v, w) /\ Set(v, x)
  BY DEF IndirectLoad
<1>2. /\ scope[v] = notYet /\ p.precompute[v] = unknown /\ ~ CountingOn /\ v \notin Pointers
      /\ scope' = [scope EXCEPT ![v] = depth] /\ open' = open
      /\ executing' = executing /\ stopped' = stopped
      /\ p \in State /\ value \in [Vars -> Content]
      /\ \A u \in Vars : value[u] \in Fits(u)
  BY <1>1, DeclareFacts DEF Ways
<1>3. executing => value[w] \in Addressed
  BY <1>1, UsableFacts
<1>4. Addressed \subseteq Vars \ Pointers
  BY ProgramAssumption
<1>5. executing => x = value[value[w]] /\ value[w] \in Vars \ Pointers
  BY <1>3, <1>4
<1>6. executing => x \in Fits(v)
  BY <1>2, <1>5 DEF Fits
<1>7. /\ Touches(p, p', v) /\ p'.precompute[v] = givenUp
      /\ executing => Operand(p', v) = IF address \in Vars THEN p.stored[address] ELSE junk
  BY <1>1, <1>2, LoadFacts
<1>8. p'.precompute[v].value \in Fits(v)
  BY <1>7, FitsContent DEF givenUp
<1> HIDE DEF x, address
<1>9. /\ value' \in [Vars -> Content] /\ \A u \in Vars : value'[u] \in Fits(u)
      /\ \A u \in Vars \ {v} : value'[u] = value[u]
      /\ executing => value'[v] = x
      /\ ~ executing => value' = value
  BY <1>1, <1>2, <1>6, SetFacts
<1>10. ASSUME Right, executing, x # junk PROVE x = Operand(p', v)
  <2>1. address = value[w] /\ address \in Vars
    BY <1>1, <1>5, <1>10, UsableFacts DEF address
  <2>2. Pinned(address)
    BY <1>10, <2>1 DEF Right, PointeesPinned
  <2>3. Declared(address) /\ ~ valueKnown(p, address)
    BY <2>2 DEF Pinned, Declared, valueKnown, givenUp
  <2>4. value[address] # junk => value[address] = p.stored[address]
    BY <1>10, <2>1, <2>3 DEF Right, SameAsIR, Agrees, valueKnown
  <2> QED BY <1>5, <1>7, <1>10, <2>1, <2>4
<1>11. GetsValue(v)
  BY <1>9, <1>10 DEF GetsValue
<1>12. Instruction(v)
  BY <1>2, <1>7, <1>8, <1>9, <1>11 DEF Instruction
<1> QED BY <1>2, <1>7, <1>12 DEF Declaration

LEMMA MutateFacts ==
    ASSUME BasicInv, NEW v \in Vars, Mutate(v)
    PROVE  /\ Usable(v) /\ Declared(v) /\ v \in Reassigned /\ Listed(v) /\ ~ Within("logical")
           /\ scope' = scope /\ open' = Mutated(v)
           /\ executing' = executing /\ stopped' = stopped
           /\ p \in State /\ value \in [Vars -> Content]
           /\ \A u \in Vars : value[u] \in Fits(u)
BY DEF Mutate, Assignable, Usable, BasicInv, TypesOK

LEMMA AssignDoes ==
    ASSUME BasicInv, NEW v \in Vars, NEW w \in Vars, Assign(v, w)
    PROVE  Mutation(v) /\ v \in Reassigned /\ Listed(v) /\ ~ Within("logical")
           /\ \/ p'.precompute[v] = p.precompute[v]
              \/ p'.precompute[v] = givenUp
              \/ /\ valueKnown(p, w) /\ p'.precompute[v] = p.precompute[w]
                 /\ ComparesAssigned \/ p.precompute[w].precomputedOnce
<1>1. /\ Mutate(v) /\ v # w /\ Usable(w) /\ (v \in Pointers <=> w \in Pointers)
      /\ ComparesAssigned \/ ~ valueKnown(p, w) \/ p.precompute[w].precomputedOnce
      /\ p' = assign(p, v, w) /\ Set(v, value[w])
  BY DEF Assign
<1>2. /\ Usable(v) /\ Declared(v) /\ v \in Reassigned /\ Listed(v) /\ ~ Within("logical")
      /\ scope' = scope /\ open' = Mutated(v)
      /\ executing' = executing /\ stopped' = stopped
      /\ p \in State /\ value \in [Vars -> Content]
      /\ \A u \in Vars : value[u] \in Fits(u)
  BY <1>1, MutateFacts
<1>3. Right /\ executing => value[w] = Operand(p, w)
  BY <1>1, UsableFacts
<1>4. Fits(v) = Fits(w)
  BY <1>1 DEF Fits
<1>5. /\ Touches(p, p', v)
      /\ executing => Operand(p', v) = Operand(p, w)
      /\ \/ p'.precompute[v] = p.precompute[v]
         \/ p'.precompute[v] = givenUp
         \/ valueKnown(p, w) /\ p'.precompute[v] = p.precompute[w]
  BY <1>1, <1>2, AssignFacts
<1>6. p'.precompute[v].value \in Fits(v)
  BY <1>4, <1>5, FitsContent DEF BasicInv, TypesOK, givenUp
<1>7. /\ value' \in [Vars -> Content] /\ \A u \in Vars : value'[u] \in Fits(u)
      /\ \A u \in Vars \ {v} : value'[u] = value[u]
      /\ executing => value'[v] = value[w]
      /\ ~ executing => value' = value
  BY <1>1, <1>2, <1>4, SetFacts
<1>8. Instruction(v)
  BY <1>2, <1>3, <1>5, <1>6, <1>7 DEF Instruction, GetsValue
<1> QED BY <1>1, <1>2, <1>5, <1>8 DEF Mutation

\* Arithmetic gives a variable of a number's type a number, and the same one at
\* compile time as in the execution.
LEMMA UpdateDoes ==
    ASSUME BasicInv, NEW v \in Vars, NEW w \in Vars, NEW op \in {"Add", "And", "Or"},
           Usable(v), Usable(w), v \notin Pointers, w \notin Pointers
    PROVE  LET r == update(p, op, v, w)
               y == Apply(op, value[v], value[w])
           IN
           /\ Touches(p, r, v) /\ r.precompute[v].value \in Fits(v)
           /\ \/ r.precompute[v] = p.precompute[v]
              \/ r.precompute[v] = givenUp
              \/ /\ valueKnown(p, v) /\ valueKnown(p, w)
                 /\ r.precompute[v].precomputedOnce = p.precompute[v].precomputedOnce
           /\ y \in Fits(v) /\ (executing => y # junk)
           /\ Right /\ executing => Operand(r, v) = y
<1> DEFINE r == update(p, op, v, w)
           x == Apply(op, p.precompute[v].value, p.precompute[w].value)
           y == Apply(op, value[v], value[w])
<1>1. p \in State
  BY DEF BasicInv, TypesOK
<1>2. /\ Touches(p, r, v)
      /\ \/ r.precompute[v] = p.precompute[v]
         \/ r.precompute[v] = givenUp
         \/ /\ valueKnown(p, v) /\ valueKnown(p, w) /\ r.precompute[v].value = x
            /\ r.precompute[v].precomputedOnce = p.precompute[v].precomputedOnce
      /\ executing /\ (valueKnown(p, v) /\ valueKnown(p, w) => x # junk)
            => Operand(r, v) = Apply(op, Operand(p, v), Operand(p, w))
  BY <1>1, UpdateFacts
<1>3. /\ executing => value[v] \in Number /\ value[w] \in Number
      /\ Right /\ executing => value[v] = Operand(p, v) /\ value[w] = Operand(p, w)
      /\ valueKnown(p, v) => p.precompute[v].value \in Number
      /\ valueKnown(p, w) => p.precompute[w].value \in Number
  BY UsableFacts
<1>4. /\ y \in Number \cup {junk} /\ (executing => y # junk)
      /\ x \in Number \cup {junk} /\ (valueKnown(p, v) /\ valueKnown(p, w) => x # junk)
  BY <1>3, ApplyFits, Contents
<1>5. Right /\ executing => Operand(r, v) = y
  BY <1>2, <1>3, <1>4
<1> HIDE DEF x, y, r
<1>6. x \in Fits(v) /\ y \in Fits(v) /\ p.precompute[v] \in Info
      /\ p.precompute[v].value \in Fits(v) /\ junk \in Fits(v)
  BY <1>1, <1>4, OperandContent, FitsContent DEF Fits, BasicInv, TypesOK
<1>7. r.precompute[v].value \in Fits(v)
  BY <1>2, <1>6 DEF givenUp
<1> QED BY <1>2, <1>4, <1>5, <1>6, <1>7 DEF r, y

LEMMA AddDoes ==
    ASSUME BasicInv, NEW v \in Vars, NEW w \in Vars, Add(v, w)
    PROVE  Mutation(v) /\ v \in Reassigned /\ Listed(v) /\ ~ Within("logical")
           /\ \/ p'.precompute[v] = p.precompute[v]
              \/ p'.precompute[v] = givenUp
              \/ /\ valueKnown(p, v)
                 /\ p'.precompute[v].precomputedOnce = p.precompute[v].precomputedOnce
<1> DEFINE y == Apply("Add", value[v], value[w])
<1>1. /\ Mutate(v) /\ v \notin Pointers /\ Usable(w) /\ w \notin Pointers
      /\ p' = update(p, "Add", v, w) /\ Set(v, y)
  BY DEF Add, UsableNumber
<1>2. /\ Usable(v) /\ Declared(v) /\ v \in Reassigned /\ Listed(v) /\ ~ Within("logical")
      /\ scope' = scope /\ open' = Mutated(v)
      /\ executing' = executing /\ stopped' = stopped
      /\ p \in State /\ value \in [Vars -> Content]
      /\ \A u \in Vars : value[u] \in Fits(u)
  BY <1>1, MutateFacts
<1>3. /\ Touches(p, p', v) /\ p'.precompute[v].value \in Fits(v)
      /\ \/ p'.precompute[v] = p.precompute[v]
         \/ p'.precompute[v] = givenUp
         \/ /\ valueKnown(p, v) /\ valueKnown(p, w)
            /\ p'.precompute[v].precomputedOnce = p.precompute[v].precomputedOnce
      /\ y \in Fits(v) /\ (executing => y # junk)
      /\ Right /\ executing => Operand(p', v) = y
  BY <1>1, <1>2, UpdateDoes
<1> HIDE DEF y
<1>4. /\ value' \in [Vars -> Content] /\ \A u \in Vars : value'[u] \in Fits(u)
      /\ \A u \in Vars \ {v} : value'[u] = value[u]
      /\ executing => value'[v] = y
      /\ ~ executing => value' = value
  BY <1>1, <1>2, <1>3, SetFacts
<1>5. Instruction(v)
  BY <1>2, <1>3, <1>4 DEF Instruction, GetsValue
<1> QED BY <1>2, <1>3, <1>5 DEF Mutation

LEMMA IncrementDoes ==
    ASSUME BasicInv, NEW v \in Vars, Increment(v)
    PROVE  Mutation(v) /\ CountingOn /\ v \in innermost.todo \ Pointers /\ scope[v] = depth - 1
           /\ \/ p'.precompute[v] = p.precompute[v]
              \/ /\ valueKnown(p, v)
                 /\ p'.precompute[v].precomputedOnce = p.precompute[v].precomputedOnce
<1> DEFINE y == Apply("Add", value[v], 1)
           x == Apply("Add", p.precompute[v].value, 1)
<1>1. /\ CountingOn /\ Usable(v) /\ v \in innermost.todo \ Pointers /\ scope[v] = depth - 1
      /\ p' = increment(p, v) /\ Set(v, y) /\ open' = Mutated(v)
      /\ executing' = executing /\ scope' = scope /\ stopped' = stopped
  BY DEF Increment
<1>2. /\ p \in State /\ value \in [Vars -> Content]
      /\ \A u \in Vars : value[u] \in Fits(u)
  BY DEF BasicInv, TypesOK
<1>3. /\ Declared(v) /\ (executing => value[v] \in Number)
      /\ Right /\ executing => value[v] = Operand(p, v)
      /\ valueKnown(p, v) => p.precompute[v].value \in Number
  BY <1>1, UsableFacts
<1>4. 1 \in Number
  BY NumbersAssumption DEF Number
<1>5. /\ y \in Number \cup {junk} /\ (executing => y # junk)
      /\ x \in Number \cup {junk} /\ (valueKnown(p, v) => x # junk)
  BY <1>3, <1>4, ApplyFits, Contents
<1>6. /\ Touches(p, p', v)
      /\ \/ p'.precompute[v] = p.precompute[v]
         \/ /\ valueKnown(p, v) /\ p'.precompute[v].value = x
            /\ p'.precompute[v].precomputedOnce = p.precompute[v].precomputedOnce
      /\ executing /\ ~ valueKnown(p, v) => Operand(p', v) = Apply("Add", Operand(p, v), 1)
  BY <1>1, <1>2, IncrementFacts
<1>7. ASSUME Right, executing PROVE Operand(p', v) = y
  <2>1. CASE ~ valueKnown(p, v)
    BY <1>3, <1>6, <1>7, <2>1
  <2>2. CASE valueKnown(p, v)
    <3>1. p' = [p EXCEPT !.precompute[v].value = x]
      BY <1>1, <2>2 DEF increment
    <3>2. p.precompute[v].value = value[v]
      BY <1>3, <1>7, <2>2 DEF Operand
    <3>3. x = y /\ x # junk
      BY <1>5, <2>2, <3>2
    <3> HIDE DEF x
    <3>4. p'.precompute[v].value = x
      BY <1>2, <3>1 DEF State, Info
    <3> QED BY <3>3, <3>4 DEF Operand, valueKnown
  <2> QED BY <2>1, <2>2
<1> HIDE DEF x, y
<1>8. x \in Fits(v) /\ y \in Fits(v) /\ p.precompute[v] \in Info /\ p.precompute[v].value \in Fits(v)
  BY <1>1, <1>2, <1>5, OperandContent DEF Fits, BasicInv, TypesOK
<1>9. /\ p'.precompute[v].value \in Fits(v)
      /\ \/ p'.precompute[v] = p.precompute[v]
         \/ /\ valueKnown(p, v)
            /\ p'.precompute[v].precomputedOnce = p.precompute[v].precomputedOnce
  BY <1>6, <1>8
<1>10. /\ value' \in [Vars -> Content] /\ \A u \in Vars : value'[u] \in Fits(u)
       /\ \A u \in Vars \ {v} : value'[u] = value[u]
       /\ executing => value'[v] = y
       /\ ~ executing => value' = value
  BY <1>1, <1>2, <1>8, SetFacts
<1>11. executing' = executing /\ stopped' = stopped /\ GetsValue(v)
  BY <1>1, <1>7, <1>10 DEF GetsValue
<1>12. Touches(p, p', v) /\ Instruction(v)
  BY <1>6, <1>9, <1>10, <1>11 DEF Instruction
<1> QED BY <1>1, <1>3, <1>9, <1>12 DEF Mutation

-----------------------------------------------------------------------------
(* What the other steps do.                                                *)

LEMMA TakeAddressDoes ==
    ASSUME BasicInv, NEW v \in Vars, NEW w \in Vars, TakeAddress(v, w)
    PROVE  /\ v \in Pointers /\ w \in Addressed /\ v # w
           /\ scope[v] = notYet /\ p.precompute[v] = unknown /\ ~ CountingOn
           /\ Usable(w) /\ scope[w] = 0
           /\ depth > 0 => w \in AddressedInside
           /\ p' \in State /\ p'.panicked = p.panicked
           /\ \A u \in Vars \ {w} : p'.stored[u] = p.stored[u]
           /\ ~ executing => p'.stored = p.stored
           /\ executing => Operand(p', w) = Operand(p, w)
           /\ p'.precompute[w] = givenUp
           /\ p'.precompute[v] = [value |-> w, precomputedOnce |-> TRUE]
           /\ \A u \in Vars \ {v, w} : p'.precompute[u] = p.precompute[u]
           /\ scope' = [scope EXCEPT ![v] = depth] /\ open' = open
           /\ executing' = executing /\ stopped' = stopped
           /\ w \in Fits(v) /\ Set(v, w)
<1>1. /\ Declare(v, "address") /\ v \in Pointers /\ w \in Addressed /\ Usable(w) /\ scope[w] = 0
      /\ depth > 0 => w \in AddressedInside
      /\ p' = genTakeAddress(p, v, w) /\ Set(v, w)
  BY DEF TakeAddress
<1>2. /\ scope[v] = notYet /\ p.precompute[v] = unknown /\ ~ CountingOn /\ p \in State
      /\ scope' = [scope EXCEPT ![v] = depth] /\ open' = open
      /\ executing' = executing /\ stopped' = stopped
  BY <1>1, DeclareFacts DEF Ways
<1>3. v # w /\ w \in Fits(v)
  BY <1>1, ProgramAssumption DEF Fits
<1>4. /\ p' \in State /\ p'.panicked = p.panicked
      /\ \A u \in Vars \ {w} : p'.stored[u] = p.stored[u]
      /\ ~ executing => p'.stored = p.stored
      /\ executing => Operand(p', w) = Operand(p, w)
      /\ p'.precompute[w] = givenUp
      /\ p'.precompute[v] = [value |-> w, precomputedOnce |-> TRUE]
      /\ \A u \in Vars \ {w, v} : p'.precompute[u] = p.precompute[u]
  BY <1>1, <1>2, <1>3, TakeAddressFacts
<1> QED BY <1>1, <1>2, <1>3, <1>4

LEMMA TakeAddressBasic ==
    ASSUME BasicInv, NEW v \in Vars, NEW w \in Vars, TakeAddress(v, w)
    PROVE  BasicInv' /\ StayGivenUp
<1>1. /\ v # w /\ scope[v] = notYet /\ p.precompute[v] = unknown
      /\ Usable(w) /\ p' \in State /\ p'.panicked = p.panicked
      /\ p'.precompute[w] = givenUp
      /\ p'.precompute[v] = [value |-> w, precomputedOnce |-> TRUE]
      /\ \A u \in Vars \ {v, w} : p'.precompute[u] = p.precompute[u]
      /\ scope' = [scope EXCEPT ![v] = depth] /\ open' = open
      /\ executing' = executing /\ stopped' = stopped
      /\ w \in Fits(v) /\ Set(v, w)
  BY TakeAddressDoes
<1>2. StayGivenUp
  BY <1>1 DEF StayGivenUp, unknown, givenUp
<1>3. ASSUME NEW u \in Vars PROVE p'.precompute[u].value \in Fits(u)
  <2>1. p.precompute[u].value \in Fits(u) /\ junk \in Fits(u)
    BY FitsContent DEF BasicInv, TypesOK
  <2>2. p'.precompute[w].value = junk /\ p'.precompute[v].value = w
    BY <1>1 DEF givenUp
  <2>3. CASE u = w
    BY <2>1, <2>2, <2>3
  <2>4. CASE u = v
    BY <1>1, <2>2, <2>4
  <2>5. CASE u \notin {v, w}
    BY <1>1, <2>1, <2>5
  <2> QED BY <2>3, <2>4, <2>5
<1>4. depth \in Nat /\ depth # notYet /\ scope[w] # notYet
  BY <1>1, OpenFacts, UsableFacts DEF BasicInv, TypesOK, notYet
<1>5. \A u \in Vars : scope'[u] = notYet => u # v /\ u # w
  BY <1>1, <1>4 DEF BasicInv, TypesOK
<1>6. BasicInv'
  BY <1>1, <1>3, <1>5, InstructionStep
<1> QED BY <1>2, <1>6

LEMMA IndirectWriteDoes ==
    ASSUME BasicInv, NEW target \in Vars, NEW data \in Vars, IndirectWrite(target, data)
    PROVE  LET a == value[target] IN
           /\ p' \in State /\ p'.precompute = p.precompute /\ p'.panicked = p.panicked
           /\ ~ executing => p'.stored = p.stored /\ value' = value
           /\ executing => /\ a \in Vars \ Pointers /\ value'[a] = value[data]
                           /\ \A u \in Vars \ {a} : value'[u] = value[u]
           /\ Right /\ executing => /\ p'.stored[a] = value[data]
                                    /\ \A u \in Vars \ {a} : p'.stored[u] = p.stored[u]
           /\ value' \in [Vars -> Content] /\ \A u \in Vars : value'[u] \in Fits(u)
           /\ executing' = executing /\ open' = open /\ scope' = scope /\ stopped' = stopped
<1> DEFINE a == value[target]
           at == IF executing THEN a ELSE target
           address == Operand(p, target)
<1>1. /\ target \in Pointers /\ Usable(target) /\ Usable(data) /\ data \notin Pointers
      /\ p' = genIndirectWrite(p, target, data) /\ Set(at, value[data])
      /\ executing' = executing /\ open' = open /\ scope' = scope /\ stopped' = stopped
  BY DEF IndirectWrite, UsableNumber
<1>2. p \in State /\ value \in [Vars -> Content] /\ \A u \in Vars : value[u] \in Fits(u)
  BY DEF BasicInv, TypesOK
<1>3. /\ executing => a \in Addressed /\ value[data] \in Number
      /\ Right /\ executing => a = address /\ value[data] = Operand(p, data)
  BY <1>1, UsableFacts
<1>4. executing => a \in Vars \ Pointers
  BY <1>3, ProgramAssumption
<1>5. at \in Vars /\ (executing => value[data] \in Fits(at))
  BY <1>3, <1>4 DEF Fits
<1> HIDE DEF a
<1>6. /\ value' \in [Vars -> Content] /\ \A u \in Vars : value'[u] \in Fits(u)
      /\ \A u \in Vars \ {at} : value'[u] = value[u]
      /\ executing => value'[at] = value[data]
      /\ ~ executing => value' = value
  BY <1>1, <1>2, <1>5, SetFacts
<1>7. /\ p' \in State /\ p'.precompute = p.precompute /\ p'.panicked = p.panicked
      /\ ~ executing \/ address \notin Vars => p'.stored = p.stored
      /\ \A u \in Vars \ {address} : p'.stored[u] = p.stored[u]
      /\ executing /\ address \in Vars => p'.stored[address] = Operand(p, data)
  BY <1>1, <1>2, WriteFacts
<1>8. Right /\ executing => /\ p'.stored[a] = value[data]
                            /\ \A u \in Vars \ {a} : p'.stored[u] = p.stored[u]
  BY <1>3, <1>4, <1>7
<1>9. executing => /\ a \in Vars \ Pointers /\ value'[a] = value[data]
                   /\ \A u \in Vars \ {a} : value'[u] = value[u]
  BY <1>4, <1>6
<1>10. ~ executing => p'.stored = p.stored /\ value' = value
  BY <1>6, <1>7
<1> QED BY <1>1, <1>6, <1>7, <1>8, <1>9, <1>10 DEF a

LEMMA IndirectWriteBasic ==
    ASSUME BasicInv, NEW target \in Vars, NEW data \in Vars, IndirectWrite(target, data)
    PROVE  BasicInv' /\ StayGivenUp
<1>1. /\ p' \in State /\ p'.precompute = p.precompute /\ p'.panicked = p.panicked
      /\ value' \in [Vars -> Content] /\ \A u \in Vars : value'[u] \in Fits(u)
      /\ executing' = executing /\ open' = open /\ scope' = scope /\ stopped' = stopped
  BY IndirectWriteDoes
<1>2. \A i \in DOMAIN open' : Keeps(i)
  BY <1>1 DEF Keeps
<1>3. BasicInv'
  BY <1>1, <1>2, BasicStep DEF BasicInv, TypesOK
<1> QED BY <1>1, <1>3 DEF StayGivenUp

\* The variables of a block end with it.
LEMMA CloseFacts ==
    ASSUME BasicInv, CloseScope
    PROVE  /\ scope' \in [Vars -> Int] /\ value' \in [Vars -> Content]
           /\ \A v \in Vars : scope'[v] = IF scope[v] = depth THEN gone ELSE scope[v]
           /\ \A v \in Vars : value'[v] = IF scope[v] = depth THEN junk ELSE value[v]
           /\ \A v \in Vars : value'[v] \in Fits(v)
           /\ \A v \in Vars : scope'[v] = notYet <=> scope[v] = notYet
<1>1. /\ scope \in [Vars -> Int] /\ value \in [Vars -> Content] /\ depth \in Nat
      /\ \A v \in Vars : value[v] \in Fits(v)
  BY OpenFacts DEF BasicInv, TypesOK
<1>2. scope' \in [Vars -> Int]
      /\ \A v \in Vars : scope'[v] = IF scope[v] = depth THEN gone ELSE scope[v]
  BY <1>1 DEF CloseScope, gone
<1>3. value' \in [Vars -> Content]
      /\ \A v \in Vars : value'[v] = IF scope[v] = depth THEN junk ELSE value[v]
  BY <1>1, FitsContent DEF CloseScope
<1> QED BY <1>1, <1>2, <1>3, FitsContent DEF gone, notYet

LEMMA CombineDoes ==
    ASSUME BasicInv, NEW v \in Vars, NEW w \in Vars, Combine(v, w)
    PROVE  LET y == Apply(innermost.entry, value[v], value[w]) IN
           /\ Within("logical") /\ v \in innermost.list /\ Declared(v) /\ Declared(w)
           /\ v \notin Pointers
           /\ Touches(p, p', v) /\ p'.precompute[v].value \in Fits(v)
           /\ p.precompute[v].value = junk => p'.precompute[v].value = junk
           /\ Right /\ executing => Operand(p', v) = y
           /\ y \in Fits(v) /\ (executing => y # junk)
           /\ scope' \in [Vars -> Int] /\ value' \in [Vars -> Content]
           /\ \A u \in Vars : scope'[u] = IF scope[u] = depth THEN gone ELSE scope[u]
           /\ \A u \in Vars : value'[u] = IF scope[u] = depth THEN junk
                                          ELSE IF u = v /\ executing THEN y ELSE value[u]
           /\ executing' = (executing \/ innermost.left) /\ Pop /\ stopped' = stopped
<1> DEFINE y == Apply(innermost.entry, value[v], value[w])
<1>1. /\ Within("logical") /\ v \in innermost.list /\ Usable(v) /\ Usable(w) /\ w \notin Pointers
      /\ p' = update(p, innermost.entry, v, w)
      /\ executing' = (executing \/ innermost.left) /\ Pop /\ stopped' = stopped
  BY DEF Combine, UsableNumber
<1>2. innermost.entry \in {"And", "Or"} /\ v \notin Pointers
  <2>1. depth \in DOMAIN open /\ innermost.kind = "logical"
    BY <1>1, OpenFacts DEF BasicInv, TypesOK, Within
  <2> QED BY <1>1, <2>1 DEF BasicInv, FreshUnknown, WellFormed, innermost
<1>3. /\ Touches(p, p', v) /\ p'.precompute[v].value \in Fits(v)
      /\ p.precompute[v].value = junk => p'.precompute[v].value = junk
      /\ y \in Fits(v) /\ (executing => y # junk)
      /\ Right /\ executing => Operand(p', v) = y
  BY <1>1, <1>2, UpdateDoes DEF givenUp, valueKnown
<1>4. scope \in [Vars -> Int] /\ value \in [Vars -> Content]
  BY DEF BasicInv, TypesOK
<1>5. y \in Content /\ junk \in Content
  BY <1>3, FitsContent DEF Content
<1>6. /\ scope' = [u \in Vars |-> IF scope[u] = depth THEN gone ELSE scope[u]]
      /\ value' = [u \in Vars |-> IF scope[u] = depth THEN junk
                                  ELSE IF u = v /\ executing THEN y ELSE value[u]]
  BY DEF Combine
<1> HIDE DEF y
<1>7. scope' \in [Vars -> Int] /\ value' \in [Vars -> Content]
  BY <1>4, <1>5, <1>6 DEF gone
<1> QED BY <1>1, <1>2, <1>3, <1>6, <1>7, UsableFacts DEF y

LEMMA CombineBasic ==
    ASSUME BasicInv, NEW v \in Vars, NEW w \in Vars, Combine(v, w)
    PROVE  BasicInv' /\ StayGivenUp
<1> DEFINE y == Apply(innermost.entry, value[v], value[w])
<1>1. /\ Within("logical") /\ Declared(v)
      /\ Touches(p, p', v) /\ p'.precompute[v].value \in Fits(v) /\ y \in Fits(v)
      /\ scope' \in [Vars -> Int] /\ value' \in [Vars -> Content]
      /\ \A u \in Vars : scope'[u] = IF scope[u] = depth THEN gone ELSE scope[u]
      /\ \A u \in Vars : value'[u] = IF scope[u] = depth THEN junk
                                     ELSE IF u = v /\ executing THEN y ELSE value[u]
      /\ executing' = (executing \/ innermost.left) /\ Pop /\ stopped' = stopped
  BY CombineDoes
<1> HIDE DEF y
<1>2. TypesOK /\ depth > 0 /\ innermost \in Frames
  BY <1>1, OpenFacts DEF BasicInv, TypesOK, Within
<1>3. /\ p' \in State /\ p'.panicked = p.panicked
      /\ \A u \in Vars \ {v} : p'.precompute[u] = p.precompute[u]
      /\ StayGivenUp
  BY <1>1 DEF Touches, StayGivenUp
<1>4. \A u \in Vars : p'.precompute[u].value \in Fits(u) /\ value'[u] \in Fits(u)
  BY <1>1, <1>2, <1>3, FitsContent DEF TypesOK
<1>5. executing' \in BOOLEAN
  BY <1>1, <1>2 DEF TypesOK, Frames
<1>6. open' \in Seq(Frames) /\ \A i \in DOMAIN open' : Keeps(i)
  BY <1>1, <1>2, PopFacts DEF TypesOK, Keeps
<1>7. \A u \in Vars : scope'[u] = notYet => scope[u] = notYet /\ u # v
  BY <1>1 DEF gone, notYet, Declared
<1>8. BasicInv'
  BY <1>1, <1>2, <1>3, <1>4, <1>5, <1>6, <1>7, BasicStep DEF TypesOK
<1> QED BY <1>3, <1>8

LEMMA IfDoes ==
    ASSUME BasicInv, NEW c \in Vars, NEW list \in SUBSET Reassigned, If(c, list)
    PROVE  LET f == open'[depth + 1] IN
           /\ \A v \in list : v \in Vars /\ Declared(v) /\ Listed(v)
           /\ Usable(c) /\ c \notin Pointers /\ ~ Within("logical") /\ ~ CountingOn
           /\ p' \in State /\ p'.precompute = p.precompute /\ p'.panicked = p.panicked
           /\ \A v \in Vars : p'.stored[v] =
                 IF executing /\ v \in list /\ valueKnown(p, v) THEN Moved(p, v) ELSE p.stored[v]
           /\ executing' = (executing /\ value[c] # 0)
           /\ open' \in Seq(Frames) /\ depth' = depth + 1 /\ DOMAIN open' = 1 .. depth + 1
           /\ \A i \in DOMAIN open : open'[i] = open[i]
           /\ f.kind = "option" /\ f.list = list /\ f.todo = list /\ f.arm = 1
           /\ f.waiting = (executing /\ value[c] = 0) /\ f.left = FALSE
           /\ restored(f) = {v \in list : valueKnown(p, v)}
           /\ f.entry \in Entries /\ \A v \in restored(f) : f.entry[v] = p.precompute[v]
           /\ value' = value /\ scope' = scope /\ stopped' = stopped
<1> DEFINE known == {v \in list : valueKnown(p, v)}
           e == [v \in known |-> p.precompute[v]]
           waits == (executing /\ value[c] = 0)
           f == Frame("option", list, e, waits, FALSE)
<1>1. /\ Usable(c) /\ c \notin Pointers /\ ~ Within("logical") /\ ~ CountingOn
      /\ \A v \in list : Declared(v) /\ v \in Reassigned /\ Listed(v)
      /\ p' = startOptionSelect(p, list)
      /\ executing' = (executing /\ value[c] # 0) /\ Push(f)
      /\ value' = value /\ scope' = scope /\ stopped' = stopped
  BY DEF If, Statement, UsableNumber
<1>2. /\ p \in State /\ open \in Seq(Frames) /\ executing \in BOOLEAN
      /\ list \subseteq Vars /\ depth \in Nat
  BY OpenFacts, ProgramAssumption DEF BasicInv, TypesOK
<1>3. /\ p' \in State /\ p'.precompute = p.precompute /\ p'.panicked = p.panicked
      /\ \A v \in Vars : p'.stored[v] =
            IF executing /\ v \in list /\ valueKnown(p, v) THEN Moved(p, v) ELSE p.stored[v]
  BY <1>1, <1>2, StartFacts
<1>4. e \in Entries /\ DOMAIN e = known /\ \A v \in known : e[v] = p.precompute[v]
  <2>1. known \in SUBSET Vars /\ e \in [known -> Info]
    BY <1>2 DEF State
  <2> QED BY <2>1 DEF Entries
<1>5. waits \in BOOLEAN
  BY <1>2
<1> HIDE DEF e, waits, known
<1>6. /\ f \in Frames /\ f.kind = "option" /\ f.list = list /\ f.todo = list /\ f.arm = 1
      /\ f.waiting = waits /\ f.left = FALSE /\ f.entry = e
  BY <1>2, <1>4, <1>5 DEF Frame, Frames
<1>7. restored(f) = known
  BY <1>4, <1>6 DEF restored
<1> HIDE DEF f
<1>8. /\ open' \in Seq(Frames) /\ depth' = depth + 1 /\ DOMAIN open' = 1 .. depth + 1
      /\ \A i \in DOMAIN open : open'[i] = open[i]
      /\ open'[depth + 1] = f
  BY <1>1, <1>2, <1>6, PushFacts
<1>9. \A v \in restored(f) : f.entry[v] = p.precompute[v]
  BY <1>4, <1>6, <1>7
<1> QED BY <1>1, <1>2, <1>3, <1>4, <1>6, <1>7, <1>8, <1>9 DEF waits, known

LEMMA IfBasic ==
    ASSUME BasicInv, NEW c \in Vars, NEW list \in SUBSET Reassigned, If(c, list)
    PROVE  BasicInv' /\ StayGivenUp
<1> DEFINE f == open'[depth + 1]
<1>1. /\ \A v \in list : v \in Vars /\ Declared(v)
      /\ p' \in State /\ p'.precompute = p.precompute /\ p'.panicked = p.panicked
      /\ executing' = (executing /\ value[c] # 0)
      /\ open' \in Seq(Frames) /\ depth' = depth + 1 /\ DOMAIN open' = 1 .. depth + 1
      /\ \A i \in DOMAIN open : open'[i] = open[i]
      /\ f.kind = "option"
      /\ restored(f) = {v \in list : valueKnown(p, v)}
      /\ f.entry \in Entries /\ \A v \in restored(f) : f.entry[v] = p.precompute[v]
      /\ value' = value /\ scope' = scope /\ stopped' = stopped
  BY IfDoes
<1>2. TypesOK /\ depth \in Nat /\ DOMAIN open = 1 .. depth
  BY OpenFacts DEF BasicInv, TypesOK
<1> HIDE DEF f
<1>3. WellFormed(f)
  BY <1>1, <1>2 DEF WellFormed, Declared, notYet, valueKnown, TypesOK
<1>4. \A i \in DOMAIN open' : Keeps(i) \/ WellFormed(open'[i])
  <2>1. \A i \in DOMAIN open' : i \in DOMAIN open \/ i = depth + 1
    BY <1>1, <1>2
  <2> QED BY <1>1, <1>3, <2>1 DEF Keeps, f
<1>5. executing' \in BOOLEAN
  BY <1>1
<1>6. BasicInv'
  BY <1>1, <1>2, <1>4, <1>5, BasicStep DEF TypesOK
<1> QED BY <1>1, <1>6 DEF StayGivenUp

LEMMA ElseDoes ==
    ASSUME BasicInv, Else
    PROVE  LET f == innermost
               g == open'[depth]
           IN
           /\ depth \in DOMAIN open /\ f.kind = "option" /\ f.arm = 1 /\ f.entry \in Entries
           /\ p' \in State /\ p'.panicked = p.panicked
           /\ \A v \in Vars : p'.precompute[v] =
                 IF v \in restored(f) THEN f.entry[v] ELSE p.precompute[v]
           /\ \A v \in Vars : p'.stored[v] =
                 IF executing /\ v \in restored(f) /\ valueKnown(p, v)
                 THEN Moved(p, v) ELSE p.stored[v]
           /\ executing' = f.waiting /\ CloseScope /\ stopped' = stopped
           /\ open' \in Seq(Frames) /\ depth' = depth /\ DOMAIN open' = DOMAIN open
           /\ \A i \in DOMAIN open : i # depth => open'[i] = open[i]
           /\ g.kind = "option" /\ g.list = f.list /\ g.entry = f.entry /\ g.todo = f.todo
           /\ g.arm = 2 /\ g.waiting = FALSE /\ g.left = executing
           /\ \A i \in DOMAIN open : Keeps(i)
<1> DEFINE f == innermost
           g == [f EXCEPT !.arm = 2, !.waiting = FALSE, !.left = executing]
<1>1. /\ Within("option") /\ f.arm = 1
      /\ p' = genOptionEnd(p, f.entry) /\ executing' = f.waiting
      /\ open' = [open EXCEPT ![depth] = g] /\ CloseScope /\ stopped' = stopped
  BY DEF Else, Top
<1>2. /\ p \in State /\ open \in Seq(Frames) /\ executing \in BOOLEAN
      /\ depth \in DOMAIN open /\ f \in Frames /\ f.kind = "option"
  BY <1>1, OpenFacts DEF BasicInv, TypesOK, Within
<1>3. f.entry \in Entries
  BY <1>2 DEF BasicInv, FreshUnknown, WellFormed, innermost
<1>4. restored(f) = DOMAIN f.entry
  BY <1>2 DEF restored
<1> HIDE DEF f
<1>5. /\ g \in Frames /\ g.kind = "option" /\ g.list = f.list /\ g.entry = f.entry
      /\ g.todo = f.todo /\ g.arm = 2 /\ g.waiting = FALSE /\ g.left = executing
  BY <1>2 DEF Frames
<1> HIDE DEF g
<1>6. /\ p' \in State /\ p'.panicked = p.panicked
      /\ \A v \in Vars : p'.precompute[v] =
            IF v \in restored(f) THEN f.entry[v] ELSE p.precompute[v]
      /\ \A v \in Vars : p'.stored[v] =
            IF executing /\ v \in restored(f) /\ valueKnown(p, v)
            THEN Moved(p, v) ELSE p.stored[v]
  BY <1>1, <1>2, <1>3, <1>4, OptionEndFacts
<1>7. /\ open' \in Seq(Frames) /\ depth' = depth /\ DOMAIN open' = DOMAIN open
      /\ \A j \in DOMAIN open : open'[j] = IF j = depth THEN g ELSE open[j]
  BY <1>1, <1>2, <1>5, ReplaceFacts
<1>8. open[depth] = f
  BY DEF f, innermost
<1>9. \A i \in DOMAIN open : Keeps(i)
  BY <1>2, <1>5, <1>7, <1>8 DEF Keeps
<1> QED BY <1>1, <1>2, <1>3, <1>5, <1>6, <1>7, <1>9 DEF f

LEMMA ElseBasic ==
    ASSUME BasicInv, Else
    PROVE  /\ BasicInv'
           /\ \A v \in Vars : p.precompute[v] = givenUp /\ p'.precompute[v] # givenUp
                 => Within("option") /\ v \in DOMAIN innermost.entry
<1> DEFINE f == innermost
<1>1. /\ depth \in DOMAIN open /\ f.kind = "option" /\ f.entry \in Entries
      /\ p' \in State /\ p'.panicked = p.panicked
      /\ \A v \in Vars : p'.precompute[v] =
            IF v \in restored(f) THEN f.entry[v] ELSE p.precompute[v]
      /\ executing' = f.waiting /\ CloseScope /\ stopped' = stopped
      /\ open' \in Seq(Frames) /\ DOMAIN open' = DOMAIN open
      /\ \A i \in DOMAIN open : Keeps(i)
  BY ElseDoes
<1>2. /\ TypesOK /\ WellFormed(f) /\ f \in Frames
      /\ depth > 0
  BY <1>1, OpenFacts DEF BasicInv, FreshUnknown, TypesOK, innermost
<1>3. /\ scope' \in [Vars -> Int] /\ value' \in [Vars -> Content]
      /\ \A v \in Vars : value'[v] \in Fits(v)
      /\ \A v \in Vars : scope'[v] = notYet <=> scope[v] = notYet
  BY <1>1, CloseFacts
<1> HIDE DEF f
<1>4. executing' \in BOOLEAN
  BY <1>1, <1>2 DEF Frames
<1>5. \A v \in Vars : p'.precompute[v].value \in Fits(v)
  BY <1>1, <1>2 DEF TypesOK, WellFormed
<1>6. \A v \in Vars : scope'[v] = notYet => p'.precompute[v] = p.precompute[v]
  BY <1>1, <1>2, <1>3 DEF WellFormed
<1>7. BasicInv'
  BY <1>1, <1>2, <1>3, <1>4, <1>5, <1>6, BasicStep DEF TypesOK
<1>8. restored(f) = DOMAIN f.entry
  BY <1>1 DEF restored
<1> QED BY <1>1, <1>2, <1>7, <1>8 DEF Within, f

LEMMA EndIfDoes ==
    ASSUME BasicInv, EndIf
    PROVE  LET f == innermost IN
           /\ depth \in DOMAIN open /\ f.kind = "option" /\ f.todo = {} /\ f.entry \in Entries
           /\ p' \in State /\ p'.panicked = p.panicked
           /\ \A v \in Vars : p'.precompute[v] =
                 IF v \in restored(f)
                 THEN [value |-> junk, precomputedOnce |-> f.entry[v].precomputedOnce]
                 ELSE p.precompute[v]
           /\ \A v \in Vars : p'.stored[v] =
                 IF executing /\ v \in restored(f) /\ valueKnown(p, v)
                 THEN Moved(p, v) ELSE p.stored[v]
           /\ executing' = (executing \/ f.waiting \/ f.left) /\ CloseScope /\ stopped' = stopped
           /\ open' \in Seq(Frames) /\ depth' = depth - 1 /\ DOMAIN open' = 1 .. depth - 1
           /\ \A i \in DOMAIN open' : i \in DOMAIN open /\ open'[i] = open[i]
<1> DEFINE f == innermost
           r == genOptionEnd(p, f.entry)
<1>1. /\ Within("option") /\ f.todo = {}
      /\ p' = endOptionSelect(r, f.entry)
      /\ executing' = (executing \/ f.waiting \/ f.left) /\ Pop /\ CloseScope
      /\ stopped' = stopped
  BY DEF EndIf
<1>2. /\ p \in State /\ open \in Seq(Frames)
      /\ depth \in DOMAIN open /\ f \in Frames /\ f.kind = "option" /\ depth > 0
  BY <1>1, OpenFacts DEF BasicInv, TypesOK, Within
<1>3. f.entry \in Entries
  BY <1>2 DEF BasicInv, FreshUnknown, WellFormed, innermost
<1>4. restored(f) = DOMAIN f.entry
  BY <1>2 DEF restored
<1> HIDE DEF f
<1>5. /\ r \in State /\ r.panicked = p.panicked
      /\ \A v \in Vars : r.precompute[v] =
            IF v \in DOMAIN f.entry THEN f.entry[v] ELSE p.precompute[v]
      /\ \A v \in Vars : r.stored[v] =
            IF executing /\ v \in DOMAIN f.entry /\ valueKnown(p, v)
            THEN Moved(p, v) ELSE p.stored[v]
  BY <1>2, <1>3, OptionEndFacts
<1> HIDE DEF r
<1>6. /\ p' \in State /\ p'.panicked = r.panicked /\ p'.stored = r.stored
      /\ \A v \in Vars \ DOMAIN f.entry : p'.precompute[v] = r.precompute[v]
      /\ \A v \in Vars \cap DOMAIN f.entry :
            p'.precompute[v] = [r.precompute[v] EXCEPT !.value = junk]
  BY <1>1, <1>3, <1>5, EndSelectFacts
<1>7. \A v \in Vars \cap DOMAIN f.entry : f.entry[v] \in Info
  BY <1>3 DEF Entries
<1>8. \A v \in Vars \cap DOMAIN f.entry :
         p'.precompute[v] = [value |-> junk, precomputedOnce |-> f.entry[v].precomputedOnce]
  <2> TAKE v \in Vars \cap DOMAIN f.entry
  <2>1. p'.precompute[v] = [f.entry[v] EXCEPT !.value = junk] /\ f.entry[v] \in Info
    BY <1>5, <1>6, <1>7
  <2> QED BY <2>1 DEF Info
<1>9. /\ open' \in Seq(Frames) /\ depth' = depth - 1 /\ DOMAIN open' = 1 .. depth - 1
      /\ \A i \in DOMAIN open' : i \in DOMAIN open /\ open'[i] = open[i]
  BY <1>1, <1>2, PopFacts
<1>10. \A v \in Vars : p'.precompute[v] =
          IF v \in restored(f)
          THEN [value |-> junk, precomputedOnce |-> f.entry[v].precomputedOnce]
          ELSE p.precompute[v]
  BY <1>4, <1>5, <1>6, <1>8
<1> QED BY <1>1, <1>2, <1>3, <1>4, <1>5, <1>6, <1>9, <1>10 DEF f

LEMMA EndIfBasic ==
    ASSUME BasicInv, EndIf
    PROVE  BasicInv'
           /\ \A v \in Vars : p.precompute[v] = givenUp => ~ valueKnown(p', v)
<1> DEFINE f == innermost
<1>1. /\ depth \in DOMAIN open /\ f.entry \in Entries
      /\ p' \in State /\ p'.panicked = p.panicked
      /\ \A v \in Vars : p'.precompute[v] =
            IF v \in restored(f)
            THEN [value |-> junk, precomputedOnce |-> f.entry[v].precomputedOnce]
            ELSE p.precompute[v]
      /\ executing' = (executing \/ f.waiting \/ f.left) /\ CloseScope /\ stopped' = stopped
      /\ open' \in Seq(Frames)
      /\ \A i \in DOMAIN open' : i \in DOMAIN open /\ open'[i] = open[i]
  BY EndIfDoes
<1>2. TypesOK /\ WellFormed(f) /\ f \in Frames
  BY <1>1, OpenFacts DEF BasicInv, FreshUnknown, TypesOK, innermost
<1>3. /\ scope' \in [Vars -> Int] /\ value' \in [Vars -> Content]
      /\ \A v \in Vars : value'[v] \in Fits(v)
      /\ \A v \in Vars : scope'[v] = notYet <=> scope[v] = notYet
  BY <1>1, CloseFacts
<1> HIDE DEF f
<1>4. executing' \in BOOLEAN
  BY <1>1, <1>2 DEF Frames, TypesOK
<1>5. ASSUME NEW v \in Vars
      PROVE  /\ p'.precompute[v].value \in {junk, p.precompute[v].value}
             /\ v \in restored(f) => p'.precompute[v].value = junk
             /\ v \notin restored(f) => p'.precompute[v] = p.precompute[v]
  <2>1. CASE v \in restored(f)
    <3>1. p'.precompute[v] = [value |-> junk, precomputedOnce |-> f.entry[v].precomputedOnce]
      BY <1>1, <2>1
    <3> QED BY <2>1, <3>1
  <2>2. CASE v \notin restored(f)
    BY <1>1, <2>2
  <2> QED BY <2>1, <2>2
<1>6. \A v \in Vars : /\ p'.precompute[v].value \in Fits(v)
                      /\ scope'[v] = notYet => p'.precompute[v] = p.precompute[v]
  BY <1>2, <1>3, <1>5, FitsContent DEF TypesOK, WellFormed
<1>7. \A i \in DOMAIN open' : Keeps(i)
  BY <1>1 DEF Keeps
<1>8. BasicInv'
  BY <1>1, <1>2, <1>3, <1>4, <1>6, <1>7, BasicStep DEF TypesOK
<1>9. \A v \in Vars : p.precompute[v] = givenUp => p'.precompute[v].value = junk
  BY <1>5 DEF givenUp
<1> QED BY <1>8, <1>9 DEF valueKnown

\* What a loop puts to storage, and what has any value in it.
Stops(v, list) == v \in list /\ v \notin stopped /\ valueKnown(p, v)
Again(v, list) == v \in list /\ executing /\ ~ (valueKnown(p, v) /\ ~ Stops(v, list))

LEMMA LoopDoes ==
    ASSUME BasicInv, NEW c \in Vars \cup {junk}, NEW list \in SUBSET Reassigned, Loop(list, c)
    PROVE  LET f == open'[depth + 1] IN
           /\ \A v \in list : v \in Vars /\ Usable(v) /\ Listed(v)
           /\ LoopsInElse \/ \A i \in DOMAIN open : open[i].arm = 1
           /\ c # junk => c \in Vars /\ Usable(c) /\ c \notin Pointers
           /\ ~ Within("logical") /\ ~ CountingOn
           /\ p' \in State /\ p'.panicked = p.panicked
           /\ \A v \in Vars : p'.precompute[v] = IF Stops(v, list) THEN givenUp ELSE p.precompute[v]
           /\ ~ executing => p'.stored = p.stored /\ value' = value
           /\ \A v \in Vars : Again(v, list) => p'.stored[v] = value'[v] /\ value'[v] # junk
           /\ \A v \in Vars : ~ Again(v, list) =>
                 p'.stored[v] = p.stored[v] /\ value'[v] = value[v]
           /\ \A v \in Vars : value'[v] # junk /\ value'[v] \in Vars =>
                 \E u \in Vars : value'[v] = value[u]
           /\ value' \in [Vars -> Content] /\ \A v \in Vars : value'[v] \in Fits(v)
           /\ open' \in Seq(Frames) /\ depth' = depth + 1 /\ DOMAIN open' = 1 .. depth + 1
           /\ \A i \in DOMAIN open : open'[i] = open[i]
           /\ f.kind = "loop" /\ f.list = list /\ f.todo = list /\ f.arm = 1
           /\ f.waiting = FALSE /\ f.entry = p'.precompute /\ f.entry \in Entries
           /\ f.left \in BOOLEAN /\ (f.left => executing)
           /\ executing' = (executing /\ ~ f.left)
           /\ scope' = scope /\ stopped' = stopped \cup list
<1> DEFINE q == stopPrecomputation(p, list)
           again == {v \in list : executing /\ ~ valueKnown(q, v)}
           addresses == {value[v] : v \in Pointers} \cap Vars
           exits == executing /\ c # junk /\ value'[c] = 0
           e == q.precompute
           f == Frame("loop", list, e, FALSE, exits)
<1>1. /\ ~ Within("logical") /\ ~ CountingOn
      /\ LoopsInElse \/ \A i \in DOMAIN open : open[i].arm = 1
      /\ \A v \in list : Usable(v) /\ Listed(v)
      /\ c # junk => Usable(c) /\ c \notin Pointers
      /\ executing' = (executing /\ ~ exits) /\ Push(f)
      /\ scope' = scope /\ stopped' = stopped \cup list
  BY DEF Loop, Statement, UsableNumber
<1>2. PICK round \in [again -> Number \cup addresses] :
         /\ \A v \in again : round[v] \in Number <=> v \notin Pointers
         /\ value' = [v \in Vars |-> IF v \in again THEN round[v] ELSE value[v]]
         /\ p' = [q EXCEPT !.stored = [v \in Vars |-> IF v \in again THEN round[v] ELSE @[v]]]
  <2>1. AnyRound(q, again)
    BY DEF Loop
  <2> HIDE DEF q, again
  <2> QED BY <2>1 DEF AnyRound
<1>3. /\ p \in State /\ open \in Seq(Frames) /\ executing \in BOOLEAN
      /\ list \subseteq Vars /\ depth \in Nat /\ value \in [Vars -> Content]
      /\ \A v \in Vars : value[v] \in Fits(v)
  BY OpenFacts, ProgramAssumption DEF BasicInv, TypesOK
<1>4. /\ q \in State /\ q.panicked = p.panicked
      /\ \A v \in Vars : q.precompute[v] = IF Stops(v, list) THEN givenUp ELSE p.precompute[v]
      /\ ~ executing => q.stored = p.stored
      /\ \A v \in Vars : q.stored[v] = IF executing /\ Stops(v, list)
                                       THEN p.precompute[v].value ELSE p.stored[v]
  BY <1>3, StopFacts DEF Stops
<1> HIDE DEF q
<1>5. \A v \in Vars : v \in again <=> Again(v, list)
  <2> TAKE v \in Vars
  <2>1. valueKnown(q, v) <=> valueKnown(p, v) /\ ~ Stops(v, list)
    <3>1. CASE Stops(v, list)
      BY <1>4, <3>1 DEF valueKnown, givenUp
    <3>2. CASE ~ Stops(v, list)
      BY <1>4, <3>2 DEF valueKnown
    <3> QED BY <3>1, <3>2
  <2> QED BY <2>1 DEF Again
<1>6. again \subseteq Vars /\ addresses \subseteq Addressed /\ Addressed \subseteq Vars \ Pointers
  <2>1. \A v \in Pointers : v \in Vars /\ (value[v] \in Addressed \/ value[v] = junk)
    BY <1>3, ProgramAssumption DEF Fits
  <2> QED BY <1>3, <2>1, Contents, ProgramAssumption
<1>7. \A v \in again : round[v] \in Fits(v) \ {junk} /\ round[v] \in Content
  BY <1>2, <1>6, Contents DEF Fits, Content
<1>8. \A v \in again : round[v] \in Vars => \E u \in Vars : round[v] = value[u]
  BY <1>2, Contents, ProgramAssumption
<1> HIDE DEF again, addresses
<1> DEFINE s == [v \in Vars |-> IF v \in again THEN round[v] ELSE q.stored[v]]
<1>9. p' = [q EXCEPT !.stored = s]
  BY <1>2
<1>10. s \in [Vars -> Content]
  BY <1>4, <1>7 DEF State
<1>11. /\ p' \in State /\ p'.panicked = p.panicked /\ p'.precompute = q.precompute
       /\ p'.stored = s
  <2> HIDE DEF s
  <2> QED BY <1>4, <1>9, <1>10 DEF State
<1>12. /\ value' \in [Vars -> Content] /\ \A v \in Vars : value'[v] \in Fits(v)
       /\ \A v \in Vars : value'[v] = IF v \in again THEN round[v] ELSE value[v]
  BY <1>2, <1>3, <1>7
<1>13. /\ \A v \in Vars : Again(v, list) => p'.stored[v] = value'[v] /\ value'[v] # junk
       /\ \A v \in Vars : ~ Again(v, list) => p'.stored[v] = p.stored[v] /\ value'[v] = value[v]
  <2>1. \A v \in Vars : ~ Again(v, list) => ~ (executing /\ Stops(v, list))
    BY DEF Again, Stops
  <2> QED BY <1>4, <1>5, <1>7, <1>11, <1>12, <2>1
<1>14. \A v \in Vars : value'[v] # junk /\ value'[v] \in Vars =>
          \E u \in Vars : value'[v] = value[u]
  BY <1>8, <1>12
<1>15. ~ executing => p'.stored = p.stored /\ value' = value
  <2>1. ~ executing => \A v \in Vars : v \notin again
    BY <1>5 DEF Again
  <2>2. p.stored \in [Vars -> Content]
    BY <1>3 DEF State
  <2>3. ~ executing => s = p.stored
    BY <1>4, <2>1, <2>2
  <2>4. ~ executing => value' = value
    BY <1>3, <1>12, <2>1
  <2> QED BY <1>11, <2>3, <2>4
<1>16. exits \in BOOLEAN /\ (exits => executing) /\ e \in Entries
  <2>1. e \in [Vars -> Info]
    BY <1>4 DEF State
  <2> QED BY <1>3, <2>1 DEF Entries
<1>17. e = p'.precompute
  BY <1>11
<1> HIDE DEF s, exits, e
<1>18. /\ f \in Frames /\ f.kind = "loop" /\ f.list = list /\ f.todo = list /\ f.arm = 1
       /\ f.waiting = FALSE /\ f.left = exits /\ f.entry = e
  BY <1>3, <1>16 DEF Frame, Frames
<1> HIDE DEF f
<1>19. /\ open' \in Seq(Frames) /\ depth' = depth + 1 /\ DOMAIN open' = 1 .. depth + 1
       /\ \A i \in DOMAIN open : open'[i] = open[i]
       /\ open'[depth + 1] = f
  BY <1>1, <1>3, <1>18, PushFacts
<1>20. \A v \in Vars : p'.precompute[v] = IF Stops(v, list) THEN givenUp ELSE p.precompute[v]
  BY <1>4, <1>11
<1>21. c # junk => c \in Vars
  OBVIOUS
<1> QED BY <1>1, <1>3, <1>11, <1>12, <1>13, <1>14, <1>15, <1>16, <1>17, <1>18, <1>19, <1>20, <1>21

LEMMA LoopBasic ==
    ASSUME BasicInv, NEW c \in Vars \cup {junk}, NEW list \in SUBSET Reassigned, Loop(list, c)
    PROVE  BasicInv' /\ StayGivenUp
<1> DEFINE f == open'[depth + 1]
<1>1. /\ \A v \in list : v \in Vars /\ Usable(v)
      /\ p' \in State /\ p'.panicked = p.panicked
      /\ \A v \in Vars : p'.precompute[v] = IF Stops(v, list) THEN givenUp ELSE p.precompute[v]
      /\ value' \in [Vars -> Content] /\ \A v \in Vars : value'[v] \in Fits(v)
      /\ open' \in Seq(Frames) /\ DOMAIN open' = 1 .. depth + 1
      /\ \A i \in DOMAIN open : open'[i] = open[i]
      /\ f.kind = "loop" /\ f.entry \in Entries
      /\ executing' = (executing /\ ~ f.left)
      /\ scope' = scope /\ stopped' = stopped \cup list
  BY LoopDoes
<1>2. TypesOK /\ depth \in Nat /\ DOMAIN open = 1 .. depth
  BY OpenFacts DEF BasicInv, TypesOK
<1> HIDE DEF f
<1>3. WellFormed(f)
  BY <1>1 DEF WellFormed, restored
<1>4. \A i \in DOMAIN open' : Keeps(i) \/ WellFormed(open'[i])
  <2>1. \A i \in DOMAIN open' : i \in DOMAIN open \/ i = depth + 1
    BY <1>1, <1>2
  <2> QED BY <1>1, <1>3, <2>1 DEF Keeps, f
<1>5. executing' \in BOOLEAN
  BY <1>1
<1>6. \A v \in Vars : p'.precompute[v].value \in Fits(v)
  BY <1>1, <1>2, FitsContent DEF TypesOK, givenUp
<1>7. \A v \in Vars : scope'[v] = notYet => p'.precompute[v] = p.precompute[v]
  BY <1>1 DEF Stops, Usable, Declared, notYet
<1>8. stopped' \subseteq Reassigned
  BY <1>1, <1>2 DEF TypesOK
<1>9. BasicInv'
  BY <1>1, <1>2, <1>4, <1>5, <1>6, <1>7, <1>8, BasicStep DEF TypesOK
<1> QED BY <1>1, <1>9 DEF StayGivenUp

\* A jump out of the round of a loop, or out of the loop: the code behind it is
\* generated as before.
LEMMA BreakDoes ==
    ASSUME BasicInv, Break \/ Continue
    PROVE  /\ executing /\ executing' = FALSE
           /\ p' = p /\ value' = value /\ scope' = scope /\ stopped' = stopped
           /\ open' \in Seq(Frames) /\ depth' = depth /\ DOMAIN open' = DOMAIN open
           /\ \A i \in DOMAIN open : Keeps(i)
           /\ \A i \in DOMAIN open : open'[i].arm = open[i].arm /\ open'[i].todo = open[i].todo
           /\ \E i \in innermostLoop :
                 /\ \A j \in DOMAIN open \ {i} : open'[j] = open[j]
                 /\ \/ open'[i].left = TRUE /\ open'[i].waiting = open[i].waiting
                    \/ open'[i].waiting = TRUE /\ open'[i].left = open[i].left
<1>1. /\ executing /\ executing' = FALSE
      /\ p' = p /\ value' = value /\ scope' = scope /\ stopped' = stopped
  BY DEF Break, Continue
<1>2. PICK i \in innermostLoop :
         \/ open' = [open EXCEPT ![i].left = TRUE]
         \/ open' = [open EXCEPT ![i].waiting = TRUE]
  BY DEF Break, Continue
<1>3. open \in Seq(Frames) /\ i \in DOMAIN open /\ open[i] \in Frames
  BY OpenFacts DEF BasicInv, TypesOK, innermostLoop
<1>4. PICK f \in Frames :
         /\ open' = [open EXCEPT ![i] = f]
         /\ f.kind = open[i].kind /\ f.list = open[i].list /\ f.entry = open[i].entry
         /\ f.arm = open[i].arm /\ f.todo = open[i].todo
         /\ \/ f.left = TRUE /\ f.waiting = open[i].waiting
            \/ f.waiting = TRUE /\ f.left = open[i].left
  <2>1. CASE open' = [open EXCEPT ![i].left = TRUE]
    <3> DEFINE f == [open[i] EXCEPT !.left = TRUE]
    <3>1. /\ f \in Frames /\ f.kind = open[i].kind /\ f.list = open[i].list
          /\ f.entry = open[i].entry /\ f.arm = open[i].arm /\ f.todo = open[i].todo
          /\ f.left = TRUE /\ f.waiting = open[i].waiting
      BY <1>3 DEF Frames
    <3>2. open' = [open EXCEPT ![i] = f]
      BY <2>1
    <3> HIDE DEF f
    <3> QED BY <3>1, <3>2
  <2>2. CASE open' = [open EXCEPT ![i].waiting = TRUE]
    <3> DEFINE f == [open[i] EXCEPT !.waiting = TRUE]
    <3>1. /\ f \in Frames /\ f.kind = open[i].kind /\ f.list = open[i].list
          /\ f.entry = open[i].entry /\ f.arm = open[i].arm /\ f.todo = open[i].todo
          /\ f.waiting = TRUE /\ f.left = open[i].left
      BY <1>3 DEF Frames
    <3>2. open' = [open EXCEPT ![i] = f]
      BY <2>2
    <3> HIDE DEF f
    <3> QED BY <3>1, <3>2
  <2> QED BY <1>2, <2>1, <2>2
<1>5. /\ open' \in Seq(Frames) /\ depth' = depth /\ DOMAIN open' = DOMAIN open
      /\ \A j \in DOMAIN open : open'[j] = IF j = i THEN f ELSE open[j]
  BY <1>3, <1>4, ReplaceFacts
<1>6. \A j \in DOMAIN open : Keeps(j)
  BY <1>4, <1>5 DEF Keeps
<1>7. \A j \in DOMAIN open : open'[j].arm = open[j].arm /\ open'[j].todo = open[j].todo
  BY <1>4, <1>5
<1>8. /\ \A j \in DOMAIN open \ {i} : open'[j] = open[j]
      /\ \/ open'[i].left = TRUE /\ open'[i].waiting = open[i].waiting
         \/ open'[i].waiting = TRUE /\ open'[i].left = open[i].left
  BY <1>3, <1>4, <1>5
<1> QED BY <1>1, <1>2, <1>5, <1>6, <1>7, <1>8

LEMMA EndBodyDoes ==
    ASSUME BasicInv, EndBody
    PROVE  LET f == innermost
               g == open'[depth]
           IN
           /\ depth \in DOMAIN open /\ f.kind = "loop" /\ f.arm = 1
           /\ p' = p /\ executing' = (executing \/ f.waiting) /\ CloseScope /\ stopped' = stopped
           /\ open' \in Seq(Frames) /\ depth' = depth /\ DOMAIN open' = DOMAIN open
           /\ \A i \in DOMAIN open : i # depth => open'[i] = open[i]
           /\ g.kind = "loop" /\ g.list = f.list /\ g.entry = f.entry /\ g.todo = f.todo
           /\ g.arm = 2 /\ g.waiting = FALSE /\ g.left = f.left
           /\ \A i \in DOMAIN open : Keeps(i)
<1> DEFINE f == innermost
           g == [f EXCEPT !.arm = 2, !.waiting = FALSE]
<1>1. /\ Within("loop") /\ f.arm = 1 /\ p' = p /\ executing' = (executing \/ f.waiting)
      /\ open' = [open EXCEPT ![depth] = g] /\ CloseScope /\ stopped' = stopped
  BY DEF EndBody, Top
<1>2. /\ open \in Seq(Frames) /\ depth \in DOMAIN open /\ f \in Frames /\ f.kind = "loop"
  BY <1>1, OpenFacts DEF BasicInv, TypesOK, Within
<1> HIDE DEF f
<1>3. /\ g \in Frames /\ g.kind = "loop" /\ g.list = f.list /\ g.entry = f.entry
      /\ g.todo = f.todo /\ g.arm = 2 /\ g.waiting = FALSE /\ g.left = f.left
  BY <1>2 DEF Frames
<1> HIDE DEF g
<1>4. /\ open' \in Seq(Frames) /\ depth' = depth /\ DOMAIN open' = DOMAIN open
      /\ \A j \in DOMAIN open : open'[j] = IF j = depth THEN g ELSE open[j]
  BY <1>1, <1>2, <1>3, ReplaceFacts
<1>5. open[depth] = f
  BY DEF f, innermost
<1>6. \A i \in DOMAIN open : Keeps(i)
  BY <1>2, <1>3, <1>4, <1>5 DEF Keeps
<1> QED BY <1>1, <1>2, <1>3, <1>4, <1>6 DEF f

LEMMA EndLoopDoes ==
    ASSUME BasicInv, EndLoop
    PROVE  /\ depth \in DOMAIN open /\ CountingOn /\ innermost.kind = "loop"
           /\ innermost.arm = 2 /\ innermost.todo = {}
           /\ p' = p /\ value' = value /\ scope' = scope /\ stopped' = stopped
           /\ executing' = innermost.left
           /\ open' \in Seq(Frames) /\ depth' = depth - 1 /\ DOMAIN open' = 1 .. depth - 1
           /\ \A i \in DOMAIN open' : i \in DOMAIN open /\ open'[i] = open[i]
<1>1. /\ CountingOn /\ innermost.todo = {} /\ executing' = innermost.left /\ Pop
      /\ p' = p /\ value' = value /\ scope' = scope /\ stopped' = stopped
  BY DEF EndLoop
<1>2. /\ depth > 0 /\ innermost.kind = "loop" /\ innermost.arm = 2
      /\ open \in Seq(Frames) /\ depth \in DOMAIN open
  BY <1>1, OpenFacts DEF BasicInv, TypesOK, CountingOn, Within
<1>3. /\ open' \in Seq(Frames) /\ depth' = depth - 1 /\ DOMAIN open' = 1 .. depth - 1
      /\ \A i \in DOMAIN open' : i \in DOMAIN open /\ open'[i] = open[i]
  BY <1>1, <1>2, PopFacts
<1> QED BY <1>1, <1>2, <1>3

LEMMA ShortJumpDoes ==
    ASSUME BasicInv, NEW v \in Logical, NEW op \in {"And", "Or"}, ShortJump(v, op)
    PROVE  LET f == open'[depth + 1] IN
           /\ v \in Vars \ Pointers /\ Usable(v) /\ scope[v] = depth /\ ~ CountingOn
           /\ ~ (valueKnown(p, v) /\ decides(op, p.precompute[v].value))
           /\ p' = p /\ value' = value /\ scope' = scope /\ stopped' = stopped
           /\ open' \in Seq(Frames) /\ depth' = depth + 1 /\ DOMAIN open' = 1 .. depth + 1
           /\ \A i \in DOMAIN open : open'[i] = open[i]
           /\ f.kind = "logical" /\ f.list = {v} /\ f.entry = op /\ f.todo = {v} /\ f.arm = 1
           /\ f.waiting = FALSE /\ f.left = (executing /\ decides(op, value[v]))
           /\ executing' = (executing /\ ~ f.left)
<1> DEFINE jumps == executing /\ decides(op, value[v])
           f == Frame("logical", {v}, op, FALSE, jumps)
<1>1. /\ Usable(v) /\ v \notin Pointers /\ scope[v] = depth /\ ~ CountingOn
      /\ ~ (valueKnown(p, v) /\ decides(op, p.precompute[v].value))
      /\ executing' = (executing /\ ~ jumps) /\ Push(f)
      /\ p' = p /\ value' = value /\ scope' = scope /\ stopped' = stopped
  BY DEF ShortJump, Statement, UsableNumber
<1>2. open \in Seq(Frames) /\ v \in Vars /\ jumps \in BOOLEAN /\ depth \in Nat
  BY OpenFacts, ProgramAssumption DEF BasicInv, TypesOK
<1> HIDE DEF jumps
<1>3. /\ f \in Frames /\ f.kind = "logical" /\ f.list = {v} /\ f.entry = op /\ f.todo = {v}
      /\ f.arm = 1 /\ f.waiting = FALSE /\ f.left = jumps
  BY <1>2 DEF Frame, Frames
<1> HIDE DEF f
<1>4. /\ open' \in Seq(Frames) /\ depth' = depth + 1 /\ DOMAIN open' = 1 .. depth + 1
      /\ \A i \in DOMAIN open : open'[i] = open[i]
      /\ open'[depth + 1] = f
  BY <1>1, <1>2, <1>3, PushFacts
<1> QED BY <1>1, <1>2, <1>3, <1>4 DEF jumps

-----------------------------------------------------------------------------
(* No panic, and nothing is computed at compile time again.                *)

LEMMA JumpsBasic ==
    ASSUME BasicInv,
           Break \/ Continue \/ EndBody \/ EndLoop
              \/ \E v \in Logical, op \in {"And", "Or"} : ShortJump(v, op)
    PROVE  BasicInv' /\ StayGivenUp
<1>1. /\ p' = p /\ stopped' = stopped /\ scope' \in [Vars -> Int] /\ value' \in [Vars -> Content]
      /\ \A v \in Vars : value'[v] \in Fits(v) /\ (scope'[v] = notYet => scope[v] = notYet)
      /\ executing' \in BOOLEAN /\ open' \in Seq(Frames)
      /\ \A i \in DOMAIN open' : Keeps(i) \/ WellFormed(open'[i])
  <2>1. TypesOK /\ depth \in Nat /\ DOMAIN open = 1 .. depth /\ \A i \in DOMAIN open : open[i] \in Frames
    BY OpenFacts DEF BasicInv, TypesOK
  <2>2. CASE Break \/ Continue
    <3>1. /\ executing' = FALSE /\ p' = p /\ value' = value /\ scope' = scope
          /\ stopped' = stopped
          /\ open' \in Seq(Frames) /\ DOMAIN open' = DOMAIN open
          /\ \A i \in DOMAIN open : Keeps(i)
      BY <2>2, BreakDoes
    <3> QED BY <2>1, <3>1 DEF TypesOK
  <2>3. CASE EndBody
    <3>1. /\ depth \in DOMAIN open /\ p' = p /\ executing' = (executing \/ innermost.waiting)
          /\ CloseScope /\ stopped' = stopped
          /\ open' \in Seq(Frames) /\ DOMAIN open' = DOMAIN open
          /\ \A i \in DOMAIN open : Keeps(i)
      BY <2>3, EndBodyDoes
    <3>2. executing' \in BOOLEAN
      BY <2>1, <3>1 DEF TypesOK, Frames, innermost
    <3> QED BY <3>1, <3>2, CloseFacts
  <2>4. CASE EndLoop
    <3>1. /\ depth \in DOMAIN open /\ p' = p /\ value' = value /\ scope' = scope
          /\ stopped' = stopped /\ executing' = innermost.left
          /\ open' \in Seq(Frames)
          /\ \A i \in DOMAIN open' : i \in DOMAIN open /\ open'[i] = open[i]
      BY <2>4, EndLoopDoes
    <3>2. executing' \in BOOLEAN
      BY <2>1, <3>1 DEF TypesOK, Frames, innermost
    <3> QED BY <2>1, <3>1, <3>2 DEF TypesOK, Keeps
  <2>5. ASSUME NEW v \in Logical, NEW op \in {"And", "Or"}, ShortJump(v, op)
        PROVE  /\ p' = p /\ value' = value /\ scope' = scope /\ stopped' = stopped
               /\ executing' \in BOOLEAN /\ open' \in Seq(Frames)
               /\ \A i \in DOMAIN open' : Keeps(i) \/ WellFormed(open'[i])
    <3> DEFINE f == open'[depth + 1]
    <3>1. /\ v \in Vars \ Pointers
          /\ p' = p /\ value' = value /\ scope' = scope /\ stopped' = stopped
          /\ open' \in Seq(Frames) /\ DOMAIN open' = 1 .. depth + 1
          /\ \A i \in DOMAIN open : open'[i] = open[i]
          /\ f.kind = "logical" /\ f.list = {v} /\ f.entry = op
          /\ executing' = (executing /\ ~ f.left)
      BY <2>5, ShortJumpDoes
    <3> HIDE DEF f
    <3>2. WellFormed(f)
      BY <3>1 DEF WellFormed, restored
    <3>3. \A i \in DOMAIN open' : Keeps(i) \/ WellFormed(open'[i])
      <4>1. \A i \in DOMAIN open' : i \in DOMAIN open \/ i = depth + 1
        BY <2>1, <3>1
      <4> QED BY <3>1, <3>2, <4>1 DEF Keeps, f
    <3> QED BY <3>1, <3>3
  <2> QED BY <2>1, <2>2, <2>3, <2>4, <2>5 DEF TypesOK
<1>2. BasicInv'
  BY <1>1, BasicStep DEF BasicInv, TypesOK
<1> QED BY <1>1, <1>2 DEF StayGivenUp

LEMMA BasicInit == Init => BasicInv
<1> SUFFICES ASSUME Init PROVE BasicInv
  OBVIOUS
<1>1. unknown \in Info /\ junk \in Content
  BY DEF unknown, Info, Content
<1>2. p \in State /\ value \in [Vars -> Content]
      /\ \A v \in Vars : p.precompute[v] = unknown /\ value[v] = junk
  BY <1>1 DEF Init, State
<1>3. open \in Seq(Frames) /\ DOMAIN open = {}
  BY EmptySeq, LenProperties DEF Init
<1>4. TypesOK
  BY <1>2, <1>3, FitsContent DEF TypesOK, Init, unknown, notYet
<1> QED BY <1>2, <1>3, <1>4 DEF BasicInv, FreshUnknown, NeverPanics, Init

\* A step takes up at most what the end of a branch takes back.
TakesUp(v) ==
    p.precompute[v].precomputedOnce /\ ~ valueKnown(p, v) /\ valueKnown(p', v)

LEMMA BasicNext ==
    ASSUME BasicInv, [Next]_vars
    PROVE  /\ BasicInv'
           /\ \A v \in Vars : TakesUp(v) => Within("option") /\ v \in DOMAIN innermost.entry
<1>1. \A v \in Vars : TakesUp(v) => p.precompute[v] = givenUp /\ p'.precompute[v] # givenUp
  BY DEF TakesUp, valueKnown, givenUp, BasicInv, TypesOK, State, Info
<1>2. BasicInv' /\ StayGivenUp => BasicInv'
         /\ \A v \in Vars : TakesUp(v) => Within("option") /\ v \in DOMAIN innermost.entry
  BY <1>1 DEF StayGivenUp
<1>3. CASE UNCHANGED vars
  <2>1. p' = p /\ value' = value /\ executing' = executing /\ open' = open /\ scope' = scope
        /\ stopped' = stopped
    BY <1>3 DEF vars
  <2>2. \A i \in DOMAIN open' : Keeps(i)
    BY <2>1 DEF Keeps
  <2>3. BasicInv'
    BY <2>1, <2>2, BasicStep DEF BasicInv, TypesOK
  <2> QED BY <1>2, <2>1, <2>3 DEF StayGivenUp
<1>4. ASSUME NEW v \in Vars, NEW x \in Immediates, DeclareImmediate(v, x)
      PROVE  BasicInv' /\ StayGivenUp
  BY <1>4, DeclareImmediateDoes, InstructionBasic
<1>5. ASSUME NEW v \in Vars, NEW w \in Vars, DeclareCopy(v, w)
      PROVE  BasicInv' /\ StayGivenUp
  BY <1>5, DeclareCopyDoes, InstructionBasic
<1>6. ASSUME NEW v \in Vars, NEW l \in Vars, NEW r \in Vars, DeclareCompare(v, l, r)
      PROVE  BasicInv' /\ StayGivenUp
  BY <1>6, DeclareCompareDoes, InstructionBasic
<1>7. ASSUME NEW v \in Vars, NEW x \in Number, DeclareAtRuntime(v, x)
      PROVE  BasicInv' /\ StayGivenUp
  BY <1>7, DeclareAtRuntimeDoes, InstructionBasic
<1>8. ASSUME NEW v \in Vars, NEW w \in Vars, IndirectLoad(v, w)
      PROVE  BasicInv' /\ StayGivenUp
  BY <1>8, IndirectLoadDoes, InstructionBasic
<1>9. ASSUME NEW v \in Vars, NEW w \in Vars, Assign(v, w) \/ Add(v, w)
      PROVE  BasicInv' /\ StayGivenUp
  BY <1>9, AssignDoes, AddDoes, InstructionBasic
<1>10. ASSUME NEW v \in Vars, Increment(v)
       PROVE  BasicInv' /\ StayGivenUp
  BY <1>10, IncrementDoes, InstructionBasic
<1>11. ASSUME NEW c \in Vars \cup {junk}, NEW list \in SUBSET Reassigned, Loop(list, c)
       PROVE  BasicInv' /\ StayGivenUp
  BY <1>11, LoopBasic
<1>12. CASE Else
  <2>1. /\ BasicInv'
        /\ \A v \in Vars : p.precompute[v] = givenUp /\ p'.precompute[v] # givenUp
              => Within("option") /\ v \in DOMAIN innermost.entry
    BY <1>12, ElseBasic
  <2> QED BY <1>1, <2>1
<1>13. CASE EndIf
  <2>1. BasicInv' /\ \A v \in Vars : p.precompute[v] = givenUp => ~ valueKnown(p', v)
    BY <1>13, EndIfBasic
  <2> QED BY <1>1, <2>1 DEF TakesUp
<1>14. \/ \E v \in Vars, x \in Immediates : DeclareImmediate(v, x)
       \/ \E v, w \in Vars : DeclareCopy(v, w) \/ TakeAddress(v, w) \/ IndirectLoad(v, w)
             \/ IndirectWrite(v, w) \/ Assign(v, w) \/ Add(v, w) \/ Combine(v, w)
       \/ \E v, l, r \in Vars : DeclareCompare(v, l, r)
       \/ \E v \in Vars, x \in Number : DeclareAtRuntime(v, x)
       \/ \E v \in Vars : Increment(v)
       \/ \E c \in Vars, list \in SUBSET Reassigned : If(c, list)
       \/ \E c \in Vars \cup {junk}, list \in SUBSET Reassigned : Loop(list, c)
       \/ Break \/ Continue \/ EndBody \/ EndLoop
             \/ \E v \in Logical, op \in {"And", "Or"} : ShortJump(v, op)
       \/ Else \/ EndIf \/ UNCHANGED vars
  BY Zenon DEF Next
<1>15. \/ BasicInv' /\ StayGivenUp
       \/ Else \/ EndIf \/ UNCHANGED vars
  BY <1>4, <1>5, <1>6, <1>7, <1>8, <1>9, <1>10, <1>11, <1>14,
     TakeAddressBasic, IndirectWriteBasic, CombineBasic, IfBasic, JumpsBasic
<1> QED BY <1>2, <1>3, <1>12, <1>13, <1>15

\* The panics of the generator are out of reach: an instruction never puts a
\* value that is not known into a variable that is computed at compile time, and
\* the address of a variable goes to a fresh pointer (doPrecomputaion, sanitizeInst
\* and the instructions' own panics in generateSingleInst).
THEOREM CompileTimeNeverPanics == Spec => []NeverPanics
<1>1. BasicInv /\ [Next]_vars => BasicInv'
  BY BasicNext
<1>2. BasicInv => NeverPanics
  BY DEF BasicInv
<1> QED BY BasicInit, <1>1, <1>2, PTL DEF Spec

\* "check if we would start doing precomputation again" (assign, genAssignImm):
\* between branches a variable whose value was given up stays in storage; only
\* genOptionEnd takes values back, to what was known before the branch.
THEOREM CompileTimeNeverAgain == Spec => NeverAgain
<1>1. BasicInv /\ [Next]_vars => BasicInv'
  BY BasicNext
<1>2. BasicInv /\ [Next]_vars =>
         [\A v \in Vars :
             /\ p.precompute[v].precomputedOnce /\ ~ valueKnown(p, v)
             /\ valueKnown(p', v)
             => Within("option") /\ v \in DOMAIN innermost.entry]_vars
  <2> SUFFICES ASSUME BasicInv, [Next]_vars, NEW v \in Vars,
                      p.precompute[v].precomputedOnce /\ ~ valueKnown(p, v) /\ valueKnown(p', v)
               PROVE  Within("option") /\ v \in DOMAIN innermost.entry
    BY Zenon
  <2> QED BY BasicNext DEF TakesUp
<1> QED BY BasicInit, <1>1, <1>2, PTL DEF Spec, NeverAgain

-----------------------------------------------------------------------------
(* The code computes what the IR means.  This holds of the programs        *)
(* without the instructions that the generator does not get right (a run   *)
(* or a finding is about each of them).                                    *)

\* A variable that is assigned again is a number that does not begin with a value of
\* the runtime or with a comparison, what is pointed to from an inner block was never
\* known, loops are not inside of an else, and no comparison of literals is assigned.
WithoutKnownDefects ==
    /\ \A v \in Reassigned : v \notin Pointers /\ Declares[v] \subseteq {"immediate", "copy", "load"}
    /\ \A v \in AddressedInside : Declares[v] \subseteq {"runtime", "load"}
    /\ ~ LoopsInElse /\ ~ ComparesAssigned

\* The same of a variable that begins as a copy: it is one of a literal.
CopiesLiteral ==
    \A v \in Reassigned, w \in Vars : DeclareCopy(v, w) =>
        valueKnown(p, w) /\ p.precompute[w].precomputedOnce

CopiesLiterals == [][CopiesLiteral]_vars

\* Declared outside of the i-th block.
Outside(i) == {v \in Vars : 0 <= scope[v] /\ scope[v] < i}

\* Logical expressions are innermost, and nothing is declared behind a loop's body.
Nesting ==
    /\ \A v \in Vars : scope[v] <= depth
    /\ \A i, j \in DOMAIN open : i < j /\ open[i].kind = "logical" => open[j].kind = "logical"
    /\ \A i \in DOMAIN open : open[i].kind = "loop" /\ open[i].arm = 2 =>
          i = depth /\ \A v \in Vars : scope[v] # depth

\* What the list of a block has, is in storage inside of it, except for what the
\* end of the branch takes back.  A branch takes back only what the branches around
\* it take back too.  Inside of a loop, what was known at its head stays known.
FrameOK(i) ==
    LET f == open[i] IN
    /\ f.todo \subseteq f.list /\ f.list \subseteq Outside(i) /\ restored(f) \subseteq f.list
    /\ f.kind = "logical" => \A v \in f.list : v \in Logical /\ scope[v] = i - 1
    /\ f.kind # "logical" =>
          /\ f.list \subseteq Reassigned
          /\ \A v \in f.list \ restored(f) : p.precompute[v].value = junk
    /\ f.kind = "loop" => \A v \in Outside(i) : f.entry[v].value = p.precompute[v].value
    /\ \A v \in restored(f) :
          /\ f.entry[v].precomputedOnce /\ v \notin AddressedInside
          /\ \A j \in 1 .. i - 1 : v \in Outside(j) => v \in restored(open[j])

FramesOK == \A i \in DOMAIN open : FrameOK(i)

\* What is assigned again is given up for good, what is stopped at a loop too, but
\* for an else that has taken it back.
Once == \A v \in Reassigned : scope[v] # notYet => p.precompute[v].precomputedOnce
InsideUnknown == \A v \in AddressedInside : p.precompute[v].value = junk
StoppedUnknown ==
    \A v \in stopped :
        /\ scope[v] # notYet
        /\ \/ p.precompute[v].value = junk
           \/ \E i \in DOMAIN open : open[i].arm = 2 /\ v \in restored(open[i])

\* The execution is in one place: in the code that is emitted now, or on its way to
\* a label of one block.
parked(f) == f.waiting \/ f.left

OnePlace ==
    /\ executing => \A i \in DOMAIN open : ~ parked(open[i])
    /\ \A i, j \in DOMAIN open : parked(open[i]) /\ parked(open[j]) => i = j
    /\ \A i \in DOMAIN open : ~ (open[i].waiting /\ open[i].left)

\* The code finds the value of v.
Found(v) == value[v] = Operand(p, v)

\* When the execution comes to the label of the i-th block that it jumped to, the
\* code there finds each variable.
ArrivesAt(i) ==
    \A v \in Outside(i) : value[v] # junk =>
        /\ v \in restored(open[i]) =>
              /\ value[v] = p.stored[v]
              /\ open[i].waiting => open[i].entry[v].value = value[v]
        /\ v \notin restored(open[i]) =>
              Found(v) /\ (v \in open[i].list => p.precompute[v].value = junk)

Arrives == \A i \in DOMAIN open : parked(open[i]) => ArrivesAt(i)

PInv ==
    /\ BasicInv /\ Nesting /\ FramesOK
    /\ Once /\ InsideUnknown /\ StoppedUnknown
    /\ PointeesPinned /\ OnePlace /\ Arrives /\ SameAsIR

\* Blocks open and close at the top, and variables with them.
Scoped ==
    \A v \in Vars : \/ scope'[v] = scope[v]
                    \/ scope[v] = notYet /\ scope'[v] = depth
                    \/ scope[v] = depth /\ depth > 0 /\ scope'[v] = gone

\* What every step does to the blocks that stay open and the variables outside.
Steady ==
    /\ Scoped
    /\ \A i \in DOMAIN open' : i \in DOMAIN open =>
          /\ Keeps(i) /\ open'[i].todo \subseteq open[i].todo
          /\ open'[i].waiting => open[i].waiting \/ executing
          /\ open'[i].left => open[i].left \/ executing
          /\ \A v \in Outside(i) \ restored(open[i]) :
                p'.precompute[v].value = p.precompute[v].value
    /\ ~ executing =>
          p'.stored = p.stored /\ \A v \in Vars : scope[v] # depth => value'[v] = value[v]

LEMMA SameAsIRFound ==
    ASSUME executing
    PROVE  SameAsIR <=> \A v \in Vars : Declared(v) /\ value[v] # junk => Found(v)
BY DEF SameAsIR, Agrees, Found, Operand, valueKnown

LEMMA ScopedFacts ==
    ASSUME TypesOK, Scoped, NEW i \in DOMAIN open
    PROVE  Outside(i)' = Outside(i) /\ \A v \in Outside(i) : scope'[v] = scope[v] /\ scope[v] # depth
<1>1. i \in 1 .. depth /\ depth \in Nat /\ scope \in [Vars -> Int]
  BY OpenFacts DEF TypesOK
<1>2. \A v \in Vars : (0 <= scope'[v] /\ scope'[v] < i) <=> (0 <= scope[v] /\ scope[v] < i)
  BY <1>1 DEF Scoped, notYet, gone
<1>3. \A v \in Outside(i) : scope'[v] = scope[v] /\ scope[v] # depth
  BY <1>1 DEF Scoped, Outside, notYet, gone
<1>4. Outside(i)' = Outside(i)
  BY <1>2 DEF Outside
<1> QED BY <1>3, <1>4

LEMMA SteadyFrames ==
    ASSUME BasicInv, FramesOK, Steady, open' \in Seq(Frames),
           NEW i \in DOMAIN open, i \in DOMAIN open'
    PROVE  FrameOK(i)'
<1> DEFINE f == open[i]
           g == open'[i]
<1>1. TypesOK /\ FrameOK(i) /\ DOMAIN open = 1 .. depth /\ depth \in Nat
  BY OpenFacts DEF BasicInv, FramesOK, TypesOK
<1>2. /\ Outside(i)' = Outside(i)
      /\ \A v \in Outside(i) : scope'[v] = scope[v]
  BY <1>1, ScopedFacts DEF Steady
<1>3. /\ g.kind = f.kind /\ g.list = f.list /\ g.entry = f.entry /\ g.todo \subseteq f.todo
      /\ \A v \in Outside(i) \ restored(f) : p'.precompute[v].value = p.precompute[v].value
  BY DEF Steady, Keeps
<1>4. restored(g) = restored(f)
  BY <1>3 DEF restored
<1>5. /\ g.todo \subseteq g.list /\ g.list \subseteq Outside(i) /\ restored(g) \subseteq g.list
      /\ g.kind = "logical" => \A v \in g.list : v \in Logical /\ scope'[v] = i - 1
      /\ g.kind # "logical" =>
            /\ g.list \subseteq Reassigned
            /\ \A v \in g.list \ restored(g) : p'.precompute[v].value = junk
  BY <1>1, <1>2, <1>3, <1>4 DEF FrameOK
<1>6. g.kind = "loop" => \A v \in Outside(i) : g.entry[v].value = p'.precompute[v].value
  BY <1>1, <1>3 DEF FrameOK, restored
<1>7. ASSUME NEW v \in restored(g)
      PROVE  /\ g.entry[v].precomputedOnce /\ v \notin AddressedInside
             /\ \A j \in 1 .. i - 1 : v \in Outside(j)' => v \in restored(open'[j])
  <2>1. /\ g.entry[v].precomputedOnce /\ v \notin AddressedInside
        /\ \A j \in 1 .. i - 1 : v \in Outside(j) => v \in restored(open[j])
    BY <1>1, <1>3, <1>4, <1>7 DEF FrameOK
  <2>2. ASSUME NEW j \in 1 .. i - 1 PROVE v \in Outside(j)' => v \in restored(open'[j])
    <3>1. j \in DOMAIN open
      BY <1>1
    <3>2. j \in DOMAIN open'
      BY <1>1, LenProperties
    <3>3. Outside(j)' = Outside(j)
      BY <1>1, <3>1, ScopedFacts DEF Steady
    <3>4. restored(open'[j]) = restored(open[j])
      BY <3>1, <3>2 DEF Steady, Keeps, restored
    <3> QED BY <2>1, <3>3, <3>4
  <2> QED BY <2>1, <2>2
<1> QED BY <1>2, <1>5, <1>6, <1>7 DEF FrameOK, restored

\* A jump that is on its way arrives as before.
LEMMA SteadyArrives ==
    ASSUME BasicInv, Arrives, Steady, ~ executing, NEW i \in DOMAIN open, i \in DOMAIN open',
           parked(open'[i])
    PROVE  parked(open[i]) /\ ArrivesAt(i)'
<1> DEFINE f == open[i]
           g == open'[i]
<1>1. TypesOK /\ DOMAIN open = 1 .. depth /\ depth \in Nat
  BY OpenFacts DEF BasicInv, TypesOK
<1>2. /\ Outside(i)' = Outside(i) /\ Outside(i) \subseteq Vars
      /\ \A v \in Outside(i) : scope[v] # depth
  BY <1>1, ScopedFacts DEF Steady, Outside
<1>3. /\ g.kind = f.kind /\ g.list = f.list /\ g.entry = f.entry
      /\ g.waiting => f.waiting
      /\ \A v \in Outside(i) \ restored(f) : p'.precompute[v].value = p.precompute[v].value
      /\ p'.stored = p.stored /\ \A v \in Vars : scope[v] # depth => value'[v] = value[v]
  BY DEF Steady, Keeps
<1>4. parked(f) /\ ArrivesAt(i)
  BY DEF Steady, parked, Arrives
<1>5. restored(g) = restored(f)
  BY <1>3 DEF restored
<1>6. ASSUME NEW v \in Outside(i), value'[v] # junk
      PROVE  /\ v \in restored(g) =>
                   value'[v] = p'.stored[v] /\ (g.waiting => g.entry[v].value = value'[v])
             /\ v \notin restored(g) =>
                   Found(v)' /\ (v \in g.list => p'.precompute[v].value = junk)
  <2>1. value'[v] = value[v]
    BY <1>2, <1>3
  <2>2. CASE v \in restored(f)
    BY <1>3, <1>4, <1>5, <1>6, <2>1, <2>2 DEF ArrivesAt
  <2>3. CASE v \notin restored(f)
    <3>1. Found(v) /\ (v \in f.list => p.precompute[v].value = junk)
      BY <1>4, <1>6, <2>1, <2>3 DEF ArrivesAt
    <3>2. p'.precompute[v].value = p.precompute[v].value
      BY <1>3, <2>3
    <3> QED BY <1>3, <1>5, <2>1, <2>3, <3>1, <3>2 DEF Found, Operand, valueKnown
  <2> QED BY <2>2, <2>3
<1> QED BY <1>2, <1>4, <1>6 DEF ArrivesAt

\* What is pointed to stays in storage.
LEMMA PinnedStep ==
    ASSUME BasicInv, PointeesPinned, Scoped,
           \A w \in Vars : Pinned(w) => p'.precompute[w] = givenUp,
           \A i \in DOMAIN open' : Keeps(i) \/ \A w \in restored(open'[i]) : valueKnown(p, w),
           \A v \in Vars : \A w \in {value'[v], p'.precompute[v].value} \cap Vars :
               Pinned(w)' \/ \E u \in Vars : w \in {value[u], p.precompute[u].value}
    PROVE  PointeesPinned'
<1>1. ASSUME NEW w \in Vars, Pinned(w) PROVE Pinned(w)'
  <2>1. scope'[w] = 0
    BY <1>1 DEF Scoped, Pinned, notYet
  <2>2. ASSUME NEW i \in DOMAIN open' PROVE w \notin restored(open'[i])
    <3>1. CASE Keeps(i)
      BY <1>1, <3>1 DEF Keeps, restored, Pinned
    <3>2. CASE \A u \in restored(open'[i]) : valueKnown(p, u)
      BY <1>1, <3>2 DEF Pinned, valueKnown, givenUp
    <3> QED BY <3>1, <3>2
  <2> QED BY <1>1, <2>1, <2>2 DEF Pinned, restored, givenUp
<1>2. ASSUME NEW v \in Vars, NEW w \in {value'[v], p'.precompute[v].value} \cap Vars
      PROVE  Pinned(w)'
  BY <1>1, <1>2 DEF PointeesPinned
<1> QED BY <1>2 DEF PointeesPinned

\* A step within the blocks that are open.
LEMMA InsideStep ==
    ASSUME PInv, Steady, BasicInv', Once', InsideUnknown', PointeesPinned', SameAsIR',
           DOMAIN open' = DOMAIN open, depth' = depth,
           \A i \in DOMAIN open :
               /\ open'[i].arm = open[i].arm /\ open'[i].waiting = open[i].waiting
               /\ open'[i].left = open[i].left,
           scope' = scope \/ ~ CountingOn, executing' = executing, stopped' = stopped,
           \A v \in Reassigned : scope[v] # notYet /\ p.precompute[v].value = junk
               => p'.precompute[v].value = junk
    PROVE  PInv'
<1>1. TypesOK /\ depth \in Nat /\ DOMAIN open = 1 .. depth /\ open' \in Seq(Frames)
  BY OpenFacts DEF PInv, BasicInv, TypesOK
<1>2. \A i \in DOMAIN open : Keeps(i)
  BY DEF Steady
<1>3. Nesting'
  <2>1. \A v \in Vars : scope'[v] <= depth'
    BY <1>1 DEF PInv, Nesting, Steady, Scoped, notYet, gone
  <2>2. \A i, j \in DOMAIN open' : i < j /\ open'[i].kind = "logical" => open'[j].kind = "logical"
    BY <1>2 DEF PInv, Nesting, Keeps
  <2>3. ASSUME NEW i \in DOMAIN open', open'[i].kind = "loop", open'[i].arm = 2
        PROVE  i = depth' /\ \A v \in Vars : scope'[v] # depth'
    <3>1. i = depth /\ \A v \in Vars : scope[v] # depth
      BY <1>2, <2>3 DEF PInv, Nesting, Keeps
    <3>2. CountingOn
      BY <1>1, <1>2, <2>3, <3>1 DEF CountingOn, Within, innermost, Keeps
    <3> QED BY <3>1, <3>2
  <2> QED BY <2>1, <2>2, <2>3 DEF Nesting
<1>4. FramesOK'
  BY <1>1, SteadyFrames DEF PInv, FramesOK
<1>5. StoppedUnknown'
  <2> SUFFICES ASSUME NEW v \in stopped
               PROVE  /\ scope'[v] # notYet
                      /\ \/ p'.precompute[v].value = junk
                         \/ \E i \in DOMAIN open' : open'[i].arm = 2 /\ v \in restored(open'[i])
    BY DEF StoppedUnknown, restored
  <2>1. v \in Vars /\ v \in Reassigned /\ scope[v] # notYet
    BY <1>1, ProgramAssumption DEF PInv, StoppedUnknown, TypesOK
  <2>2. scope'[v] # notYet
    BY <1>1, <2>1 DEF Steady, Scoped, notYet, gone
  <2>3. \A i \in DOMAIN open : restored(open'[i]) = restored(open[i])
    BY <1>2 DEF Keeps, restored
  <2> QED BY <2>1, <2>2, <2>3 DEF PInv, StoppedUnknown
<1>6. OnePlace'
  BY DEF PInv, OnePlace, parked
<1>7. Arrives'
  <2> SUFFICES ASSUME NEW i \in DOMAIN open', parked(open'[i]) PROVE ArrivesAt(i)'
    BY DEF Arrives, parked
  <2>1. ~ executing
    BY DEF PInv, OnePlace, parked
  <2> QED BY <2>1, SteadyArrives DEF PInv
<1> QED BY <1>3, <1>4, <1>5, <1>6, <1>7 DEF PInv

\* The variable that an instruction changes is found, and the others still are.
LEMMA InstructionSameAsIR ==
    ASSUME SameAsIR, PointeesPinned, NEW v \in Vars, Instruction(v),
           \A u \in Vars \ {v} : scope'[u] = scope[u]
    PROVE  SameAsIR'
<1>1. CASE ~ executing
  BY <1>1 DEF Instruction, SameAsIR
<1>2. CASE executing
  <2>1. \A u \in Vars : Declared(u) /\ value[u] # junk => Found(u)
    BY <1>2, SameAsIRFound
  <2>2. value'[v] # junk => value'[v] = Operand(p', v)
    BY <1>2 DEF Instruction, GetsValue, Right
  <2>3. ASSUME NEW u \in Vars \ {v}, scope'[u] >= 0, value'[u] # junk
        PROVE  value'[u] = Operand(p', u)
    <3>1. Found(u)
      BY <2>1, <2>3 DEF Instruction, Declared
    <3>2. p'.precompute[u] = p.precompute[u] /\ p'.stored[u] = p.stored[u] /\ value'[u] = value[u]
      BY DEF Instruction, Touches
    <3> QED BY <3>1, <3>2 DEF Found, Operand, valueKnown
  <2> QED BY <2>2, <2>3 DEF SameAsIR, Agrees, Declared, Operand, valueKnown
<1> QED BY <1>1, <1>2

\* A declaration.
LEMMA DeclarationStep ==
    ASSUME PInv, BasicInv', NEW v \in Vars, Declaration(v),
           v \in Reassigned => p'.precompute[v].precomputedOnce,
           v \in AddressedInside => p'.precompute[v].value = junk,
           \A w \in {value'[v], p'.precompute[v].value} \cap Vars :
               \E u \in Vars : w \in {value[u], p.precompute[u].value}
    PROVE  PInv'
<1>1. /\ TypesOK /\ depth \in Nat /\ DOMAIN open = 1 .. depth
      /\ \A i \in DOMAIN open : open[i] \in Frames
  BY OpenFacts DEF PInv, BasicInv, TypesOK
<1>2. /\ Instruction(v) /\ scope[v] = notYet /\ ~ CountingOn
      /\ scope' = [scope EXCEPT ![v] = depth] /\ open' = open
      /\ executing' = executing /\ stopped' = stopped
      /\ \A u \in Vars \ {v} : p'.precompute[u] = p.precompute[u]
      /\ \A u \in Vars \ {v} : value'[u] = value[u]
      /\ ~ executing => p'.stored = p.stored /\ value' = value
  BY DEF Declaration, Instruction, Touches
<1>3. scope'[v] = depth /\ \A u \in Vars \ {v} : scope'[u] = scope[u]
  BY <1>1, <1>2 DEF TypesOK
<1>4. Scoped
  BY <1>2, <1>3 DEF Scoped
<1>5. Steady
  <2>1. \A i \in DOMAIN open : v \notin Outside(i) /\ Outside(i) \subseteq Vars
    BY <1>2 DEF Outside, notYet
  <2> QED BY <1>2, <1>4, <2>1 DEF Steady, Keeps
<1>6. Once' /\ InsideUnknown'
  <2>1. Once'
    BY <1>2, <1>3, ProgramAssumption DEF PInv, Once
  <2>2. InsideUnknown'
    BY <1>2, ProgramAssumption DEF PInv, InsideUnknown
  <2> QED BY <2>1, <2>2
<1>7. PointeesPinned'
  <2>1. \A w \in Vars : Pinned(w) => p'.precompute[w] = givenUp
    BY <1>2 DEF Pinned, notYet
  <2>2. \A i \in DOMAIN open' : Keeps(i)
    BY <1>2 DEF Keeps
  <2>3. \A u \in Vars : \A w \in {value'[u], p'.precompute[u].value} \cap Vars :
           \E x \in Vars : w \in {value[x], p.precompute[x].value}
    BY <1>2
  <2> QED BY <1>4, <2>1, <2>2, <2>3, PinnedStep DEF PInv
<1>8. SameAsIR'
  BY <1>2, <1>3, InstructionSameAsIR DEF PInv
<1>9. \A u \in Reassigned : scope[u] # notYet /\ p.precompute[u].value = junk
         => p'.precompute[u].value = junk
  BY <1>2, ProgramAssumption
<1> QED BY <1>1, <1>2, <1>5, <1>6, <1>7, <1>8, <1>9, InsideStep DEF depth

\* An assignment.
LEMMA MutationStep ==
    ASSUME PInv, BasicInv', NEW v \in Vars, Mutation(v),
           v \in Reassigned \ Pointers, Listed(v), ~ Within("logical"),
           p'.precompute[v].precomputedOnce,
           p.precompute[v] = givenUp => p'.precompute[v] = givenUp
    PROVE  PInv'
<1>1. /\ TypesOK /\ depth \in Nat /\ DOMAIN open = 1 .. depth
      /\ \A i \in DOMAIN open : open[i] \in Frames
  BY OpenFacts DEF PInv, BasicInv, TypesOK
<1>2. /\ Instruction(v) /\ Declared(v) /\ scope' = scope /\ open' = Mutated(v)
      /\ executing' = executing /\ stopped' = stopped
      /\ \A u \in Vars \ {v} : p'.precompute[u] = p.precompute[u]
      /\ \A u \in Vars \ {v} : value'[u] = value[u]
      /\ ~ executing => p'.stored = p.stored /\ value' = value
      /\ value'[v] \in Fits(v) /\ p'.precompute[v].value \in Fits(v)
  BY DEF Mutation, Instruction, Touches
<1>3. /\ depth' = depth /\ DOMAIN open' = DOMAIN open
      /\ \A i \in DOMAIN open :
            /\ Keeps(i) /\ open'[i].todo = open[i].todo \ {v}
            /\ open'[i].arm = open[i].arm /\ open'[i].waiting = open[i].waiting
            /\ open'[i].left = open[i].left
  BY <1>1, <1>2, MutatedFacts DEF TypesOK
<1>4. Scoped
  BY <1>2 DEF Scoped
<1>5. p.precompute[v].value = junk => p.precompute[v] = givenUp /\ p'.precompute[v].value = junk
  <2>1. p.precompute[v].precomputedOnce /\ p.precompute[v] \in Info
    BY <1>1, <1>2 DEF PInv, Once, Declared, notYet, TypesOK, State
  <2>2. p.precompute[v].value = junk => p.precompute[v] = givenUp
    BY <2>1 DEF Info, givenUp
  <2> QED BY <2>2 DEF givenUp
<1>6. ASSUME NEW i \in DOMAIN open, v \in Outside(i) \ restored(open[i])
      PROVE  p.precompute[v].value = junk
  <2>1. v \in open[i].list
    BY <1>1, <1>6 DEF Listed, Outside, TypesOK
  <2>2. open[i].kind # "logical"
    <3>1. depth \in DOMAIN open /\ (i < depth \/ i = depth) /\ innermost.kind # "logical"
      BY <1>1 DEF Within
    <3> QED BY <3>1 DEF PInv, Nesting, innermost
  <2> QED BY <1>6, <2>1, <2>2 DEF PInv, FramesOK, FrameOK
<1>7. Steady
  <2>1. ASSUME NEW i \in DOMAIN open, NEW u \in Outside(i) \ restored(open[i])
        PROVE  p'.precompute[u].value = p.precompute[u].value
    <3>1. CASE u = v
      BY <1>5, <1>6, <3>1
    <3>2. CASE u # v
      BY <1>2, <3>2 DEF Outside
    <3> QED BY <3>1, <3>2
  <2> QED BY <1>2, <1>3, <1>4, <2>1 DEF Steady
<1>8. Once' /\ InsideUnknown'
  <2>1. Once'
    BY <1>2, ProgramAssumption DEF PInv, Once
  <2>2. InsideUnknown'
    BY <1>2, <1>5, ProgramAssumption DEF PInv, InsideUnknown
  <2> QED BY <2>1, <2>2
<1>9. PointeesPinned'
  <2>1. \A w \in Vars : Pinned(w) => p'.precompute[w] = givenUp
    BY <1>2 DEF Pinned
  <2>2. {value'[v], p'.precompute[v].value} \cap Vars = {}
    BY <1>2, Contents DEF Fits
  <2>3. \A u \in Vars : \A w \in {value'[u], p'.precompute[u].value} \cap Vars :
           \E x \in Vars : w \in {value[x], p.precompute[x].value}
    BY <1>2, <2>2
  <2> QED BY <1>3, <1>4, <2>1, <2>3, PinnedStep DEF PInv
<1>10. SameAsIR'
  BY <1>2, InstructionSameAsIR DEF PInv
<1>11. \A u \in Reassigned : scope[u] # notYet /\ p.precompute[u].value = junk
          => p'.precompute[u].value = junk
  BY <1>2, <1>5, ProgramAssumption
<1> QED BY <1>2, <1>3, <1>7, <1>8, <1>9, <1>10, <1>11, InsideStep

\* A number is declared.
LEMMA NumberDeclared ==
    ASSUME WithoutKnownDefects, PInv, NEW v \in Vars, NEW way \in Ways \ {"copy", "address"},
           Declare(v, way), Declaration(v),
           way = "immediate" => p'.precompute[v].precomputedOnce,
           way = "load" => p'.precompute[v] = givenUp,
           way = "runtime" => p'.precompute = p.precompute
    PROVE  PInv'
<1>1. BasicInv /\ BasicInv'
  BY InstructionBasic DEF PInv
<1>2. v \notin Pointers /\ way \in Declares[v] /\ p.precompute[v] = unknown
  BY <1>1, DeclareFacts
<1>3. v \in Reassigned => p'.precompute[v].precomputedOnce
  BY <1>2 DEF WithoutKnownDefects, givenUp
<1>4. v \in AddressedInside => p'.precompute[v].value = junk
  BY <1>2 DEF WithoutKnownDefects, givenUp, unknown
<1>5. {value'[v], p'.precompute[v].value} \cap Vars = {}
  BY <1>2, Contents DEF Declaration, Instruction, Fits
<1> QED BY <1>1, <1>3, <1>4, <1>5, DeclarationStep

\* A copy of a known value is as known.
LEMMA CopyOfKnown ==
    ASSUME BasicInv, NEW v \in Vars, NEW w \in Vars, DeclareCopy(v, w), valueKnown(p, w)
    PROVE  p'.precompute[v] = p.precompute[w]
<1>1. p.precompute[v] = unknown /\ p \in State /\ p' = assign(p, v, w)
  BY DeclareFacts DEF DeclareCopy, Ways
<1>2. beforeMutation(p, v, {w}) = p
  BY DEF beforeMutation
<1>3. p' = [p EXCEPT !.precompute[v] = p.precompute[w]]
  BY <1>1, <1>2 DEF assign, unknown
<1> QED BY <1>1, <1>3 DEF State

\* A copy is declared.
LEMMA CopyDeclared ==
    ASSUME WithoutKnownDefects, CopiesLiteral, PInv,
           NEW v \in Vars, NEW w \in Vars, DeclareCopy(v, w)
    PROVE  PInv'
<1>1. BasicInv
  BY DEF PInv
<1>2. /\ Declaration(v) /\ value'[v] \in {value[v], value[w]}
      /\ p'.precompute[v] \in {p.precompute[v], givenUp, p.precompute[w]}
  BY <1>1, DeclareCopyDoes
<1>3. BasicInv'
  BY <1>1, <1>2, InstructionBasic
<1>4. "copy" \in Declares[v]
  BY <1>1, DeclareFacts DEF DeclareCopy, Ways
<1>5. v \notin AddressedInside /\ (v \in Reassigned => p'.precompute[v].precomputedOnce)
  BY <1>1, <1>4, CopyOfKnown DEF WithoutKnownDefects, CopiesLiteral
<1>6. ASSUME NEW x \in {value'[v], p'.precompute[v].value} \cap Vars
      PROVE  \E u \in Vars : x \in {value[u], p.precompute[u].value}
  BY <1>2, <1>6, Contents DEF givenUp
<1> QED BY <1>2, <1>3, <1>5, <1>6, DeclarationStep

\* What is assigned keeps to the invariant.
LEMMA MutatedInside ==
    ASSUME WithoutKnownDefects, PInv, NEW v \in Vars, Mutation(v),
           v \in Reassigned, Listed(v), ~ Within("logical"),
           \/ p'.precompute[v] = p.precompute[v]
           \/ p'.precompute[v].precomputedOnce
           \/ p'.precompute[v].precomputedOnce = p.precompute[v].precomputedOnce
    PROVE  PInv'
<1>1. BasicInv' /\ StayGivenUp
  BY InstructionBasic DEF PInv
<1>2. p.precompute[v].precomputedOnce
  BY DEF PInv, Once, Mutation, Declared, notYet
<1>3. p'.precompute[v].precomputedOnce
  BY <1>2
<1>4. v \in Reassigned \ Pointers
  BY DEF WithoutKnownDefects
<1>5. p.precompute[v] = givenUp => p'.precompute[v] = givenUp
  BY <1>1 DEF StayGivenUp
<1> QED BY <1>1, <1>3, <1>4, <1>5, MutationStep

LEMMA AssignPInv ==
    ASSUME WithoutKnownDefects, PInv, NEW v \in Vars, NEW w \in Vars,
           Assign(v, w) \/ Add(v, w)
    PROVE  PInv'
<1>1. CASE Assign(v, w)
  <2>1. /\ Mutation(v) /\ v \in Reassigned /\ Listed(v) /\ ~ Within("logical")
        /\ \/ p'.precompute[v] = p.precompute[v]
           \/ p'.precompute[v] = givenUp
           \/ p'.precompute[v].precomputedOnce
    BY <1>1, AssignDoes DEF PInv, WithoutKnownDefects
  <2> QED BY <2>1, MutatedInside DEF givenUp
<1>2. CASE Add(v, w)
  <2>1. /\ Mutation(v) /\ v \in Reassigned /\ Listed(v) /\ ~ Within("logical")
        /\ \/ p'.precompute[v] = p.precompute[v]
           \/ p'.precompute[v] = givenUp
           \/ p'.precompute[v].precomputedOnce = p.precompute[v].precomputedOnce
    BY <1>2, AddDoes DEF PInv
  <2> QED BY <2>1, MutatedInside DEF givenUp
<1> QED BY <1>1, <1>2

LEMMA IncrementPInv ==
    ASSUME WithoutKnownDefects, PInv, NEW v \in Vars, Increment(v)
    PROVE  PInv'
<1>1. /\ Mutation(v) /\ CountingOn /\ v \in innermost.todo /\ scope[v] = depth - 1
      /\ \/ p'.precompute[v] = p.precompute[v]
         \/ p'.precompute[v].precomputedOnce = p.precompute[v].precomputedOnce
  BY IncrementDoes DEF PInv
<1>2. TypesOK /\ depth \in Nat /\ DOMAIN open = 1 .. depth
  BY OpenFacts DEF PInv, BasicInv, TypesOK
<1>3. depth \in DOMAIN open /\ innermost = open[depth] /\ innermost.kind = "loop"
  BY <1>1, <1>2 DEF CountingOn, Within, innermost
<1>4. v \in innermost.list /\ innermost.list \subseteq Reassigned
  BY <1>1, <1>3 DEF PInv, FramesOK, FrameOK
<1>5. Listed(v)
  BY <1>1, <1>2, <1>3, <1>4 DEF Listed
<1>6. ~ Within("logical")
  BY <1>3 DEF Within
<1> QED BY <1>1, <1>4, <1>5, <1>6, MutatedInside

LEMMA TakeAddressPInv ==
    ASSUME WithoutKnownDefects, PInv, NEW v \in Vars, NEW w \in Vars, TakeAddress(v, w)
    PROVE  PInv'
<1>1. /\ BasicInv /\ TypesOK /\ depth \in Nat /\ DOMAIN open = 1 .. depth
      /\ \A i \in DOMAIN open : open[i] \in Frames
  BY OpenFacts DEF PInv, BasicInv, TypesOK
<1>2. /\ v \in Pointers /\ w \in Addressed /\ v # w
      /\ scope[v] = notYet /\ p.precompute[v] = unknown /\ ~ CountingOn
      /\ Usable(w) /\ scope[w] = 0
      /\ depth > 0 => w \in AddressedInside
      /\ p' \in State /\ p'.panicked = p.panicked
      /\ \A u \in Vars \ {w} : p'.stored[u] = p.stored[u]
      /\ ~ executing => p'.stored = p.stored
      /\ executing => Operand(p', w) = Operand(p, w)
      /\ p'.precompute[w] = givenUp
      /\ p'.precompute[v] = [value |-> w, precomputedOnce |-> TRUE]
      /\ \A u \in Vars \ {v, w} : p'.precompute[u] = p.precompute[u]
      /\ scope' = [scope EXCEPT ![v] = depth] /\ open' = open
      /\ executing' = executing /\ stopped' = stopped
      /\ w \in Fits(v) /\ Set(v, w)
  BY <1>1, TakeAddressDoes
<1>3. BasicInv'
  BY <1>1, TakeAddressBasic
<1>4. /\ scope'[v] = depth /\ \A u \in Vars \ {v} : scope'[u] = scope[u]
      /\ \A u \in Vars \ {v} : value'[u] = value[u]
      /\ executing => value'[v] = w
      /\ ~ executing => value' = value
  BY <1>1, <1>2 DEF TypesOK, Set
<1>5. Scoped
  BY <1>2, <1>4 DEF Scoped
<1>6. depth > 0 => p.precompute[w].value = junk
  BY <1>2 DEF PInv, InsideUnknown
<1>7. Steady
  <2>1. ASSUME NEW i \in DOMAIN open, NEW u \in Outside(i)
        PROVE  p'.precompute[u].value = p.precompute[u].value
    <3>1. u # v /\ u \in Vars /\ depth > 0
      BY <1>1, <1>2, <2>1 DEF Outside, notYet
    <3> QED BY <1>2, <1>6, <3>1 DEF givenUp
  <2> QED BY <1>2, <1>4, <1>5, <2>1 DEF Steady, Keeps
<1>8. \A u \in Reassigned : scope[u] # notYet /\ p.precompute[u].value = junk
         => p'.precompute[u].value = junk
  BY <1>2, ProgramAssumption DEF givenUp
<1>9. Once'
  BY <1>2, <1>4, ProgramAssumption DEF PInv, Once, givenUp
<1>10. InsideUnknown'
  <2>1. v \notin AddressedInside
    BY <1>2, ProgramAssumption
  <2> QED BY <1>2, <2>1, ProgramAssumption DEF PInv, InsideUnknown, givenUp
<1>11. Pinned(w)'
  <2>1. scope'[w] = 0 /\ p'.precompute[w] = givenUp
    BY <1>2, <1>4
  <2>2. ASSUME NEW i \in DOMAIN open' PROVE w \notin restored(open'[i])
    <3>1. depth > 0 /\ w \in AddressedInside
      BY <1>1, <1>2, <2>2
    <3> QED BY <1>2, <2>2, <3>1 DEF PInv, FramesOK, FrameOK
  <2> QED BY <2>1, <2>2 DEF Pinned, restored, givenUp
<1>12. PointeesPinned'
  <2>1. \A u \in Vars : Pinned(u) => p'.precompute[u] = givenUp
    BY <1>2 DEF Pinned, notYet
  <2>2. \A i \in DOMAIN open' : Keeps(i)
    BY <1>2 DEF Keeps
  <2>3. ASSUME NEW u \in Vars, NEW x \in {value'[u], p'.precompute[u].value} \cap Vars
        PROVE  Pinned(x)' \/ \E y \in Vars : x \in {value[y], p.precompute[y].value}
    <3>1. CASE x = w
      BY <1>11, <3>1
    <3>2. CASE x # w
      <4>1. value'[u] = x => value[u] = x
        BY <1>4, <3>2
      <4>2. p'.precompute[u].value = x => p.precompute[u].value = x
        BY <1>2, <2>3, <3>2, Contents DEF givenUp
      <4> QED BY <2>3, <4>1, <4>2
    <3> QED BY <3>1, <3>2
  <2> QED BY <1>1, <1>5, <2>1, <2>2, <2>3, PinnedStep DEF PInv
<1>13. SameAsIR'
  <2>1. CASE ~ executing
    BY <1>2, <2>1 DEF SameAsIR
  <2>2. CASE executing
    <3>1. \A u \in Vars : Declared(u) /\ value[u] # junk => Found(u)
      BY <2>2, SameAsIRFound DEF PInv
    <3>2. ASSUME NEW u \in Vars, scope'[u] >= 0, value'[u] # junk
          PROVE  value'[u] = Operand(p', u)
      <4>1. CASE u = v
        BY <1>2, <1>4, <2>2, <4>1, Contents DEF Operand, valueKnown
      <4>2. CASE u = w
        BY <1>2, <1>4, <2>2, <3>1, <3>2, <4>2 DEF Found, Declared
      <4>3. CASE u # v /\ u # w
        BY <1>2, <1>4, <2>2, <3>1, <3>2, <4>3 DEF Found, Declared, Operand, valueKnown
      <4> QED BY <4>1, <4>2, <4>3
    <3> QED BY <3>2 DEF SameAsIR, Agrees, Declared, Operand, valueKnown
  <2> QED BY <2>1, <2>2
<1> QED BY <1>2, <1>3, <1>7, <1>8, <1>9, <1>10, <1>12, <1>13, InsideStep DEF depth

LEMMA IndirectWritePInv ==
    ASSUME WithoutKnownDefects, PInv, NEW target \in Vars, NEW data \in Vars,
           IndirectWrite(target, data)
    PROVE  PInv'
<1> DEFINE a == value[target]
<1>1. BasicInv /\ TypesOK /\ BasicInv'
  BY IndirectWriteBasic DEF PInv, BasicInv
<1>2. /\ p' \in State /\ p'.precompute = p.precompute
      /\ ~ executing => p'.stored = p.stored /\ value' = value
      /\ executing => /\ a \in Vars /\ value'[a] = value[data]
                      /\ \A u \in Vars \ {a} : value'[u] = value[u]
      /\ Right /\ executing => /\ p'.stored[a] = value[data]
                               /\ \A u \in Vars \ {a} : p'.stored[u] = p.stored[u]
      /\ executing' = executing /\ open' = open /\ scope' = scope /\ stopped' = stopped
  BY <1>1, IndirectWriteDoes
<1>3. Right
  BY DEF Right, PInv
<1>4. Scoped
  BY <1>2 DEF Scoped
<1>5. Steady
  BY <1>2, <1>4 DEF Steady, Keeps
<1>6. Once' /\ InsideUnknown'
  BY <1>2 DEF PInv, Once, InsideUnknown
<1>7. executing => Pinned(a)
  BY <1>2 DEF PInv, PointeesPinned
<1>8. PointeesPinned'
  <2>1. \A w \in Vars : Pinned(w) => p'.precompute[w] = givenUp
    BY <1>2 DEF Pinned
  <2>2. \A i \in DOMAIN open' : Keeps(i)
    BY <1>2 DEF Keeps
  <2>3. \A u \in Vars : \A w \in {value'[u], p'.precompute[u].value} \cap Vars :
           \E x \in Vars : w \in {value[x], p.precompute[x].value}
    BY <1>2
  <2> QED BY <1>1, <1>4, <2>1, <2>2, <2>3, PinnedStep DEF PInv
<1>9. SameAsIR'
  <2>1. CASE ~ executing
    BY <1>2, <2>1 DEF SameAsIR
  <2>2. CASE executing
    <3>1. \A u \in Vars : Declared(u) /\ value[u] # junk => Found(u)
      BY <2>2, SameAsIRFound DEF PInv
    <3>2. ASSUME NEW u \in Vars, scope'[u] >= 0, value'[u] # junk
          PROVE  value'[u] = Operand(p', u)
      <4>1. CASE u = a
        BY <1>2, <1>3, <1>7, <2>2, <4>1 DEF Operand, valueKnown, Pinned, givenUp
      <4>2. CASE u # a
        BY <1>2, <1>3, <2>2, <3>1, <3>2, <4>2 DEF Found, Declared, Operand, valueKnown
      <4> QED BY <4>1, <4>2
    <3> QED BY <3>2 DEF SameAsIR, Agrees, Declared, Operand, valueKnown
  <2> QED BY <2>1, <2>2
<1> QED BY <1>1, <1>2, <1>5, <1>6, <1>8, <1>9, InsideStep DEF depth

\* A step at the edge of a block.
LEMMA BlockStep ==
    ASSUME PInv, BasicInv', Steady, Nesting', Once', InsideUnknown', StoppedUnknown',
           PointeesPinned', OnePlace', SameAsIR',
           \A i \in DOMAIN open' : i \in DOMAIN open \/ FrameOK(i)',
           \A i \in DOMAIN open' :
               parked(open'[i]) /\ (executing \/ i \notin DOMAIN open) => ArrivesAt(i)'
    PROVE  PInv'
<1>1. open' \in Seq(Frames)
  BY DEF BasicInv, TypesOK
<1>2. FramesOK'
  BY <1>1, SteadyFrames DEF PInv, FramesOK
<1>3. Arrives'
  <2> SUFFICES ASSUME NEW i \in DOMAIN open', parked(open'[i]) PROVE ArrivesAt(i)'
    BY DEF Arrives, parked
  <2>1. CASE executing \/ i \notin DOMAIN open
    BY <2>1
  <2>2. CASE ~ executing /\ i \in DOMAIN open
    BY <2>2, SteadyArrives DEF PInv
  <2> QED BY <2>1, <2>2
<1> QED BY <1>2, <1>3 DEF PInv

\* What blocks look like.
LEMMA OpenBlocks ==
    ASSUME PInv
    PROVE  /\ BasicInv /\ TypesOK /\ depth \in Nat /\ DOMAIN open = 1 .. depth
           /\ \A i \in DOMAIN open : open[i] \in Frames
           /\ \A v \in Vars : scope[v] \in Int /\ scope[v] <= depth
BY OpenFacts DEF PInv, BasicInv, TypesOK, Nesting

\* A block begins.
LEMMA PushStep ==
    ASSUME PInv, BasicInv', ~ CountingOn, scope' = scope, NEW n, n = depth + 1,
           depth' = n, DOMAIN open' = 1 .. n,
           \A i \in DOMAIN open : open'[i] = open[i],
           open'[n].arm = 1,
           Within("logical") => open'[n].kind = "logical",
           \A i \in DOMAIN open : \A v \in Outside(i) \ restored(open[i]) :
               p'.precompute[v].value = p.precompute[v].value,
           ~ executing => p'.stored = p.stored /\ value' = value,
           FrameOK(n)',
           executing' = (executing /\ ~ parked(open'[n])),
           parked(open'[n]) => executing,
           ~ (open'[n].waiting /\ open'[n].left),
           Once', InsideUnknown', StoppedUnknown', PointeesPinned',
           executing => \A v \in Vars : Declared(v) /\ value'[v] # junk => Found(v)',
           parked(open'[n]) => ArrivesAt(n)'
    PROVE  PInv'
<1>1. /\ BasicInv /\ TypesOK /\ depth \in Nat /\ DOMAIN open = 1 .. depth
      /\ \A i \in DOMAIN open : open[i] \in Frames
      /\ \A v \in Vars : scope[v] \in Int /\ scope[v] <= depth
  BY OpenBlocks
<1>2. /\ \A i \in DOMAIN open' : i \in DOMAIN open \/ i = n
      /\ \A i \in DOMAIN open : i # n /\ i \in DOMAIN open'
  BY <1>1
<1>3. Steady
  <2>1. Scoped
    BY DEF Scoped
  <2> QED BY <1>1, <2>1 DEF Steady, Keeps
<1>4. Nesting'
  <2>1. \A v \in Vars : scope'[v] <= depth'
    BY <1>1
  <2>2. ASSUME NEW i \in DOMAIN open', NEW j \in DOMAIN open', i < j, open'[i].kind = "logical"
        PROVE  open'[j].kind = "logical"
    <3>1. i \in DOMAIN open /\ i <= depth /\ open[i].kind = "logical" /\ depth \in DOMAIN open
      BY <1>1, <1>2, <2>2
    <3>2. innermost.kind = "logical" /\ Within("logical")
      BY <1>1, <3>1 DEF PInv, Nesting, Within, innermost
    <3>3. CASE j \in DOMAIN open
      BY <2>2, <3>1, <3>3 DEF PInv, Nesting
    <3>4. CASE j = n
      BY <3>2, <3>4
    <3> QED BY <1>2, <3>3, <3>4
  <2>3. ASSUME NEW i \in DOMAIN open', open'[i].kind = "loop", open'[i].arm = 2
        PROVE  FALSE
    <3>1. i \in DOMAIN open /\ open[i].kind = "loop" /\ open[i].arm = 2
      BY <1>2, <2>3
    <3>2. i = depth
      BY <3>1 DEF PInv, Nesting
    <3> QED BY <1>1, <3>1, <3>2 DEF CountingOn, Within, innermost
  <2> QED BY <2>1, <2>2, <2>3 DEF Nesting
<1>5. OnePlace'
  <2>1. ASSUME NEW i \in DOMAIN open', NEW j \in DOMAIN open', parked(open'[i]), parked(open'[j])
        PROVE  i = j
    BY <1>2, <2>1 DEF PInv, OnePlace
  <2>2. executing' => \A i \in DOMAIN open' : ~ parked(open'[i])
    BY <1>2 DEF PInv, OnePlace
  <2>3. \A i \in DOMAIN open' : ~ (open'[i].waiting /\ open'[i].left)
    BY <1>2 DEF PInv, OnePlace
  <2> QED BY <2>1, <2>2, <2>3 DEF OnePlace, parked
<1>6. SameAsIR'
  BY DEF SameAsIR, Agrees, Declared, Found, Operand, valueKnown
<1>7. \A i \in DOMAIN open' : i \in DOMAIN open \/ FrameOK(i)'
  BY <1>2
<1>8. ASSUME NEW i \in DOMAIN open', parked(open'[i]), executing \/ i \notin DOMAIN open
      PROVE  ArrivesAt(i)'
  <2>1. CASE i = n
    BY <1>8, <2>1
  <2>2. CASE i \in DOMAIN open
    BY <1>8, <2>2 DEF PInv, OnePlace
  <2> QED BY <1>2, <2>1, <2>2
<1> QED BY <1>3, <1>4, <1>5, <1>6, <1>7, <1>8, BlockStep

\* What the lists around have, is not known.
LEMMA ListedKnown ==
    ASSUME PInv, NEW v \in Vars, Listed(v), ~ Within("logical"), valueKnown(p, v),
           NEW i \in DOMAIN open, v \in Outside(i)
    PROVE  v \in restored(open[i])
<1>1. /\ depth \in Nat /\ DOMAIN open = 1 .. depth /\ \A u \in Vars : scope[u] \in Int
  BY OpenBlocks
<1>2. v \in open[i].list
  BY <1>1 DEF Listed, Outside
<1>3. open[i].kind # "logical"
  <2>1. depth \in DOMAIN open /\ (i < depth \/ i = depth) /\ innermost.kind # "logical"
    BY <1>1 DEF Within
  <2> QED BY <2>1 DEF PInv, Nesting, innermost
<1> QED BY <1>2, <1>3 DEF PInv, FramesOK, FrameOK, valueKnown

\* A number is moved as it is.
LEMMA MovedReassigned ==
    ASSUME WithoutKnownDefects, TypesOK, NEW v \in Reassigned, v \in Vars, valueKnown(p, v)
    PROVE  Moved(p, v) = p.precompute[v].value /\ p.precompute[v].value \in Number
<1>1. v \notin Pointers /\ p.precompute[v].value \in Fits(v)
  BY DEF WithoutKnownDefects, TypesOK
<1>2. p.precompute[v].value \in Number
  BY <1>1 DEF Fits, valueKnown
<1> QED BY <1>2, Contents DEF Moved

LEMMA IfPInv ==
    ASSUME WithoutKnownDefects, PInv, NEW c \in Vars, NEW list \in SUBSET Reassigned,
           If(c, list)
    PROVE  PInv'
<1> PICK n \in Nat : n = depth + 1
  BY OpenBlocks
<1> DEFINE f == open'[n]
<1>1. /\ BasicInv /\ TypesOK /\ depth \in Nat /\ DOMAIN open = 1 .. depth
      /\ \A i \in DOMAIN open : open[i] \in Frames
      /\ \A v \in Vars : scope[v] \in Int /\ scope[v] <= depth
  BY OpenBlocks
<1>2. BasicInv'
  BY <1>1, IfBasic
<1>3. /\ \A v \in list : v \in Vars /\ Declared(v) /\ Listed(v)
      /\ ~ Within("logical") /\ ~ CountingOn
      /\ p'.precompute = p.precompute
      /\ \A v \in Vars : p'.stored[v] =
            IF executing /\ v \in list /\ valueKnown(p, v) THEN Moved(p, v) ELSE p.stored[v]
      /\ executing' = (executing /\ value[c] # 0)
      /\ depth' = n /\ DOMAIN open' = 1 .. n
      /\ \A i \in DOMAIN open : open'[i] = open[i]
      /\ f.kind = "option" /\ f.list = list /\ f.todo = list /\ f.arm = 1
      /\ f.waiting = (executing /\ value[c] = 0) /\ f.left = FALSE
      /\ restored(f) = {v \in list : valueKnown(p, v)}
      /\ \A v \in restored(f) : f.entry[v] = p.precompute[v]
      /\ value' = value /\ scope' = scope /\ stopped' = stopped
      /\ p' \in State
  BY <1>1, IfDoes
<1> HIDE DEF f
<1>4. ~ executing => p'.stored = p.stored
  <2>1. p.stored \in [Vars -> Content] /\ p'.stored \in [Vars -> Content]
    BY <1>1, <1>3 DEF TypesOK, State
  <2> QED BY <1>3, <2>1
<1>5. \A v \in list : valueKnown(p, v) =>
          Moved(p, v) = p.precompute[v].value /\ p.precompute[v].value \in Number
  BY <1>1, <1>3, MovedReassigned
<1>6. Once' /\ InsideUnknown'
  BY <1>3 DEF PInv, Once, InsideUnknown
<1>7. StoppedUnknown'
  <2> SUFFICES ASSUME NEW v \in stopped
               PROVE  /\ scope[v] # notYet
                      /\ \/ p.precompute[v].value = junk
                         \/ \E i \in DOMAIN open' : open'[i].arm = 2 /\ v \in restored(open'[i])
    BY <1>3 DEF StoppedUnknown, restored
  <2>1. \A i \in DOMAIN open : i \in DOMAIN open'
    BY <1>1, <1>3
  <2> QED BY <1>3, <2>1 DEF PInv, StoppedUnknown
<1>8. \A i \in DOMAIN open' : i \in DOMAIN open \/ i = n
  BY <1>1, <1>3
<1>9. PointeesPinned'
  <2>1. Scoped
    BY <1>3 DEF Scoped
  <2>2. \A w \in Vars : Pinned(w) => p'.precompute[w] = givenUp
    BY <1>3 DEF Pinned
  <2>3. \A i \in DOMAIN open' : Keeps(i) \/ \A w \in restored(open'[i]) : valueKnown(p, w)
    BY <1>3, <1>8 DEF Keeps, f
  <2>4. \A u \in Vars : \A w \in {value'[u], p'.precompute[u].value} \cap Vars :
           \E x \in Vars : w \in {value[x], p.precompute[x].value}
    BY <1>3
  <2> QED BY <1>1, <2>1, <2>2, <2>3, <2>4, PinnedStep DEF PInv
<1>10. \A v \in Vars : v \in Outside(n)' => v \in Vars /\ Declared(v)
  BY <1>3 DEF Outside, Declared
<1>11. FrameOK(n)'
  <2>1. list \subseteq Outside(n)'
    BY <1>1, <1>3 DEF Outside, Declared
  <2>2. \A v \in list \ restored(f) : p'.precompute[v].value = junk
    BY <1>3 DEF valueKnown
  <2>3. ASSUME NEW v \in restored(f)
        PROVE  /\ f.entry[v].precomputedOnce /\ v \notin AddressedInside
               /\ \A j \in 1 .. depth : v \in Outside(j)' => v \in restored(open'[j])
    <3>1. v \in list /\ valueKnown(p, v) /\ v \in Vars /\ Declared(v) /\ Listed(v)
      BY <1>3, <2>3
    <3>2. f.entry[v].precomputedOnce
      BY <1>3, <2>3, <3>1 DEF PInv, Once, Declared, notYet
    <3>3. v \notin AddressedInside
      BY <3>1 DEF PInv, InsideUnknown, valueKnown
    <3>4. ASSUME NEW j \in 1 .. depth, v \in Outside(j)' PROVE v \in restored(open'[j])
      <4>1. j \in DOMAIN open /\ v \in Outside(j)
        BY <1>1, <1>3, <3>4 DEF Outside
      <4> QED BY <1>3, <3>1, <4>1, ListedKnown
    <3> QED BY <3>2, <3>3, <3>4
  <2>4. n - 1 = depth
    BY <1>1
  <2> QED BY <1>3, <2>1, <2>2, <2>3, <2>4 DEF FrameOK, f, restored
<1>12. executing => \A v \in Vars : Declared(v) /\ value'[v] # junk => Found(v)'
  <2>1. executing => \A v \in Vars : Declared(v) /\ value[v] # junk => Found(v)
    BY SameAsIRFound DEF PInv
  <2> QED BY <1>3, <2>1 DEF Found, Operand, valueKnown
<1>13. ASSUME parked(f) PROVE ArrivesAt(n)'
  <2>1. executing /\ f.waiting
    BY <1>3, <1>13 DEF parked
  <2>2. ASSUME NEW v \in Outside(n)', value'[v] # junk
        PROVE  /\ v \in restored(f) =>
                     value'[v] = p'.stored[v] /\ (f.waiting => f.entry[v].value = value'[v])
               /\ v \notin restored(f) =>
                     Found(v)' /\ (v \in f.list => p'.precompute[v].value = junk)
    <3>1. v \in Vars /\ Declared(v)
      BY <1>10 DEF Outside
    <3>2. Found(v)'
      BY <1>12, <2>1, <2>2, <3>1
    <3>3. CASE v \in restored(f)
      <4>1. v \in list /\ valueKnown(p, v) /\ f.entry[v] = p.precompute[v]
        BY <1>3, <3>3
      <4>2. value'[v] = p.precompute[v].value
        BY <1>3, <3>2, <4>1 DEF Found, Operand, valueKnown
      <4>3. p'.stored[v] = p.precompute[v].value
        BY <1>3, <1>5, <2>1, <3>1, <4>1
      <4> QED BY <3>3, <4>1, <4>2, <4>3
    <3>4. CASE v \notin restored(f)
      BY <1>3, <3>2, <3>4 DEF valueKnown
    <3> QED BY <3>3, <3>4
  <2> QED BY <2>2 DEF ArrivesAt, f, restored
<1>14. /\ executing' = (executing /\ ~ parked(f)) /\ (parked(f) => executing)
       /\ ~ (f.waiting /\ f.left)
  BY <1>3 DEF parked
<1> QED BY <1>2, <1>3, <1>4, <1>6, <1>7, <1>9, <1>11, <1>12, <1>13, <1>14, PushStep DEF f

LEMMA LoopPInv ==
    ASSUME WithoutKnownDefects, PInv, NEW c \in Vars \cup {junk},
           NEW list \in SUBSET Reassigned, Loop(list, c)
    PROVE  PInv'
<1> PICK n \in Nat : n = depth + 1
  BY OpenBlocks
<1> DEFINE f == open'[n]
<1>1. /\ BasicInv /\ TypesOK /\ depth \in Nat /\ DOMAIN open = 1 .. depth
      /\ \A i \in DOMAIN open : open[i] \in Frames
      /\ \A v \in Vars : scope[v] \in Int /\ scope[v] <= depth
  BY OpenBlocks
<1>2. BasicInv'
  BY <1>1, LoopBasic
<1>3. /\ \A v \in list : v \in Vars /\ Usable(v) /\ Listed(v)
      /\ LoopsInElse \/ \A i \in DOMAIN open : open[i].arm = 1
      /\ ~ Within("logical") /\ ~ CountingOn
      /\ p' \in State
      /\ \A v \in Vars : p'.precompute[v] = IF Stops(v, list) THEN givenUp ELSE p.precompute[v]
      /\ ~ executing => p'.stored = p.stored /\ value' = value
      /\ \A v \in Vars : Again(v, list) => p'.stored[v] = value'[v] /\ value'[v] # junk
      /\ \A v \in Vars : ~ Again(v, list) =>
            p'.stored[v] = p.stored[v] /\ value'[v] = value[v]
      /\ \A v \in Vars : value'[v] # junk /\ value'[v] \in Vars =>
            \E u \in Vars : value'[v] = value[u]
      /\ depth' = n /\ DOMAIN open' = 1 .. n
      /\ \A i \in DOMAIN open : open'[i] = open[i]
      /\ f.kind = "loop" /\ f.list = list /\ f.todo = list /\ f.arm = 1
      /\ f.waiting = FALSE /\ f.entry = p'.precompute
      /\ f.left \in BOOLEAN /\ (f.left => executing)
      /\ executing' = (executing /\ ~ f.left)
      /\ scope' = scope /\ stopped' = stopped \cup list
  BY <1>1, LoopDoes
<1> HIDE DEF f
<1>4. \A v \in list : Declared(v)
  BY <1>3 DEF Usable
<1>5. \A v \in Vars : p.precompute[v].value = junk => p'.precompute[v].value = junk
  BY <1>3 DEF givenUp
<1>6. \A v \in stopped : scope[v] # notYet /\ p.precompute[v].value = junk
  BY <1>3 DEF WithoutKnownDefects, PInv, StoppedUnknown
<1>7. \A v \in list : p'.precompute[v].value = junk
  <2> SUFFICES ASSUME NEW v \in list PROVE p'.precompute[v].value = junk
    OBVIOUS
  <2>1. CASE v \in stopped
    BY <1>3, <1>5, <1>6, <2>1
  <2>2. CASE v \notin stopped
    BY <1>3, <1>5, <2>2 DEF Stops, valueKnown, givenUp
  <2> QED BY <2>1, <2>2
<1>8. StoppedUnknown'
  <2> SUFFICES ASSUME NEW v \in stopped \cup list
               PROVE  scope[v] # notYet /\ p'.precompute[v].value = junk
    BY <1>3 DEF StoppedUnknown
  <2>1. v \in Vars
    BY <1>1, ProgramAssumption DEF TypesOK
  <2> QED BY <1>4, <1>5, <1>6, <1>7, <2>1 DEF Declared, notYet
<1>9. Once' /\ InsideUnknown'
  <2>1. \A v \in Vars : p.precompute[v].precomputedOnce => p'.precompute[v].precomputedOnce
    BY <1>3 DEF givenUp
  <2> QED BY <1>3, <1>5, <2>1, ProgramAssumption DEF PInv, Once, InsideUnknown
<1>10. \A i \in DOMAIN open' : i \in DOMAIN open \/ i = n
  BY <1>1, <1>3
<1>11. restored(f) = {}
  BY <1>3 DEF restored
<1>12. PointeesPinned'
  <2>1. Scoped
    BY <1>3 DEF Scoped
  <2>2. \A w \in Vars : Pinned(w) => p'.precompute[w] = givenUp
    BY <1>3 DEF Pinned
  <2>3. \A i \in DOMAIN open' : Keeps(i) \/ \A w \in restored(open'[i]) : valueKnown(p, w)
    BY <1>3, <1>10, <1>11 DEF Keeps, f
  <2>4. ASSUME NEW u \in Vars, NEW w \in {value'[u], p'.precompute[u].value} \cap Vars
        PROVE  \E x \in Vars : w \in {value[x], p.precompute[x].value}
    BY <1>3, <2>4, Contents DEF givenUp
  <2> QED BY <1>1, <2>1, <2>2, <2>3, <2>4, PinnedStep DEF PInv
<1>13. FrameOK(n)'
  <2>1. list \subseteq Outside(n)'
    BY <1>1, <1>3, <1>4 DEF Outside, Declared
  <2>2. \A v \in Outside(n)' : f.entry[v].value = p'.precompute[v].value
    BY <1>3
  <2> QED BY <1>3, <1>7, <1>11, <2>1, <2>2 DEF FrameOK, f, restored
<1>14. ASSUME NEW i \in DOMAIN open, NEW v \in Outside(i) \ restored(open[i])
       PROVE  p'.precompute[v].value = p.precompute[v].value
  <2>1. v \in Vars
    BY <1>14 DEF Outside
  <2>2. ~ Stops(v, list)
    <3> SUFFICES ASSUME Stops(v, list) PROVE FALSE
      OBVIOUS
    <3>1. Listed(v) /\ valueKnown(p, v)
      BY <1>3 DEF Stops
    <3> QED BY <1>3, <1>14, <2>1, <3>1, ListedKnown
  <2> QED BY <1>3, <2>1, <2>2
<1>15. executing => \A v \in Vars : Declared(v) /\ value'[v] # junk => Found(v)'
  <2> SUFFICES ASSUME executing, NEW v \in Vars, Declared(v), value'[v] # junk PROVE Found(v)'
    OBVIOUS
  <2>1. value[v] # junk => Found(v)
    BY SameAsIRFound DEF PInv
  <2>2. CASE v \in list
    <3>1. p'.precompute[v].value = junk
      BY <1>7, <2>2
    <3>2. Again(v, list)
      BY <1>3, <2>2, <3>1 DEF Again, valueKnown
    <3> QED BY <1>3, <3>1, <3>2 DEF Found, Operand, valueKnown
  <2>3. CASE v \notin list
    <3>1. ~ Again(v, list) /\ ~ Stops(v, list)
      BY <2>3 DEF Again, Stops
    <3> QED BY <1>3, <2>1, <3>1 DEF Found, Operand, valueKnown
  <2> QED BY <2>2, <2>3
<1>16. ASSUME parked(f) PROVE ArrivesAt(n)'
  <2>1. executing /\ f.waiting = FALSE
    BY <1>3, <1>16 DEF parked
  <2>2. ASSUME NEW v \in Outside(n)', value'[v] # junk
        PROVE  Found(v)' /\ (v \in f.list => p'.precompute[v].value = junk)
    <3>1. v \in Vars /\ Declared(v)
      BY <1>3 DEF Outside, Declared
    <3> QED BY <1>3, <1>7, <1>15, <2>1, <2>2, <3>1
  <2> QED BY <1>11, <2>2 DEF ArrivesAt, f, restored
<1>17. /\ executing' = (executing /\ ~ parked(f)) /\ (parked(f) => executing)
       /\ ~ (f.waiting /\ f.left)
  BY <1>3 DEF parked
<1> QED BY <1>2, <1>3, <1>8, <1>9, <1>12, <1>13, <1>14, <1>15, <1>16, <1>17, PushStep DEF f

LEMMA ShortJumpPInv ==
    ASSUME PInv, NEW v \in Logical, NEW op \in {"And", "Or"}, ShortJump(v, op)
    PROVE  PInv'
<1> PICK n \in Nat : n = depth + 1
  BY OpenBlocks
<1> DEFINE f == open'[n]
<1>1. /\ BasicInv /\ TypesOK /\ depth \in Nat /\ DOMAIN open = 1 .. depth
      /\ \A i \in DOMAIN open : open[i] \in Frames
      /\ \A u \in Vars : scope[u] \in Int /\ scope[u] <= depth
  BY OpenBlocks
<1>2. BasicInv'
  BY <1>1, JumpsBasic
<1>3. /\ v \in Vars /\ Usable(v) /\ scope[v] = depth /\ ~ CountingOn
      /\ ~ (valueKnown(p, v) /\ decides(op, p.precompute[v].value))
      /\ p' = p /\ value' = value /\ scope' = scope /\ stopped' = stopped
      /\ depth' = n /\ DOMAIN open' = 1 .. n
      /\ \A i \in DOMAIN open : open'[i] = open[i]
      /\ f.kind = "logical" /\ f.list = {v} /\ f.todo = {v} /\ f.arm = 1
      /\ f.waiting = FALSE /\ f.left = (executing /\ decides(op, value[v]))
      /\ executing' = (executing /\ ~ f.left)
  BY <1>1, ShortJumpDoes
<1> HIDE DEF f
<1>4. Once' /\ InsideUnknown'
  BY <1>3 DEF PInv, Once, InsideUnknown
<1>5. StoppedUnknown'
  <2>1. \A i \in DOMAIN open : i \in DOMAIN open'
    BY <1>1, <1>3
  <2> QED BY <1>3, <2>1 DEF PInv, StoppedUnknown, restored
<1>6. restored(f) = {}
  BY <1>3 DEF restored
<1>7. PointeesPinned'
  <2>1. Scoped
    BY <1>3 DEF Scoped
  <2>2. \A w \in Vars : Pinned(w) => p'.precompute[w] = givenUp
    BY <1>3 DEF Pinned
  <2>3. \A i \in DOMAIN open' : i \in DOMAIN open \/ i = n
    BY <1>1, <1>3
  <2>4. \A i \in DOMAIN open' : Keeps(i) \/ \A w \in restored(open'[i]) : valueKnown(p, w)
    BY <1>3, <1>6, <2>3 DEF Keeps, f
  <2>5. \A u \in Vars : \A w \in {value'[u], p'.precompute[u].value} \cap Vars :
           \E x \in Vars : w \in {value[x], p.precompute[x].value}
    BY <1>3
  <2> QED BY <1>1, <2>1, <2>2, <2>4, <2>5, PinnedStep DEF PInv
<1>8. FrameOK(n)'
  <2>1. {v} \subseteq Outside(n)' /\ n - 1 = depth
    BY <1>1, <1>3 DEF Outside
  <2> QED BY <1>3, <1>6, <2>1 DEF FrameOK, f, restored
<1>9. executing => \A u \in Vars : Declared(u) /\ value[u] # junk => Found(u)
  BY SameAsIRFound DEF PInv
<1>10. executing => \A u \in Vars : Declared(u) /\ value'[u] # junk => Found(u)'
  BY <1>3, <1>9 DEF Found, Operand, valueKnown
<1>11. ASSUME parked(f) PROVE ArrivesAt(n)'
  <2>1. executing /\ decides(op, value[v])
    BY <1>3, <1>11 DEF parked
  <2>2. p.precompute[v].value = junk
    BY <1>3, <1>9, <2>1 DEF Usable, Found, Operand, valueKnown
  <2>3. ASSUME NEW u \in Outside(n)', value'[u] # junk
        PROVE  Found(u)' /\ (u \in f.list => p'.precompute[u].value = junk)
    <3>1. u \in Vars /\ Declared(u)
      BY <1>3 DEF Outside, Declared
    <3> QED BY <1>3, <1>10, <2>1, <2>2, <2>3, <3>1
  <2> QED BY <1>6, <2>3 DEF ArrivesAt, f, restored
<1>12. /\ executing' = (executing /\ ~ parked(f)) /\ (parked(f) => executing)
       /\ ~ (f.waiting /\ f.left)
  BY <1>3 DEF parked
<1> QED BY <1>2, <1>3, <1>4, <1>5, <1>7, <1>8, <1>10, <1>11, <1>12, PushStep DEF f

\* Where the execution jumps from, everything is found.
LEMMA ArrivesNow ==
    ASSUME PInv, executing, NEW i \in DOMAIN open, NEW v \in Outside(i), value[v] # junk
    PROVE  /\ Found(v)
           /\ v \in open[i].list \ restored(open[i]) /\ open[i].kind # "logical"
                 => p.precompute[v].value = junk
<1>1. v \in Vars /\ Declared(v)
  BY DEF Outside, Declared
<1>2. Found(v)
  BY <1>1, SameAsIRFound DEF PInv
<1> QED BY <1>2 DEF PInv, FramesOK, FrameOK

\* A block goes on with its second half, and the variables of the first end.
LEMMA CloseStep ==
    ASSUME BasicInv, CloseScope, depth > 0
    PROVE  Scoped
BY CloseFacts, OpenFacts DEF Scoped, BasicInv, TypesOK

\* What the branch takes back, the branches around it take back too.
LEMMA RestoredAround ==
    ASSUME PInv, NEW i \in DOMAIN open, i # depth, NEW v \in Outside(i) \ restored(open[i])
    PROVE  v \notin restored(innermost)
<1>1. depth \in Nat /\ DOMAIN open = 1 .. depth
  BY OpenBlocks
<1>2. depth \in DOMAIN open /\ i \in 1 .. depth - 1
  BY <1>1
<1>3. FrameOK(depth)
  BY <1>2 DEF PInv, FramesOK
<1> QED BY <1>2, <1>3 DEF FrameOK, innermost

LEMMA ElsePInv ==
    ASSUME WithoutKnownDefects, PInv, Else
    PROVE  PInv'
<1> PICK n \in Nat : n = depth
  BY OpenBlocks
<1> DEFINE f == open[n]
           g == open'[n]
<1>1. /\ BasicInv /\ TypesOK /\ DOMAIN open = 1 .. n
      /\ \A i \in DOMAIN open : open[i] \in Frames
      /\ \A v \in Vars : scope[v] \in Int /\ scope[v] <= n
  BY OpenBlocks
<1>2. BasicInv'
  BY <1>1, ElseBasic
<1>3. /\ n \in DOMAIN open /\ f.kind = "option" /\ f.arm = 1 /\ innermost = f
      /\ \A v \in Vars : p'.precompute[v] =
            IF v \in restored(f) THEN f.entry[v] ELSE p.precompute[v]
      /\ \A v \in Vars : p'.stored[v] =
            IF executing /\ v \in restored(f) /\ valueKnown(p, v)
            THEN Moved(p, v) ELSE p.stored[v]
      /\ p' \in State
      /\ executing' = f.waiting /\ CloseScope /\ stopped' = stopped
      /\ depth' = n /\ DOMAIN open' = DOMAIN open
      /\ \A i \in DOMAIN open : i # n => open'[i] = open[i]
      /\ g.kind = "option" /\ g.list = f.list /\ g.entry = f.entry /\ g.todo = f.todo
      /\ g.arm = 2 /\ g.waiting = FALSE /\ g.left = executing
      /\ \A i \in DOMAIN open : Keeps(i)
  BY <1>1, ElseDoes DEF innermost
<1> HIDE DEF f, g
<1>4. /\ \A v \in Vars : scope'[v] = IF scope[v] = n THEN gone ELSE scope[v]
      /\ \A v \in Vars : value'[v] = IF scope[v] = n THEN junk ELSE value[v]
      /\ \A v \in Vars : scope'[v] = notYet <=> scope[v] = notYet
  BY <1>1, <1>3, CloseFacts
<1>5. Scoped
  BY <1>1, <1>3, CloseStep
<1>6. /\ FrameOK(n) /\ restored(f) \subseteq f.list /\ f.list \subseteq Reassigned
      /\ f.list \subseteq Outside(n) /\ restored(g) = restored(f)
      /\ \A v \in restored(f) : f.entry[v].precomputedOnce /\ v \notin AddressedInside
      /\ \A i \in DOMAIN open : restored(open'[i]) = restored(open[i])
  BY <1>3 DEF PInv, FramesOK, FrameOK, f, g, restored, Keeps
<1>7. ~ executing => p'.stored = p.stored
  <2>1. p.stored \in [Vars -> Content] /\ p'.stored \in [Vars -> Content]
    BY <1>1, <1>3 DEF TypesOK, State
  <2> QED BY <1>3, <2>1
<1>8. Steady
  <2>1. ASSUME NEW i \in DOMAIN open, NEW v \in Outside(i) \ restored(open[i])
        PROVE  p'.precompute[v].value = p.precompute[v].value
    <3>1. v \notin restored(f) /\ v \in Vars
      BY <1>3, <2>1, RestoredAround DEF f, Outside
    <3> QED BY <1>3, <3>1
  <2>2. ASSUME NEW i \in DOMAIN open
        PROVE  /\ open'[i].todo \subseteq open[i].todo
               /\ open'[i].waiting => open[i].waiting \/ executing
               /\ open'[i].left => open[i].left \/ executing
    BY <1>3 DEF f, g
  <2> QED BY <1>3, <1>4, <1>5, <1>7, <2>1, <2>2 DEF Steady
<1>9. Nesting'
  <2>1. \A v \in Vars : scope'[v] <= depth'
    BY <1>1, <1>3, <1>4 DEF gone
  <2>2. \A i \in DOMAIN open : open'[i].kind = open[i].kind
    BY <1>3 DEF Keeps
  <2>3. ASSUME NEW i \in DOMAIN open', open'[i].kind = "loop", open'[i].arm = 2
        PROVE  FALSE
    <3>1. i # n
      BY <1>3, <2>3 DEF g
    <3>2. open[i].kind = "loop" /\ open[i].arm = 2
      BY <1>3, <2>3, <3>1
    <3> QED BY <1>3, <3>1, <3>2 DEF PInv, Nesting
  <2> QED BY <1>3, <2>1, <2>2, <2>3 DEF Nesting, PInv
<1>10. Once' /\ InsideUnknown'
  <2>1. Once'
    BY <1>3, <1>4, <1>6, ProgramAssumption DEF PInv, Once
  <2>2. InsideUnknown'
    BY <1>3, <1>6, ProgramAssumption DEF PInv, InsideUnknown
  <2> QED BY <2>1, <2>2
<1>11. StoppedUnknown'
  <2> SUFFICES ASSUME NEW v \in stopped
               PROVE  /\ scope'[v] # notYet
                      /\ \/ p'.precompute[v].value = junk
                         \/ \E i \in DOMAIN open' : open'[i].arm = 2 /\ v \in restored(open'[i])
    BY <1>3 DEF StoppedUnknown, restored
  <2>1. v \in Vars
    BY <1>1, ProgramAssumption DEF TypesOK
  <2>2. scope'[v] # notYet
    BY <1>4, <2>1 DEF PInv, StoppedUnknown
  <2>3. CASE v \in restored(f)
    BY <1>3, <1>6, <2>2, <2>3 DEF g
  <2>4. CASE v \notin restored(f)
    <3>1. p'.precompute[v] = p.precompute[v]
      BY <1>3, <2>1, <2>4
    <3>2. \A i \in DOMAIN open : v \in restored(open[i]) => i # n
      BY <2>4 DEF f
    <3> QED BY <1>3, <1>6, <2>2, <3>1, <3>2 DEF PInv, StoppedUnknown
  <2> QED BY <2>3, <2>4
<1>12. PointeesPinned'
  <2>1. \A w \in Vars : Pinned(w) => p'.precompute[w] = givenUp
    BY <1>3 DEF Pinned, f
  <2>2. ASSUME NEW u \in Vars, NEW w \in {value'[u], p'.precompute[u].value} \cap Vars
        PROVE  w \in {value[u], p.precompute[u].value}
    <3>1. u \in restored(f) => f.entry[u].value \in Number
      <4>1. \A v \in restored(f) : f.entry[v].value \in Fits(v) \ {junk}
        BY <1>1, <1>3 DEF BasicInv, FreshUnknown, WellFormed, f
      <4> QED BY <1>6, <4>1 DEF WithoutKnownDefects, Fits
    <3> QED BY <1>3, <1>4, <2>2, <3>1, Contents
  <2>3. \A i \in DOMAIN open' : Keeps(i)
    BY <1>3
  <2> QED BY <1>1, <1>5, <2>1, <2>2, <2>3, PinnedStep DEF PInv
<1>13. executing => f.waiting = FALSE
  BY <1>1, <1>3 DEF PInv, OnePlace, parked, Frames, f
<1>14. OnePlace'
  <2>1. ASSUME NEW i \in DOMAIN open', parked(open'[i])
        PROVE  /\ executing' = FALSE /\ ~ (open'[i].waiting /\ open'[i].left)
               /\ \A j \in DOMAIN open' : parked(open'[j]) => i = j
    <3>1. CASE executing
      <4>1. \A j \in DOMAIN open : ~ parked(open[j])
        BY <3>1 DEF PInv, OnePlace
      <4>2. \A j \in DOMAIN open : j # n => ~ parked(open'[j])
        BY <1>3, <4>1
      <4> QED BY <1>3, <1>13, <2>1, <3>1, <4>2 DEF g
    <3>2. CASE ~ executing
      <4>1. ~ parked(g)
        BY <1>3, <3>2 DEF parked
      <4>2. \A j \in DOMAIN open : parked(open'[j]) => j # n /\ parked(open[j])
        BY <1>3, <4>1 DEF g
      <4>3. ~ parked(f)
        BY <1>3, <2>1, <4>2 DEF PInv, OnePlace, f
      <4>4. executing' = FALSE
        BY <1>1, <1>3, <4>3 DEF parked, Frames, f
      <4> QED BY <1>3, <2>1, <4>2, <4>4 DEF PInv, OnePlace
    <3> QED BY <3>1, <3>2
  <2> QED BY <2>1 DEF OnePlace, parked
<1>15. SameAsIR'
  <2> SUFFICES ASSUME f.waiting, NEW v \in Vars, scope'[v] >= 0, value'[v] # junk
               PROVE  value'[v] = Operand(p', v)
    BY <1>3 DEF SameAsIR, Agrees, Declared, Operand, valueKnown
  <2>1. v \in Outside(n) /\ value'[v] = value[v]
    BY <1>1, <1>4 DEF Outside, gone
  <2>2. ArrivesAt(n)
    BY <1>3 DEF PInv, Arrives, parked, f
  <2>3. CASE v \in restored(f)
    BY <1>3, <2>1, <2>2, <2>3 DEF ArrivesAt, Operand, valueKnown, f
  <2>4. CASE v \notin restored(f)
    <3>1. Found(v)
      BY <2>1, <2>2, <2>4 DEF ArrivesAt, f
    <3> QED BY <1>3, <2>1, <2>4, <3>1 DEF Found, Operand, valueKnown
  <2> QED BY <2>3, <2>4
<1>16. ASSUME NEW i \in DOMAIN open', parked(open'[i]), executing \/ i \notin DOMAIN open
       PROVE  ArrivesAt(i)'
  <2>1. executing /\ i = n
    BY <1>3, <1>16 DEF PInv, OnePlace
  <2>2. ASSUME NEW v \in Outside(n)', value'[v] # junk
        PROVE  /\ v \in restored(g) => value'[v] = p'.stored[v]
               /\ v \notin restored(g) =>
                     Found(v)' /\ (v \in g.list => p'.precompute[v].value = junk)
    <3>1. v \in Outside(n) /\ v \in Vars /\ value'[v] = value[v]
      BY <1>1, <1>4, <2>2 DEF Outside, gone
    <3>2. /\ Found(v)
          /\ v \in f.list \ restored(f) => p.precompute[v].value = junk
      BY <1>3, <2>1, <2>2, <3>1, ArrivesNow DEF f
    <3>3. CASE v \in restored(f)
      <4>1. v \in Reassigned
        BY <1>6, <3>3
      <4>2. valueKnown(p, v) => Moved(p, v) = p.precompute[v].value
        BY <1>1, <3>1, <4>1, MovedReassigned
      <4> QED BY <1>3, <1>6, <2>1, <3>1, <3>2, <3>3, <4>2 DEF Found, Operand
    <3>4. CASE v \notin restored(f)
      BY <1>3, <1>6, <3>1, <3>2, <3>4 DEF Found, Operand, valueKnown
    <3> QED BY <3>3, <3>4
  <2> QED BY <1>3, <2>1, <2>2 DEF ArrivesAt, g, restored
<1> QED BY <1>2, <1>3, <1>8, <1>9, <1>10, <1>11, <1>12, <1>14, <1>15, <1>16, BlockStep

LEMMA EndBodyPInv ==
    ASSUME PInv, EndBody
    PROVE  PInv'
<1> PICK n \in Nat : n = depth
  BY OpenBlocks
<1> DEFINE f == open[n]
           g == open'[n]
<1>1. /\ BasicInv /\ TypesOK /\ DOMAIN open = 1 .. n
      /\ \A i \in DOMAIN open : open[i] \in Frames
      /\ \A v \in Vars : scope[v] \in Int /\ scope[v] <= n
  BY OpenBlocks
<1>2. BasicInv'
  BY <1>1, JumpsBasic
<1>3. /\ n \in DOMAIN open /\ f.kind = "loop" /\ f.arm = 1 /\ innermost = f
      /\ p' = p /\ executing' = (executing \/ f.waiting) /\ CloseScope /\ stopped' = stopped
      /\ depth' = n /\ DOMAIN open' = DOMAIN open
      /\ \A i \in DOMAIN open : i # n => open'[i] = open[i]
      /\ g.kind = "loop" /\ g.list = f.list /\ g.entry = f.entry /\ g.todo = f.todo
      /\ g.arm = 2 /\ g.waiting = FALSE /\ g.left = f.left
      /\ \A i \in DOMAIN open : Keeps(i)
  BY <1>1, EndBodyDoes DEF innermost
<1> HIDE DEF f, g
<1>4. /\ \A v \in Vars : scope'[v] = IF scope[v] = n THEN gone ELSE scope[v]
      /\ \A v \in Vars : value'[v] = IF scope[v] = n THEN junk ELSE value[v]
      /\ \A v \in Vars : scope'[v] = notYet <=> scope[v] = notYet
  BY <1>1, <1>3, CloseFacts
<1>5. Scoped
  BY <1>1, <1>3, CloseStep
<1>6. /\ restored(f) = {} /\ restored(g) = {}
      /\ \A i \in DOMAIN open : restored(open'[i]) = restored(open[i])
  BY <1>3 DEF restored, Keeps
<1>7. Steady
  <2>1. ASSUME NEW i \in DOMAIN open
        PROVE  /\ open'[i].todo \subseteq open[i].todo
               /\ open'[i].waiting => open[i].waiting \/ executing
               /\ open'[i].left => open[i].left \/ executing
    BY <1>3 DEF f, g
  <2> QED BY <1>3, <1>4, <1>5, <2>1 DEF Steady
<1>8. Nesting'
  <2>1. \A v \in Vars : scope'[v] <= depth'
    BY <1>1, <1>3, <1>4 DEF gone
  <2>2. \A i \in DOMAIN open : open'[i].kind = open[i].kind
    BY <1>3 DEF Keeps
  <2>3. \A v \in Vars : scope'[v] # n
    BY <1>1, <1>3, <1>4 DEF gone
  <2>4. ASSUME NEW i \in DOMAIN open', open'[i].kind = "loop", open'[i].arm = 2
        PROVE  i = n
    <3>1. SUFFICES ASSUME i # n PROVE FALSE
      OBVIOUS
    <3>2. open[i].kind = "loop" /\ open[i].arm = 2
      BY <1>3, <2>4, <3>1
    <3> QED BY <1>3, <3>1, <3>2 DEF PInv, Nesting
  <2> QED BY <1>3, <2>1, <2>2, <2>3, <2>4 DEF Nesting, PInv
<1>9. Once' /\ InsideUnknown'
  <2>1. \A v \in Reassigned : v \in Vars
    BY ProgramAssumption
  <2> QED BY <1>3, <1>4, <2>1 DEF PInv, Once, InsideUnknown
<1>10. StoppedUnknown'
  <2> SUFFICES ASSUME NEW v \in stopped
               PROVE  /\ scope'[v] # notYet
                      /\ \/ p'.precompute[v].value = junk
                         \/ \E i \in DOMAIN open' : open'[i].arm = 2 /\ v \in restored(open'[i])
    BY <1>3 DEF StoppedUnknown, restored
  <2>1. v \in Vars
    BY <1>1, ProgramAssumption DEF TypesOK
  <2>2. \A i \in DOMAIN open : v \in restored(open[i]) => i # n
    BY <1>6 DEF f
  <2> QED BY <1>3, <1>4, <1>6, <2>1, <2>2 DEF PInv, StoppedUnknown
<1>11. PointeesPinned'
  <2>1. \A w \in Vars : Pinned(w) => p'.precompute[w] = givenUp
    BY <1>3 DEF Pinned
  <2>2. ASSUME NEW u \in Vars, NEW w \in {value'[u], p'.precompute[u].value} \cap Vars
        PROVE  w \in {value[u], p.precompute[u].value}
    BY <1>3, <1>4, <2>2, Contents
  <2>3. \A i \in DOMAIN open' : Keeps(i)
    BY <1>3
  <2> QED BY <1>1, <1>5, <2>1, <2>2, <2>3, PinnedStep DEF PInv
<1>12. OnePlace'
  <2>1. ASSUME NEW j \in DOMAIN open', parked(open'[j])
        PROVE  parked(open[j]) /\ j \in DOMAIN open
    BY <1>3, <2>1 DEF parked, f, g
  <2>2. ASSUME executing' PROVE \A j \in DOMAIN open' : ~ parked(open'[j])
    <3>1. CASE executing
      BY <2>1, <3>1 DEF PInv, OnePlace
    <3>2. CASE f.waiting
      <4>1. parked(open[n]) /\ ~ f.left
        BY <1>3, <3>2 DEF PInv, OnePlace, parked, f
      <4>2. ~ parked(g)
        BY <1>3, <4>1 DEF parked
      <4>3. \A j \in DOMAIN open : parked(open[j]) => j = n
        BY <1>3, <4>1 DEF PInv, OnePlace
      <4> QED BY <2>1, <4>2, <4>3 DEF g
    <3> QED BY <1>3, <2>2, <3>1, <3>2
  <2>3. \A j \in DOMAIN open' : ~ (open'[j].waiting /\ open'[j].left)
    BY <1>3 DEF PInv, OnePlace, g
  <2> QED BY <2>1, <2>2, <2>3 DEF PInv, OnePlace, parked
<1>13. SameAsIR'
  <2> SUFFICES ASSUME executing', NEW v \in Vars, scope'[v] >= 0, value'[v] # junk
               PROVE  value'[v] = Operand(p', v)
    BY DEF SameAsIR, Agrees, Declared, Operand, valueKnown
  <2>1. v \in Outside(n) /\ value'[v] = value[v]
    BY <1>1, <1>4 DEF Outside, gone
  <2>2. Found(v)
    <3>1. CASE executing
      BY <1>3, <2>1, <3>1, ArrivesNow
    <3>2. CASE f.waiting
      <4>1. ArrivesAt(n)
        BY <1>3, <3>2 DEF PInv, Arrives, parked, f
      <4> QED BY <1>6, <2>1, <4>1 DEF ArrivesAt, f
    <3> QED BY <1>3, <3>1, <3>2
  <2> QED BY <1>3, <2>1, <2>2 DEF Found, Operand, valueKnown
<1>14. ASSUME NEW i \in DOMAIN open', parked(open'[i])
       PROVE  ~ executing /\ i \in DOMAIN open
  <2>1. parked(open[i]) /\ i \in DOMAIN open
    BY <1>3, <1>14 DEF parked, f, g
  <2> QED BY <2>1 DEF PInv, OnePlace
<1> QED BY <1>2, <1>3, <1>7, <1>8, <1>9, <1>10, <1>11, <1>12, <1>13, <1>14, BlockStep

LEMMA BreakPInv ==
    ASSUME PInv, Break \/ Continue
    PROVE  PInv'
<1>1. /\ BasicInv /\ TypesOK /\ depth \in Nat /\ DOMAIN open = 1 .. depth
      /\ \A i \in DOMAIN open : open[i] \in Frames
  BY OpenBlocks
<1>2. BasicInv'
  BY <1>1, JumpsBasic
<1>3. /\ executing /\ executing' = FALSE
      /\ p' = p /\ value' = value /\ scope' = scope /\ stopped' = stopped
      /\ depth' = depth /\ DOMAIN open' = DOMAIN open
      /\ \A i \in DOMAIN open : Keeps(i)
      /\ \A i \in DOMAIN open : open'[i].arm = open[i].arm /\ open'[i].todo = open[i].todo
      /\ \E i \in innermostLoop :
            /\ \A j \in DOMAIN open \ {i} : open'[j] = open[j]
            /\ \/ open'[i].left = TRUE /\ open'[i].waiting = open[i].waiting
               \/ open'[i].waiting = TRUE /\ open'[i].left = open[i].left
  BY <1>1, BreakDoes
<1> PICK k \in innermostLoop :
            /\ \A j \in DOMAIN open \ {k} : open'[j] = open[j]
            /\ \/ open'[k].left = TRUE /\ open'[k].waiting = open[k].waiting
               \/ open'[k].waiting = TRUE /\ open'[k].left = open[k].left
  BY <1>3
<1>4. k \in DOMAIN open /\ open[k].kind = "loop" /\ restored(open[k]) = {}
  BY DEF innermostLoop, restored
<1>5. \A i \in DOMAIN open : ~ parked(open[i])
  BY <1>3 DEF PInv, OnePlace
<1>6. \A i \in DOMAIN open' : parked(open'[i]) => i = k
  BY <1>3, <1>5 DEF parked
<1>7. \A i \in DOMAIN open : restored(open'[i]) = restored(open[i])
  BY <1>3 DEF restored, Keeps
<1>8. Scoped /\ Steady
  <2>1. Scoped
    BY <1>3 DEF Scoped
  <2> QED BY <1>3, <2>1 DEF Steady
<1>9. Nesting'
  BY <1>3 DEF PInv, Nesting, Keeps
<1>10. Once' /\ InsideUnknown' /\ StoppedUnknown'
  BY <1>3, <1>7 DEF PInv, Once, InsideUnknown, StoppedUnknown, restored
<1>11. PointeesPinned'
  BY <1>3, <1>7 DEF PInv, PointeesPinned, Pinned, restored
<1>12. OnePlace'
  <2>1. \A i \in DOMAIN open' : ~ (open'[i].waiting /\ open'[i].left)
    BY <1>3, <1>4, <1>5 DEF parked
  <2> QED BY <1>3, <1>6, <2>1 DEF OnePlace, parked
<1>13. SameAsIR'
  BY <1>3 DEF SameAsIR
<1>14. ASSUME NEW i \in DOMAIN open', parked(open'[i]) PROVE ArrivesAt(i)'
  <2>1. i = k
    BY <1>6, <1>14
  <2>2. ASSUME NEW v \in Outside(k), value[v] # junk
        PROVE  Found(v) /\ (v \in open[k].list => p.precompute[v].value = junk)
    BY <1>3, <1>4, <2>2, ArrivesNow
  <2>3. Outside(k)' = Outside(k)
    BY <1>3 DEF Outside
  <2>4. restored(open'[k]) = {} /\ open'[k].list = open[k].list
    BY <1>3, <1>4, <1>7 DEF Keeps
  <2> QED BY <1>3, <2>1, <2>2, <2>3, <2>4 DEF ArrivesAt, Found, Operand, valueKnown, restored
<1> QED BY <1>2, <1>3, <1>8, <1>9, <1>10, <1>11, <1>12, <1>13, <1>14, BlockStep

\* A block ends.
LEMMA PopStep ==
    ASSUME PInv, BasicInv', Scoped, NEW n \in Nat, n = depth, n > 0,
           depth' = n - 1, DOMAIN open' = 1 .. n - 1,
           \A i \in DOMAIN open' : i \in DOMAIN open /\ open'[i] = open[i],
           \A v \in Vars : scope'[v] < n,
           \A i \in DOMAIN open' : \A v \in Outside(i) \ restored(open[i]) :
               p'.precompute[v].value = p.precompute[v].value,
           ~ executing =>
               p'.stored = p.stored /\ \A v \in Vars : scope[v] # depth => value'[v] = value[v],
           executing' => executing \/ parked(open[n]),
           Once', InsideUnknown', StoppedUnknown', PointeesPinned',
           executing' => \A v \in Vars :
               scope'[v] >= 0 /\ value'[v] # junk => value'[v] = Operand(p', v)
    PROVE  PInv'
<1>1. /\ DOMAIN open = 1 .. n /\ n \in DOMAIN open
      /\ \A v \in Vars : scope[v] \in Int /\ scope'[v] \in Int
  BY OpenBlocks DEF BasicInv, TypesOK
<1>2. \A i \in DOMAIN open' : i # n /\ i < n
  BY <1>1
<1>3. Steady
  BY DEF Steady, Keeps
<1>4. Nesting'
  <2>1. \A v \in Vars : scope'[v] <= depth'
    BY <1>1
  <2>2. \A i, j \in DOMAIN open' : i < j /\ open'[i].kind = "logical" => open'[j].kind = "logical"
    BY DEF PInv, Nesting
  <2>3. \A i \in DOMAIN open' : ~ (open'[i].kind = "loop" /\ open'[i].arm = 2)
    BY <1>2 DEF PInv, Nesting
  <2> QED BY <2>1, <2>2, <2>3 DEF Nesting
<1>5. OnePlace'
  <2>1. executing' => \A i \in DOMAIN open' : ~ parked(open'[i])
    BY <1>1, <1>2 DEF PInv, OnePlace
  <2>2. \A i, j \in DOMAIN open' : parked(open'[i]) /\ parked(open'[j]) => i = j
    BY DEF PInv, OnePlace
  <2>3. \A i \in DOMAIN open' : ~ (open'[i].waiting /\ open'[i].left)
    BY DEF PInv, OnePlace
  <2> QED BY <2>1, <2>2, <2>3 DEF OnePlace, parked
<1>6. SameAsIR'
  BY DEF SameAsIR, Agrees, Declared, Operand, valueKnown
<1>7. ASSUME NEW i \in DOMAIN open', parked(open'[i])
      PROVE  ~ executing /\ i \in DOMAIN open
  BY <1>7 DEF PInv, OnePlace
<1> QED BY <1>3, <1>4, <1>5, <1>6, <1>7, BlockStep

LEMMA EndLoopPInv ==
    ASSUME PInv, EndLoop
    PROVE  PInv'
<1> PICK n \in Nat : n = depth
  BY OpenBlocks
<1>1. /\ BasicInv /\ TypesOK /\ DOMAIN open = 1 .. n
      /\ \A v \in Vars : scope[v] \in Int /\ scope[v] <= n
  BY OpenBlocks
<1>2. BasicInv'
  BY <1>1, JumpsBasic
<1>3. /\ n \in DOMAIN open /\ open[n].kind = "loop" /\ open[n].arm = 2
      /\ p' = p /\ value' = value /\ scope' = scope /\ stopped' = stopped
      /\ executing' = open[n].left
      /\ depth' = n - 1 /\ DOMAIN open' = 1 .. n - 1
      /\ \A i \in DOMAIN open' : i \in DOMAIN open /\ open'[i] = open[i]
  BY <1>1, EndLoopDoes DEF innermost
<1>4. n > 0 /\ \A i \in DOMAIN open : i # n => i \in DOMAIN open'
  BY <1>1, <1>3
<1>5. Scoped
  BY <1>3 DEF Scoped
<1>6. \A v \in Vars : scope'[v] < n
  <2>1. \A v \in Vars : scope[v] # n
    BY <1>3 DEF PInv, Nesting
  <2> QED BY <1>1, <1>3, <2>1
<1>7. restored(open[n]) = {}
  BY <1>3 DEF restored
<1>8. Once' /\ InsideUnknown'
  BY <1>3 DEF PInv, Once, InsideUnknown
<1>9. StoppedUnknown'
  <2> SUFFICES ASSUME NEW v \in stopped
               PROVE  /\ scope'[v] # notYet
                      /\ \/ p'.precompute[v].value = junk
                         \/ \E i \in DOMAIN open' : open'[i].arm = 2 /\ v \in restored(open'[i])
    BY <1>3 DEF StoppedUnknown, restored
  <2>1. \A i \in DOMAIN open : v \in restored(open[i]) => i \in DOMAIN open' /\ open'[i] = open[i]
    BY <1>3, <1>4, <1>7
  <2> QED BY <1>3, <2>1 DEF PInv, StoppedUnknown
<1>10. PointeesPinned'
  BY <1>3 DEF PInv, PointeesPinned, Pinned, restored
<1>11. ASSUME executing', NEW v \in Vars, scope'[v] >= 0, value'[v] # junk
       PROVE  value'[v] = Operand(p', v)
  <2>1. v \in Outside(n)
    BY <1>1, <1>3, <1>6, <1>11 DEF Outside
  <2>2. ArrivesAt(n)
    BY <1>3, <1>11 DEF PInv, Arrives, parked
  <2>3. Found(v)
    BY <1>3, <1>7, <1>11, <2>1, <2>2 DEF ArrivesAt
  <2> QED BY <1>3, <2>3 DEF Found, Operand, valueKnown
<1>12. executing' => executing \/ parked(open[n])
  BY <1>3 DEF parked
<1> QED BY <1>2, <1>3, <1>4, <1>5, <1>6, <1>8, <1>9, <1>10, <1>11, <1>12, PopStep

LEMMA EndIfPInv ==
    ASSUME WithoutKnownDefects, PInv, EndIf
    PROVE  PInv'
<1> PICK n \in Nat : n = depth
  BY OpenBlocks
<1> DEFINE f == open[n]
<1>1. /\ BasicInv /\ TypesOK /\ DOMAIN open = 1 .. n
      /\ \A i \in DOMAIN open : open[i] \in Frames
      /\ \A v \in Vars : scope[v] \in Int /\ scope[v] <= n
  BY OpenBlocks
<1>2. BasicInv'
  BY <1>1, EndIfBasic
<1>3. /\ n \in DOMAIN open /\ innermost = f /\ f.kind = "option"
      /\ \A v \in Vars : p'.stored[v] =
            IF executing /\ v \in restored(f) /\ valueKnown(p, v)
            THEN Moved(p, v) ELSE p.stored[v]
      /\ p' \in State
      /\ executing' = (executing \/ f.waiting \/ f.left) /\ CloseScope /\ stopped' = stopped
      /\ depth' = n - 1 /\ DOMAIN open' = 1 .. n - 1
      /\ \A i \in DOMAIN open' : i \in DOMAIN open /\ open'[i] = open[i]
  BY <1>1, EndIfDoes DEF innermost
<1>4. \A v \in Vars : p'.precompute[v] =
            IF v \in restored(f)
            THEN [value |-> junk, precomputedOnce |-> f.entry[v].precomputedOnce]
            ELSE p.precompute[v]
  BY <1>1, EndIfDoes DEF innermost
<1>5. \A v \in Vars :
          /\ v \in restored(f) => /\ p'.precompute[v].value = junk
                                 /\ p'.precompute[v].precomputedOnce = f.entry[v].precomputedOnce
          /\ v \notin restored(f) => p'.precompute[v] = p.precompute[v]
  <2> SUFFICES ASSUME NEW v \in Vars
               PROVE  /\ v \in restored(f) =>
                            /\ p'.precompute[v].value = junk
                            /\ p'.precompute[v].precomputedOnce = f.entry[v].precomputedOnce
                      /\ v \notin restored(f) => p'.precompute[v] = p.precompute[v]
    OBVIOUS
  <2> DEFINE x == f.entry[v].precomputedOnce
  <2>1. v \in restored(f) => p'.precompute[v] = [value |-> junk, precomputedOnce |-> x]
    BY <1>4, Zenon
  <2>2. v \notin restored(f) => p'.precompute[v] = p.precompute[v]
    BY <1>4, Zenon
  <2> HIDE DEF x
  <2>3. v \in restored(f) => p'.precompute[v].value = junk /\ p'.precompute[v].precomputedOnce = x
    BY <2>1
  <2> QED BY <2>2, <2>3 DEF x
<1> HIDE DEF f
<1>6. /\ n > 0 /\ \A i \in DOMAIN open : i # n => i \in DOMAIN open'
      /\ \A i \in DOMAIN open' : i # n
  BY <1>1, <1>3
<1>7. /\ \A v \in Vars : scope'[v] = IF scope[v] = n THEN gone ELSE scope[v]
      /\ \A v \in Vars : value'[v] = IF scope[v] = n THEN junk ELSE value[v]
      /\ \A v \in Vars : scope'[v] = notYet <=> scope[v] = notYet
  BY <1>1, <1>3, CloseFacts
<1>8. Scoped
  BY <1>1, <1>3, <1>6, CloseStep
<1>9. \A v \in Vars : scope'[v] < n
  BY <1>1, <1>6, <1>7 DEF gone
<1>10. /\ restored(f) \subseteq f.list /\ f.list \subseteq Reassigned
      /\ \A v \in restored(f) : f.entry[v].precomputedOnce
  BY <1>3 DEF PInv, FramesOK, FrameOK, f
<1>11. ~ executing => p'.stored = p.stored
  <2>1. p.stored \in [Vars -> Content] /\ p'.stored \in [Vars -> Content]
    BY <1>1, <1>3 DEF TypesOK, State
  <2> QED BY <1>3, <1>5, <2>1
<1>12. ASSUME NEW i \in DOMAIN open', NEW v \in Outside(i) \ restored(open[i])
       PROVE  p'.precompute[v].value = p.precompute[v].value
  <2>1. v \notin restored(f) /\ v \in Vars
    BY <1>3, <1>6, <1>12, RestoredAround DEF Outside
  <2> QED BY <1>3, <1>5, <2>1
<1>13. \A v \in Vars : p.precompute[v].value = junk => p'.precompute[v].value = junk
  BY <1>3, <1>5
<1>14. Once' /\ InsideUnknown'
  <2>1. Once'
    BY <1>3, <1>5, <1>7, <1>10, ProgramAssumption DEF PInv, Once
  <2>2. InsideUnknown'
    BY <1>13, ProgramAssumption DEF PInv, InsideUnknown
  <2> QED BY <2>1, <2>2
<1>15. StoppedUnknown'
  <2> SUFFICES ASSUME NEW v \in stopped
               PROVE  /\ scope'[v] # notYet
                      /\ \/ p'.precompute[v].value = junk
                         \/ \E i \in DOMAIN open' : open'[i].arm = 2 /\ v \in restored(open'[i])
    BY <1>3 DEF StoppedUnknown, restored
  <2>1. v \in Vars
    BY <1>1, ProgramAssumption DEF TypesOK
  <2>2. scope'[v] # notYet
    BY <1>7, <2>1 DEF PInv, StoppedUnknown
  <2>3. CASE v \in restored(f)
    BY <1>3, <1>5, <2>1, <2>2, <2>3
  <2>4. CASE v \notin restored(f)
    <3>1. \A i \in DOMAIN open : v \in restored(open[i]) => i \in DOMAIN open' /\ open'[i] = open[i]
      BY <1>3, <1>5, <1>6, <2>4 DEF f
    <3> QED BY <1>13, <2>1, <2>2, <3>1 DEF PInv, StoppedUnknown
  <2> QED BY <2>3, <2>4
<1>16. PointeesPinned'
  <2>1. \A w \in Vars : Pinned(w) => p'.precompute[w] = givenUp
    BY <1>3, <1>5 DEF Pinned, f
  <2>2. ASSUME NEW u \in Vars, NEW w \in {value'[u], p'.precompute[u].value} \cap Vars
        PROVE  w \in {value[u], p.precompute[u].value}
    BY <1>3, <1>5, <1>7, <2>2, Contents
  <2>3. \A i \in DOMAIN open' : Keeps(i)
    BY <1>3 DEF Keeps
  <2> QED BY <1>1, <1>8, <2>1, <2>2, <2>3, PinnedStep DEF PInv
<1>17. ASSUME executing', NEW v \in Vars, scope'[v] >= 0, value'[v] # junk
       PROVE  value'[v] = Operand(p', v)
  <2>1. v \in Outside(n) /\ value'[v] = value[v] /\ value[v] # junk
    BY <1>1, <1>7, <1>17 DEF Outside, gone
  <2>2. CASE executing
    <3>1. Found(v)
      BY <1>3, <1>5, <2>1, <2>2, ArrivesNow
    <3>2. CASE v \in restored(f)
      <4>1. v \in Reassigned
        BY <1>10, <3>2
      <4>2. valueKnown(p, v) => Moved(p, v) = p.precompute[v].value
        BY <1>1, <4>1, MovedReassigned
      <4> QED BY <1>3, <1>5, <2>1, <2>2, <3>1, <3>2, <4>2 DEF Found, Operand, valueKnown
    <3>3. CASE v \notin restored(f)
      BY <1>3, <1>5, <2>1, <3>1, <3>3 DEF Found, Operand, valueKnown
    <3> QED BY <3>2, <3>3
  <2>3. CASE ~ executing
    <3>1. ArrivesAt(n)
      BY <1>3, <1>5, <1>17, <2>3 DEF PInv, Arrives, parked, f
    <3>2. CASE v \in restored(f)
      BY <1>3, <1>5, <1>11, <2>1, <2>3, <3>1, <3>2 DEF ArrivesAt, Operand, valueKnown, f
    <3>3. CASE v \notin restored(f)
      <4>1. Found(v)
        BY <2>1, <3>1, <3>3 DEF ArrivesAt, f
      <4> QED BY <1>3, <1>5, <2>1, <2>3, <3>3, <4>1 DEF Found, Operand, valueKnown
    <3> QED BY <3>2, <3>3
  <2> QED BY <2>2, <2>3
<1>18. executing' => executing \/ parked(open[n])
  BY <1>3 DEF parked, f
<1> QED BY <1>2, <1>3, <1>6, <1>7, <1>8, <1>9, <1>11, <1>12, <1>14, <1>15, <1>16, <1>17, <1>18,
           PopStep

LEMMA CombinePInv ==
    ASSUME PInv, NEW v \in Vars, NEW w \in Vars, Combine(v, w)
    PROVE  PInv'
<1> PICK n \in Nat : n = depth
  BY OpenBlocks
<1> DEFINE f == open[n]
           y == Apply(innermost.entry, value[v], value[w])
<1>1. /\ BasicInv /\ TypesOK /\ DOMAIN open = 1 .. n
      /\ \A u \in Vars : scope[u] \in Int /\ scope[u] <= n
  BY OpenBlocks
<1>2. BasicInv'
  BY <1>1, CombineBasic
<1>3. /\ Within("logical") /\ v \in innermost.list /\ v \notin Pointers
      /\ Touches(p, p', v) /\ p'.precompute[v].value \in Fits(v)
      /\ p.precompute[v].value = junk => p'.precompute[v].value = junk
      /\ Right /\ executing => Operand(p', v) = y
      /\ y \in Fits(v)
      /\ \A u \in Vars : scope'[u] = IF scope[u] = n THEN gone ELSE scope[u]
      /\ \A u \in Vars : value'[u] = IF scope[u] = n THEN junk
                                     ELSE IF u = v /\ executing THEN y ELSE value[u]
      /\ executing' = (executing \/ innermost.left) /\ Pop /\ stopped' = stopped
  BY <1>1, CombineDoes
<1> HIDE DEF y
<1>4. n \in DOMAIN open /\ innermost = f /\ n > 0
  BY <1>1, <1>3 DEF Within, innermost
<1>5. /\ depth' = n - 1 /\ DOMAIN open' = 1 .. n - 1
      /\ \A i \in DOMAIN open' : i \in DOMAIN open /\ open'[i] = open[i]
  BY <1>1, <1>3, <1>4, PopFacts DEF TypesOK
<1> HIDE DEF f
<1>6. /\ f.kind = "logical" /\ v \in f.list /\ v \in Logical /\ scope[v] = n - 1
      /\ restored(f) = {}
  BY <1>3, <1>4 DEF Within, PInv, FramesOK, FrameOK, f, restored
<1>7. /\ \A i \in DOMAIN open : i # n => i \in DOMAIN open'
      /\ \A i \in DOMAIN open' : i # n
  BY <1>1, <1>5
<1>8. /\ \A u \in Vars \ {v} : p'.precompute[u] = p.precompute[u] /\ p'.stored[u] = p.stored[u]
      /\ ~ executing => p'.stored = p.stored
      /\ p.precompute[v] = givenUp => p'.precompute[v] = givenUp
  BY <1>3 DEF Touches
<1>9. Scoped
  BY <1>3, <1>4 DEF Scoped
<1>10. \A u \in Vars : scope'[u] < n
  BY <1>1, <1>3, <1>4 DEF gone
<1>11. ASSUME NEW i \in DOMAIN open', NEW u \in Outside(i) \ restored(open[i])
       PROVE  p'.precompute[u].value = p.precompute[u].value
  <2>1. u \in Vars /\ u # v
    BY <1>5, <1>6, <1>11 DEF Outside
  <2> QED BY <1>8, <2>1
<1>12. ~ executing => \A u \in Vars : scope[u] # depth => value'[u] = value[u]
  BY <1>3
<1>13. v \notin Reassigned /\ Reassigned \subseteq Vars
  BY <1>6, ProgramAssumption
<1>14. Once' /\ InsideUnknown'
  <2>1. Once'
    BY <1>3, <1>8, <1>13 DEF PInv, Once, gone, notYet
  <2>2. InsideUnknown'
    BY <1>3, <1>8, ProgramAssumption DEF PInv, InsideUnknown
  <2> QED BY <2>1, <2>2
<1>15. StoppedUnknown'
  <2> SUFFICES ASSUME NEW u \in stopped
               PROVE  /\ scope'[u] # notYet
                      /\ \/ p'.precompute[u].value = junk
                         \/ \E i \in DOMAIN open' : open'[i].arm = 2 /\ u \in restored(open'[i])
    BY <1>3 DEF StoppedUnknown, restored
  <2>1. u \in Vars /\ u # v
    BY <1>1, <1>13 DEF TypesOK
  <2>2. scope'[u] # notYet
    BY <1>3, <2>1 DEF PInv, StoppedUnknown, gone, notYet
  <2>3. \A i \in DOMAIN open : u \in restored(open[i]) => i \in DOMAIN open' /\ open'[i] = open[i]
    BY <1>5, <1>6, <1>7 DEF f
  <2> QED BY <1>8, <2>1, <2>2, <2>3 DEF PInv, StoppedUnknown
<1>16. PointeesPinned'
  <2>1. \A x \in Vars : Pinned(x) => p'.precompute[x] = givenUp
    BY <1>8 DEF Pinned
  <2>2. ASSUME NEW u \in Vars, NEW x \in {value'[u], p'.precompute[u].value} \cap Vars
        PROVE  x \in {value[u], p.precompute[u].value}
    <3>1. y \notin Vars /\ p'.precompute[v].value \notin Vars
      BY <1>3, Contents DEF Fits
    <3> QED BY <1>3, <1>8, <2>2, <3>1, Contents
  <2>3. \A i \in DOMAIN open' : Keeps(i)
    BY <1>5 DEF Keeps
  <2> QED BY <1>1, <1>9, <2>1, <2>2, <2>3, PinnedStep DEF PInv
<1>17. ASSUME executing', NEW u \in Vars, scope'[u] >= 0, value'[u] # junk
       PROVE  value'[u] = Operand(p', u)
  <2>1. u \in Outside(n) /\ scope[u] # n
    BY <1>1, <1>3, <1>17 DEF Outside, gone
  <2>2. CASE executing
    <3>1. CASE u = v
      BY <1>3, <2>1, <2>2, <3>1 DEF Right, PInv
    <3>2. CASE u # v
      <4>1. Found(u) /\ value'[u] = value[u]
        BY <1>3, <1>4, <1>17, <2>1, <2>2, <3>2, ArrivesNow
      <4> QED BY <1>8, <3>2, <4>1 DEF Found, Operand, valueKnown
    <3> QED BY <3>1, <3>2
  <2>3. CASE ~ executing
    <3>1. ArrivesAt(n)
      BY <1>3, <1>4, <1>17, <2>3 DEF PInv, Arrives, parked, f
    <3>2. value'[u] = value[u]
      BY <1>3, <2>1, <2>3
    <3>3. Found(u) /\ (u \in f.list => p.precompute[u].value = junk)
      BY <1>6, <1>17, <2>1, <3>1, <3>2 DEF ArrivesAt, f
    <3>4. CASE u = v
      BY <1>3, <1>6, <1>8, <2>3, <3>2, <3>3, <3>4 DEF Found, Operand, valueKnown
    <3>5. CASE u # v
      BY <1>8, <3>2, <3>3, <3>5 DEF Found, Operand, valueKnown
    <3> QED BY <3>4, <3>5
  <2> QED BY <2>2, <2>3
<1>18. executing' => executing \/ parked(open[n])
  BY <1>3, <1>4 DEF parked, f
<1> QED BY <1>2, <1>4, <1>5, <1>8, <1>9, <1>10, <1>11, <1>12, <1>14, <1>15, <1>16, <1>17, <1>18,
           PopStep

LEMMA PInit == Init => PInv
<1> SUFFICES ASSUME Init PROVE PInv
  OBVIOUS
<1>1. BasicInv
  BY BasicInit
<1>2. /\ open = <<>> /\ DOMAIN open = {} /\ depth = 0 /\ executing = TRUE /\ stopped = {}
      /\ \A v \in Vars : p.precompute[v] = unknown /\ value[v] = junk /\ scope[v] = notYet
  BY DEF Init, depth
<1>3. Nesting /\ FramesOK /\ OnePlace /\ Arrives
  BY <1>2 DEF Nesting, FramesOK, OnePlace, Arrives, notYet
<1>4. Once /\ InsideUnknown /\ StoppedUnknown
  BY <1>2, ProgramAssumption DEF Once, InsideUnknown, StoppedUnknown, unknown
<1>5. PointeesPinned
  BY <1>2, Contents DEF PointeesPinned, unknown
<1>6. SameAsIR
  BY <1>2 DEF SameAsIR, Agrees
<1> QED BY <1>1, <1>3, <1>4, <1>5, <1>6 DEF PInv

LEMMA DeclarationPInv ==
    ASSUME WithoutKnownDefects, CopiesLiteral, PInv,
           \/ \E v \in Vars, x \in Immediates : DeclareImmediate(v, x)
           \/ \E v, w \in Vars : DeclareCopy(v, w)
           \/ \E v, l, r \in Vars : DeclareCompare(v, l, r)
           \/ \E v \in Vars, x \in Number : DeclareAtRuntime(v, x)
           \/ \E v, w \in Vars : IndirectLoad(v, w)
    PROVE  PInv'
<1>1. BasicInv
  BY DEF PInv
<1>2. ASSUME NEW v \in Vars, NEW x \in Immediates, DeclareImmediate(v, x) PROVE PInv'
  <2>1. Declaration(v) /\ p'.precompute[v] = [value |-> x, precomputedOnce |-> TRUE]
    BY <1>1, <1>2, DeclareImmediateDoes
  <2>2. Declare(v, "immediate")
    BY <1>2 DEF DeclareImmediate
  <2> QED BY <2>1, <2>2, NumberDeclared DEF Ways
<1>3. ASSUME NEW v \in Vars, NEW w \in Vars, DeclareCopy(v, w) PROVE PInv'
  BY <1>3, CopyDeclared
<1>4. ASSUME NEW v \in Vars, NEW l \in Vars, NEW r \in Vars, DeclareCompare(v, l, r) PROVE PInv'
  <2>1. Declaration(v)
    BY <1>1, <1>4, DeclareCompareDoes
  <2>2. Declare(v, "compare")
    BY <1>4 DEF DeclareCompare
  <2> QED BY <2>1, <2>2, NumberDeclared DEF Ways
<1>5. ASSUME NEW v \in Vars, NEW x \in Number, DeclareAtRuntime(v, x) PROVE PInv'
  <2>1. Declaration(v) /\ p'.precompute = p.precompute
    BY <1>1, <1>5, DeclareAtRuntimeDoes
  <2>2. Declare(v, "runtime")
    BY <1>5 DEF DeclareAtRuntime
  <2> QED BY <2>1, <2>2, NumberDeclared DEF Ways
<1>6. ASSUME NEW v \in Vars, NEW w \in Vars, IndirectLoad(v, w) PROVE PInv'
  <2>1. Declaration(v) /\ p'.precompute[v] = givenUp
    BY <1>1, <1>6, IndirectLoadDoes
  <2>2. Declare(v, "load")
    BY <1>6 DEF IndirectLoad
  <2> QED BY <2>1, <2>2, NumberDeclared DEF Ways
<1> QED BY <1>2, <1>3, <1>4, <1>5, <1>6

LEMMA PNext ==
    ASSUME WithoutKnownDefects, PInv, [Next]_vars, [CopiesLiteral]_vars
    PROVE  PInv'
<1>1. CASE UNCHANGED vars
  BY <1>1 DEF vars, PInv, BasicInv, TypesOK, FreshUnknown, WellFormed, NeverPanics, Nesting,
               FramesOK, FrameOK, Outside, Once, InsideUnknown, StoppedUnknown, PointeesPinned,
               Pinned, OnePlace, Arrives, ArrivesAt, Found, Operand, valueKnown, SameAsIR, Agrees,
               Declared, restored, depth, Fits
<1>2. CASE \/ \E v \in Vars, x \in Immediates : DeclareImmediate(v, x)
           \/ \E v, w \in Vars : DeclareCopy(v, w)
           \/ \E v, l, r \in Vars : DeclareCompare(v, l, r)
           \/ \E v \in Vars, x \in Number : DeclareAtRuntime(v, x)
           \/ \E v, w \in Vars : IndirectLoad(v, w)
  <2>1. CASE CopiesLiteral
    BY <1>2, <2>1, DeclarationPInv
  <2> QED BY <1>1, <2>1
<1>3. ASSUME NEW v \in Vars, NEW w \in Vars, TakeAddress(v, w) PROVE PInv'
  BY <1>3, TakeAddressPInv
<1>4. ASSUME NEW target \in Vars, NEW data \in Vars, IndirectWrite(target, data) PROVE PInv'
  BY <1>4, IndirectWritePInv
<1>5. ASSUME NEW v \in Vars, NEW w \in Vars, Assign(v, w) \/ Add(v, w) PROVE PInv'
  BY <1>5, AssignPInv
<1>6. ASSUME NEW c \in Vars, NEW list \in SUBSET Reassigned, If(c, list) PROVE PInv'
  BY <1>6, IfPInv
<1>7. CASE Else
  BY <1>7, ElsePInv
<1>8. CASE EndIf
  BY <1>8, EndIfPInv
<1>9. ASSUME NEW c \in Vars \cup {junk}, NEW list \in SUBSET Reassigned, Loop(list, c)
      PROVE  PInv'
  BY <1>9, LoopPInv
<1>10. CASE Break \/ Continue
  BY <1>10, BreakPInv
<1>11. CASE EndBody
  BY <1>11, EndBodyPInv
<1>12. ASSUME NEW v \in Vars, Increment(v) PROVE PInv'
  BY <1>12, IncrementPInv
<1>13. CASE EndLoop
  BY <1>13, EndLoopPInv
<1>14. ASSUME NEW v \in Logical, NEW op \in {"And", "Or"}, ShortJump(v, op) PROVE PInv'
  BY <1>14, ShortJumpPInv
<1>15. ASSUME NEW v \in Vars, NEW w \in Vars, Combine(v, w) PROVE PInv'
  BY <1>15, CombinePInv
<1> QED BY <1>2, <1>3, <1>4, <1>5, <1>6, <1>7, <1>8, <1>9, <1>10, <1>11, <1>12, <1>13, <1>14,
           <1>15, <1>1 DEF Next

\* Wherever the execution is, the code that generateSingleInst emits finds the value
\* that each variable has in the IR, with what is computed at compile time and what is
\* in storage: of a procedure of any length without the known defects.
THEOREM CompileTimeSameAsIR ==
    ASSUME WithoutKnownDefects
    PROVE  Spec /\ CopiesLiterals => []SameAsIR
<1>1. PInv /\ [Next]_vars /\ [CopiesLiteral]_vars => PInv'
  BY PNext
<1>2. PInv => SameAsIR
  BY DEF PInv
<1> QED BY PInit, <1>1, <1>2, PTL DEF Spec, CopiesLiterals

\* A loop's frame is left only by its end.
LEMMA LoopEnds ==
    ASSUME BasicInv, Next, Within("loop"), Len(open') < depth
    PROVE  EndLoop
<1>1. TypesOK /\ depth \in Nat /\ Len(open') = depth'
  BY OpenFacts DEF BasicInv, TypesOK, depth
<1>2. ASSUME NEW v \in Vars, Declaration(v) \/ Mutation(v) PROVE FALSE
  <2>1. open' = open \/ open' = Mutated(v)
    BY <1>2 DEF Declaration, Mutation
  <2>2. CASE open' = open
    BY <1>1, <2>2 DEF depth
  <2>3. CASE open' = Mutated(v)
    BY <1>1, <2>3, MutatedFacts DEF TypesOK
  <2> QED BY <2>1, <2>2, <2>3
<1>3. ASSUME NEW v \in Vars, NEW x \in Immediates, DeclareImmediate(v, x) PROVE FALSE
  BY <1>2, <1>3, DeclareImmediateDoes
<1>4. ASSUME NEW v \in Vars, NEW w \in Vars, DeclareCopy(v, w) PROVE FALSE
  BY <1>2, <1>4, DeclareCopyDoes
<1>5. ASSUME NEW v \in Vars, NEW l \in Vars, NEW r \in Vars, DeclareCompare(v, l, r) PROVE FALSE
  BY <1>2, <1>5, DeclareCompareDoes
<1>6. ASSUME NEW v \in Vars, NEW x \in Number, DeclareAtRuntime(v, x) PROVE FALSE
  BY <1>2, <1>6, DeclareAtRuntimeDoes
<1>7. ASSUME NEW v \in Vars, NEW w \in Vars, IndirectLoad(v, w) PROVE FALSE
  BY <1>2, <1>7, IndirectLoadDoes
<1>8. ASSUME NEW v \in Vars, NEW w \in Vars, TakeAddress(v, w) PROVE FALSE
  <2>1. open' = open
    BY <1>8, TakeAddressDoes
  <2> QED BY <1>1, <2>1 DEF depth
<1>9. ASSUME NEW target \in Vars, NEW data \in Vars, IndirectWrite(target, data) PROVE FALSE
  <2>1. open' = open
    BY <1>9, IndirectWriteDoes
  <2> QED BY <1>1, <2>1 DEF depth
<1>10. ASSUME NEW v \in Vars, NEW w \in Vars, Assign(v, w) PROVE FALSE
  BY <1>2, <1>10, AssignDoes
<1>11. ASSUME NEW v \in Vars, NEW w \in Vars, Add(v, w) PROVE FALSE
  BY <1>2, <1>11, AddDoes
<1>12. ASSUME NEW c \in Vars, NEW list \in SUBSET Reassigned, If(c, list) PROVE FALSE
  <2>1. depth' = depth + 1
    BY <1>12, IfDoes
  <2> QED BY <1>1, <2>1
<1>13. ~ Else /\ ~ EndIf
  BY DEF Else, EndIf, Within
<1>14. ASSUME NEW c \in Vars \cup {junk}, NEW list \in SUBSET Reassigned, Loop(list, c)
       PROVE  FALSE
  <2>1. depth' = depth + 1
    BY <1>14, LoopDoes
  <2> QED BY <1>1, <2>1
<1>15. ASSUME Break \/ Continue PROVE FALSE
  <2>1. depth' = depth
    BY <1>15, BreakDoes
  <2> QED BY <1>1, <2>1
<1>16. ASSUME EndBody PROVE FALSE
  <2>1. depth' = depth
    BY <1>16, EndBodyDoes
  <2> QED BY <1>1, <2>1
<1>17. ASSUME NEW v \in Vars, Increment(v) PROVE FALSE
  BY <1>2, <1>17, IncrementDoes
<1>18. ASSUME NEW v \in Logical, NEW op \in {"And", "Or"}, ShortJump(v, op) PROVE FALSE
  <2>1. depth' = depth + 1
    BY <1>18, ShortJumpDoes
  <2> QED BY <1>1, <2>1
<1>19. ASSUME NEW v \in Vars, NEW w \in Vars, Combine(v, w) PROVE FALSE
  BY <1>19 DEF Combine, Within
<1> QED BY <1>3, <1>4, <1>5, <1>6, <1>7, <1>8, <1>9, <1>10, <1>11, <1>12, <1>13, <1>14, <1>15,
           <1>16, <1>17, <1>18, <1>19 DEF Next

\* When the execution jumps back to the head of a loop, the code there, which was
\* generated before the body, finds each variable's value too.
THEOREM CompileTimeRoundsAgree ==
    ASSUME WithoutKnownDefects
    PROVE  Spec /\ CopiesLiterals => RoundsAgree
<1>1. PInv /\ [Next]_vars /\ [CopiesLiteral]_vars => PInv'
  BY PNext
<1>2. PInv /\ [Next]_vars =>
         [(Within("loop") /\ Len(open') < depth /\ executing) => Agrees(innermost.entry)]_vars
  <2> SUFFICES ASSUME PInv, Next, Within("loop"), Len(open') < depth, executing,
                      NEW v \in Vars, Declared(v), value[v] # junk
               PROVE  value[v] = IF innermost.entry[v].value # junk
                                 THEN innermost.entry[v].value ELSE p.stored[v]
    BY DEF Agrees
  <2>1. /\ BasicInv /\ depth \in Nat /\ DOMAIN open = 1 .. depth
        /\ \A u \in Vars : scope[u] \in Int /\ scope[u] <= depth
    BY OpenBlocks
  <2>2. EndLoop
    BY <2>1, LoopEnds
  <2>3. depth \in DOMAIN open /\ innermost = open[depth]
        /\ innermost.kind = "loop" /\ innermost.arm = 2
    BY <2>1, <2>2, EndLoopDoes DEF innermost
  <2>4. v \in Outside(depth)
    <3>1. scope[v] # depth
      BY <2>3 DEF PInv, Nesting
    <3> QED BY <2>1, <3>1 DEF Outside, Declared
  <2>5. innermost.entry[v].value = p.precompute[v].value
    BY <2>3, <2>4 DEF PInv, FramesOK, FrameOK
  <2>6. value[v] = Operand(p, v)
    BY <2>3, <2>4, ArrivesNow DEF Found
  <2> QED BY <2>5, <2>6 DEF Operand, valueKnown
<1> QED BY PInit, <1>1, <1>2, PTL DEF Spec, CopiesLiterals, RoundsAgree

=============================================================================
