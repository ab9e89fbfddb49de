----------------------------- MODULE Precompute -----------------------------
(***************************************************************************)
(* Evaluation at compile time (src/backend/backend.go).  While the         *)
(* generator goes through the IR of a procedure it keeps, for each         *)
(* variable, the value it has at this point if that can be known, and      *)
(* emits nothing for an instruction whose result it knows.  At branches    *)
(* and loops it has to put values into storage and to forget them.         *)
(*                                                                         *)
(* The IR is made up as it is generated: statements, ifs and loops in any  *)
(* order, with the lists of mutated variables that the frontend hands      *)
(* over.  One execution of the emitted code is followed in step with the   *)
(* generator: "executing" says whether it runs through the code that is    *)
(* being emitted now, or has jumped ahead of it.  It enters a loop in      *)
(* any round: what earlier rounds have changed has any value.              *)
(*                                                                         *)
(* Storage is the store of variables that RegAlloc implements.             *)
(*                                                                         *)
(* As in VarStorage, "faulty" operators are wrong variants that no         *)
(* specification uses.                                                     *)
(***************************************************************************)
EXTENDS Integers, Sequences

CONSTANTS
    Vars,         \* the variables of the procedure
    junk,         \* no value: not known, not stored, not assigned
    Base,         \* integers are 0 .. Base - 1 and wrap around
    Immediates,   \* the literals of the program
    Declares,     \* the ways each variable may get its first value
    Reassigned,   \* the variables that are assigned again
    Logical,      \* the variables that hold an && or ||
    Pointers,     \* the variables of a pointer type
    Addressed,    \* the variables whose address may be taken
    AddressedInside, \* those whose address may be taken in an inner block
    LoopsInElse,  \* whether a loop may be inside of an else
    ComparesAssigned, \* whether what two literals compare to may be assigned
    MaxInsts,     \* bound: statements of the procedure
    MaxDepth      \* bound: blocks within blocks

Number == 0 .. Base - 1

\* The address of a variable is the variable itself.
Content == Number \cup Vars \cup {junk}

Ways == {"immediate", "copy", "compare", "runtime", "address", "load"}

ASSUME VarsAssumption == junk \notin Vars \cup Int /\ Vars \cap Int = {}
ASSUME NumbersAssumption == Base \in Nat \ {0, 1} /\ Immediates \subseteq Number
ASSUME ProgramAssumption ==
    /\ Declares \in [Vars -> SUBSET Ways]
    /\ Reassigned \subseteq Vars /\ Logical \subseteq Vars /\ Pointers \subseteq Vars
    /\ AddressedInside \subseteq Addressed /\ Addressed \subseteq Vars \ Pointers
    /\ Reassigned \cap Logical = {}
    /\ \A v \in Pointers : Declares[v] \subseteq {"copy", "address"}
    /\ LoopsInElse \in BOOLEAN /\ ComparesAssigned \in BOOLEAN
ASSUME BoundsAssumption == MaxInsts \in Nat /\ MaxDepth \in Nat

VARIABLES
    p,          \* precompute, what storage holds, and whether a panic came
    value,      \* the value of each variable in the IR
    executing,  \* the execution is at the code that is being emitted
    open,       \* the ifs, loops and logical expressions begun, outermost first
    scope,      \* how many of them enclose the variable's declaration
    stopped,    \* the variables that the list of an earlier loop has
    insts       \* statements so far

vars == <<p, value, executing, open, scope, stopped, insts>>

notYet == -1  \* scope of a variable that is still to be declared
gone == -2    \* scope of a variable whose block has ended

unknown == [value |-> junk, precomputedOnce |-> FALSE]

Init ==
    /\ p = [precompute |-> [v \in Vars |-> unknown],
            stored |-> [v \in Vars |-> junk],
            panicked |-> FALSE]
    /\ value = [v \in Vars |-> junk]
    /\ executing = TRUE
    /\ open = <<>> /\ scope = [v \in Vars |-> notYet]
    /\ stopped = {} /\ insts = 0

-----------------------------------------------------------------------------
(* The functions of procGen, as operators on p.                            *)

valueKnown(q, v) == q.precompute[v].value # junk

\* An instruction that leaves x in the storage of v.
Emit(q, v, x) == IF executing THEN [q EXCEPT !.stored[v] = x] ELSE q

\* What the emitted code uses for v.
Operand(q, v) == IF valueKnown(q, v) THEN q.precompute[v].value ELSE q.stored[v]

Panic(q) == [q EXCEPT !.panicked = TRUE]

endPrecomputation(q, v) ==
    [q EXCEPT !.precompute[v] = [value |-> junk, precomputedOnce |-> TRUE]]

\* The value is forgotten and never stored.
faultyMaterialize(q, v) ==
    IF valueKnown(q, v) THEN endPrecomputation(q, v) ELSE q

endPrecomputingAndMaterialize(q, v) ==
    IF valueKnown(q, v)
    THEN endPrecomputation(Emit(q, v, q.precompute[v].value), v)
    ELSE q

\* "mov operand, value", of a value the generator computed: it does for a
\* number; of a pointer it is the offset from rbp, not the address.
movValue(q, v) ==
    Emit(q, v, IF q.precompute[v].value \in Vars THEN junk ELSE q.precompute[v].value)

\* It goes on with the value although an input is not known.
faultyBeforeMutation(q, v, inputs) == q

\* generateSingleInst, ahead of an instruction that changes v.
beforeMutation(q, v, inputs) ==
    IF \A w \in inputs \ {v} : valueKnown(q, w) THEN q
    ELSE endPrecomputingAndMaterialize(q, v)

genAssignImm(q, v, x) ==
    IF q.precompute[v].precomputedOnce
    THEN Emit([q EXCEPT !.precompute[v].value = junk], v, x)
    ELSE [q EXCEPT !.precompute[v] = [value |-> x, precomputedOnce |-> TRUE]]

\* A variable is taken up again after its value was given up.
faultyAssign(q0, v, w) ==
    LET q == beforeMutation(q0, v, {w})
    IN  IF ~ valueKnown(q, w) THEN Emit(q, v, q.stored[w])
        ELSE [q EXCEPT !.precompute[v] = q.precompute[w]]

assign(q0, v, w) ==
    LET q == beforeMutation(q0, v, {w})
        again == q.precompute[v].precomputedOnce /\ ~ valueKnown(q, v)
    IN  IF ~ valueKnown(q, w)
        THEN IF valueKnown(q, v) THEN Panic(q) ELSE Emit(q, v, q.stored[w])
        ELSE IF again THEN Emit(q, v, q.precompute[w].value)
        ELSE [q EXCEPT !.precompute[v] = q.precompute[w]]

\* Arithmetic on what may be left over in storage.
Apply(op, x, y) ==
    IF x \notin Number \/ y \notin Number THEN junk
    ELSE CASE op = "Add" -> (x + y) % Base
           [] op = "And" -> IF x # 0 /\ y # 0 THEN 1 ELSE 0
           [] op = "Or" -> IF x # 0 \/ y # 0 THEN 1 ELSE 0
           [] op = "Lesser" -> IF x < y THEN 1 ELSE 0

\* Add, And, Or: v is both operand and result.
update(q0, op, v, w) ==
    LET q == beforeMutation(q0, v, {w})
    IN  CASE valueKnown(q, v) /\ valueKnown(q, w) ->
               [q EXCEPT !.precompute[v].value =
                   Apply(op, @, q.precompute[w].value)]
          [] valueKnown(q, v) /\ ~ valueKnown(q, w) -> Panic(q)
          [] OTHER -> Emit(q, v, Apply(op, q.stored[v], Operand(q, w)))

increment(q, v) ==
    IF valueKnown(q, v)
    THEN [q EXCEPT !.precompute[v].value = Apply("Add", @, 1)]
    ELSE Emit(q, v, Apply("Add", q.stored[v], 1))

compare(q0, out, l, r) ==
    LET q == beforeMutation(q0, out, {l, r})
        result == Apply("Lesser", Operand(q, l), Operand(q, r))
    IN  IF valueKnown(q, l) /\ valueKnown(q, r)
        THEN [q EXCEPT !.precompute[out].value = result]
        ELSE Emit(q, out, result)

\* The variable may be computed at compile time again.
faultyTakeAddress(q, out, in) ==
    LET stored == endPrecomputingAndMaterialize(q, in)
    IN  [stored EXCEPT !.precompute[in].precomputedOnce = FALSE,
                       !.precompute[out] = [value |-> in, precomputedOnce |-> TRUE]]

genTakeAddress(q, out, in) ==
    LET banned == [q EXCEPT !.precompute[in].precomputedOnce = TRUE]
    IN  IF q.precompute[out].precomputedOnce /\ ~ valueKnown(q, out) THEN Panic(q)
        ELSE [endPrecomputingAndMaterialize(banned, in)
                 EXCEPT !.precompute[out] = [value |-> in, precomputedOnce |-> TRUE]]

\* We may know the address, but not what is there.
genIndirectLoad(q, out, in) ==
    LET address == Operand(q, in)
    IN  Emit(endPrecomputation(q, out), out,
             IF address \in Vars THEN q.stored[address] ELSE junk)

genIndirectWrite(q, target, data) ==
    LET address == Operand(q, target)
    IN  IF address \in Vars THEN Emit(q, address, Operand(q, data)) ELSE q

\* The values that the branches find in storage are not put there.
faultyStartOptionSelect(q, list) == q

\* startOptionSelect: the branches and the code behind them may need the values
\* in storage, whichever branch runs.
startOptionSelect(q, list) ==
    LET known == {v \in list : valueKnown(q, v)}
    IN  [q EXCEPT !.stored = [v \in Vars |->
            IF v \in known THEN movValue(q, v).stored[v] ELSE @[v]]]

\* The second branch starts with what the first one computed.
faultyOptionEnd(q, entry) ==
    [q EXCEPT !.stored = [v \in Vars |->
        IF v \in DOMAIN entry /\ valueKnown(q, v) THEN movValue(q, v).stored[v] ELSE @[v]]]

\* genOptionEnd: what the branch still knows goes to storage; the next branch
\* starts with what was known before the first.
genOptionEnd(q, entry) ==
    [q EXCEPT
        !.stored = [v \in Vars |->
            IF v \in DOMAIN entry /\ valueKnown(q, v)
            THEN movValue(q, v).stored[v] ELSE @[v]],
        !.precompute = [v \in Vars |-> IF v \in DOMAIN entry THEN entry[v] ELSE @[v]]]

\* What was known before the branches is known behind them.
faultyEndOptionSelect(q, entry) == q

endOptionSelect(q, entry) ==
    [q EXCEPT !.precompute = [v \in Vars |->
        IF v \in DOMAIN entry THEN [@[v] EXCEPT !.value = junk] ELSE @[v]]]

\* No variable is given up.
faultyStopPrecomputation(q, list) == q

\* generateSingleInst at OutsideLoopMutations.  findWhenToStopPrecomputation
\* has one place for each variable, the first loop that has it in its list.
stopPrecomputation(q, list) ==
    LET known == {v \in list \ stopped : valueKnown(q, v)}
    IN  [q EXCEPT
            !.stored = [v \in Vars |->
                IF v \in known THEN endPrecomputingAndMaterialize(q, v).stored[v]
                ELSE @[v]],
            !.precompute = [v \in Vars |->
                IF v \in known THEN endPrecomputation(q, v).precompute[v] ELSE @[v]]]

-----------------------------------------------------------------------------
(* Blocks.                                                                 *)

depth == Len(open)
innermost == open[depth]

Within(kind) == depth > 0 /\ innermost.kind = kind

\* Behind its _loopContinue label a range loop only counts on.
CountingOn == Within("loop") /\ innermost.arm = 2

Statement ==
    /\ ~ p.panicked /\ insts < MaxInsts
    /\ ~ CountingOn
    /\ insts' = insts + 1

Declared(v) == scope[v] >= 0

\* v can be an operand: the execution has given it a value.
Usable(v) == Declared(v) /\ (executing => value[v] # junk)

UsableNumber(v) == Usable(v) /\ v \notin Pointers

\* The lists have the variables of outer scopes that are mutated inside.
Listed(v) == \A i \in scope[v] + 1 .. depth : v \in open[i].list

Assignable(v) ==
    /\ Usable(v) /\ v \in Reassigned
    /\ ~ Within("logical") /\ Listed(v)

Mutated(v) == [i \in DOMAIN open |-> [open[i] EXCEPT !.todo = @ \ {v}]]

\* The IR's own semantics: the instruction gives v the value x.
Set(v, x) == value' = IF executing THEN [value EXCEPT ![v] = x] ELSE value

\* A frame: the mutation list, the variables of it that are not mutated yet,
\* the values known at the start, and where else the execution may be: on its
\* way to the next label inside ("waiting") or to the one at the end ("left").
Frame(kind, list, entry, waiting, left) ==
    [kind |-> kind, list |-> list, todo |-> list, entry |-> entry,
     arm |-> 1, waiting |-> waiting, left |-> left]

Push(frame) == open' = Append(open, frame)
Pop == open' = SubSeq(open, 1, depth - 1)

\* The innermost frame changes.
Top(frame) == open' = [open EXCEPT ![depth] = frame]

\* The variables of the innermost block end with it.
CloseScope ==
    LET local == {v \in Vars : scope[v] = depth}
    IN  /\ scope' = [v \in Vars |-> IF v \in local THEN gone ELSE scope[v]]
        /\ value' = [v \in Vars |-> IF v \in local THEN junk ELSE value[v]]

-----------------------------------------------------------------------------
(* Statements.                                                             *)

Declare(v, way) ==
    /\ Statement
    /\ scope[v] = notYet /\ way \in Declares[v]
    /\ scope' = [scope EXCEPT ![v] = depth]
    /\ UNCHANGED <<executing, open, stopped>>

DeclareImmediate(v, x) ==
    /\ Declare(v, "immediate")
    /\ p' = genAssignImm(p, v, x)
    /\ Set(v, x)

DeclareCopy(v, w) ==
    /\ Declare(v, "copy") /\ Usable(w) /\ (v \in Pointers <=> w \in Pointers)
    /\ p' = assign(p, v, w)
    /\ Set(v, value[w])

DeclareCompare(v, l, r) ==
    /\ Declare(v, "compare") /\ UsableNumber(l) /\ UsableNumber(r)
    /\ p' = compare(p, v, l, r)
    /\ Set(v, Apply("Lesser", value[l], value[r]))

\* The result of a call, or the zero of a declaration without a value: it is in
\* storage, and precomputedOnce stays as it is.
DeclareAtRuntime(v, x) ==
    /\ Declare(v, "runtime")
    /\ p' = Emit(p, v, x)
    /\ Set(v, x)

\* A pointer does not outlive what it points to.
TakeAddress(v, w) ==
    /\ Declare(v, "address") /\ v \in Pointers
    /\ w \in Addressed /\ Usable(w) /\ scope[w] = 0
    /\ depth > 0 => w \in AddressedInside
    /\ p' = genTakeAddress(p, v, w)
    /\ Set(v, w)

IndirectLoad(v, w) ==
    /\ Declare(v, "load") /\ w \in Pointers /\ Usable(w)
    /\ p' = genIndirectLoad(p, v, w)
    /\ Set(v, IF executing THEN value[value[w]] ELSE junk)

IndirectWrite(target, data) ==
    /\ Statement /\ ~ Within("logical")
    /\ target \in Pointers /\ Usable(target) /\ UsableNumber(data)
    /\ p' = genIndirectWrite(p, target, data)
    /\ Set(IF executing THEN value[target] ELSE target, value[data])
    /\ UNCHANGED <<executing, open, scope, stopped>>

Mutate(v) ==
    /\ Statement /\ Assignable(v)
    /\ open' = Mutated(v)
    /\ UNCHANGED <<executing, scope, stopped>>

\* compare leaves precomputedOnce as it is, and assign takes it over.
Assign(v, w) ==
    /\ Mutate(v) /\ v # w
    /\ Usable(w) /\ (v \in Pointers <=> w \in Pointers)
    /\ ComparesAssigned \/ ~ valueKnown(p, w) \/ p.precompute[w].precomputedOnce
    /\ p' = assign(p, v, w)
    /\ Set(v, value[w])

Add(v, w) ==
    /\ Mutate(v) /\ v \notin Pointers /\ UsableNumber(w)
    /\ p' = update(p, "Add", v, w)
    /\ Set(v, Apply("Add", value[v], value[w]))

-----------------------------------------------------------------------------
(* Ifs.                                                                    *)

\* OptionSelectStart with its list, and JumpIfFalse of the condition.
If(c, list) ==
    /\ Statement /\ depth < MaxDepth /\ ~ Within("logical")
    /\ UsableNumber(c)
    /\ \A v \in list : Declared(v) /\ v \in Reassigned /\ Listed(v)
    /\ p' = startOptionSelect(p, list)
    /\ executing' = (executing /\ value[c] # 0)
    /\ Push(Frame("option", list,
                  [v \in {u \in list : valueKnown(p, u)} |-> p.precompute[v]],
                  executing /\ value[c] = 0, FALSE))
    /\ UNCHANGED <<value, scope, stopped>>

\* OptionEnd, the jump past the else, and the label of the else.
Else ==
    /\ Statement /\ Within("option") /\ innermost.arm = 1
    /\ p' = genOptionEnd(p, innermost.entry)
    /\ executing' = innermost.waiting
    /\ Top([innermost EXCEPT !.arm = 2, !.waiting = FALSE, !.left = executing])
    /\ CloseScope
    /\ UNCHANGED stopped

\* The last OptionEnd, OptionSelectEnd, and the label past the tree.
EndIf ==
    /\ ~ p.panicked /\ Within("option") /\ innermost.todo = {}
    /\ p' = endOptionSelect(genOptionEnd(p, innermost.entry), innermost.entry)
    /\ executing' = (executing \/ innermost.waiting \/ innermost.left)
    /\ Pop /\ CloseScope
    /\ UNCHANGED <<stopped, insts>>

-----------------------------------------------------------------------------
(* Loops.                                                                  *)

\* The execution may come from the end of a loop's body: the variables "again"
\* then have other values than before the loop, where the code at the head looks
\* for them (a pointer, one of the addresses that pointers have).
AnyRound(q, again) ==
    LET addresses == {value[v] : v \in Pointers} \cap Vars
    IN  \E round \in [again -> Number \cup addresses] :
          /\ \A v \in again : round[v] \in Number <=> v \notin Pointers
          /\ value' = [v \in Vars |-> IF v \in again THEN round[v] ELSE value[v]]
          /\ p' = [q EXCEPT !.stored = [v \in Vars |->
                      IF v \in again THEN round[v] ELSE @[v]]]

\* OutsideLoopMutations with its list, the label of the head, and JumpIfFalse
\* of the condition to the label past the loop, if there is a condition.
Loop(list, c) ==
    LET q == stopPrecomputation(p, list)
    IN  /\ Statement /\ depth < MaxDepth /\ ~ Within("logical")
        /\ LoopsInElse \/ \A i \in DOMAIN open : open[i].arm = 1
        /\ \A v \in list : Usable(v) /\ v \in Reassigned /\ Listed(v)
        /\ c # junk => UsableNumber(c)
        /\ AnyRound(q, {v \in list : executing /\ ~ valueKnown(q, v)})
        /\ LET exits == executing /\ c # junk /\ value'[c] = 0
           IN  /\ executing' = (executing /\ ~ exits)
               /\ Push(Frame("loop", list, q.precompute, FALSE, exits))
        /\ stopped' = stopped \cup list
        /\ UNCHANGED scope

innermostLoop == {i \in DOMAIN open :
    open[i].kind = "loop" /\ \A j \in i + 1 .. depth : open[j].kind # "loop"}

\* Jumps that the execution does not come to change nothing.
Break ==
    /\ Statement /\ executing /\ ~ Within("logical")
    /\ \E i \in innermostLoop : open' = [open EXCEPT ![i].left = TRUE]
    /\ executing' = FALSE
    /\ UNCHANGED <<p, value, scope, stopped>>

Continue ==
    /\ Statement /\ executing /\ ~ Within("logical")
    /\ \E i \in innermostLoop : open' = [open EXCEPT ![i].waiting = TRUE]
    /\ executing' = FALSE
    /\ UNCHANGED <<p, value, scope, stopped>>

\* The label _loopContinue.
EndBody ==
    /\ ~ p.panicked /\ Within("loop") /\ innermost.arm = 1
    /\ executing' = (executing \/ innermost.waiting)
    /\ Top([innermost EXCEPT !.arm = 2, !.waiting = FALSE])
    /\ CloseScope
    /\ UNCHANGED <<p, stopped, insts>>

\* The counter of a range loop.
Increment(v) ==
    /\ ~ p.panicked /\ CountingOn
    /\ Usable(v) /\ v \in innermost.todo \ Pointers /\ scope[v] = depth - 1
    /\ p' = increment(p, v)
    /\ Set(v, Apply("Add", value[v], 1))
    /\ open' = Mutated(v)
    /\ UNCHANGED <<executing, scope, stopped, insts>>

\* The jump back to the head, LoopEnd, and the label past the loop.
EndLoop ==
    /\ ~ p.panicked /\ CountingOn /\ innermost.todo = {}
    /\ executing' = innermost.left
    /\ Pop
    /\ UNCHANGED <<p, value, scope, stopped, insts>>

-----------------------------------------------------------------------------
(* && and ||.  The left operand is in v; when it decides, a short jump     *)
(* leads past the right operand.  When it is known to decide, the          *)
(* generator skips all of it (skipUntilLabel), and nothing changes.        *)

decides(op, x) == (op = "And") = (x = 0)

ShortJump(v, op) ==
    /\ Statement /\ depth < MaxDepth
    /\ UsableNumber(v) /\ v \in Logical /\ scope[v] = depth
    /\ ~ (valueKnown(p, v) /\ decides(op, p.precompute[v].value))
    /\ LET jumps == executing /\ decides(op, value[v])
       IN  /\ executing' = (executing /\ ~ jumps)
           /\ Push(Frame("logical", {v}, op, FALSE, jumps))
    /\ UNCHANGED <<p, value, scope, stopped>>

\* The right operand is in w; the label at the end.
Combine(v, w) ==
    /\ ~ p.panicked /\ Within("logical") /\ v \in innermost.list
    /\ Usable(v) /\ UsableNumber(w)
    /\ p' = update(p, innermost.entry, v, w)
    /\ LET local == {u \in Vars : scope[u] = depth}
           result == Apply(innermost.entry, value[v], value[w])
       IN  /\ scope' = [u \in Vars |-> IF u \in local THEN gone ELSE scope[u]]
           /\ value' = [u \in Vars |-> IF u \in local THEN junk
                            ELSE IF u = v /\ executing THEN result ELSE value[u]]
    /\ executing' = (executing \/ innermost.left)
    /\ Pop
    /\ UNCHANGED <<stopped, insts>>

Next ==
    \/ \E v \in Vars, x \in Immediates : DeclareImmediate(v, x)
    \/ \E v, w \in Vars : DeclareCopy(v, w)
    \/ \E v, l, r \in Vars : DeclareCompare(v, l, r)
    \/ \E v \in Vars, x \in Number : DeclareAtRuntime(v, x)
    \/ \E v, w \in Vars : TakeAddress(v, w)
    \/ \E v, w \in Vars : IndirectLoad(v, w)
    \/ \E target, data \in Vars : IndirectWrite(target, data)
    \/ \E v, w \in Vars : Assign(v, w)
    \/ \E v, w \in Vars : Add(v, w)
    \/ \E c \in Vars, list \in SUBSET Reassigned : If(c, list)
    \/ Else
    \/ EndIf
    \/ \E c \in Vars \cup {junk}, list \in SUBSET Reassigned : Loop(list, c)
    \/ Break
    \/ Continue
    \/ EndBody
    \/ \E v \in Vars : Increment(v)
    \/ EndLoop
    \/ \E v \in Logical, op \in {"And", "Or"} : ShortJump(v, op)
    \/ \E v, w \in Vars : Combine(v, w)

Spec == Init /\ [][Next]_vars

-----------------------------------------------------------------------------
(* Properties.                                                             *)

\* Code that was generated while "known" was what the generator knew works on
\* the execution's values: a known value is the value, and a value that is not
\* known is in storage.
Agrees(known) ==
    \A v \in Vars : Declared(v) /\ value[v] # junk =>
        value[v] = IF known[v].value # junk THEN known[v].value ELSE p.stored[v]

\* Wherever the execution is, the code there finds each variable's value:
\* whichever branches it has taken, in whatever round of a loop, by whatever
\* jump it came.
SameAsIR == executing => Agrees(p.precompute)

\* The code at the head of a loop was generated before the body: when the
\* execution jumps back, what was known then still holds, and the rest is in
\* storage.
RoundsAgree ==
    [][(Within("loop") /\ Len(open') < depth /\ executing)
          => Agrees(innermost.entry)]_vars

\* "check if we would start doing precomputation again": between branches a
\* variable whose value was given up is never computed at compile time again.
NeverAgain ==
    [][\A v \in Vars :
          /\ p.precompute[v].precomputedOnce /\ ~ valueKnown(p, v)
          /\ valueKnown(p', v)
          => Within("option") /\ v \in DOMAIN innermost.entry]_vars

\* "caller makes sure that we don't try to put a runtime value into a compile
\* time variable", and the panics on the way are out of reach.
NeverPanics == ~ p.panicked

=============================================================================
