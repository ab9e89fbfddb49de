------------------------------- MODULE Calls --------------------------------
(***************************************************************************)
(* Whole instructions of the code generator (src/backend/backend.go) that  *)
(* hand values to other procedures or reach variables through pointers:    *)
(* genCall, genReturn, genTakeAddress, genIndirectLoad, genIndirectWrite   *)
(* and the division, among the assignments and copies of RegAlloc.  Unlike *)
(* RegAlloc's, an action is one instruction with every move of operands in *)
(* it, so it starts and ends with an empty dontSwap.                       *)
(*                                                                         *)
(* A pointer has a value like any variable; which of the variables whose   *)
(* address was taken it leads to is chosen anew at each access.  What the  *)
(* machine uses for an address has to be the pointer's value.              *)
(***************************************************************************)
EXTENDS RegAlloc, SequencesExt

CONSTANTS
    r8,                   \* takes the divisor to be extended
    paramPassingRegOrder, \* the registers of the first parameters
    regsThatGetDestroyed, \* those that a called procedure may overwrite
    numPreserved,         \* len(preservedRegisters)
    Addressed,            \* the variables whose address the program takes
    Pointers,             \* the variables that hold addresses
    ArgLists,             \* what calls pass, as sequences of variables
    Ending,               \* the variables that the program stops using
    KnownDefects          \* programs that are compiled wrongly and still generated

ASSUME ParameterAssumption ==
    /\ paramPassingRegOrder \in Seq(Registers) \ {<<>>}
    /\ IsInjective(paramPassingRegOrder)
    /\ r9 = Last(paramPassingRegOrder)
    /\ regsThatGetDestroyed \in Seq(Registers)
    /\ ToSet(paramPassingRegOrder) \cup {rax} \subseteq ToSet(regsThatGetDestroyed)
    /\ r8 \in Registers \ {rdx} /\ numRegisters > 1
    /\ numPreserved \in Nat
    /\ Addressed \cup Pointers \cup Ending \subseteq Vars
    /\ ArgLists \subseteq Seq({v \in Vars : varPerfectRegSize(v)})
    /\ KnownDefects \subseteq {"argument twice", "divisor in r8", "copy from member",
                              "address in r9", "return drops"}

VARIABLES
    stackBoundVars, \* the variables whose address has been taken
    spent,          \* variables that were used for the last time
    handover        \* the last instruction as another procedure or an access sees it

allVars == <<p, value, stackBoundVars, spent, handover>>

\* Positions whose value is not where the other side looks for it, and the
\* bytes below the frame at the call and after it.
nothingHanded == [astray |-> {}, atCall |-> 0, after |-> 0]

CInit ==
    /\ Init
    /\ stackBoundVars = <<>> /\ spent = {} /\ handover = nothingHanded

Usable(v) == Live(v) /\ v \notin spent
UsableInReg(v) == Usable(v) /\ varPerfectRegSize(v)
HasValue(v) == Usable(v) /\ value[v] # junk

\* The next instruction starts with an empty dontSwap.
finished(q) == [q EXCEPT !.dontSwap = {}]

-----------------------------------------------------------------------------
(* Calls.                                                                  *)

faultySwapOut(q, v) ==
    IF inRegister(q, v) THEN spill(q, v) ELSE q

\* A variable that others may reach by its address is put back into its slot.
swapOut(q, v) ==
    IF inRegister(q, v) THEN releaseRegister(spill(q, v), q.currentRegister[v]) ELSE q

\* The record after n passes of a loop that starts with q.
loop(pass(_, _), q, n) ==
    LET after[i \in 0 .. n] == IF i = 0 THEN q ELSE pass(after[i - 1], i)
    IN  after[n]

swapStackBoundVars(q) ==
    loop(LAMBDA acc, i : swapOut(acc, stackBoundVars[i]), q, Len(stackBoundVars))

\* 1 if the first register carries the address for a big result.
provided(ret) == IF ret # invalidVn /\ SizeOf[ret] > 16 THEN 1 ELSE 0

\* How many arguments do not go over the stack.
visibleArgsInReg(args, ret) ==
    IF Len(paramPassingRegOrder) <= Len(args)
    THEN Len(paramPassingRegOrder) - provided(ret)
    ELSE Len(args)

\* The register that the arguments on the stack pass through.
takeTmpReg(q) == clobber(makeFreeReg(q, r9), {freeReg(q, r9)})

\* The pushed words, the last one pushed first.
pushed(q, args, visible) ==
    [i \in 1 .. Len(args) - visible |-> ReadVar(q, args[visible + i])]

\* No word is pushed to keep the stack pointer a multiple of 16.
faultyPadding(words) == 0

padding(words) == Len(words) % 2

\* Arguments are loaded in order, each into its register.
loadArguments(q, args, first) ==
    LET room == Len(paramPassingRegOrder) - first
    IN  loop(LAMBDA acc, i :
            loadRegisterWithVar(acc, paramPassingRegOrder[i + first], args[i]),
            q, IF Len(args) < room THEN Len(args) ELSE room)

\* The tenant of a register that the call destroys is saved, unless the call is
\* the last to use it.
saveTenant(q, r, dying) ==
    LET owner == q.occupiedBy[r]
    IN  IF owner = invalidVn THEN q
        ELSE releaseRegister(
                 IF owner \in dying THEN q
                 ELSE spill(ensureStackOffsetValid(q, owner), owner), r)

saveDestroyed(q, dying) ==
    loop(LAMBDA acc, i : saveTenant(acc, regsThatGetDestroyed[i], dying),
         q, Len(regsThatGetDestroyed))

\* The return address is not skipped.
faultyCalleeFinds(q, words, n, first) ==
    [i \in 1 .. n |->
        IF i + first <= Len(paramPassingRegOrder)
        THEN q.reg[paramPassingRegOrder[i + first]]
        ELSE ([j \in 1 .. numPreserved + 2 |-> junk] \o words)
                [numPreserved + 1 + i + first - Len(paramPassingRegOrder)]]

\* generate, in the called procedure: parameters are in registers, then in the
\* words above the registers it pushed (rbp among them) and the return address.
calleeFinds(q, words, n, first) ==
    LET frame == [j \in 1 .. numPreserved + 2 |-> junk] \o words
        paramOffset(k) == -16 - 8 * numPreserved - 8 * k
    IN  [i \in 1 .. n |->
            IF i + first <= Len(paramPassingRegOrder)
            THEN q.reg[paramPassingRegOrder[i + first]]
            ELSE frame[1 - paramOffset(i + first - Len(paramPassingRegOrder) - 1) \div 8]]

\* genCall up to the call instruction.
beforeCall(args, ret, dying) ==
    LET visible == visibleArgsInReg(args, ret)
        swapped == swapStackBoundVars(p)
        onStack == IF visible < Len(args) THEN takeTmpReg(swapped) ELSE swapped
        saved == saveDestroyed(loadArguments(onStack, args, provided(ret)), dying)
    IN  [words |-> pushed(onStack, args, visible),
         q |-> IF provided(ret) = 1 THEN ensureStackOffsetValid(saved, ret) ELSE saved]

\* What the called procedure finds, and the stack pointer.
handedTo(call, args, ret) ==
    LET found == calleeFinds(call.q, call.words, Len(args), provided(ret))
        bytes == 8 * (Len(call.words) + padding(call.words))
        popped == IF Len(args) + provided(ret) > Len(paramPassingRegOrder) THEN bytes ELSE 0
    IN  [astray |-> {i \in 1 .. Len(args) : found[i] # value[args[i]]},
         atCall |-> bytes, after |-> bytes - popped]

\* Arguments have values, and only in one of the known defects is one of them
\* passed twice.  The last use of a variable whose address was taken is that of
\* its pointer.
Passable(args, dying) ==
    /\ \A i \in DOMAIN args : HasValue(args[i])
    /\ IsInjective(args) \/ "argument twice" \in KnownDefects
    /\ dying \subseteq ToSet(args) \ ToSet(stackBoundVars)

\* genCall of a procedure that returns x.
GenCall(args, ret, x, dying) ==
    /\ ~ p.panicked /\ Passable(args, dying)
    /\ Usable(ret) /\ ret \notin ToSet(args)
    /\ varPerfectRegSize(ret) \/ provided(ret) = 1
    /\ LET call == beforeCall(args, ret, dying)
           q == clobber(call.q, ToSet(regsThatGetDestroyed))
           freed == IF inRegister(q, ret) THEN releaseRegister(q, q.currentRegister[ret]) ELSE q
       IN  /\ p' = finished(IF provided(ret) = 1 THEN storeToSlot(q, ret, x)
                            ELSE writeOperand(allocateRegToVar(freed, rax, ret), ret, x))
           /\ handover' = handedTo(call, args, ret)
    /\ value' = [value EXCEPT ![ret] = x]
    /\ spent' = spent \cup dying
    /\ UNCHANGED stackBoundVars

\* genCall of a procedure that returns nothing and writes through a pointer.
GenCallWriting(args, w, x, dying) ==
    /\ ~ p.panicked /\ Passable(args, dying)
    /\ w \in ToSet(stackBoundVars) /\ Usable(w)
    /\ LET call == beforeCall(args, invalidVn, dying)
           q == clobber(call.q, ToSet(regsThatGetDestroyed))
       IN  /\ p' = finished(storeToSlot(q, w, x))
           /\ handover' = handedTo(call, args, invalidVn)
    /\ value' = [value EXCEPT ![w] = x]
    /\ spent' = spent \cup dying
    /\ UNCHANGED stackBoundVars

\* What the caller finds in rax, or in the storage that it has provided.
returned(q, ret) == IF varPerfectRegSize(ret) THEN q.reg[rax] ELSE q.mem[ret]

\* if c { return ret }: genReturn, the conditional jump around it and the label
\* behind it.  The label saves the tables that the return leaves
\* (labelToState), and the jump, which saved those before the return, is
\* morphed to them: the way around the return repeats its moves (Jumps has the
\* morph step by step).  Without "return drops", no such return gives up a
\* variable that has a value.
GenReturn(ret) ==
    /\ ~ p.panicked /\ HasValue(ret)
    /\ varPerfectRegSize(ret) \/ provided(ret) = 1
    /\ LET q == prepareReturn(p, ret)
       IN  /\ (\A v \in droppedFor(p, ret) : ~ HasValue(v)) \/ "return drops" \in KnownDefects
           /\ p' = finished(q)
           /\ handover' = [nothingHanded EXCEPT
                 !.astray = IF returned(q, ret) = value[ret] THEN {} ELSE {1}]
    /\ UNCHANGED <<value, stackBoundVars, spent>>

-----------------------------------------------------------------------------
(* Pointers.  The base of an access is the variable that holds the         *)
(* address, or invalidVn when the generator knows it as an offset.         *)

\* genTakeAddress: the address is known, the variable has a slot from here on.
TakeAddress(v) ==
    /\ ~ p.panicked /\ Usable(v) /\ v \in Addressed \ ToSet(stackBoundVars)
    /\ p' = ensureStackOffsetValid(p, v)
    /\ stackBoundVars' = Append(stackBoundVars, v)
    /\ handover' = nothingHanded
    /\ UNCHANGED <<value, spent>>

\* The base leads to w, or to another procedure's storage if w is invalidVn.
Reaches(base, w) ==
    /\ base # invalidVn => base \in Pointers /\ UsableInReg(base) /\ HasValue(base)
    /\ IF w = invalidVn THEN base # invalidVn
       ELSE w \in ToSet(stackBoundVars) /\ Usable(w) /\ w # base

\* What a load of x finds there, and what a store of x there does.
loadFrom(q, w, x) == IF w = invalidVn THEN x ELSE q.mem[w]
storeTo(q, w, x) == IF w = invalidVn THEN q ELSE storeToSlot(q, w, x)

\* x can be what the program finds there when it loads out.
Found(w, out, x) ==
    IF w = invalidVn THEN x \in ImmediatesFor[out]
    ELSE HasValue(w) /\ x = value[w]

\* prepareEffectiveAddress
prepareAddress(q, base) == IF base = invalidVn THEN q ELSE ensureInRegister(q, base)

\* The register that the address is read from, if the generator does not know it.
addressIn(q, base) == IF base = invalidVn THEN invalidRegister ELSE q.currentRegister[base]

\* What register r of q holds where the base's value should be.
misled(q, base, r) ==
    [nothingHanded EXCEPT
        !.astray = IF base = invalidVn \/ q.reg[r] = value[base] THEN {} ELSE {1}]

\* genIndirectLoad of what fits a register.
GenIndirectLoad(out, base, w, x) ==
    /\ ~ p.panicked /\ Reaches(base, w) /\ Found(w, out, x)
    /\ w # invalidVn => varPerfectRegSize(w)
    /\ UsableInReg(out) /\ out # base
    /\ LET loaded == ensureInRegister(swapStackBoundVars(p), out)
           q == prepareAddress(loaded, base)
       IN  /\ p' = finished(writeOperand(q, out, loadFrom(q, w, x)))
           /\ handover' = misled(q, base, addressIn(q, base))
    /\ value' = [value EXCEPT ![out] = x]
    /\ UNCHANGED <<stackBoundVars, spent>>

\* genIndirectWrite of what fits a register.
GenIndirectWrite(base, w, data) ==
    /\ ~ p.panicked /\ Reaches(base, w)
    /\ w # invalidVn => varPerfectRegSize(w)
    /\ UsableInReg(data) /\ HasValue(data) /\ data # base
    /\ LET addressed == prepareAddress(swapStackBoundVars(p), base)
           q == ensureInRegister(addressed, data)
       IN  /\ p' = finished(storeTo(q, w, q.reg[q.currentRegister[data]]))
           /\ handover' = misled(q, base, addressIn(addressed, base))
    /\ value' = [v \in Vars |-> IF v = w THEN value[data] ELSE value[v]]
    /\ UNCHANGED <<stackBoundVars, spent>>

\* genIndirectWrite of an address x that the generator knows: it goes through a
\* register that is made free after the base's was chosen.
GenIndirectWriteAddress(base, w, x) ==
    /\ ~ p.panicked /\ Reaches(base, w) /\ w \in Pointers \cup {invalidVn}
    /\ LET addressed == prepareAddress(swapStackBoundVars(p), base)
           q == takeTmpReg(addressed)
       IN  /\ \/ freeRegExists(addressed)
              \/ addressIn(addressed, base) # r9 \/ "address in r9" \in KnownDefects
           /\ p' = finished(storeTo(q, w, x))
           /\ handover' = misled(q, base, addressIn(addressed, base))
    /\ value' = [v \in Vars |-> IF v = w THEN x ELSE value[v]]
    /\ UNCHANGED <<stackBoundVars, spent>>

\* The registers that the copying of memory uses: none of them has a tenant.
emptied(q) == freeUp3(swapStackBoundVars(q), TRUE, rsi, rdi, rcx)

\* loadPointerIntoReg: a pointer to a member is relative to the variable that
\* holds the address of the struct, which is brought into a register for it.
loadPointer(q, base, toMember) == IF toMember THEN prepareAddress(q, base) ELSE q

\* Bringing that variable into a register may choose one of those just emptied.
Loadable(q, base, toMember) ==
    toMember => /\ base # invalidVn
                /\ inRegister(q, base) \/ "copy from member" \in KnownDefects

\* A copy of memory overwrites the registers that it uses, whoever is in them.
copied(q, dest, x) == finished(storeTo(clobber(q, {rsi, rdi, rcx}), dest, x))

foundAddress(q, base) ==
    [nothingHanded EXCEPT
        !.astray = IF base = invalidVn \/ ReadVar(q, base) = value[base] THEN {} ELSE {1}]

\* genIndirectLoad of a struct or an array.
GenIndirectLoadBig(out, base, w, x, toMember) ==
    /\ ~ p.panicked /\ Reaches(base, w) /\ Found(w, out, x)
    /\ w # invalidVn => SizeOf[out] = SizeOf[w]
    /\ Usable(out) /\ ~ varPerfectRegSize(out)
    /\ Loadable(emptied(p), base, toMember)
    /\ LET q == loadPointer(emptied(p), base, toMember)
       IN  /\ p' = copied(ensureStackOffsetValid(q, out), out, loadFrom(q, w, x))
           /\ handover' = foundAddress(q, base)
    /\ value' = [value EXCEPT ![out] = x]
    /\ UNCHANGED <<stackBoundVars, spent>>

\* genIndirectWrite of a struct or an array.
GenIndirectWriteBig(base, w, data, toMember) ==
    /\ ~ p.panicked /\ Reaches(base, w)
    /\ w # invalidVn => SizeOf[data] = SizeOf[w]
    /\ HasValue(data) /\ ~ varPerfectRegSize(data)
    /\ Loadable(emptied(p), base, toMember)
    /\ LET q == ensureStackOffsetValid(loadPointer(emptied(p), base, toMember), data)
       IN  /\ p' = copied(q, w, q.mem[data])
           /\ handover' = foundAddress(q, base)
    /\ value' = [v \in Vars |-> IF v = w THEN value[data] ELSE value[v]]
    /\ UNCHANGED <<stackBoundVars, spent>>

-----------------------------------------------------------------------------
(* The other instructions.                                                 *)

\* rdx is not emptied, only overwritten.
faultyEmptyRdxFor(l) == clobber(loadRegisterWithVar(p, rax, l), {rdx})

\* Before the division: l is in rax, and rdx is the upper half of the dividend.
emptyRdxFor(l) == clobber(freeUp1(loadRegisterWithVar(p, rax, l), TRUE, rdx), {rdx})

\* The division of l by r, with quotient x.  A divisor that is narrower than l is
\* brought into r8, whose tenant may go to rdx, for that one is free.
Divide(l, r, x) ==
    /\ ~ p.panicked /\ UsableInReg(l) /\ UsableInReg(r) /\ HasValue(l) /\ HasValue(r) /\ l # r
    /\ LET empty == emptyRdxFor(l)
           extend == ~ inRegister(empty, r) /\ SizeOf[l] > SizeOf[r]
           q == IF extend THEN loadRegisterWithVar(empty, r8, r) ELSE empty
       IN  /\ extend => empty.occupiedBy[r8] = invalidVn \/ "divisor in r8" \in KnownDefects
           /\ p' = finished(clobber(writeOperand(q, l, x), {rdx}))
           /\ handover' = [nothingHanded EXCEPT
                 !.astray = {v \in {l, r} : ReadVar(q, v) # value[v]}]
    /\ value' = [value EXCEPT ![l] = x]
    /\ UNCHANGED <<stackBoundVars, spent>>

\* For the instructions of RegAlloc that leave dontSwap alone.
NothingHanded == handover' = nothingHanded /\ UNCHANGED <<stackBoundVars, spent>>

CNext ==
    \/ \E v \in Vars \ spent : \E x \in ImmediatesFor[v] :
           AssignImmAnywhere(v, x) /\ NothingHanded
    \/ \E dest, source \in Vars \ spent : CopyThroughMemcpy(dest, source) /\ NothingHanded
    \/ \E v \in Vars \ spent : ZeroOutVarOnStack(v) /\ NothingHanded
    \/ \E v \in Ending : Decommission(v) /\ NothingHanded
    \/ \E args \in ArgLists, ret \in Vars, dying \in SUBSET Ending :
           \E x \in ImmediatesFor[ret] : GenCall(args, ret, x, dying)
    \/ \E args \in ArgLists, w \in Addressed, dying \in SUBSET Ending :
           \E x \in ImmediatesFor[w] : GenCallWriting(args, w, x, dying)
    \/ \E ret \in Vars : GenReturn(ret)
    \/ \E v \in Addressed : TakeAddress(v)
    \/ \E base \in Pointers \cup {invalidVn}, w \in Addressed \cup {invalidVn} :
          \/ \E out \in Vars, x \in Val : GenIndirectLoad(out, base, w, x)
          \/ \E data \in Vars : GenIndirectWrite(base, w, data)
          \/ \E x \in Val : GenIndirectWriteAddress(base, w, x)
          \/ \E out \in Vars, x \in Val, toMember \in BOOLEAN :
                GenIndirectLoadBig(out, base, w, x, toMember)
          \/ \E data \in Vars, toMember \in BOOLEAN :
                GenIndirectWriteBig(base, w, data, toMember)
    \/ \E l, r \in Vars : \E x \in ImmediatesFor[l] : Divide(l, r, x)

CSpec == CInit /\ [][CNext]_allVars

-----------------------------------------------------------------------------
(* Properties.                                                             *)

\* What a call or a return hands over is found by the other side where it looks
\* for it, an access through a pointer uses the pointer's value, and a call
\* leaves the stack pointer as it was and a multiple of 16 in between.
ArgumentsArrive ==
    /\ handover.astray = {}
    /\ handover.atCall % 16 = 0 /\ handover.after = 0

\* Calls, accesses through pointers and divisions among the assignments: the
\* code is still a store of variables, in which a call gives its result to one
\* variable, or changes one through a pointer, and no other value is touched.
\* The values of variables that were used for the last time do not matter.
ProgramValue == [v \in Vars |-> IF v \in spent THEN value[v] ELSE StoredValue[v]]
Program == INSTANCE VarStore WITH value <- ProgramValue, ended <- p.decommissioned
ImplementsProgram == Program!Spec

=============================================================================
