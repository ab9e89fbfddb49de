----------------------------- MODULE VarStorage -----------------------------
(***************************************************************************)
(* The storage bookkeeping of the code generator (src/backend/backend.go): *)
(* which register or stack slot holds each IR variable, and the moves the  *)
(* generator emits to keep that true.  A procedure under generation is a   *)
(* record p (the receiver "p" of procGen's methods).  Each function of the *)
(* source is an operator from p to the p it leaves behind.                 *)
(*                                                                         *)
(* Two fields of p are not in the source: p.reg and p.mem are what the     *)
(* instructions emitted so far leave in the registers and in the stack     *)
(* slots when they run.  They make "the bookkeeping is right" a statement  *)
(* about the emitted code and not only about the tables.                   *)
(*                                                                         *)
(* An operator whose name starts with "faulty" is a deliberately wrong     *)
(* variant of the one after it; no specification uses it.  Swapping it in  *)
(* shows which property notices the mistake.                               *)
(***************************************************************************)
EXTENDS Integers, Sequences

CONSTANTS
    Vars,             \* the IR variables ("vn" in the source)
    invalidVn,        \* occupiedBy of a free register (-1 in the source)
    numRegisters,     \* 14 in the source
    initialAvailable, \* the order in which newFullVarState lists the registers
    SizeOf,           \* size in bytes of each variable's type
    Val,              \* values a variable can be given
    junk              \* the contents of storage nobody has written

Registers == 0 .. numRegisters - 1
invalidRegister == -1

ASSUME VarsAssumption == invalidVn \notin Vars

ASSUME RegistersAssumption == numRegisters \in Nat \ {0}

ASSUME SizeAssumption == SizeOf \in [Vars -> Nat \ {0}]

\* newFullVarState lists every register exactly once.
ASSUME AvailableAssumption ==
    /\ initialAvailable \in Seq(Registers)
    /\ Len(initialAvailable) = numRegisters
    /\ \A r \in Registers : \E i \in 1 .. numRegisters : initialAvailable[i] = r
    /\ \A i, j \in 1 .. numRegisters :
          initialAvailable[i] = initialAvailable[j] => i = j

ASSUME JunkAssumption == junk \notin Val

Content == Val \cup {junk}

\* The variables a register can hold: varPerfectRegSize.  Everything else
\* (structs, arrays) lives on the stack only.
varPerfectRegSize(v) == SizeOf[v] \in {1, 2, 4, 8}

-----------------------------------------------------------------------------
(* The record.                                                             *)

\* fullVarState, the procGen fields the functions below read or write, and
\* the machine state reg / mem.  panicked stands for every panic("...").
VarState ==
    [currentRegister : [Vars -> Registers \cup {invalidRegister}],
     rbpOffset : [Vars -> Int],
     decommissioned : SUBSET Vars,
     occupiedBy : [Registers -> Vars \cup {invalidVn}],
     available : Seq(Registers),
     dontSwap : SUBSET Registers,
     nextRegToBeSwapped : Registers,
     currentFrameSize : Nat,
     noNewStackStorage : BOOLEAN,
     reg : [Registers -> Content],
     mem : [Vars -> Content],
     panicked : BOOLEAN]

newFullVarState ==
    [currentRegister |-> [v \in Vars |-> invalidRegister],
     rbpOffset |-> [v \in Vars |-> 0],
     decommissioned |-> {},
     occupiedBy |-> [r \in Registers |-> invalidVn],
     available |-> initialAvailable,
     dontSwap |-> {},
     nextRegToBeSwapped |-> 0,
     currentFrameSize |-> 0,
     noNewStackStorage |-> FALSE,
     reg |-> [r \in Registers |-> junk],
     mem |-> [v \in Vars |-> junk],
     panicked |-> FALSE]

Panic(p) == [p EXCEPT !.panicked = TRUE]

inRegister(p, v) == p.currentRegister[v] # invalidRegister

\* The offset is negative for an argument the caller pushed.
hasStackStorage(p, v) == p.rbpOffset[v] # 0

Stored(p, v) == inRegister(p, v) \/ hasStackStorage(p, v)

freeRegExists(p) == p.available # <<>>

\* Meaningful when freeRegExists(p).
nextAvailable(p) == p.available[Len(p.available)]

\* The stack bytes of v are those from rbp-offset up to rbp-offset+size-1.
Overlap(p, v, w) ==
    /\ hasStackStorage(p, v)
    /\ hasStackStorage(p, w)
    /\ p.rbpOffset[v] - SizeOf[v] < p.rbpOffset[w]
    /\ p.rbpOffset[w] - SizeOf[w] < p.rbpOffset[v]

\* The value an instruction finds when it names v through varOperand.
ReadVar(p, v) ==
    IF inRegister(p, v) THEN p.reg[p.currentRegister[v]] ELSE p.mem[v]

-----------------------------------------------------------------------------
(* Emitted instructions.                                                   *)

\* mov register, register
movRegReg(p, dst, src) == [p EXCEPT !.reg[dst] = p.reg[src]]

\* mov [rbp-offset(v)], x: a slot that shares bytes with v's is destroyed.
storeToSlot(p, v, x) ==
    [p EXCEPT !.mem = [w \in Vars |->
        IF w = v THEN x
        ELSE IF Overlap(p, v, w) THEN junk ELSE p.mem[w]]]

\* memRegCommand("mov", v, v): panics when v has no slot.
spill(p, v) ==
    IF hasStackStorage(p, v)
    THEN storeToSlot(p, v, p.reg[p.currentRegister[v]])
    ELSE Panic(p)

\* regMemCommand("mov", v, v)
fill(p, v) == [p EXCEPT !.reg[p.currentRegister[v]] = p.mem[v]]

\* mov varOperand(v), x
writeOperand(p, v, x) ==
    IF inRegister(p, v) THEN [p EXCEPT !.reg[p.currentRegister[v]] = x]
    ELSE IF hasStackStorage(p, v) THEN storeToSlot(p, v, x)
    ELSE Panic(p)

\* Registers an emitted call or a scratch use overwrites.
clobber(p, rs) ==
    [p EXCEPT !.reg = [r \in Registers |-> IF r \in rs THEN junk ELSE p.reg[r]]]

-----------------------------------------------------------------------------
(* Bookkeeping.                                                            *)

changeRegisterBookKeeping(p, v, r) ==
    [p EXCEPT !.occupiedBy[r] = v, !.currentRegister[v] = r]

ListedAvailable(p, r) == \E i \in 1 .. Len(p.available) : p.available[i] = r

\* available without its i-th element, the others keeping their order.
WithoutIndex(s, i) ==
    [j \in 1 .. Len(s) - 1 |-> IF j < i THEN s[j] ELSE s[j + 1]]

\* The register stays in the list of free ones.
faultyAllocateRegToVar(p, r, v) ==
    IF ~ ListedAvailable(p, r) THEN Panic(p) ELSE changeRegisterBookKeeping(p, v, r)

allocateRegToVar(p, r, v) ==
    IF ~ ListedAvailable(p, r)
    THEN Panic(p)
    ELSE LET i == CHOOSE i \in 1 .. Len(p.available) : p.available[i] = r
         IN  changeRegisterBookKeeping(
                [p EXCEPT !.available = WithoutIndex(p.available, i)], v, r)

releaseRegister(p, r) ==
    IF ListedAvailable(p, r)
    THEN Panic(p)
    ELSE [p EXCEPT
            !.currentRegister = [v \in Vars |->
                IF v = p.occupiedBy[r] THEN invalidRegister
                ELSE p.currentRegister[v]],
            !.occupiedBy[r] = invalidVn,
            !.available = Append(p.available, r)]

\* The frame does not grow, so the next variable gets the same bytes.
faultyEnsureStackOffset(p, v) ==
    IF v \in p.decommissioned THEN Panic(p)
    ELSE IF hasStackStorage(p, v) THEN p
    ELSE [p EXCEPT !.rbpOffset[v] = p.currentFrameSize + SizeOf[v]]

\* A variable that has a slot is given another one.
faultyEnsureNewStackOffset(p, v) ==
    IF v \in p.decommissioned THEN Panic(p)
    ELSE [p EXCEPT !.currentFrameSize = p.currentFrameSize + SizeOf[v],
                   !.rbpOffset[v] = p.currentFrameSize + SizeOf[v]]

ensureStackOffsetValid(p, v) ==
    IF v \in p.decommissioned THEN Panic(p)
    ELSE IF hasStackStorage(p, v) THEN p
    ELSE [p EXCEPT !.currentFrameSize = p.currentFrameSize + SizeOf[v],
                   !.rbpOffset[v] = p.currentFrameSize + SizeOf[v]]

-----------------------------------------------------------------------------
(* loadRegisterWithVar: bring v into register r whatever lives there.  One *)
(* operator per case of the function.                                      *)

\* r is free.
loadIntoFree(p, r, v) ==
    IF inRegister(p, v)
    THEN LET old == p.currentRegister[v]
         IN  allocateRegToVar(releaseRegister(movRegReg(p, r, old), old), r, v)
    ELSE LET q == allocateRegToVar(p, r, v)
         IN  IF hasStackStorage(p, v) /\ ~ q.panicked THEN fill(q, v) ELSE q

\* The registers are swapped, the tables record only where v went.
faultyExchange(p, r, v) ==
    LET old == p.currentRegister[v]
    IN  changeRegisterBookKeeping(
            [p EXCEPT !.reg[r] = p.reg[old], !.reg[old] = p.reg[r]], v, r)

\* The tables are swapped, the registers are not.
faultyExchangeNoCode(p, r, v) ==
    changeRegisterBookKeeping(
        changeRegisterBookKeeping(p, p.occupiedBy[r], p.currentRegister[v]), v, r)

\* Both v and r's tenant are in registers: xchg.
exchange(p, r, v) ==
    LET tenant == p.occupiedBy[r]
        old == p.currentRegister[v]
    IN  changeRegisterBookKeeping(
            changeRegisterBookKeeping(
                [p EXCEPT !.reg[r] = p.reg[old], !.reg[old] = p.reg[r]],
                tenant, old),
            v, r)

\* The tenant moves to a free register.
displaceToRegister(p, r, v) ==
    LET new == nextAvailable(p)
        moved == allocateRegToVar(movRegReg(p, new, r), new, p.occupiedBy[r])
        q == changeRegisterBookKeeping(moved, v, r)
    IN  IF hasStackStorage(p, v) THEN fill(q, v) ELSE q

\* The tenant still claims the register it lost.
faultyDisplaceToStack(p, r, v) ==
    LET tenant == p.occupiedBy[r]
        slotted == IF p.noNewStackStorage THEN p
                   ELSE ensureStackOffsetValid(p, tenant)
        saved == IF hasStackStorage(slotted, tenant) THEN spill(slotted, tenant)
                 ELSE slotted
        moved == changeRegisterBookKeeping(saved, v, r)
    IN  IF hasStackStorage(moved, v) THEN fill(moved, v) ELSE moved

\* The tenant is saved only when it had a slot before.
faultyDisplaceUnsaved(p, r, v) ==
    LET tenant == p.occupiedBy[r]
        saved == IF hasStackStorage(p, tenant) THEN spill(p, tenant)
                 ELSE ensureStackOffsetValid(p, tenant)
        moved == [changeRegisterBookKeeping(saved, v, r) EXCEPT
                     !.currentRegister[tenant] = invalidRegister]
    IN  IF hasStackStorage(moved, v) THEN fill(moved, v) ELSE moved

\* The tenant moves to the stack.  Under noNewStackStorage it keeps the slot
\* it has, and is dropped when it has none.
displaceToStack(p, r, v) ==
    LET tenant == p.occupiedBy[r]
        slotted == IF p.noNewStackStorage THEN p
                   ELSE ensureStackOffsetValid(p, tenant)
        saved == IF hasStackStorage(slotted, tenant) THEN spill(slotted, tenant)
                 ELSE slotted
        moved == [changeRegisterBookKeeping(saved, v, r) EXCEPT
                     !.currentRegister[tenant] = invalidRegister]
    IN  IF hasStackStorage(moved, v) THEN fill(moved, v) ELSE moved

loadRegisterWithVar(p, r, v) ==
    LET tenant == p.occupiedBy[r]
    IN  IF v \in p.decommissioned \/ SizeOf[v] > 8 THEN Panic(p)
        ELSE IF tenant = invalidVn THEN loadIntoFree(p, r, v)
        ELSE IF tenant = v THEN p
        ELSE IF inRegister(p, v) THEN exchange(p, r, v)
        ELSE IF freeRegExists(p) THEN displaceToRegister(p, r, v)
        ELSE displaceToStack(p, r, v)

-----------------------------------------------------------------------------
(* Callers of loadRegisterWithVar.                                         *)

\* The scan does not look at dontSwap.
faultyVictim(p) == p.nextRegToBeSwapped

\* The register the round-robin scan of ensureInRegister settles on: the first
\* one from nextRegToBeSwapped on that this instruction does not use.
victim(p) ==
    LET at(k) == (p.nextRegToBeSwapped + k) % numRegisters
        k == CHOOSE k \in Registers :
                /\ at(k) \notin p.dontSwap
                /\ \A j \in Registers : j < k => at(j) \in p.dontSwap
    IN  at(k)

\* The scan never ends when every register is in dontSwap: that counts as a
\* panic here.
ensureInRegister(p, v) ==
    LET protect(q) == [q EXCEPT !.dontSwap = @ \cup {q.currentRegister[v]}]
    IN  IF inRegister(p, v) THEN protect(p)
        ELSE IF v \in p.decommissioned \/ SizeOf[v] > 8 THEN Panic(p)
        ELSE IF freeRegExists(p)
        THEN protect(loadRegisterWithVar(p, nextAvailable(p), v))
        ELSE IF p.dontSwap = Registers THEN Panic(p)
        ELSE LET r == victim(p)
             IN  protect([loadRegisterWithVar(p, r, v) EXCEPT
                             !.nextRegToBeSwapped = (r + 1) % numRegisters])

allocateRuntimeStorage(p, v) ==
    IF Stored(p, v) THEN p
    ELSE IF freeRegExists(p) THEN loadRegisterWithVar(p, nextAvailable(p), v)
    ELSE ensureStackOffsetValid(p, v)

\* The tenant may move to another register that is to be emptied.
faultyFreeUpOne(p, allocateNewStackStorage, targets, target) ==
    LET tenant == p.occupiedBy[target]
        slotted == IF allocateNewStackStorage
                   THEN ensureStackOffsetValid(p, tenant) ELSE p
        saved == IF hasStackStorage(slotted, tenant) THEN spill(slotted, tenant)
                 ELSE slotted
    IN  IF tenant = invalidVn THEN p
        ELSE IF freeRegExists(p)
        THEN loadRegisterWithVar(p, p.available[1], tenant)
        ELSE releaseRegister(saved, target)

\* One round of freeUpRegisters: empty the register "target" without using any
\* register of "targets".  The tenant goes to the first listed free register
\* outside targets, else to the stack; without new stack storage a tenant that
\* has no slot is dropped.
freeUpOne(p, allocateNewStackStorage, targets, target) ==
    LET tenant == p.occupiedBy[target]
        others == {i \in 1 .. Len(p.available) : p.available[i] \notin targets}
        first == CHOOSE i \in others : \A j \in others : i <= j
        slotted == IF allocateNewStackStorage
                   THEN ensureStackOffsetValid(p, tenant) ELSE p
        saved == IF hasStackStorage(slotted, tenant) THEN spill(slotted, tenant)
                 ELSE slotted
    IN  IF tenant = invalidVn THEN p
        ELSE IF others # {}
        THEN loadRegisterWithVar(p, p.available[first], tenant)
        ELSE releaseRegister(saved, target)

\* freeUpRegisters is called with one, two or three registers.
freeUp1(p, alloc, a) == freeUpOne(p, alloc, {a}, a)

freeUp2(p, alloc, a, b) ==
    freeUpOne(freeUpOne(p, alloc, {a, b}, a), alloc, {a, b}, b)

freeUp3(p, alloc, a, b, c) ==
    LET ts == {a, b, c}
    IN  freeUpOne(freeUpOne(freeUpOne(p, alloc, ts, a), alloc, ts, b), alloc, ts, c)

\* findOrMakeFreeReg evicts the last parameter register's tenant when no
\* register is free: makeFreeReg is what it does to p, freeReg what it returns.
freeReg(p, r9) == IF freeRegExists(p) THEN nextAvailable(p) ELSE r9

\* The evicted tenant is spilled before it has a slot.
faultyMakeFreeReg(p, r9) ==
    IF freeRegExists(p) THEN p
    ELSE releaseRegister(spill(p, p.occupiedBy[r9]), r9)

makeFreeReg(p, r9) ==
    IF freeRegExists(p) THEN p
    ELSE LET tenant == p.occupiedBy[r9]
         IN  releaseRegister(spill(ensureStackOffsetValid(p, tenant), tenant), r9)

\* The variable stops having any storage.
decommission(p, v) ==
    LET q == [p EXCEPT !.decommissioned = @ \cup {v}]
        r == q.currentRegister[v]
        released == IF r # invalidRegister THEN releaseRegister(q, r) ELSE q
    IN  [released EXCEPT !.rbpOffset[v] = 0]

-----------------------------------------------------------------------------
(* What a consistent record looks like.                                    *)

\* registers.all[r].occupiedBy and varStorage[vn].currentRegister are two
\* copies of one relation.
RegistersMatch(p) ==
    \A r \in Registers, v \in Vars :
        p.occupiedBy[r] = v <=> p.currentRegister[v] = r

\* The list of available registers has the registers without tenant, each once.
AvailableMatches(p) ==
    /\ \A r \in Registers : ListedAvailable(p, r) <=> p.occupiedBy[r] = invalidVn
    /\ \A i, j \in 1 .. Len(p.available) :
          p.available[i] = p.available[j] => i = j

\* Slots share no byte and lie in the frame, or are the caller's (offset < 0).
SlotsApart(p) ==
    /\ \A v, w \in Vars : v # w => ~ Overlap(p, v, w)
    /\ \A v \in Vars : p.rbpOffset[v] > 0 =>
          /\ SizeOf[v] <= p.rbpOffset[v]
          /\ p.rbpOffset[v] <= p.currentFrameSize

\* Each variable that has a value has storage, and holds the value there.
Holds(p, value) ==
    \A v \in Vars : value[v] # junk =>
        Stored(p, v) /\ ReadVar(p, v) = value[v]

=============================================================================
