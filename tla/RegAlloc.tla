------------------------------ MODULE RegAlloc ------------------------------
(***************************************************************************)
(* The register allocator of src/backend/backend.go under the instruction  *)
(* handlers that use it.  One action is one call a handler makes together  *)
(* with the instructions it emits around the call; handlers come in any    *)
(* order, as the IR of an arbitrary straight-line procedure would have     *)
(* them.  "value" is the IR's own view, the value each variable has; the   *)
(* registers and slots in p must agree with it at every step.              *)
(***************************************************************************)
EXTENDS VarStorage

CONSTANTS
    rax, rcx, rdx, rsi, rdi, \* registers with a fixed role
    r9,                      \* the last of paramPassingRegOrder
    zero,                    \* the value zeroOutVarOnStack gives
    ImmediatesFor,           \* the immediates the program assigns each variable
    argOffset                \* rbpOffset of the arguments on the stack, else 0

ASSUME FixedRegistersAssumption ==
    {rax, rcx, rdx, rsi, rdi, r9} \subseteq Registers

ASSUME ImmediatesAssumption ==
    zero \in Val /\ ImmediatesFor \in [Vars -> SUBSET Val]

\* The caller pushes eight bytes an argument, above the saved registers.
ASSUME ArgOffsetAssumption ==
    /\ argOffset \in [Vars -> Int]
    /\ \A v \in Vars : argOffset[v] <= 0
    /\ \A v \in Vars : argOffset[v] # 0 => SizeOf[v] <= 8
    /\ \A v, w \in Vars :
          v # w /\ argOffset[v] # 0 /\ argOffset[w] # 0
             => \/ argOffset[v] + 8 <= argOffset[w]
                \/ argOffset[w] + 8 <= argOffset[v]

VARIABLES
    p,      \* the generator's bookkeeping and the machine it drives
    value   \* the value each variable has in the IR, junk when it has none

vars == <<p, value>>

Init ==
    /\ value \in [Vars -> Content]
    /\ \A v \in Vars : value[v] = junk <=> argOffset[v] = 0
    /\ p = [newFullVarState EXCEPT !.rbpOffset = argOffset, !.mem = value]

-----------------------------------------------------------------------------
(* What the IR guarantees a handler: the variables it is given have not    *)
(* been decommissioned, big variables never go to registers, and what is   *)
(* copied has a value.                                                     *)

Live(v) == v \notin p.decommissioned

\* A variable that is used in a register.
LiveInReg(v) == Live(v) /\ varPerfectRegSize(v)

\* The start of generateSingleInst.
StartInstruction ==
    /\ ~ p.panicked
    /\ p' = [p EXCEPT !.dontSwap = {}]
    /\ UNCHANGED value

\* An instruction has at most three operands and the machine 14 registers, so
\* there is one left that ensureInRegister may swap.  Assumed, not shown.
OperandsLeft == p.dontSwap # Registers

\* A handler brings an operand into any register and reads it.
UseInRegister(v) ==
    /\ ~ p.panicked /\ LiveInReg(v) /\ OperandsLeft
    /\ p' = ensureInRegister(p, v)
    /\ UNCHANGED value

\* genAssignImm of an integer or a string; an argument that arrives in a
\* register takes the same path through loadRegisterWithVar.
AssignImmInRegister(v, x) ==
    /\ ~ p.panicked /\ LiveInReg(v) /\ OperandsLeft
    /\ p' = writeOperand(ensureInRegister(p, v), v, x)
    /\ value' = [value EXCEPT ![v] = x]

\* genAssignImm of a bool; startOptionSelect and genOptionEnd for each
\* variable whose compile-time value the branches must find at run time.
AssignImmAnywhere(v, x) ==
    /\ ~ p.panicked /\ LiveInReg(v)
    /\ p' = writeOperand(allocateRuntimeStorage(p, v), v, x)
    /\ value' = [value EXCEPT ![v] = x]

\* endOptionSelect.
ReserveStorage(v) ==
    /\ ~ p.panicked /\ LiveInReg(v)
    /\ p' = allocateRuntimeStorage(p, v)
    /\ UNCHANGED value

\* The multiplication: the product is left in rax, which must be v's.
MultiplyIntoRax(v, x) ==
    /\ ~ p.panicked /\ LiveInReg(v)
    /\ p' = LET q == loadRegisterWithVar(p, rax, v)
            IN  [writeOperand(q, v, x) EXCEPT !.dontSwap = @ \cup {rax}]
    /\ value' = [value EXCEPT ![v] = x]

\* varVarCopy of a variable that fits a register.
CopyThroughRegister(dest, source) ==
    /\ ~ p.panicked /\ OperandsLeft
    /\ LiveInReg(dest) /\ LiveInReg(source) /\ value[source] # junk
    /\ p' = LET q == ensureInRegister(p, source)
                content == q.reg[q.currentRegister[source]]
            IN  IF inRegister(q, dest) THEN writeOperand(q, dest, content)
                ELSE storeToSlot(ensureStackOffsetValid(q, dest), dest, content)
    /\ value' = [value EXCEPT ![dest] = value[source]]

\* varVarCopy of a struct or an array: memcpy overwrites rsi, rdi and rcx.
CopyThroughMemcpy(dest, source) ==
    /\ ~ p.panicked
    /\ Live(dest) /\ Live(source) /\ SizeOf[dest] = SizeOf[source]
    /\ ~ varPerfectRegSize(source) /\ value[source] # junk
    /\ p' = LET q == freeUp3(ensureStackOffsetValid(p, dest), TRUE, rsi, rdi, rcx)
            IN  IF hasStackStorage(p, source)
                THEN storeToSlot(clobber(q, {rsi, rdi, rcx}), dest, q.mem[source])
                ELSE Panic(p)
    /\ value' = [value EXCEPT ![dest] = value[source]]

\* zeroOutVarOnStack, for a declaration that found no register.
ZeroOutVarOnStack(v) ==
    /\ ~ p.panicked /\ Live(v) /\ ~ inRegister(p, v)
    /\ p' = LET q == freeUp2(ensureStackOffsetValid(p, v), TRUE, rdi, rcx)
            IN  storeToSlot(clobber(q, {rdi, rcx}), v, zero)
    /\ value' = [value EXCEPT ![v] = zero]

\* The division empties rdx before it overwrites it.
EmptyRdx ==
    /\ ~ p.panicked
    /\ p' = clobber(freeUp1(p, TRUE, rdx), {rdx})
    /\ UNCHANGED value

\* A handler takes a scratch register, as pointer arithmetic does.
UseScratchRegister ==
    /\ ~ p.panicked
    /\ p' = clobber(makeFreeReg(p, r9), {freeReg(p, r9)})
    /\ UNCHANGED value

\* The last use of v, or the end of the line v is a temporary of.
Decommission(v) ==
    /\ ~ p.panicked /\ Live(v)
    /\ p' = decommission(p, v)
    /\ value' = [value EXCEPT ![v] = junk]

-----------------------------------------------------------------------------
(* Returns.  Calls and Jumps have the instruction; what runs behind it has *)
(* come around it, by way of a label.                                      *)

\* The tenant of rax is given up unsaved.
faultyPrepareReturn(q, ret) ==
    IF ~ varPerfectRegSize(ret)
    THEN freeUp3(ensureStackOffsetValid(q, ret), FALSE, rsi, rdi, rcx)
    ELSE IF q.occupiedBy[rax] \in {invalidVn, ret} THEN loadRegisterWithVar(q, rax, ret)
    ELSE loadRegisterWithVar(releaseRegister(q, rax), rax, ret)

\* genReturn up to the jump: what fits a register is brought into rax.  For the
\* copy of a big result registers are emptied without handing out slots: a
\* tenant with no slot and no other register to go to is dropped.
prepareReturn(q, ret) ==
    IF varPerfectRegSize(ret) THEN loadRegisterWithVar(q, rax, ret)
    ELSE freeUp3(ensureStackOffsetValid(q, ret), FALSE, rsi, rdi, rcx)

\* The variables that have no place any more once a big result is prepared.
droppedFor(q, ret) ==
    IF varPerfectRegSize(ret) THEN {}
    ELSE LET prepared == prepareReturn(q, ret)
         IN  {v \in Vars : Stored(q, v) /\ ~ Stored(prepared, v)}

-----------------------------------------------------------------------------
(* Any handler but the return.                                             *)

Next ==
    \/ StartInstruction
    \/ \E v \in Vars : UseInRegister(v)
    \/ \E v \in Vars : \E x \in ImmediatesFor[v] : AssignImmInRegister(v, x)
    \/ \E v \in Vars : \E x \in ImmediatesFor[v] : AssignImmAnywhere(v, x)
    \/ \E v \in Vars : ReserveStorage(v)
    \/ \E v \in Vars : \E x \in ImmediatesFor[v] : MultiplyIntoRax(v, x)
    \/ \E dest, source \in Vars : CopyThroughRegister(dest, source)
    \/ \E dest, source \in Vars : CopyThroughMemcpy(dest, source)
    \/ \E v \in Vars : ZeroOutVarOnStack(v)
    \/ EmptyRdx
    \/ UseScratchRegister
    \/ \E v \in Vars : Decommission(v)

Spec == Init /\ [][Next]_vars

-----------------------------------------------------------------------------
(* Properties.                                                             *)

\* The bookkeeping record and the IR values keep their types.
TypeOK == p \in VarState /\ value \in [Vars -> Content]

\* registers.all[r].occupiedBy and varStorage[vn].currentRegister are two
\* copies of one relation, updated in separate statements; they agree.
RegistersAgree == RegistersMatch(p)

\* The list of available registers has each register that has no tenant,
\* once, and no other.
AvailableIsFree == AvailableMatches(p)

\* No two variables share a byte of the stack, and every slot lies within the
\* frame the prologue reserves (or among the caller's pushed arguments).
SlotsDisjoint == SlotsApart(p)

\* Whatever was swapped, spilled or overwritten, each variable that has a
\* value has storage, and the generated code finds that value there.
ValuesSurvive == Holds(p, value)

\* "double release", "tried to take a register that's already taken" and "tried
\* to use the stack address of a var when it doesn't have one" are out of reach
\* of handlers that respect the guards.
NeverPanics == ~ p.panicked

\* Addresses are emitted as constants (lea reg, [rbp-offset]), so a slot
\* never moves while its variable is in use.
SlotsStay ==
    [][\A v \in Vars : hasStackStorage(p, v) =>
          \/ p'.rbpOffset[v] = p.rbpOffset[v]
          \/ v \in p'.decommissioned]_vars

\* Bringing one operand of an instruction into a register leaves the operands
\* brought in before it where they are.
OperandsStay ==
    [][(\E v \in Vars : UseInRegister(v)) =>
          \A r \in p.dontSwap : p.occupiedBy[r] # invalidVn =>
              p'.occupiedBy[r] = p.occupiedBy[r]]_vars

\* The allocator implements a plain store of variables: the value the code
\* reads for a variable changes only when the IR gives it another, and is lost
\* only when the variable ends.
StoredValue == [v \in Vars |-> IF value[v] = junk THEN junk ELSE ReadVar(p, v)]
Store == INSTANCE VarStore WITH value <- StoredValue, ended <- p.decommissioned
ImplementsStore == Store!Spec

=============================================================================
