------------------------------- MODULE Jumps -------------------------------
(***************************************************************************)
(* A jump between two points of one procedure.  The code at a label was    *)
(* generated for the storage the variables had when the generator passed   *)
(* the label (labelToState); the code at a jump leaves them wherever they  *)
(* were at the jump.  morphToState emits the moves in between.             *)
(*                                                                         *)
(* The generator works through code without other labels (RegAlloc's       *)
(* actions, and returns with the way around them) to the first of the two  *)
(* points, then to the second, and one execution takes the jump:           *)
(*   forward    the jump comes first and waits for its label (p.jumps,     *)
(*              p.conditionalJumps), the label's state is the later one;   *)
(*   backward   the label comes first: the head of a loop, or the state    *)
(*              before the loop that the label after LoopEnd restores.     *)
(*                                                                         *)
(* As in VarStorage, the "faulty" operators are wrong variants that show   *)
(* which property notices the mistake; no specification uses them.         *)
(***************************************************************************)
EXTENDS RegAlloc

CONSTANTS
    MaxBefore,   \* bound: steps of the generator before the first point
    MaxBetween   \* bound: steps between the two points

ASSUME BoundsAssumption == MaxBefore \in Nat /\ MaxBetween \in Nat

VARIABLES
    phase,      \* "before", "forward", "backward", "morph" or "arrived"
    steps,      \* steps of the generator so far in this phase
    first,      \* p and value at the first of the two points
    target,     \* labelToState of the label, while morphing
    landing,    \* the values the code at the label may still use
    morphReg,   \* regId of morphToState's loop
    generated,  \* generationHappened
    machine     \* what p.reg and p.mem were when the morph began

jumpVars == <<first, target, landing, morphReg, generated, machine>>
allVars == <<p, value, phase, steps, jumpVars>>

JInit ==
    /\ Init
    /\ phase = "before" /\ steps = 0
    /\ first = [p |-> p, value |-> value]
    /\ target = p /\ landing = value
    /\ morphReg = 0 /\ generated = FALSE
    /\ machine = [reg |-> p.reg, mem |-> p.mem]

\* findLastusage moves the last use of what a loop uses past the jump back, so
\* nothing that has a value at the head of the loop ends inside it.
LoopKeepsItsVars ==
    phase = "backward" =>
        \A v \in Vars : first.value[v] # junk => v \notin p'.decommissioned

\* A return in a branch: the label behind the branch has the tables it leaves.
\* The program that is known to be compiled wrongly is left out, in which it
\* drops a variable (KnownDefects of Calls).
Return(ret) ==
    /\ ~ p.panicked /\ Live(ret)
    /\ varPerfectRegSize(ret) \/ SizeOf[ret] > 16
    /\ p' = prepareReturn(p, ret)
    /\ \A v \in droppedFor(p, ret) : value[v] = junk
    /\ UNCHANGED value

\* The actions of RegAlloc that rearrange storage, each in its own way; the
\* others reach the same tables by the same operators.
Rearrange ==
    \/ StartInstruction
    \/ \E v \in Vars : UseInRegister(v)
    \/ \E v \in Vars : \E x \in ImmediatesFor[v] : AssignImmInRegister(v, x)
    \/ \E v \in Vars : \E x \in ImmediatesFor[v] : MultiplyIntoRax(v, x)
    \/ EmptyRdx
    \/ UseScratchRegister
    \/ \E v \in Vars : Decommission(v)
    \/ \E ret \in Vars : Return(ret)

Generate ==
    /\ \/ phase = "before" /\ steps < MaxBefore
       \/ phase \in {"forward", "backward"} /\ steps < MaxBetween
    /\ Rearrange
    /\ LoopKeepsItsVars
    /\ steps' = steps + 1
    /\ UNCHANGED <<phase, jumpVars>>

\* Jumps and labels are instructions too: generateSingleInst forgets the
\* operands of the one before.
AtInstruction == [p EXCEPT !.dontSwap = {}]

\* copyVarState at a jump whose label has not been seen, or at a label.
SaveState ==
    /\ phase = "before" /\ ~ p.panicked
    /\ phase' \in {"forward", "backward"}
    /\ p' = AtInstruction
    /\ first' = [p |-> AtInstruction, value |-> value]
    /\ steps' = 0
    /\ UNCHANGED <<value, target, landing, morphReg, generated, machine>>

StartMorph(from, to, values) ==
    /\ p' = [from EXCEPT !.noNewStackStorage = TRUE,
                         !.currentFrameSize = p.currentFrameSize]
    /\ target' = to
    /\ landing' = values
    /\ phase' = "morph"
    /\ morphReg' = 0 /\ generated' = FALSE
    /\ machine' = [reg |-> from.reg, mem |-> from.mem]
    /\ steps' = 0
    /\ UNCHANGED first

\* The delayed jump: the generator is past the label by now and returns to the
\* jump.  What was decommissioned on the way is not used after the label.
JumpForward ==
    /\ phase = "forward" /\ ~ p.panicked
    /\ value' = first.value
    /\ StartMorph(first.p, AtInstruction,
          [v \in Vars |-> IF v \in p.decommissioned THEN junk ELSE first.value[v]])

\* The jump to a label that was seen.  A variable without a value at the head
\* of the loop is given one before it is used in each round.
JumpBackward ==
    /\ phase = "backward" /\ ~ p.panicked
    /\ UNCHANGED value
    /\ StartMorph(AtInstruction, first.p,
          [v \in Vars |-> IF first.value[v] = junk THEN junk ELSE value[v]])

-----------------------------------------------------------------------------
(* morphToState.                                                           *)

theirOccupiedBy == target.occupiedBy[morphReg]
ourOccupiedBy == p.occupiedBy[morphReg]

Morphing == phase = "morph" /\ ~ p.panicked

\* A register that has to change before it is as the target wants it.
Differs ==
    /\ Morphing /\ morphReg < numRegisters
    /\ theirOccupiedBy # ourOccupiedBy

NextRegister ==
    /\ Morphing /\ morphReg < numRegisters
    /\ theirOccupiedBy = ourOccupiedBy
    /\ morphReg' = morphReg + 1
    /\ UNCHANGED <<p, value, phase, steps, first, target, landing, generated, machine>>

\* The code at the label has no use for our tenant.
ReleaseOurs ==
    /\ Differs /\ ourOccupiedBy # invalidVn
    /\ ourOccupiedBy \in target.decommissioned \/ ~ Stored(target, ourOccupiedBy)
    /\ p' = releaseRegister(p, morphReg)
    /\ UNCHANGED <<value, phase, steps, jumpVars>>

\* It is brought to the register it is in already.
faultyRelocateOurs ==
    /\ Differs /\ ourOccupiedBy # invalidVn
    /\ ourOccupiedBy \notin target.decommissioned
    /\ inRegister(target, ourOccupiedBy)
    /\ p' = loadRegisterWithVar(p, morphReg, ourOccupiedBy)
    /\ generated' = TRUE
    /\ UNCHANGED <<value, phase, steps, first, target, landing, morphReg, machine>>

\* Our tenant belongs in another register.
RelocateOurs ==
    /\ Differs /\ ourOccupiedBy # invalidVn
    /\ ourOccupiedBy \notin target.decommissioned
    /\ inRegister(target, ourOccupiedBy)
    /\ p' = loadRegisterWithVar(p, target.currentRegister[ourOccupiedBy], ourOccupiedBy)
    /\ generated' = TRUE
    /\ UNCHANGED <<value, phase, steps, first, target, landing, morphReg, machine>>

\* It is released without being saved.
faultySpillOurs ==
    /\ Differs /\ ourOccupiedBy # invalidVn
    /\ ourOccupiedBy \notin target.decommissioned
    /\ ~ inRegister(target, ourOccupiedBy) /\ hasStackStorage(target, ourOccupiedBy)
    /\ p' = releaseRegister([p EXCEPT
                !.rbpOffset[ourOccupiedBy] = target.rbpOffset[ourOccupiedBy]], morphReg)
    /\ generated' = TRUE
    /\ UNCHANGED <<value, phase, steps, first, target, landing, morphReg, machine>>

\* It is saved in a slot of the jump's own.
faultySpillAnywhere ==
    /\ Differs /\ ourOccupiedBy # invalidVn
    /\ ourOccupiedBy \notin target.decommissioned
    /\ ~ inRegister(target, ourOccupiedBy) /\ hasStackStorage(target, ourOccupiedBy)
    /\ p' = releaseRegister(
                spill(ensureStackOffsetValid(p, ourOccupiedBy), ourOccupiedBy), morphReg)
    /\ generated' = TRUE
    /\ UNCHANGED <<value, phase, steps, first, target, landing, morphReg, machine>>

\* Our tenant belongs on the stack.
SpillOurs ==
    /\ Differs /\ ourOccupiedBy # invalidVn
    /\ ourOccupiedBy \notin target.decommissioned
    /\ ~ inRegister(target, ourOccupiedBy) /\ hasStackStorage(target, ourOccupiedBy)
    /\ p' = LET v == ourOccupiedBy
                q == [p EXCEPT !.rbpOffset[v] = target.rbpOffset[v]]
            IN  releaseRegister(spill(q, v), morphReg)
    /\ generated' = TRUE
    /\ UNCHANGED <<value, phase, steps, first, target, landing, morphReg, machine>>

\* A tenant that comes from the stack does not count as generated code.
faultyLoadTheirs ==
    /\ Differs /\ ourOccupiedBy = invalidVn
    /\ p' = IF theirOccupiedBy \in p.decommissioned THEN p
            ELSE loadRegisterWithVar(p, morphReg, theirOccupiedBy)
    /\ morphReg' = morphReg + 1
    /\ UNCHANGED <<value, phase, steps, first, target, landing, generated, machine>>

\* The register is empty: bring their tenant in, unless it ended before the
\* jump.
LoadTheirs ==
    /\ Differs /\ ourOccupiedBy = invalidVn
    /\ IF theirOccupiedBy \in p.decommissioned
       THEN UNCHANGED <<p, generated>>
       ELSE /\ p' = loadRegisterWithVar(p, morphReg, theirOccupiedBy)
            /\ generated' = TRUE
    /\ morphReg' = morphReg + 1
    /\ UNCHANGED <<value, phase, steps, first, target, landing, machine>>

\* The jmp itself: from here on the label's tables say where everything is.
\* A slot the two sides place differently is not the variable's.
Land ==
    /\ Morphing /\ morphReg = numRegisters
    /\ p' = [target EXCEPT
                !.reg = p.reg,
                !.mem = [v \in Vars |-> IF target.rbpOffset[v] = p.rbpOffset[v]
                                        THEN p.mem[v] ELSE junk],
                !.currentFrameSize = p.currentFrameSize]
    /\ value' = landing
    /\ phase' = "arrived"
    /\ UNCHANGED <<steps, jumpVars>>

MorphStep ==
    \/ NextRegister \/ ReleaseOurs \/ RelocateOurs
    \/ SpillOurs \/ LoadTheirs \/ Land

JNext == Generate \/ SaveState \/ JumpForward \/ JumpBackward \/ MorphStep

\* morphToState is a loop that nothing interrupts.
JSpec == JInit /\ [][JNext]_allVars /\ WF_allVars(MorphStep)

-----------------------------------------------------------------------------
(* Properties.                                                             *)

\* Whichever way the label is reached, the code after it finds every variable
\* it may use where it was compiled to look for it ("expect the values to have
\* stayed the same", src/backend/morph_to_state_test.go:3-5).
ValuesArrive == phase # "morph" => Holds(p, value)

\* The allocator's tables stay consistent through the temporary states of a
\* morph, and no panic is reached.
MorphKeepsTables ==
    RegistersMatch(p) /\ AvailableMatches(p) /\ ~ p.panicked

\* EndProc fixes the size of the frame before the delayed jumps are emitted:
\* a morph uses no stack beyond it.
MorphStaysInFrame ==
    [][phase = "morph" =>
          /\ p'.currentFrameSize = p.currentFrameSize
          /\ \A v \in Vars : p'.rbpOffset[v] <= p.currentFrameSize]_allVars

\* conditionalJump jumps straight to the label when morphToState reports that
\* it emitted nothing: then nothing may have needed moving.
QuietMeansNoCode ==
    phase = "morph" /\ ~ generated => machine = [reg |-> p.reg, mem |-> p.mem]

\* morphToState's inner loop ends for every register.
MorphTerminates == phase = "morph" ~> phase = "arrived"

=============================================================================
