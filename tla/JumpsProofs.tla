----------------------------- MODULE JumpsProofs -----------------------------
(***************************************************************************)
(* The safety properties of Jumps, for any procedure, any number of        *)
(* registers and any number of steps of the generator before and between   *)
(* the two points of a jump.                                               *)
(*                                                                         *)
(* JInv is the inductive invariant.  Outside a morph it is that of the     *)
(* allocator (IInv).  Between the two points it also says how the later    *)
(* record grew out of the earlier one (Later), and during a morph what is  *)
(* done and why the rest can still be done: the slots of the two records   *)
(* agree, every value that is to arrive has a place on both sides, and the *)
(* registers below morphReg are as the target wants them.                  *)
(***************************************************************************)
EXTENDS Jumps, RegAllocProofs

\* q is reached from r by steps of the generator: variables only end, slots
\* do not move, and new ones lie beyond what was the frame.
Later(r, q) ==
    /\ r.decommissioned \subseteq q.decommissioned
    /\ Grows(r, q)
    /\ \A v \in Vars \ q.decommissioned :
          hasStackStorage(r, v) => q.rbpOffset[v] = r.rbpOffset[v]

\* A variable with a value at the first point has one until it ends.
ValuesLast ==
    \A v \in Vars \ p.decommissioned : first.value[v] # junk => value[v] # junk

\* The generator is between the two points.
BetweenInv ==
    /\ Good(first.p) /\ ~ first.p.noNewStackStorage
    /\ first.value \in [Vars -> Content]
    /\ Holds(first.p, first.value)
    /\ Later(first.p, p)
    /\ ValuesLast
    /\ phase = "backward" =>
          \A v \in Vars : first.value[v] # junk => v \notin p.decommissioned

\* The slots of the target t fit in the frame of q, coincide with those q has
\* for the same variables and are apart from those of other variables.
SlotsAgree(q, t) ==
    \A v \in Vars \ q.decommissioned : hasStackStorage(t, v) =>
        /\ t.rbpOffset[v] <= q.currentFrameSize
        /\ hasStackStorage(q, v) => q.rbpOffset[v] = t.rbpOffset[v]
        /\ \A w \in Vars \ {v} : hasStackStorage(q, w) =>
              \/ q.rbpOffset[w] <= t.rbpOffset[v] - SizeOf[v]
              \/ t.rbpOffset[v] <= q.rbpOffset[w] - SizeOf[w]

\* What is to arrive is in q and has a place in t.
Carries(q, t, values) ==
    \A v \in Vars : values[v] # junk =>
        Stored(t, v) /\ Stored(q, v) /\ ReadVar(q, v) = values[v]

\* The registers below n hold what t has there, or nothing when that ended
\* before the jump.
DoneBelow(q, t, n) ==
    \A r \in Registers : r < n =>
        \/ q.occupiedBy[r] = t.occupiedBy[r]
        \/ q.occupiedBy[r] = invalidVn /\ t.occupiedBy[r] \in q.decommissioned

MorphInv ==
    /\ Good(p)
    /\ Good(target) /\ ~ target.noNewStackStorage
    /\ target.currentFrameSize <= p.currentFrameSize
    /\ landing \in [Vars -> Content]
    /\ morphReg \in 0 .. numRegisters
    /\ SlotsAgree(p, target)
    /\ Carries(p, target, landing)
    /\ DoneBelow(p, target, morphReg)
    /\ generated \/ machine = [reg |-> p.reg, mem |-> p.mem]

JInv ==
    /\ phase \in {"before", "forward", "backward", "morph", "arrived"}
    /\ phase # "morph" => IInv
    /\ phase \in {"forward", "backward"} => BetweenInv
    /\ phase = "morph" => MorphInv

-----------------------------------------------------------------------------
(* The generator before and between the two points.                        *)

LEMMA LaterReflexive ==
    ASSUME NEW r, Good(r)
    PROVE  Later(r, r)
<1>1. r \in VarState /\ SameSlots(r, r)
  BY DEF Good, SameSlots
<1> QED BY <1>1, SameSlotsGrow DEF Later

\* What the allocator's steps keep adds up over any number of them.
LEMMA LaterStep ==
    ASSUME NEW r, Good(r), Later(r, p), IInv, IInv', SlotsKept,
           p.decommissioned \subseteq p'.decommissioned
    PROVE  Later(r, p')
<1>1. /\ r \in VarState /\ p \in VarState /\ p' \in VarState
      /\ Good(p) /\ Good(p')
  BY DEF IInv, Good
<1>2. \A v \in p'.decommissioned : ~ hasStackStorage(p', v)
  BY <1>1 DEF Good, Stored
<1>3. \A v \in Vars : hasStackStorage(p, v) /\ hasStackStorage(p', v) =>
         p'.rbpOffset[v] = p.rbpOffset[v]
  BY <1>2 DEF SlotsKept
<1>4. Grows(r, p) /\ Grows(p, p')
  BY DEF Later, SlotsKept
<1>5. Grows(r, p')
  BY <1>1, <1>3, <1>4, GrowsTransitive
<1>6. ASSUME NEW v \in Vars \ p'.decommissioned, hasStackStorage(r, v)
      PROVE  p'.rbpOffset[v] = r.rbpOffset[v]
  <2>1. v \notin p.decommissioned
    BY <1>6
  <2>2. p.rbpOffset[v] = r.rbpOffset[v]
    BY <1>6, <2>1 DEF Later
  <2>3. hasStackStorage(p, v)
    BY <1>6, <2>2 DEF hasStackStorage
  <2> QED BY <1>6, <2>2, <2>3 DEF SlotsKept
<1> QED BY <1>5, <1>6 DEF Later

\* A return leaves what has a value where the tables say.
LEMMA ReturnStep ==
    ASSUME IInv, NEW ret \in Vars, Return(ret)
    PROVE  IInv' /\ SlotsKept /\ NothingEnds /\ value' = value
<1>1. /\ p' = prepareReturn(p, ret) /\ value' = value
      /\ \A v \in droppedFor(p, ret) : value[v] = junk
      /\ Good(p) /\ ~ p.noNewStackStorage /\ ret \notin p.decommissioned
  BY DEF Return, Live, IInv
<1>2. /\ Good(p') /\ Grows(p, p')
      /\ p'.decommissioned = p.decommissioned
      /\ p'.noNewStackStorage = p.noNewStackStorage
      /\ \A v \in Vars : hasStackStorage(p, v) => p'.rbpOffset[v] = p.rbpOffset[v]
      /\ \A v \in Vars : Stored(p, v) /\ Stored(p', v) => ReadVar(p', v) = ReadVar(p, v)
      /\ \A v \in Vars : Stored(p, v) /\ ~ Stored(p', v) => v \in droppedFor(p, ret)
  BY <1>1, PrepareReturn
<1>3. Holds(p', value)
  BY <1>1, <1>2 DEF IInv, Holds
<1> QED BY <1>1, <1>2, <1>3 DEF IInv, SlotsKept, NothingEnds

LEMMA RearrangeIsNext == Rearrange => Next \/ \E ret \in Vars : Return(ret)
BY DEF Rearrange, Next

\* A step of the generator gives values and takes them only from what ends.
LEMMA GenerateStep ==
    ASSUME IInv, Rearrange
    PROVE  /\ IInv' /\ SlotsKept
           /\ p.decommissioned \subseteq p'.decommissioned
           /\ \A v \in Vars \ p'.decommissioned : value[v] # junk => value'[v] # junk
<1>1. CASE \E ret \in Vars : Return(ret)
  BY <1>1, ReturnStep DEF NothingEnds
<1>2. CASE Next
  <2>1. IInv' /\ SlotsKept /\ (NothingEnds \/ \E v \in Vars : Decommission(v))
    BY <1>2, NextStep
  <2>2. value \in [Vars -> Content]
    BY DEF IInv
  <2>3. CASE \E v \in Vars : Decommission(v)
    <3>1. PICK v \in Vars : Decommission(v)
      BY <2>3
    <3>2. /\ p'.decommissioned = p.decommissioned \cup {v}
          /\ value' = [value EXCEPT ![v] = junk]
      BY <3>1, DecommissionVar DEF Decommission, Live, IInv
    <3> QED BY <2>1, <2>2, <3>2
  <2>4. CASE ~ \E v \in Vars : Decommission(v)
    <3>1. \A v \in Vars : value[v] # junk => value'[v] # junk
      BY <1>2, <2>2, <2>4, ValueStep, JunkAssumption
    <3> QED BY <2>1, <2>4, <3>1 DEF NothingEnds
  <2> QED BY <2>3, <2>4
<1> QED BY <1>1, <1>2, RearrangeIsNext

\* The generator keeps the invariant of both phases it works in.
LEMMA GenerateKeeps == JInv /\ Generate => JInv'
<1> SUFFICES ASSUME JInv, Generate PROVE JInv'
  OBVIOUS
<1>1. /\ phase \in {"before", "forward", "backward"}
      /\ phase' = phase /\ first' = first /\ Rearrange /\ LoopKeepsItsVars
  BY DEF Generate, jumpVars
<1>2. IInv
  BY <1>1 DEF JInv
<1>3. /\ IInv' /\ SlotsKept
      /\ p.decommissioned \subseteq p'.decommissioned
      /\ \A v \in Vars \ p'.decommissioned : value[v] # junk => value'[v] # junk
  BY <1>1, <1>2, GenerateStep
<1>4. ASSUME phase \in {"forward", "backward"}
      PROVE  BetweenInv'
  <2>1. BetweenInv
    BY <1>4 DEF JInv
  <2>2. Later(first.p, p')
    BY <1>2, <1>3, <2>1, LaterStep DEF BetweenInv
  <2>3. ValuesLast'
    BY <1>1, <1>3, <2>1 DEF BetweenInv, ValuesLast
  <2>4. phase' = "backward" =>
           \A v \in Vars : first'.value[v] # junk => v \notin p'.decommissioned
    BY <1>1 DEF LoopKeepsItsVars
  <2> QED BY <1>1, <2>1, <2>2, <2>3, <2>4 DEF BetweenInv
<1> QED BY <1>1, <1>3, <1>4 DEF JInv

\* Forgetting the operands of the last instruction is no change to what is
\* stored where.
LEMMA AtInstructionFacts ==
    ASSUME IInv
    PROVE  /\ Good(AtInstruction) /\ ~ AtInstruction.noNewStackStorage
           /\ AtInstruction.decommissioned = p.decommissioned
           /\ SameSlots(p, AtInstruction)
           /\ Holds(AtInstruction, value)
<1>1. /\ Good(AtInstruction) /\ Extends(p, AtInstruction)
      /\ SameSlots(p, AtInstruction)
  BY DontSwapIsFree DEF IInv, AtInstruction
<1> QED BY <1>1, HeldByExtension DEF IInv, Extends

\* The first point.
LEMMA SaveStateKeeps == JInv /\ SaveState => JInv'
<1> SUFFICES ASSUME JInv, SaveState PROVE JInv'
  OBVIOUS
<1>1. /\ phase = "before" /\ phase' \in {"forward", "backward"}
      /\ p' = AtInstruction /\ value' = value
      /\ first' = [p |-> AtInstruction, value |-> value]
  BY DEF SaveState
<1>2. IInv
  BY <1>1 DEF JInv
<1>3. /\ Good(p') /\ ~ p'.noNewStackStorage /\ Holds(p', value')
      /\ value' \in [Vars -> Content]
  BY <1>1, <1>2, AtInstructionFacts DEF IInv
<1>4. first'.p = p' /\ first'.value = value'
  BY <1>1
<1>5. Later(p', p')
  BY <1>3, LaterReflexive
<1>6. \A v \in Vars : value'[v] # junk => v \notin p'.decommissioned
  BY <1>3 DEF Holds, Good
<1>7. BetweenInv'
  BY <1>3, <1>4, <1>5, <1>6 DEF BetweenInv, ValuesLast
<1>8. IInv'
  BY <1>3 DEF IInv
<1> QED BY <1>1, <1>7, <1>8 DEF JInv

-----------------------------------------------------------------------------
(* The beginning of a morph.                                               *)

\* A record may be given a larger frame and be forbidden to hand out slots.
LEMMA EnlargeFrame ==
    ASSUME NEW q, Good(q), NEW n \in Nat, q.currentFrameSize <= n
    PROVE  LET m == [q EXCEPT !.noNewStackStorage = TRUE, !.currentFrameSize = n] IN
           /\ Good(m)
           /\ m.currentFrameSize = n /\ m.decommissioned = q.decommissioned
           /\ m.rbpOffset = q.rbpOffset /\ SameTables(q, m) /\ SameMachine(q, m)
<1> DEFINE m == [q EXCEPT !.noNewStackStorage = TRUE, !.currentFrameSize = n]
<1>1. /\ q \in VarState
      /\ q.rbpOffset \in [Vars -> Int] /\ q.currentFrameSize \in Nat
  BY GoodFacts DEF Good, VarState
<1>2. /\ m \in VarState
      /\ m.currentFrameSize = n /\ m.decommissioned = q.decommissioned
      /\ m.rbpOffset = q.rbpOffset /\ SameTables(q, m) /\ SameMachine(q, m)
      /\ m.panicked = q.panicked
  BY <1>1 DEF VarState, SameTables, SameMachine
<1> HIDE DEF m
<1>3. \A v \in Vars : m.rbpOffset[v] > 0 =>
         SizeOf[v] <= m.rbpOffset[v] /\ m.rbpOffset[v] <= n
  BY <1>1, <1>2 DEF Good, SlotsApart
<1>4. SlotsApart(m)
  BY <1>2, <1>3 DEF Good, SlotsApart, Overlap, hasStackStorage
<1>5. Good(m)
  BY <1>2, <1>4 DEF Good, SameTables, RegistersMatch, AvailableMatches,
     ListedAvailable, Stored, inRegister, hasStackStorage
<1> QED BY <1>2, <1>5 DEF m

\* Whichever record is the later one, the slots of the two agree.
LEMMA LaterSlotsAgree ==
    ASSUME NEW q, Good(q), NEW t, Good(t), NEW n \in Nat,
           q.currentFrameSize <= n, t.currentFrameSize <= n,
           Later(q, t) \/ Later(t, q)
    PROVE  SlotsAgree([q EXCEPT !.noNewStackStorage = TRUE, !.currentFrameSize = n], t)
<1> DEFINE m == [q EXCEPT !.noNewStackStorage = TRUE, !.currentFrameSize = n]
<1>1. /\ m.currentFrameSize = n /\ m.decommissioned = q.decommissioned
      /\ m.rbpOffset = q.rbpOffset
  BY EnlargeFrame
<1> HIDE DEF m
<1>2. /\ \A v \in Vars : /\ q.rbpOffset[v] \in Int /\ t.rbpOffset[v] \in Int
                         /\ SizeOf[v] \in Nat \ {0}
      /\ q.currentFrameSize \in Nat /\ t.currentFrameSize \in Nat
  BY GoodFacts, SizeAssumption DEF Good, VarState
<1>3. SUFFICES ASSUME NEW v \in Vars, v \notin q.decommissioned, hasStackStorage(t, v)
               PROVE  /\ t.rbpOffset[v] <= n
                      /\ hasStackStorage(q, v) => q.rbpOffset[v] = t.rbpOffset[v]
                      /\ \A w \in Vars \ {v} : hasStackStorage(q, w) =>
                            \/ q.rbpOffset[w] <= t.rbpOffset[v] - SizeOf[v]
                            \/ t.rbpOffset[v] <= q.rbpOffset[w] - SizeOf[w]
  BY <1>1 DEF SlotsAgree, hasStackStorage
<1>4. t.rbpOffset[v] <= n
  <2>1. t.rbpOffset[v] > 0 => t.rbpOffset[v] <= t.currentFrameSize
    BY DEF Good, SlotsApart
  <2> QED BY <1>2, <2>1
<1>5. v \notin t.decommissioned
  BY <1>3 DEF Good, Stored
<1>6. hasStackStorage(q, v) => q.rbpOffset[v] = t.rbpOffset[v]
  BY <1>3, <1>5 DEF Later
<1>7. ASSUME NEW w \in Vars, w # v, hasStackStorage(q, w)
      PROVE  \/ q.rbpOffset[w] <= t.rbpOffset[v] - SizeOf[v]
             \/ t.rbpOffset[v] <= q.rbpOffset[w] - SizeOf[w]
  <2>1. CASE hasStackStorage(q, v)
    <3>1. ~ Overlap(q, v, w)
      BY <1>7 DEF Good, SlotsApart
    <3> QED BY <1>2, <1>6, <1>7, <2>1, <3>1 DEF Overlap
  <2>2. CASE ~ hasStackStorage(q, v)
    <3>1. Later(q, t)
      BY <1>3, <2>2 DEF Later, hasStackStorage
    <3>2. q.currentFrameSize <= t.rbpOffset[v] - SizeOf[v]
      BY <1>3, <2>2, <3>1 DEF Later, Grows
    <3>3. q.rbpOffset[w] <= q.currentFrameSize
      <4>1. q.rbpOffset[w] > 0 => q.rbpOffset[w] <= q.currentFrameSize
        BY DEF Good, SlotsApart
      <4> QED BY <1>2, <4>1
    <3> QED BY <1>2, <3>2, <3>3
  <2> QED BY <2>1, <2>2
<1> QED BY <1>4, <1>6, <1>7

\* Whatever the two records are, the morph starts well when their slots agree
\* and what is to arrive is in both.
LEMMA StartMorphKeeps ==
    ASSUME NEW q, Good(q), NEW t, Good(t), ~ t.noNewStackStorage,
           NEW values \in [Vars -> Content], p.currentFrameSize \in Nat,
           q.currentFrameSize <= p.currentFrameSize,
           t.currentFrameSize <= p.currentFrameSize,
           Later(q, t) \/ Later(t, q),
           \A v \in Vars : values[v] # junk =>
              Stored(t, v) /\ Stored(q, v) /\ ReadVar(q, v) = values[v],
           StartMorph(q, t, values)
    PROVE  JInv'
<1> DEFINE n == p.currentFrameSize
<1> DEFINE m == [q EXCEPT !.noNewStackStorage = TRUE, !.currentFrameSize = n]
<1>1. /\ p' = m /\ target' = t /\ landing' = values /\ phase' = "morph"
      /\ morphReg' = 0 /\ generated' = FALSE
      /\ machine' = [reg |-> q.reg, mem |-> q.mem]
  BY DEF StartMorph
<1>2. /\ Good(m) /\ SlotsAgree(m, t)
      /\ m.currentFrameSize = n /\ m.decommissioned = q.decommissioned
      /\ m.rbpOffset = q.rbpOffset /\ SameTables(q, m) /\ SameMachine(q, m)
  BY EnlargeFrame, LaterSlotsAgree
<1> HIDE DEF m
<1>3. \A v \in Vars : (Stored(m, v) <=> Stored(q, v)) /\ ReadVar(m, v) = ReadVar(q, v)
  BY <1>2 DEF SameTables, SameMachine, Stored, inRegister, hasStackStorage, ReadVar
<1>4. Carries(m, t, values)
  BY <1>3 DEF Carries
<1>5. 0 \in 0 .. numRegisters /\ DoneBelow(m, t, 0)
  BY RegistersAssumption DEF DoneBelow, Registers
<1>6. machine' = [reg |-> m.reg, mem |-> m.mem]
  BY <1>1, <1>2 DEF SameMachine
<1>7. MorphInv'
  BY <1>1, <1>2, <1>4, <1>5, <1>6 DEF MorphInv
<1> QED BY <1>1, <1>7 DEF JInv

\* The delayed jump: the label's record is the later one.
LEMMA JumpForwardKeeps == JInv /\ JumpForward => JInv'
<1> SUFFICES ASSUME JInv, JumpForward PROVE JInv'
  OBVIOUS
<1> DEFINE q == first.p
<1> DEFINE t == AtInstruction
<1> DEFINE values ==
      [v \in Vars |-> IF v \in p.decommissioned THEN junk ELSE first.value[v]]
<1>1. phase = "forward" /\ StartMorph(q, t, values)
  BY DEF JumpForward
<1>2. IInv /\ BetweenInv
  BY <1>1 DEF JInv
<1>3. /\ Good(t) /\ ~ t.noNewStackStorage /\ SameSlots(p, t)
      /\ t.decommissioned = p.decommissioned /\ Holds(t, value)
  BY <1>2, AtInstructionFacts
<1> HIDE DEF t
<1>4. Good(q) /\ p.currentFrameSize \in Nat /\ q.currentFrameSize <= p.currentFrameSize
  BY <1>2 DEF BetweenInv, IInv, Good, VarState, Later, Grows
<1>5. t.currentFrameSize <= p.currentFrameSize
  BY <1>3, <1>4 DEF SameSlots
<1>6. Later(q, t)
  BY <1>2, <1>3 DEF BetweenInv, Later, Grows, SameSlots, hasStackStorage
<1>7. values \in [Vars -> Content]
  BY <1>2 DEF BetweenInv, Content
<1>8. ASSUME NEW v \in Vars, values[v] # junk
      PROVE  Stored(t, v) /\ Stored(q, v) /\ ReadVar(q, v) = values[v]
  <2>1. v \notin p.decommissioned /\ values[v] = first.value[v]
    BY <1>8
  <2>2. value[v] # junk
    BY <1>2, <1>8, <2>1 DEF BetweenInv, ValuesLast
  <2> QED BY <1>2, <1>3, <1>8, <2>1, <2>2 DEF BetweenInv, Holds
<1> HIDE DEF values
<1> QED BY <1>1, <1>3, <1>4, <1>5, <1>6, <1>7, <1>8, StartMorphKeeps

\* The jump back: the label's record is the earlier one.
LEMMA JumpBackwardKeeps == JInv /\ JumpBackward => JInv'
<1> SUFFICES ASSUME JInv, JumpBackward PROVE JInv'
  OBVIOUS
<1> DEFINE q == AtInstruction
<1> DEFINE t == first.p
<1> DEFINE values == [v \in Vars |-> IF first.value[v] = junk THEN junk ELSE value[v]]
<1>1. phase = "backward" /\ StartMorph(q, t, values)
  BY DEF JumpBackward
<1>2. IInv /\ BetweenInv
  BY <1>1 DEF JInv
<1>3. /\ Good(q) /\ SameSlots(p, q)
      /\ q.decommissioned = p.decommissioned /\ Holds(q, value)
  BY <1>2, AtInstructionFacts
<1> HIDE DEF q
<1>4. /\ Good(t) /\ ~ t.noNewStackStorage
      /\ p.currentFrameSize \in Nat /\ t.currentFrameSize <= p.currentFrameSize
  BY <1>2 DEF BetweenInv, IInv, Good, VarState, Later, Grows
<1>5. q.currentFrameSize <= p.currentFrameSize
  BY <1>3, <1>4 DEF SameSlots
<1>6. Later(t, q)
  BY <1>2, <1>3 DEF BetweenInv, Later, Grows, SameSlots, hasStackStorage
<1>7. values \in [Vars -> Content]
  BY <1>2 DEF IInv, Content
<1>8. ASSUME NEW v \in Vars, values[v] # junk
      PROVE  Stored(t, v) /\ Stored(q, v) /\ ReadVar(q, v) = values[v]
  <2>1. first.value[v] # junk /\ values[v] = value[v]
    BY <1>8
  <2> QED BY <1>2, <1>3, <1>8, <2>1 DEF BetweenInv, Holds
<1> HIDE DEF values
<1> QED BY <1>1, <1>3, <1>4, <1>5, <1>6, <1>7, <1>8, StartMorphKeeps

-----------------------------------------------------------------------------
(* The steps of a morph.                                                   *)

\* The facts about a morph in progress that every step starts from.
LEMMA MorphFacts ==
    ASSUME JInv, Morphing
    PROVE  /\ MorphInv
           /\ p \in VarState /\ target \in VarState
           /\ p.occupiedBy \in [Registers -> Vars \cup {invalidVn}]
           /\ target.occupiedBy \in [Registers -> Vars \cup {invalidVn}]
           /\ Registers = 0 .. numRegisters - 1 /\ numRegisters \in Nat
           /\ morphReg \in Nat
           /\ morphReg < numRegisters => morphReg \in Registers
<1>1. MorphInv
  BY DEF JInv, Morphing
<1>2. /\ p.occupiedBy \in [Registers -> Vars \cup {invalidVn}]
      /\ target.occupiedBy \in [Registers -> Vars \cup {invalidVn}]
      /\ p \in VarState /\ target \in VarState
  BY <1>1, GoodFacts DEF MorphInv
<1>3. Registers = 0 .. numRegisters - 1 /\ numRegisters \in Nat
  BY RegistersAssumption DEF Registers
<1>4. morphReg \in 0 .. numRegisters
  BY <1>1 DEF MorphInv
<1> QED BY <1>1, <1>2, <1>3, <1>4

\* A step that moves variables between registers, or in from the stack, and
\* hands out no slot leaves the agreement on slots and values as it is.
LEMMA MovesInMorph ==
    ASSUME MorphInv, NEW q, Extends(p, q), SameSlots(p, q)
    PROVE  SlotsAgree(q, target) /\ Carries(q, target, landing)
<1>1. SlotsAgree(q, target)
  BY DEF MorphInv, SlotsAgree, Extends, SameSlots, hasStackStorage
<1>2. Carries(q, target, landing)
  BY DEF MorphInv, Carries, Extends
<1> QED BY <1>1, <1>2

\* One register further.
LEMMA DoneOneMore ==
    ASSUME NEW q, NEW t, NEW n \in Nat, DoneBelow(q, t, n),
           n \in Registers =>
              \/ q.occupiedBy[n] = t.occupiedBy[n]
              \/ q.occupiedBy[n] = invalidVn /\ t.occupiedBy[n] \in q.decommissioned
    PROVE  DoneBelow(q, t, n + 1)
<1>1. \A r \in Registers : r \in Int
  BY RegistersFacts
<1>2. \A r \in Registers : r < n + 1 => r < n \/ r = n
  BY <1>1
<1> QED BY <1>2 DEF DoneBelow

\* No step of a morph makes the frame larger.
FrameKept == p'.currentFrameSize = p.currentFrameSize

LEMMA NextRegisterKeeps == JInv /\ NextRegister => JInv' /\ FrameKept
<1> SUFFICES ASSUME JInv, NextRegister PROVE JInv' /\ FrameKept
  OBVIOUS
<1>1. /\ Morphing /\ morphReg < numRegisters
      /\ target.occupiedBy[morphReg] = p.occupiedBy[morphReg]
      /\ morphReg' = morphReg + 1
      /\ p' = p /\ phase' = phase /\ target' = target /\ landing' = landing
      /\ generated' = generated /\ machine' = machine /\ phase = "morph"
  BY DEF NextRegister, theirOccupiedBy, ourOccupiedBy, Morphing
<1>2. MorphInv /\ morphReg \in Nat /\ numRegisters \in Nat
  BY <1>1, MorphFacts
<1>3. DoneBelow(p, target, morphReg + 1)
  BY <1>1, <1>2, DoneOneMore DEF MorphInv
<1>4. morphReg + 1 \in 0 .. numRegisters
  BY <1>1, <1>2
<1>5. MorphInv'
  BY <1>1, <1>2, <1>3, <1>4 DEF MorphInv
<1> QED BY <1>1, <1>5 DEF JInv, FrameKept

\* Emptying the register the morph is at spoils none of those below it.
LEMMA EmptyHere ==
    ASSUME NEW q, NEW m, NEW t, NEW n \in Nat, DoneBelow(q, t, n),
           q.occupiedBy \in [Registers -> Vars \cup {invalidVn}],
           m.occupiedBy = [q.occupiedBy EXCEPT ![n] = invalidVn],
           m.decommissioned = q.decommissioned
    PROVE  DoneBelow(m, t, n)
<1>1. \A r \in Registers : r \in Int
  BY RegistersFacts
<1>2. \A r \in Registers : r < n => m.occupiedBy[r] = q.occupiedBy[r]
  BY <1>1
<1> QED BY <1>2 DEF DoneBelow

LEMMA ReleaseOursKeeps == JInv /\ ReleaseOurs => JInv' /\ FrameKept
<1> SUFFICES ASSUME JInv, ReleaseOurs PROVE JInv' /\ FrameKept
  OBVIOUS
<1> DEFINE v == p.occupiedBy[morphReg]
<1>1. /\ Morphing /\ morphReg < numRegisters /\ v # invalidVn
      /\ v \in target.decommissioned \/ ~ Stored(target, v)
      /\ p' = releaseRegister(p, morphReg)
      /\ phase' = phase /\ target' = target /\ landing' = landing
      /\ generated' = generated /\ machine' = machine /\ phase = "morph"
      /\ morphReg' = morphReg
  BY DEF ReleaseOurs, Differs, ourOccupiedBy, Morphing, jumpVars
<1>2. /\ MorphInv /\ morphReg \in Nat /\ morphReg \in Registers
      /\ Good(p) /\ p.occupiedBy \in [Registers -> Vars \cup {invalidVn}]
  BY <1>1, MorphFacts DEF MorphInv
<1>3. /\ Good(p')
      /\ p'.decommissioned = p.decommissioned
      /\ SameSlots(p, p') /\ SameMachine(p, p')
      /\ p'.occupiedBy = [p.occupiedBy EXCEPT ![morphReg] = invalidVn]
      /\ \A w \in Vars : w # v =>
            /\ Stored(p', w) <=> Stored(p, w)
            /\ ReadVar(p', w) = ReadVar(p, w)
  BY <1>1, <1>2, ReleaseTenant DEF SameFlags
<1>4. v \in Vars /\ ~ Stored(target, v)
  BY <1>1, <1>2 DEF MorphInv, Good
<1>5. Carries(p', target, landing)
  BY <1>2, <1>3, <1>4 DEF MorphInv, Carries
<1>6. SlotsAgree(p', target)
  BY <1>2, <1>3 DEF MorphInv, SlotsAgree, SameSlots, hasStackStorage
<1>7. DoneBelow(p', target, morphReg)
  BY <1>2, <1>3, EmptyHere DEF MorphInv
<1>8. p'.reg = p.reg /\ p'.mem = p.mem /\ p'.currentFrameSize = p.currentFrameSize
  BY <1>3 DEF SameMachine, SameSlots
<1>9. MorphInv'
  BY <1>1, <1>2, <1>3, <1>5, <1>6, <1>7, <1>8 DEF MorphInv
<1> QED BY <1>1, <1>8, <1>9 DEF JInv, FrameKept

\* The register our tenant belongs in lies above the one the morph is at.
LEMMA DestinationIsAbove ==
    ASSUME MorphInv, morphReg \in Registers, NEW v \in Vars,
           p.occupiedBy[morphReg] = v, target.occupiedBy[morphReg] # v,
           inRegister(target, v)
    PROVE  LET r == target.currentRegister[v] IN r \in Registers /\ r > morphReg
<1> DEFINE r == target.currentRegister[v]
<1>1. target \in VarState /\ Good(target) /\ Good(p) /\ DoneBelow(p, target, morphReg)
  BY DEF MorphInv, Good
<1>2. r \in Registers
  BY <1>1, RegistersFacts
<1>3. target.occupiedBy[r] = v
  BY <1>1, <1>2, GoodFacts
<1>4. v \notin p.decommissioned /\ p.currentRegister[v] = morphReg /\ v # invalidVn
  BY <1>1, GoodFacts, VarsAssumption
<1>5. ~ (r < morphReg)
  <2>1. p.occupiedBy[r] = v => r = morphReg
    BY <1>1, <1>2, <1>4, GoodFacts
  <2> QED BY <1>1, <1>2, <1>3, <1>4, <2>1 DEF DoneBelow
<1>6. r # morphReg
  BY <1>3
<1> QED BY <1>2, <1>5, <1>6, RegistersFacts

LEMMA RelocateOursKeeps == JInv /\ RelocateOurs => JInv' /\ FrameKept
<1> SUFFICES ASSUME JInv, RelocateOurs PROVE JInv' /\ FrameKept
  OBVIOUS
<1> DEFINE v == p.occupiedBy[morphReg]
<1> DEFINE r == target.currentRegister[v]
<1>1. /\ Morphing /\ morphReg < numRegisters /\ v # invalidVn
      /\ target.occupiedBy[morphReg] # v /\ inRegister(target, v)
      /\ p' = loadRegisterWithVar(p, r, v)
      /\ phase' = phase /\ target' = target /\ landing' = landing
      /\ generated' = TRUE /\ machine' = machine /\ phase = "morph"
      /\ morphReg' = morphReg
  BY DEF RelocateOurs, Differs, ourOccupiedBy, theirOccupiedBy, Morphing, jumpVars
<1>2. /\ MorphInv /\ morphReg \in Nat /\ morphReg \in Registers
      /\ Good(p) /\ p.occupiedBy \in [Registers -> Vars \cup {invalidVn}]
  BY <1>1, MorphFacts DEF MorphInv
<1>3. /\ v \in Vars /\ v \notin p.decommissioned /\ inRegister(p, v)
      /\ varPerfectRegSize(v)
  BY <1>1, <1>2, GoodFacts
<1> HIDE DEF v
<1>4. r \in Registers /\ r > morphReg
  BY <1>1, <1>2, <1>3, DestinationIsAbove DEF v
<1> HIDE DEF r
<1>5. ~ (v \in p.decommissioned \/ SizeOf[v] > 8)
  BY <1>3 DEF varPerfectRegSize
<1>6. p.occupiedBy[r] # v
  <2>1. p.currentRegister[v] = morphReg
    BY <1>2, <1>3, GoodFacts DEF v
  <2> QED BY <1>2, <1>3, <1>4, <2>1, GoodFacts
<1>7. Loaded(p, p', r, v)
  <2>1. CASE p.occupiedBy[r] = invalidVn
    <3>1. p' = loadIntoFree(p, r, v)
      BY <1>1, <1>5, <2>1 DEF loadRegisterWithVar
    <3> QED BY <1>2, <1>3, <1>4, <2>1, <3>1, LoadFromRegister
  <2>2. CASE p.occupiedBy[r] # invalidVn
    <3>1. p' = exchange(p, r, v)
      BY <1>1, <1>3, <1>5, <1>6, <2>2 DEF loadRegisterWithVar
    <3> QED BY <1>2, <1>3, <1>4, <1>6, <2>2, <3>1, LoadByExchange
  <2> QED BY <2>1, <2>2
<1>8. Good(p') /\ Extends(p, p') /\ SameSlots(p, p')
  BY <1>3, <1>7 DEF Loaded
<1>9. SlotsAgree(p', target) /\ Carries(p', target, landing)
  BY <1>2, <1>8, MovesInMorph
<1>10. DoneBelow(p', target, morphReg)
  <2>1. ASSUME NEW s \in Registers, s < morphReg
        PROVE  p'.occupiedBy[s] = p.occupiedBy[s]
    <3>1. s # r /\ s # morphReg
      <4>1. s \in Int /\ r \in Int /\ morphReg \in Int
        BY <1>2, <1>4, RegistersFacts
      <4> QED BY <1>4, <2>1, <4>1
    <3>2. p.occupiedBy[s] # v
      BY <1>2, <1>3, <3>1, GoodFacts DEF v
    <3> QED BY <1>3, <1>7, <3>1, <3>2 DEF Loaded
  <2> QED BY <1>2, <1>8, <2>1 DEF MorphInv, DoneBelow, Extends
<1>11. MorphInv'
  BY <1>1, <1>2, <1>8, <1>9, <1>10 DEF MorphInv, SameSlots
<1> QED BY <1>1, <1>8, <1>11 DEF JInv, FrameKept, SameSlots

\* v is in a register and is given the slot the target has for it.
LEMMA AdoptSlot ==
    ASSUME MorphInv, NEW v \in Vars, inRegister(p, v), hasStackStorage(target, v)
    PROVE  LET q == [p EXCEPT !.rbpOffset[v] = target.rbpOffset[v]] IN
           /\ Good(q) /\ SlotsAgree(q, target)
           /\ hasStackStorage(q, v)
           /\ SameTables(p, q) /\ SameMachine(p, q)
           /\ q.decommissioned = p.decommissioned
           /\ q.currentFrameSize = p.currentFrameSize
           /\ \A w \in Vars : Stored(p, w) => Stored(q, w)
<1> DEFINE o == target.rbpOffset[v]
<1> DEFINE q == [p EXCEPT !.rbpOffset[v] = o]
<1> DEFINE f == [p.rbpOffset EXCEPT ![v] = o]
<1>1. /\ p \in VarState /\ p.rbpOffset \in [Vars -> Int] /\ p.currentFrameSize \in Nat
      /\ target \in VarState /\ target.rbpOffset \in [Vars -> Int]
      /\ Good(p) /\ Good(target) /\ SlotsAgree(p, target) /\ o \in Int
      /\ \A w \in Vars : SizeOf[w] \in Nat \ {0}
  BY SizeAssumption DEF MorphInv, Good, VarState
<1>2. v \notin p.decommissioned
  BY <1>1 DEF Good, Stored
<1>3. f \in [Vars -> Int] /\ \A w \in Vars : f[w] = IF w = v THEN o ELSE p.rbpOffset[w]
  BY <1>1
<1> HIDE DEF f
<1>4. /\ q \in VarState /\ q.rbpOffset = f
      /\ SameTables(p, q) /\ SameMachine(p, q)
      /\ q.decommissioned = p.decommissioned
      /\ q.currentFrameSize = p.currentFrameSize
      /\ q.panicked = p.panicked
  <2>1. q = [p EXCEPT !.rbpOffset = f]
    BY <1>1 DEF f
  <2> HIDE DEF q
  <2> QED BY <1>1, <1>3, <2>1 DEF VarState, SameTables, SameMachine
<1> HIDE DEF q
<1>5. /\ hasStackStorage(q, v)
      /\ \A w \in Vars : w # v => (hasStackStorage(q, w) <=> hasStackStorage(p, w))
      /\ \A w \in Vars : inRegister(q, w) <=> inRegister(p, w)
  BY <1>3, <1>4 DEF hasStackStorage, inRegister, SameTables
<1>6. /\ o <= p.currentFrameSize
      /\ \A w \in Vars \ {v} : hasStackStorage(p, w) =>
            p.rbpOffset[w] <= o - SizeOf[v] \/ o <= p.rbpOffset[w] - SizeOf[w]
  BY <1>1, <1>2 DEF SlotsAgree
<1>7. SlotsApart(q)
  <2>1. ASSUME NEW w \in Vars, NEW u \in Vars, w # u, Overlap(q, w, u)
        PROVE  FALSE
    <3>0. /\ q.rbpOffset[w] \in Int /\ q.rbpOffset[u] \in Int
          /\ SizeOf[w] \in Nat /\ SizeOf[u] \in Nat
          /\ q.rbpOffset[w] - SizeOf[w] < q.rbpOffset[u]
          /\ q.rbpOffset[u] - SizeOf[u] < q.rbpOffset[w]
          /\ hasStackStorage(q, w) /\ hasStackStorage(q, u)
      BY <1>1, <1>3, <1>4, <2>1 DEF Overlap
    <3>1. CASE w = v
      <4>1. /\ q.rbpOffset[w] = o /\ q.rbpOffset[u] = p.rbpOffset[u]
            /\ hasStackStorage(p, u)
        BY <1>3, <1>4, <1>5, <2>1, <3>0, <3>1
      <4>2. p.rbpOffset[u] <= o - SizeOf[v] \/ o <= p.rbpOffset[u] - SizeOf[u]
        BY <1>6, <2>1, <3>1, <4>1
      <4> QED BY <3>0, <3>1, <4>1, <4>2
    <3>2. CASE u = v
      <4>1. /\ q.rbpOffset[u] = o /\ q.rbpOffset[w] = p.rbpOffset[w]
            /\ hasStackStorage(p, w)
        BY <1>3, <1>4, <1>5, <2>1, <3>0, <3>2
      <4>2. p.rbpOffset[w] <= o - SizeOf[v] \/ o <= p.rbpOffset[w] - SizeOf[w]
        BY <1>6, <2>1, <3>2, <4>1
      <4> QED BY <3>0, <3>2, <4>1, <4>2
    <3>3. CASE w # v /\ u # v
      <4>1. /\ q.rbpOffset[u] = p.rbpOffset[u] /\ q.rbpOffset[w] = p.rbpOffset[w]
            /\ hasStackStorage(p, w) /\ hasStackStorage(p, u)
        BY <1>3, <1>4, <1>5, <3>0, <3>3
      <4>2. ~ Overlap(p, w, u)
        BY <1>1, <2>1 DEF Good, SlotsApart
      <4> QED BY <3>0, <4>1, <4>2 DEF Overlap
    <3> QED BY <3>1, <3>2, <3>3
  <2>2. ASSUME NEW w \in Vars, q.rbpOffset[w] > 0
        PROVE  SizeOf[w] <= q.rbpOffset[w] /\ q.rbpOffset[w] <= q.currentFrameSize
    <3>1. CASE w = v
      <4>1. q.rbpOffset[w] = o /\ o > 0
        BY <1>3, <1>4, <2>2, <3>1
      <4>2. SizeOf[v] <= o
        BY <1>1, <4>1 DEF Good, SlotsApart
      <4> QED BY <1>4, <1>6, <3>1, <4>1, <4>2
    <3>2. CASE w # v
      <4>1. q.rbpOffset[w] = p.rbpOffset[w]
        BY <1>3, <1>4, <3>2
      <4> QED BY <1>1, <1>4, <2>2, <4>1 DEF Good, SlotsApart
    <3> QED BY <3>1, <3>2
  <2> QED BY <2>1, <2>2 DEF SlotsApart
<1>8. Good(q)
  <2>1. RegistersMatch(q) /\ AvailableMatches(q)
    <3>1. RegistersMatch(p) /\ AvailableMatches(p)
      BY <1>1 DEF Good
    <3> QED BY <1>4, <3>1 DEF SameTables, RegistersMatch, AvailableMatches, ListedAvailable
  <2>2. \A w \in q.decommissioned : ~ Stored(q, w)
    <3>1. p.decommissioned \subseteq Vars
      BY <1>1 DEF VarState
    <3> QED BY <1>1, <1>2, <1>4, <1>5, <3>1 DEF Good, Stored
  <2>3. \A w \in Vars : inRegister(q, w) => varPerfectRegSize(w)
    BY <1>1, <1>5 DEF Good
  <2> QED BY <1>1, <1>4, <1>7, <2>1, <2>2, <2>3 DEF Good
<1>9. SlotsAgree(q, target)
  <2> SUFFICES ASSUME NEW w \in Vars \ p.decommissioned, hasStackStorage(target, w)
               PROVE  /\ target.rbpOffset[w] <= q.currentFrameSize
                      /\ hasStackStorage(q, w) => q.rbpOffset[w] = target.rbpOffset[w]
                      /\ \A u \in Vars \ {w} : hasStackStorage(q, u) =>
                            \/ q.rbpOffset[u] <= target.rbpOffset[w] - SizeOf[w]
                            \/ target.rbpOffset[w] <= q.rbpOffset[u] - SizeOf[u]
    BY <1>4 DEF SlotsAgree
  <2>1. target.rbpOffset[w] <= q.currentFrameSize
    BY <1>1, <1>4 DEF SlotsAgree
  <2>2. hasStackStorage(q, w) => q.rbpOffset[w] = target.rbpOffset[w]
    BY <1>1, <1>3, <1>4, <1>5 DEF SlotsAgree
  <2>3. ASSUME NEW u \in Vars \ {w}, hasStackStorage(q, u)
        PROVE  \/ q.rbpOffset[u] <= target.rbpOffset[w] - SizeOf[w]
               \/ target.rbpOffset[w] <= q.rbpOffset[u] - SizeOf[u]
    <3>1. CASE u # v
      BY <1>1, <1>3, <1>4, <1>5, <2>3, <3>1 DEF SlotsAgree
    <3>2. CASE u = v
      <4>1. ~ Overlap(target, w, u) /\ q.rbpOffset[u] = target.rbpOffset[u]
        BY <1>1, <1>3, <1>4, <3>2 DEF Good, SlotsApart
      <4>2. hasStackStorage(target, u) /\ SizeOf[w] \in Nat /\ SizeOf[u] \in Nat
            /\ target.rbpOffset[w] \in Int /\ target.rbpOffset[u] \in Int
        BY <1>1, <3>2
      <4> QED BY <4>1, <4>2 DEF Overlap
    <3> QED BY <3>1, <3>2
  <2> QED BY <2>1, <2>2, <2>3
<1> QED BY <1>4, <1>5, <1>8, <1>9 DEF Stored, q

LEMMA SpillOursKeeps == JInv /\ SpillOurs => JInv' /\ FrameKept
<1> SUFFICES ASSUME JInv, SpillOurs PROVE JInv' /\ FrameKept
  OBVIOUS
<1> DEFINE v == p.occupiedBy[morphReg]
<1> DEFINE q == [p EXCEPT !.rbpOffset[v] = target.rbpOffset[v]]
<1> DEFINE s == spill(q, v)
<1>1. /\ Morphing /\ morphReg < numRegisters /\ v # invalidVn
      /\ hasStackStorage(target, v)
      /\ p' = releaseRegister(s, morphReg)
      /\ phase' = phase /\ target' = target /\ landing' = landing
      /\ generated' = TRUE /\ machine' = machine /\ phase = "morph"
      /\ morphReg' = morphReg
  BY DEF SpillOurs, Differs, ourOccupiedBy, Morphing, jumpVars
<1>2. /\ MorphInv /\ morphReg \in Nat /\ morphReg \in Registers
      /\ Good(p) /\ p.occupiedBy \in [Registers -> Vars \cup {invalidVn}]
  BY <1>1, MorphFacts DEF MorphInv
<1>3. /\ v \in Vars /\ inRegister(p, v) /\ p.currentRegister[v] = morphReg
  BY <1>1, <1>2, GoodFacts
<1>4. /\ Good(q) /\ SlotsAgree(q, target)
      /\ hasStackStorage(q, v)
      /\ SameTables(p, q) /\ SameMachine(p, q)
      /\ q.decommissioned = p.decommissioned
      /\ q.currentFrameSize = p.currentFrameSize
      /\ \A w \in Vars : Stored(p, w) => Stored(q, w)
  BY <1>1, <1>2, <1>3, AdoptSlot
<1> HIDE DEF q, v
<1>5. /\ s \in VarState
      /\ SameTables(q, s) /\ SameSlots(q, s) /\ SameFlags(q, s)
      /\ s.mem = [q.mem EXCEPT ![v] = q.reg[morphReg]] /\ s.reg = q.reg
  <2>1. s = storeToSlot(q, v, q.reg[morphReg])
    BY <1>3, <1>4 DEF spill, SameTables
  <2>2. q.reg[morphReg] \in Content /\ q \in VarState /\ SlotsApart(q)
    BY <1>2, <1>4, GoodFacts DEF Good
  <2> QED BY <1>3, <2>1, <2>2, StoreFields
<1> HIDE DEF s
<1>6. /\ Good(s)
      /\ \A w \in Vars :
            /\ Stored(s, w) <=> Stored(q, w)
            /\ hasStackStorage(s, w) <=> hasStackStorage(q, w)
            /\ inRegister(s, w) <=> inRegister(q, w)
  BY <1>4, <1>5, SameIsGood
<1>7. s.occupiedBy = p.occupiedBy /\ s.currentRegister = p.currentRegister
      /\ s.decommissioned = p.decommissioned /\ s.reg = p.reg
  BY <1>4, <1>5 DEF SameTables, SameFlags, SameMachine
<1>8. s.occupiedBy[morphReg] = v /\ v # invalidVn
  BY <1>1, <1>7 DEF v
<1>9. /\ Good(p')
      /\ p'.decommissioned = s.decommissioned
      /\ SameSlots(s, p') /\ SameMachine(s, p')
      /\ p'.occupiedBy = [s.occupiedBy EXCEPT ![morphReg] = invalidVn]
      /\ ~ inRegister(p', v)
      /\ \A w \in Vars : w # v =>
            /\ Stored(p', w) <=> Stored(s, w)
            /\ ReadVar(p', w) = ReadVar(s, w)
  BY <1>1, <1>2, <1>6, <1>8, ReleaseTenant DEF SameFlags
<1>10. SlotsAgree(p', target)
  BY <1>4, <1>5, <1>7, <1>9 DEF SlotsAgree, SameSlots, hasStackStorage
<1>11. \A w \in Vars : w # v => ReadVar(s, w) = ReadVar(p, w)
  <2>1. \A w \in Vars : w # v => s.mem[w] = p.mem[w]
    <3>1. q.mem = p.mem /\ q.mem \in [Vars -> Content]
      BY <1>4, GoodFacts DEF SameMachine
    <3> QED BY <1>5, <3>1
  <2> QED BY <1>7, <2>1 DEF ReadVar, inRegister
<1>12. Stored(p', v) /\ ReadVar(p', v) = ReadVar(p, v)
  <2>1. hasStackStorage(p', v)
    BY <1>4, <1>5, <1>9 DEF SameSlots, hasStackStorage
  <2>2. p'.mem[v] = p.reg[morphReg]
    <3>1. q.reg = p.reg /\ q.mem \in [Vars -> Content]
      BY <1>4, GoodFacts DEF SameMachine
    <3> QED BY <1>3, <1>5, <1>9, <3>1 DEF SameMachine
  <2> QED BY <1>3, <1>9, <2>1, <2>2 DEF Stored, ReadVar
<1>13. Carries(p', target, landing)
  BY <1>2, <1>4, <1>6, <1>9, <1>11, <1>12 DEF MorphInv, Carries
<1>14. DoneBelow(p', target, morphReg)
  BY <1>2, <1>7, <1>9, EmptyHere DEF MorphInv
<1>15. p'.currentFrameSize = p.currentFrameSize
  BY <1>4, <1>5, <1>9 DEF SameSlots
<1>16. MorphInv'
  BY <1>1, <1>2, <1>9, <1>10, <1>13, <1>14, <1>15 DEF MorphInv
<1> QED BY <1>1, <1>15, <1>16 DEF JInv, FrameKept

LEMMA LoadTheirsKeeps == JInv /\ LoadTheirs => JInv' /\ FrameKept
<1> SUFFICES ASSUME JInv, LoadTheirs PROVE JInv' /\ FrameKept
  OBVIOUS
<1> DEFINE v == target.occupiedBy[morphReg]
<1>1. /\ Morphing /\ morphReg < numRegisters
      /\ v # p.occupiedBy[morphReg] /\ p.occupiedBy[morphReg] = invalidVn
      /\ IF v \in p.decommissioned THEN p' = p /\ generated' = generated
         ELSE p' = loadRegisterWithVar(p, morphReg, v) /\ generated' = TRUE
      /\ phase' = phase /\ target' = target /\ landing' = landing
      /\ machine' = machine /\ phase = "morph"
      /\ morphReg' = morphReg + 1
  BY DEF LoadTheirs, Differs, ourOccupiedBy, theirOccupiedBy, Morphing
<1>2. /\ MorphInv /\ morphReg \in Nat /\ morphReg \in Registers
      /\ numRegisters \in Nat
      /\ Good(p) /\ p.occupiedBy \in [Registers -> Vars \cup {invalidVn}]
  BY <1>1, MorphFacts DEF MorphInv
<1>3. v \in Vars /\ varPerfectRegSize(v)
  <2>1. Good(target)
    BY <1>2 DEF MorphInv
  <2> QED BY <1>1, <1>2, <2>1, GoodFacts
<1>4. morphReg + 1 \in 0 .. numRegisters
  BY <1>1, <1>2
<1>5. CASE v \in p.decommissioned
  <2>1. DoneBelow(p, target, morphReg + 1)
    BY <1>1, <1>2, <1>5, DoneOneMore DEF MorphInv
  <2>2. MorphInv'
    BY <1>1, <1>2, <1>4, <1>5, <2>1 DEF MorphInv
  <2> QED BY <1>1, <1>5, <2>2 DEF JInv, FrameKept
<1>6. CASE v \notin p.decommissioned
  <2>1. Loaded(p, p', morphReg, v)
    BY <1>1, <1>2, <1>3, <1>6, Load
  <2>2. Good(p') /\ Extends(p, p') /\ SameSlots(p, p') /\ p'.currentRegister[v] = morphReg
    BY <1>1, <2>1 DEF Loaded
  <2>3. SlotsAgree(p', target) /\ Carries(p', target, landing)
    BY <1>2, <2>2, MovesInMorph
  <2>4. DoneBelow(p', target, morphReg)
    <3>1. ASSUME NEW s \in Registers, s < morphReg
          PROVE  p'.occupiedBy[s] = p.occupiedBy[s]
      <4>1. s # morphReg
        BY <1>2, <3>1, RegistersFacts
      <4>2. target.occupiedBy[s] # v
        <5>1. Good(target)
          BY <1>2 DEF MorphInv
        <5> QED BY <1>2, <1>3, <4>1, <5>1, GoodFacts
      <4>3. p.occupiedBy[s] # v
        BY <1>2, <1>3, <3>1, <4>2, VarsAssumption DEF MorphInv, DoneBelow
      <4> QED BY <1>1, <2>1, <4>1, <4>3 DEF Loaded
    <3> QED BY <1>2, <2>2, <3>1 DEF MorphInv, DoneBelow, Extends
  <2>5. p'.occupiedBy[morphReg] = v
    BY <1>2, <1>3, <2>2, GoodFacts
  <2>6. DoneBelow(p', target, morphReg + 1)
    BY <1>2, <2>4, <2>5, DoneOneMore
  <2>7. MorphInv'
    BY <1>1, <1>2, <1>4, <1>6, <2>2, <2>3, <2>6 DEF MorphInv, SameSlots
  <2> QED BY <1>1, <2>2, <2>7 DEF JInv, FrameKept, SameSlots
<1> QED BY <1>5, <1>6

\* The code at the label takes over: its tables are right about where the
\* values are.
LEMMA LandKeeps == JInv /\ Land => JInv' /\ FrameKept
<1> SUFFICES ASSUME JInv, Land PROVE JInv' /\ FrameKept
  OBVIOUS
<1> DEFINE f == [v \in Vars |-> IF target.rbpOffset[v] = p.rbpOffset[v]
                                THEN p.mem[v] ELSE junk]
<1>1. /\ Morphing /\ morphReg = numRegisters
      /\ p' = [target EXCEPT !.reg = p.reg, !.mem = f,
                             !.currentFrameSize = p.currentFrameSize]
      /\ value' = landing /\ phase' = "arrived"
  BY DEF Land
<1>2. /\ MorphInv /\ Good(p) /\ Good(target) /\ ~ target.noNewStackStorage
      /\ p \in VarState /\ target \in VarState
      /\ p.reg \in [Registers -> Content] /\ p.mem \in [Vars -> Content]
      /\ landing \in [Vars -> Content]
      /\ p.currentFrameSize \in Nat
      /\ target.currentFrameSize <= p.currentFrameSize
      /\ target.rbpOffset \in [Vars -> Int] /\ target.currentFrameSize \in Nat
  BY <1>1, MorphFacts, GoodFacts DEF MorphInv, VarState
<1>3. f \in [Vars -> Content]
  BY <1>2 DEF Content
<1>4. /\ p' \in VarState
      /\ SameTables(target, p') /\ p'.rbpOffset = target.rbpOffset
      /\ p'.decommissioned = target.decommissioned
      /\ p'.noNewStackStorage = target.noNewStackStorage
      /\ p'.panicked = target.panicked
      /\ p'.currentFrameSize = p.currentFrameSize
      /\ p'.reg = p.reg /\ p'.mem = f
  <2> HIDE DEF f
  <2> QED BY <1>1, <1>2, <1>3 DEF VarState, SameTables
<1>5. \A v \in Vars : /\ inRegister(p', v) <=> inRegister(target, v)
                      /\ hasStackStorage(p', v) <=> hasStackStorage(target, v)
  BY <1>4 DEF SameTables, inRegister, hasStackStorage
<1>6. SlotsApart(p')
  <2>1. \A v \in Vars : p'.rbpOffset[v] > 0 =>
           SizeOf[v] <= p'.rbpOffset[v] /\ p'.rbpOffset[v] <= p'.currentFrameSize
    BY <1>2, <1>4 DEF Good, SlotsApart
  <2> QED BY <1>2, <1>4, <2>1 DEF Good, SlotsApart, Overlap, hasStackStorage
<1>7. Good(p')
  <2>1. RegistersMatch(p') /\ AvailableMatches(p')
    <3>1. RegistersMatch(target) /\ AvailableMatches(target)
      BY <1>2 DEF Good
    <3> QED BY <1>4, <3>1 DEF SameTables, RegistersMatch, AvailableMatches, ListedAvailable
  <2>2. \A v \in p'.decommissioned : ~ Stored(p', v)
    <3>1. target.decommissioned \subseteq Vars
      BY <1>2 DEF VarState
    <3> QED BY <1>2, <1>4, <1>5, <3>1 DEF Good, Stored
  <2>3. \A v \in Vars : inRegister(p', v) => varPerfectRegSize(v)
    BY <1>2, <1>5 DEF Good
  <2> QED BY <1>2, <1>4, <1>6, <2>1, <2>2, <2>3 DEF Good
<1>8. ASSUME NEW v \in Vars, landing[v] # junk
      PROVE  Stored(p', v) /\ ReadVar(p', v) = landing[v]
  <2>1. Stored(target, v) /\ Stored(p, v) /\ ReadVar(p, v) = landing[v]
    BY <1>2, <1>8 DEF MorphInv, Carries
  <2>2. v \notin p.decommissioned
    BY <1>2, <2>1 DEF Good
  <2>3. \A r \in Registers :
           \/ p.occupiedBy[r] = target.occupiedBy[r]
           \/ p.occupiedBy[r] = invalidVn /\ target.occupiedBy[r] \in p.decommissioned
    BY <1>1, <1>2 DEF MorphInv, DoneBelow, Registers
  <2>4. CASE inRegister(target, v)
    <3>1. PICK r \in Registers : target.currentRegister[v] = r /\ target.occupiedBy[r] = v
      BY <1>2, <2>4, RegistersFacts, GoodFacts
    <3>2. p.currentRegister[v] = r
      BY <1>2, <2>2, <2>3, <3>1, GoodFacts
    <3>3. inRegister(p, v)
      BY <3>2, RegistersFacts DEF inRegister
    <3> QED BY <1>4, <1>5, <2>1, <2>4, <3>1, <3>2, <3>3 DEF Stored, ReadVar, SameTables
  <2>5. CASE ~ inRegister(target, v)
    <3>1. ~ inRegister(p, v)
      <4>1. SUFFICES ASSUME inRegister(p, v) PROVE FALSE
        OBVIOUS
      <4>2. PICK r \in Registers : p.occupiedBy[r] = v
        BY <1>2, <4>1, RegistersFacts, GoodFacts
      <4>3. target.occupiedBy[r] = v
        BY <2>3, <4>2, VarsAssumption
      <4>4. target.currentRegister[v] = r
        BY <1>2, <4>3, GoodFacts
      <4> QED BY <2>5, <4>4, RegistersFacts DEF inRegister
    <3>2. hasStackStorage(p, v) /\ hasStackStorage(target, v)
      BY <2>1, <2>5, <3>1 DEF Stored
    <3>3. p.rbpOffset[v] = target.rbpOffset[v]
      BY <1>2, <2>2, <3>2 DEF MorphInv, SlotsAgree
    <3> QED BY <1>4, <1>5, <2>1, <2>5, <3>1, <3>2, <3>3 DEF Stored, ReadVar
  <2> QED BY <2>4, <2>5
<1>9. Holds(p', value')
  BY <1>1, <1>8 DEF Holds
<1>10. IInv'
  BY <1>1, <1>2, <1>4, <1>7, <1>9 DEF IInv
<1> QED BY <1>1, <1>4, <1>10 DEF JInv, FrameKept

-----------------------------------------------------------------------------
(* The theorems.                                                           *)

\* At the start every register is free and the arguments are on the stack.
LEMMA JInitKeeps == JInit => JInv
BY InitGood DEF JInit, JInv

LEMMA JNextKeeps == JInv /\ [JNext]_allVars => JInv'
<1> SUFFICES ASSUME JInv, [JNext]_allVars PROVE JInv'
  OBVIOUS
<1>1. CASE UNCHANGED allVars
  <2>1. /\ p' = p /\ value' = value /\ phase' = phase /\ first' = first
        /\ target' = target /\ landing' = landing /\ morphReg' = morphReg
        /\ generated' = generated /\ machine' = machine
    BY <1>1 DEF allVars, jumpVars
  <2> QED BY <2>1 DEF JInv, IInv, BetweenInv, ValuesLast, MorphInv
<1> QED BY <1>1, GenerateKeeps, SaveStateKeeps, JumpForwardKeeps, JumpBackwardKeeps,
           NextRegisterKeeps, ReleaseOursKeeps, RelocateOursKeeps, SpillOursKeeps,
           LoadTheirsKeeps, LandKeeps DEF JNext, MorphStep

\* The inductive invariant of a jump.
THEOREM JumpInvariance == JSpec => []JInv
BY JInitKeeps, JNextKeeps, PTL DEF JSpec

\* Whichever way a label is reached, every variable its code may use is where
\* that code was compiled to look for it.
THEOREM ValuesAlwaysArrive == JSpec => []ValuesArrive
<1>1. JInv => ValuesArrive
  BY DEF JInv, IInv, ValuesArrive
<1> QED BY JumpInvariance, <1>1, PTL

\* No intermediate state of a morph confuses the allocator's tables, and none
\* of the panics on the way can be reached.
THEOREM TablesSurviveMorph == JSpec => []MorphKeepsTables
<1>1. JInv => MorphKeepsTables
  BY DEF JInv, IInv, MorphInv, Good, MorphKeepsTables
<1> QED BY JumpInvariance, <1>1, PTL

\* A morph that reports no code has moved nothing.
THEOREM QuietMorphsMoveNothing == JSpec => []QuietMeansNoCode
<1>1. JInv => QuietMeansNoCode
  BY DEF JInv, MorphInv, QuietMeansNoCode
<1> QED BY JumpInvariance, <1>1, PTL

\* A morph keeps to the frame that was fixed before it.
THEOREM MorphsStayInFrame == JSpec => MorphStaysInFrame
<1> DEFINE Fits == phase = "morph" =>
                     /\ p'.currentFrameSize = p.currentFrameSize
                     /\ \A v \in Vars : p'.rbpOffset[v] <= p.currentFrameSize
<1>1. ASSUME JInv, JInv', [JNext]_allVars, phase = "morph"
      PROVE  p'.currentFrameSize = p.currentFrameSize
  BY <1>1, NextRegisterKeeps, ReleaseOursKeeps, RelocateOursKeeps, SpillOursKeeps,
     LoadTheirsKeeps, LandKeeps
     DEF JNext, MorphStep, FrameKept, Generate, SaveState, JumpForward, JumpBackward,
         allVars
<1>2. JInv /\ JInv' /\ [JNext]_allVars => Fits
  <2> SUFFICES ASSUME JInv, JInv', [JNext]_allVars, phase = "morph", NEW v \in Vars
               PROVE  p'.rbpOffset[v] <= p.currentFrameSize
    BY <1>1
  <2>1. Good(p')
    BY DEF JInv, IInv, MorphInv
  <2>2. p'.rbpOffset[v] \in Int /\ p'.currentFrameSize \in Nat
    BY <2>1 DEF Good, VarState
  <2>3. p'.rbpOffset[v] > 0 => p'.rbpOffset[v] <= p'.currentFrameSize
    BY <2>1 DEF Good, SlotsApart
  <2> QED BY <1>1, <2>2, <2>3
<1>3. MorphStaysInFrame <=> [][Fits]_allVars
  BY DEF MorphStaysInFrame
<1> HIDE DEF Fits
<1> QED BY JumpInvariance, <1>2, <1>3, PTL DEF JSpec

=============================================================================
