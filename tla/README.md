# Verification of alang

alang is a compiler for a small imperative language, written in Go. It reads one
source file, writes `a.asm` for x86-64, and has nasm and ld make a binary of it.
This directory holds TLA+ models of its parts, the TLC configurations that check
them on small instances, and theorems about them checked by TLAPS.

## 1. The system

    lines ──FeedLine──▶ nodes ──GenForProc──▶ IR ──InferAndCheck──▶ types ──X86ForBlock──▶ a.asm
    parsing/            frontend/ (a goroutine  typing/              backend/
                        per procedure)

| Part | State it keeps | Operations | What is hard | What makes it correct |
|---|---|---|---|---|
| Driver (`compiler.go`) | work orders, error flags, current procedure | parse loop, start a worker, select over a worker's two channels, exits | workers in any order, a worker that panics, user errors in several phases, exits that end the process under the workers | the outcome is that of compiling in sequence; no binary after an error; it ends |
| Label numbers (`frontend/types.go`) | `availableId` under a mutex | `GenLabel` | called by all workers | no number twice |
| Parser (`parsing/parser.go`) | stacks of open blocks and of contexts | `FeedLine` | nesting of blocks, `} else {`, unbalanced braces | the stacks agree; each procedure gets the nodes of its body |
| Expression parser (`parsing/parse_expression.go`) | a map of the finished parts of a line | `parseExprWithParen`, `parseExprUnit`, `parseCallList` | parts are found again by token numbers; operators in a heap | the tree of the grammar; no token is passed over; no internal error |
| Tokenizer (`parsing/tokenizer.go`) | none | `Tokenize` | — | — |
| IR generation (`frontend/frontend.go`) | scopes, mutation lists, labels | `genForProcSubSection`, expressions | nested ifs and loops share lists that are read later | each list has what its block changes |
| Typer (`typing/typing.go`) | types of variables | `InferAndCheck` | inference and checks interleaved | no variable without a type |
| Layout of structs (`typing/types.go`, `compiler.go`) | records, the embed graph | `ResolveSizeAndOffset`, a depth-first search | order of Go maps; cycles; alignment of nested structs and arrays | everything aligned and disjoint, whatever the order |
| Storage of variables (`backend/backend.go`) | where each variable is, the free registers, the frame | load, swap, spill, release, decommission | long mixes of operations on two copies of one relation | each value is where the tables say |
| Jumps (`backend/backend.go`) | tables saved at labels and at jumps | `morphToState`, delayed jumps | moves that disturb each other; code emitted after the frame is fixed | values arrive; no new stack; it ends |
| Compile-time evaluation (`backend/backend.go`) | known values | `doPrecomputaion`, `genInstPartialKnown`, `endPrecomputingAndMaterialize` | branches and loops | same result as at run time |
| Calls and indirect accesses (`backend/backend.go`) | the tables above, `stackBoundVars` | `genCall`, `genReturn`, `genTakeAddress`, `genIndirectLoad/Write` | fixed registers, clobbered registers, variables that are reached by their address | arguments arrive; what lives on survives |
| Library, messages | none | assembly text, formatting | — | — |

`PROJECT.json` lists the components with their sources, and the hazards: what is
hard to test in this code, at the line where it bites, with the property that
would catch it.

The driver calls everything else. The parser and the workers share nothing but
the nodes of a finished procedure; workers and main share the channels of the
work orders and the label generator. Typer and code generator run on main, one
procedure at a time. Within the code generator, the handlers of instructions
share the tables of variable storage; jumps copy these tables and restore them.

## 2. Modules

| Module | Models | Role |
|---|---|---|
| `VarStorage` | the functions of `procGen` that move variables | operators on a record `p` |
| `RegAlloc` | the handlers that call them, in any order | state machine |
| `VarStore` | a store of named variables | what `RegAlloc` implements |
| `Calls` | `genCall`, `genReturn`, pointers and the division, as whole instructions | state machine over `RegAlloc`'s, implements `VarStore` |
| `Jumps` | one jump between two points of a procedure, `morphToState` step by step | state machine over `RegAlloc`'s actions |
| `Driver` | `doCompile`, its workers, `GenLabel` | state machine |
| `Layout` | the arithmetic of `ResolveSizeAndOffset` | operators |
| `StructLayout` | `ResolveSizeAndOffset` field by field | state machine over `Layout` |
| `StructEmbedding` | `buildGlobalEnv`, `resolveStructSize`, `resolveStructSizeVisit` | state machine over `Layout` |
| `Frontend` | `genForProcSubSection` and the scopes | state machine that generates every IR |
| `LastUsage` | `findLastusage`, `decommissionAllTempVars` | operators over `Frontend`'s IR |
| `Precompute` | the generator's knowledge of values, and one execution of what it emits | state machine |
| `ParserStack` | `FeedLine`, and `doCompile`'s loop around it | state machine |
| `Expressions` | `parseInStatementContext` and all below it | one step from a line to a tree, next to a grammar |
| `MC...` | | small instances for TLC |
| `RegAllocProofs`, `CallsProofs`, `JumpsProofs`, `PrecomputeProofs`, `DriverProofs`, `StructLayoutProofs`, `StructEmbeddingProofs`, `ParserStackProofs` | | theorems |

Operators whose names start with `faulty` are wrong variants of the definition
that follows. No specification uses them; replacing the definition by the variant
must make the property named in `PROJECT.json` ("mutants") fail.

### Variable storage (`VarStorage`, `RegAlloc`)

`p` is the receiver of `procGen`'s methods: `currentRegister`, `rbpOffset` and
`decommissioned` are the fields of `varStorageInfo`; `occupiedBy` and `available`
those of `registerBucket`; the rest has its Go name. Functions keep their names
and give back the `p` they leave. Two fields are not in the code: `reg` and `mem`
are what the emitted instructions leave in registers and slots when they run, so
"the tables are right" is a statement about the code that is generated. A store
into a slot destroys the slots that share bytes with it, and the intrinsics and
scratch uses overwrite their registers with `junk`. `panicked` stands for every
`panic`, and for the scan of `ensureInRegister` that would not end.

One action of `RegAlloc` is one call of a handler with the instructions around it:
`UseInRegister` (operands of add, compare, and, or, not, stores),
`AssignImmInRegister` and `AssignImmAnywhere` (`genAssignImm`, and the copies of
known values into storage at branches), `ReserveStorage`, `MultiplyIntoRax`,
`CopyThroughRegister` and `CopyThroughMemcpy` (`varVarCopy`), `ZeroOutVarOnStack`,
`EmptyRdx` (the division), `UseScratchRegister` (`findOrMakeFreeReg`) and
`Decommission`; `StartInstruction` is the start of `generateSingleInst`. Handlers
come in any order, which is more than any IR asks for. `value` is the value the IR
gives each variable. The guards are what the IR guarantees: no decommissioned
variable is used, structs are not used in registers, an instruction has fewer
operands than there are registers (`OperandsLeft`: at most three, and the machine has
14 registers). The last one takes it for granted that the scan finds a register it may
swap, so `NeverPanics` shows nothing of the scan, only of the panics.

Values have no width: sign extension and truncation are left out. Instructions are
modelled by the moves they make; that an `add` adds is not.

### Calls, pointers and divisions (`Calls`)

`Calls` takes `RegAlloc`'s tables and some of its actions (assignments, copies of
structs, clearing, the end of a variable) and adds whole instructions: an action is
one instruction with every load and spill in it, in the code's order. `beforeCall` is
`genCall` up to the call: `swapStackBoundVars`, the words for the stack, the registers
of the arguments, the tenants of destroyed registers. What the called procedure finds
(`calleeFinds`) is computed the way `generate` places parameters, so the two halves of
the calling convention are held against each other. `handover` records, for one step,
which arguments are not where the other side looks and where the stack pointer is; it
is also used for the value a return leaves and for the register an access uses as its
address.

A pointer holds a value like any variable. What an access leads to is chosen anew
each time, from the variables whose address was taken (`stackBoundVars`) or memory
outside of the procedure; `Reaches` leaves out what the program cannot mean, such as
a variable without a value. `base` is `invalidVn` where the generator knows the
address as an offset from rbp. A call may write to any variable that is bound to the
stack (`GenCallWriting`).

`GenReturn` is a return in a branch, `if c { return x }`, for only a label leads to code
behind a return. The label saves the tables that the return left
(`src/backend/backend.go:1963`), so what `genReturn` does to them (`prepareReturn`: the
result is brought into rax, or rsi, rdi and rcx are emptied for the copy of a big one)
holds for all that follows. The jump around the return was taken with the tables from
before it and is morphed to those of the label: `GenReturn` gives the machine what the
morph leaves, each value that has a place in the label's tables in that place, and
`Jumps` has the same return with the morph step by step.

`dying` are the variables whose last use the call is. Which
registers the roles of the code have (`rdi`, `r8`, ...) is up to the constants: in the
instance several roles share a register, and the parameters have two.

`KnownDefects` names programs that are compiled wrongly (see Findings); the passing
run has none of them, and each can be put back.

### Jumps (`Jumps`)

The generator takes up to `MaxBefore` steps of `RegAlloc`, returns among them, saves the tables
(`copyVarState`, at a jump or at a label), takes up to `MaxBetween` more, and one
execution takes the jump. *Forward*: the jump was first and waits (`p.jumps`,
`p.conditionalJumps`); after the procedure is generated the generator goes back to
it with the saved tables, and the label's are the later ones. *Backward*: the
label was first. Each pass of `morphToState`'s inner loop is an action
(`NextRegister`, `ReleaseOurs`, `RelocateOurs`, `SpillOurs`, `LoadTheirs`), and
`Land` is the `jmp`: from there the label's tables say where everything is, and a
slot that both sides place differently holds junk. What the code behind the label
may use is `landing`: not what was decommissioned on the way, and for a backward
jump not what has no value at the head of the loop. In the backward case nothing
that has a value at the head ends inside of the loop: that is what the loop
extension of `findLastusage` is for. A `Return` between the points is the case of
`Calls`' `GenReturn`: a forward jump around it morphs to the tables it left. A return
that drops a variable is left out, as in `Calls` (see Findings).

### IR generation (`Frontend`, `LastUsage`)

One action consumes one node of the parser; the recursion of `genForProcSubSection`
is the sequence `scopes`, whose elements also hold what the caller does when the
block has ended (`exit`, `counter`, `line`). `EndIf`, `EndElse` and `EndLoop` are the
`BlockEnd` case followed by that. Whether an else follows is looked up in the code
(`order.In[i]`) and chosen in the model. Mutation lists are sets behind numbers, as
they are slices behind pointers: instructions that are already emitted see what is
appended later. A user error ends the generation. `Expressions`, `Statements` and
`LoopKinds` say what a program may contain; the second operand of a sum or a
conjunction and the start of a range are literals.

`LastUsage` reads a finished IR. The generator takes a variable's storage away behind
the index `findLastusage` gives it, and takes the temporaries' away at the first
instruction of a later source line; what a path of the program still reads is
defined by following jumps (`Reached`), independently of both. The code generator
relies on `ListsExact` and `JumpsLand`, and `Precompute` assumes them.

### Compile-time evaluation (`Precompute`)

The statements are made up as they are generated; a mutation list is guessed at the
start of an if or loop and has to be used up by its end (`todo`), which is what
`Frontend`'s `ListsExact` says of real lists. `p.precompute` and the functions on `p`
have the names of the code; `knownStatForOpt`'s decision between the three ways to
generate an instruction is in `beforeMutation`, `assign`, `update` and `compare`.
Storage is abstract (`p.stored`, what `RegAlloc` implements as `VarStore`).

Next to the generator runs one execution of the code it emits: `executing` says
whether the execution is in the code that is being emitted, and `waiting` and `left`
in the open blocks where else it will come in again. `value` is what the IR means. A
loop's head is entered in any round: what its list has may have any value there, and
`RoundsAgree` checks, when the execution comes back from the end of the body, that
the code generated at the head still fits.

The constants keep five kinds of programs out of the passing runs, because the code
generator does not get them right (see Findings): run-time values reassigned in a
branch (`Reassigned` has no variable with `"runtime"`), loops inside of an else
(`LoopsInElse`), addresses of known variables taken in a branch (`AddressedInside`),
pointers reassigned in a branch, and comparisons of known values that are assigned to a
variable (`ComparesAssigned`). The first has a run of its own; the
others show when `LoopsInElse` or `ComparesAssigned` is `TRUE`, when a variable declared
with an `"immediate"` is put into `AddressedInside`, and a pointer into `Reassigned`.

### Parser (`ParserStack`, `Expressions`)

In `ParserStack` a line is its kind, and an action feeds one line: what `processLine`
does with the two stacks, and what `doCompile` then does with the nodes of the line
(`Collect`, `HandOver`, `members`). A node is known by its line. The first error stops
the parsing for good, as the flag in `doCompile` stops the compilation. The other side
is what a source means: `Encloser`, `Closer` and `Body` find blocks by matching braces
in the text alone, and `WellFormed` says which lines may stand where. Sources are all
sequences of lines, also those that are not well formed.

In `Expressions` a node is the text of its expression with brackets around each
operator and its operands, and one step parses a line. Operators keep the code's
names: `parseExprWithParen` finds the pairs of brackets (`genParenInfo`) and parses them
inside out, `parseExprUnit` takes the operators outside of finished parts from the heap
(a sequence sorted by `Less`) and `consume`s each, `parseCallList` splits arguments. The
map `parsed` is shared by all of them, across both sides of an assignment, as in the
code. A user error, an internal error (also a nil dereference) and a loop that does not
end are different outcomes. `Grammar` has every tree with up to `MaxOperators`
operators, each with the text that needs brackets only for precedence; next to these,
lines are all sequences of up to `MaxTokens` tokens, less those with a known defect.
Their alphabet has no keywords and no braces: the kinds of statement come with the
grammar's trees, and a line such as `return +` is never tried.

### Driver (`Driver`)

An item of the source is a procedure with the way its phases end (the frontend, and
the typer with the code generator, each "ok", a user error or an internal error), a
foreign procedure, a line that does not parse, or a declaration with a type that is
not known. Main's steps are those of `doCompile`; a receive on an unbuffered channel
is one step with the worker that sends. Workers take `Labels` numbers each, in the
three steps of `GenLabel`. `status` is how the process ends: `os.Exit` and a panic
end the workers with it. nasm and ld are taken to succeed.

### Layout of structs (`Layout`, `StructLayout`, `StructEmbedding`)

`StructLayout` places one field at a time. `StructEmbedding` has the structs of a
program and their fields as numbers and sizes; the resolver visits leaves and starts
searches in any order (a Go map's), keeps the recursion of `resolveStructSizeVisit`
as a stack and its `visited` marks as a set, and fails as the code does: an unknown
name, the panic for an embed cycle, a remainder by an alignment of 0. The fields of
a struct have different names here (see Hazards), a `void` is a field of size 0 (it
cannot be placed but in front of others), and arrays in `StructEmbedding`
are arrays of structs (arrays of scalars are in `StructLayout`'s instance).

## 3. Runs

| Run | Instance | What it shows |
|---|---|---|
| `RegAllocSpill` | 3 scalars of 8, 4 and 1 bytes, one of them an argument on the stack, a struct, 2 registers, one value | tables consistent, slots apart and in place, operands stay, no panic, and refinement of `VarStore`: each value is kept |
| `Calls` | the same variables, 3 registers of which 2 pass parameters, 2 values, one variable with its address taken, calls with 1 to 3 arguments, returns of scalars and of the struct | arguments arrive, the stack pointer is aligned and restored; refinement of `VarStore` |
| `JumpsTwo` | 3 scalars and a struct that may be returned, 2 registers, 2 values, 3 + 2 steps | values arrive, frame fixed, nothing emitted unreported, the morph ends |
| `Driver` | all 585 programs of up to 3 items, two labels each | sequential outcome, sound binary, unique labels, termination |
| `StructLayout` | up to 4 fields of 8 kinds | alignment, disjointness |
| `StructEmbedding` | 3 structs, up to 2 fields each | order, alignment at depth, determined outcome, termination |
| `Precompute` | a number, a run-time value, a temporary that may hold && or \|\|, two pointers; 6 statements, 2 blocks deep | all values where the code looks; no panic; rounds agree; nothing is evaluated again |
| `Frontend` | procedures of 4 nodes with one name: declarations, updates, break, continue, if, else and the four loops, 3 deep | mutation lists exact, jumps land |
| `LastUsage` | procedures of 4 nodes with two names: declarations, assignments, writes, calls, returns, break, continue, if, else and loops, 2 deep | storage is given up only when it is not needed; reads are defined |
| `ParserStack` | every source of up to 7 lines of 9 kinds | the two stacks agree; procedures and structs get what is in their braces |
| `Expressions` | trees with up to 3 operators (7, members, indices, calls) in four kinds of statement; lines of up to 5 of 11 tokens | the grammar's tree; no token passed over; no internal error, no endless loop |
| `RuntimeInBranch` | as `Precompute`, with a run-time value reassigned in a branch | a violation: see Findings |

Why these bounds are enough to be of interest: fewer registers than variables make
every case of `loadRegisterWithVar` happen (a free register, the same tenant, a
swap, a displacement to a register and to the stack), and the handlers that need
two or three fixed registers then share them with each other; that is rarer in the
real machine with 14 registers, not different. One value is enough to tell a variable
that is where the tables say from one that is lost, for a lost one is `junk`; that two
variables are not mixed up is what the theorems show for any number of values, and
`Calls` has two. In `Calls` a call with three arguments passes one over the stack, and
the two registers of parameters are among the three that there are. Two points of a procedure with five
steps are enough to permute and spill all variables between them; rdi and rcx are one
register, so that emptying rsi, rdi and rcx for a return moves a tenant or spills it. A third worker is
what lets two of them race while main waits for the other. Three structs give
every kind of graph a search treats differently: chains, cycles of one to three,
two paths to one struct. Numbers of `Precompute` are 0 to 2 and wrap around. Six
statements are an if with an else inside of a loop with an assignment in each, or a
loop with a break inside of an if. Seven lines are a procedure with an if and an else
that have a statement each, or a struct and a procedure, and every way to get the
braces of these wrong. Three operators are the least that need brackets on either side
of an operator that has one on its other side; five tokens are a call with two
arguments and a stray token in any place. In `Frontend` a mutation is passed on across two
levels with three nodes, and four allow an if with else inside of a loop. Wider
instances of the same modules (three registers in `Jumps`, eight statements and
three blocks in `Precompute` without pointers, five nodes in `Frontend` with
literals only) hold as well; only the constants differ.

`CHECK_DEADLOCK FALSE` stands where the modelled run of the program ends.

Fairness. `Jumps`: weak fairness of the steps of the morph, a loop that nothing
interrupts. `Driver`: weak fairness of main and of each worker, the Go scheduler
runs what can run; a mutex that is free is taken by someone, and each worker asks
for finitely many labels. `StructEmbedding`: weak fairness of the only goroutine.
No other specification has a liveness property.

## 4. Theorems

All are stated for every value of the constants, under the named assumptions in
the modules; TLC evaluates those in the runs.

* `RegAllocProofs`. The inductive invariant is the conjunction of the run's
  properties: types, `RegistersMatch`, `AvailableMatches`, `SlotsApart`, `Holds`
  and "not panicked". None of them is inductive without the others: a spill keeps
  values only when slots are apart, a swap keeps the tables only when the free list
  is right, and the panics are out of reach because of both; that the frame is not
  fixed yet (`noNewStackStorage`) is what lets a handler hand out a slot. The first half
  of the module has one lemma per operator of `VarStorage` (what it keeps, where it leaves
  the variable, which slots and operands it does not touch), for the proofs about `Calls`
  and `Jumps` as well (`PrepareReturn` among them: a return keeps all but what it
  drops); the theorem has one step per action. From it
  follow `TypeCorrect`, `RegistersAlwaysAgree`, `AvailableAlwaysFree`,
  `SlotsAlwaysDisjoint`, `ValuesAlwaysSurvive`, `NeverAPanic`, the action
  properties `SlotsAlwaysStay` and `OperandsAlwaysStay`, and `Refinement`: each
  step is one of `VarStore` or a stutter.
* `JumpsProofs`, for any sequence of `RegAlloc`'s actions and returns before the first
  point and between the two (the bounds of the run are constants without an upper limit). `JInv` has one part per phase:
  `RegAllocProofs`' invariant while the generator works, `BetweenInv` between the two
  points (the tables are later ones of the saved tables: `Later`), and `MorphInv` inside
  of `morphToState`. The last is the strengthening that `ValuesArrive` needs: the
  slots of the label's tables fit into the frame, are the current ones where both have
  one, and are apart from those of other variables (`SlotsAgree`), so that a spill loses
  nothing; each value has a place in the label's tables and is where the current ones
  say (`Carries`); and the registers below the current one have the label's tenants
  (`DoneBelow`), so that a later exchange cannot undo an earlier one.
  From it follow `ValuesAlwaysArrive`, `TablesSurviveMorph`, `QuietMorphsMoveNothing`
  and `MorphsStayInFrame`.
* `CallsProofs`, for calls with any number of arguments, under `KnownDefects = {}`: the
  programs named there are compiled wrongly, and each of the theorems is false with
  them (see Findings). `CInv` is the allocator's invariant between instructions
  (`dontSwap` empty), with `Holds` for what is not spent, and with a slot for each
  variable whose address was taken (`TakenHaveSlots`): without it, putting a variable
  back before a call would have nowhere to go. The loops of `genCall` are a `loop` of
  passes; that the record is right after each pass is shown from the least pass after
  which it is not (`Iteration`), since the prover has no induction. `Keeps` is what an
  instruction has to leave alone, and each action's lemma adds the one variable that it
  writes. A return may drop a value; without the known defect it drops none that is
  still to be read, so what the label's code finds is what was there before. Where the caller pushes a word and where `generate` looks for it are compared
  in `CalleeFinds`, by arithmetic on the two layouts. From `CallInvariance` follow
  `ArgumentsAlwaysArrive` and `CallRefinement`.
* `PrecomputeProofs`, for procedures of any length and nesting, any numbers and variables.
  `BasicInv` (types, what a variable that is not declared yet has, no panic) is inductive
  for every program. `CompileTimeNeverPanics` and `CompileTimeNeverAgain` follow from it
  and from what each handler does to a variable that was given up (`StayGivenUp`).
  `SameAsIR` speaks of where the execution is now; the inductive invariant `PInv` has what
  holds in the code it is not in, and of what the open blocks will do with the tables:
  + `Nesting`: variables belong to open blocks, logical expressions are innermost, a loop
    whose body has ended is the innermost block;
  + `FramesOK`, the table of known values against the one saved in each open block: what
    the list of a block has is in storage inside of it, except for what the end of the
    branch takes back (`restored`); a branch takes back only what the branches around it
    do; what was known at the head of a loop, and what was not, stays so in its body;
  + `Once`, `InsideUnknown`, `StoppedUnknown`: what is known of a reassigned variable was
    evaluated once before (so that giving it up is final), variables of the lists that are open, and
    of loops that have ended, are not evaluated again;
  + `PointeesPinned`: the variable behind an address is in storage from then on;
  + `OnePlace`, `Arrives`: the execution is in one place, and if it has jumped ahead
    (an arm that is not taken, a break, a continue), then what `Found` says of it holds of
    the tables as they will be at the label (`ArrivesAt`).

  From `PInv` follow `CompileTimeSameAsIR` and `CompileTimeRoundsAgree`. Both are false of
  the programs in Findings, so they are for those without: `WithoutKnownDefects` says so of the
  constants (a reassigned variable is no pointer and begins with a literal, a copy or a load;
  what is pointed to from an inner block was never known; no loop inside of an else;
  no comparison of literals is assigned), and `CopiesLiterals` of the statements, as a
  property of the behaviour (what a reassigned variable begins as a copy of is known as a literal is, or as
  what is computed from one). The constants of the run `Precompute` satisfy the first, and have no
  reassigned variable that begins as a copy, so the run is an instance. `PInv` was
  checked by TLC before it was proved, with these constants and with copies.
* `DriverProofs`. `DriverTypes`; `LabelsAlwaysUnique`, from "every number given is
  below `availableId`, or equal to it for the worker between the read and the
  increment", which needs the mutex; `AssembledAlwaysSound`, from what `output` and
  `displayed` are at each point of main's loop; `OutcomeAlwaysSequential`, from `OInv`:
  while it parses, main has shown the lines up to the first that is wrong (`Reading`);
  a worker reports an error only for a procedure that has one (`Reporting`); behind
  that, no procedure before the current one stopped main, and what is shown and printed
  are those of the procedures before it, in order (`Ordered`); the process ends at the
  end of the work orders or at the current one, in the way that one asks for (`Ended`).
* `StructLayoutProofs`. `LayoutTypes`, `OffsetsAlwaysAligned`,
  `FieldsAlwaysDisjoint`, `ElementsAlwaysAligned`, from lemmas on `roundUp` and one
  field's placement.
* `StructEmbeddingProofs`. `EmbedeesAlwaysFirst`, for any structs and any order of the
  map. Inductive with it are that the graph has exactly the embedees of its nodes
  (`GraphExact`, which needs that sorting names keeps each of them once: `InOrder`)
  and that what a call of `resolveStructSizeVisit` came past is laid out or is what
  the call above it is for (`CallsExact`). `ScalarsAlwaysAligned`, however deep a
  scalar is: each step lays out at most one struct, whose embedees are final
  (`RecordsStep`), so what a layout was made from stays as it was (`LayoutsExact`);
  every field of it is aligned and inside of it, and its size is a multiple of its
  alignment (`LayoutFits`); alignments are 1, 2, 4 and 8, so that the greater one is
  a multiple of the smaller one (`Alignments`). The recursions over fields and over
  depth are reasoned about with sets: a function that steps from each of the sets
  `S[i - 1]` into `S[i]` has a recursion, and it stays in them (`Recursion`,
  `Upwards`, both from the well-foundedness of strict inclusion).
  `OutcomeAlwaysDetermined`: which programs are laid out, and why the others are not,
  depends on the program alone. The search is described exactly (`SearchExact`): the
  visited structs are the parts that the calls came past, each one the struct of a
  call or what one embedee of it reaches, and no struct is in two of them. So a
  search that comes to a struct again came to it in two ways (`SearchMeets`), and
  the program embeds it twice or in itself (`CycleFound`); a struct that is laid out
  has embedees whose parts are apart (`Trees`). An alignment is 0 exactly for a
  struct without fields (`HollowExact`), so a division by zero is one by such a field
  (`Divides`). What a struct embeds, directly or not (`Embedded`), is the least set
  closed under embedding.
* `ParserStackProofs`. `ContextsAlwaysMatch`, for sources of any length: that a struct
  is the innermost block or none is, and that the global context is below the struct's
  and is never popped, are inductive together, because inside of a struct no line
  opens a block. `ParserTypes` from it, and from what is collected and handed over.

The type invariants `TypeOK` are proved and not part of any run.

Only model-checked: everything about `Frontend`, `LastUsage` and `Expressions`;
`OrdersExact`. Liveness (`MorphTerminates`, `Terminates`, `LayoutEnds`) and `ENABLED`
are out of the prover's reach, as is induction for an operator over data (what a fold
computes for every input); where a proof needs a recursion it is one over sets, as
above. No module with a theorem uses a `RECURSIVE` operator.

## 5. Findings

`RuntimeInBranch`: `x` is an argument; `if c { x = 1 } else { print(x) }` prints 1,
and so does a `print(x)` behind the if. Nothing records that `x` was at run time
before, so the assignment starts its evaluation inside of the branch, and
`genOptionEnd` and `endOptionSelect` only treat what was known at the start
(`src/backend/backend.go:753`).

The others have no run of their own. Each shows when the constants named are changed in
the configuration of the run for the module, or when the property named is checked.

Structs and IR:

* `resolveStructSizeVisit` panics with "Embed cycle is not allowed"
  (`src/compiler.go:149`) whenever a search reaches a struct twice: it never takes a mark
  back, so struct 3 that embeds 1 and 2, where 2 embeds 1, counts as a cycle.
  `PanicsOnlyOnCycles` of `StructEmbedding` fails. `OutcomeIsDetermined` shows that which
  programs are refused does at least not depend on the order of the map.
* `a := a` without an outer `a` is no user error but an internal one in the typer:
  the variable is there before its right side is generated
  (`src/frontend/frontend.go:98`). `ReadsDefined` fails with `SelfReference = TRUE`
  and the expressions `Reads`.

Compile-time evaluation (`Precompute`):

* The if has a loop that adds to `a`, and so has the else. The else starts with `a`
  known again (`genOptionEnd`), while `findWhenToStopPrecomputation` only has the first
  loop (`src/backend/backend.go:2191`): the second loop's addition is evaluated once.
  `RoundsAgree` fails with `LoopsInElse = TRUE`, `Vars = {a, r}`,
  `Declares <- MCNumbers`, no pointers and eight instructions.
* `a := 1`, then `if c { q := &a }`, then `print(a)`: `a` is put to storage in the
  branch (`src/backend/backend.go:1168`) and read from there behind it. `SameAsIR`
  fails with `a` in `AddressedInside`.
* `q := &a`, then `if c { q = &r }`: `q` is put to storage by `mov q, offset`
  (`src/backend/backend.go:757`, `778`), which is no address. `SameAsIR` fails with
  `q1` in `Reassigned`.
* `a := 1`, `t := a < a`, `a = t`: a comparison of known values gives a known value
  without setting `precomputedOnce` (`src/backend/backend.go:1532`), and the assignment
  copies the whole record (`src/backend/backend.go:1502`), so that `a` counts as never
  evaluated. After `if r { a += r }`, which gives it up, an `if t { a = t }` starts its
  evaluation again inside of the branch, and behind that `a` is taken to be known on the
  other path too. `SameAsIR` fails with `ComparesAssigned = TRUE`, `Vars = {a, r, t}`,
  `Declares <- MCNumbers`, `Reassigned = {a}`, no pointers, no logical variables, eight
  instructions and one level of blocks. It came out of the proof: `Once` was not inductive.

Calls and pointers (`Calls`, by members of `KnownDefects`):

* `"argument twice"`, with `ArgLists <- MCTwice`: in `g(x, x)` the variable is loaded
  into the first register and then moved on to the second
  (`src/backend/backend.go:954`); the first is left with what the second had.
  `ArgumentsArrive` fails.
* `"address in r9"`: a store of a known address makes a register free after it has
  chosen the one that holds the target (`src/backend/backend.go:1088`, `1097`), and takes
  r9, the target's own, when none is free. `ArgumentsArrive` fails.
* `"divisor in r8"`: a narrow divisor is brought into r8, whose tenant moves to the rdx
  that was emptied for the dividend (`src/backend/backend.go:1914`) and is overwritten.
  `ImplementsProgram` fails.
* `"copy from member"`: a struct is copied through a pointer to a member whose base is
  not in a register. The base is loaded into one of the registers just emptied for
  the copy (`src/backend/backend.go:1066`, `1657`), which then holds something else than
  the tables say. `ImplementsProgram` fails.
* `"return drops"`: in `if c { return s }` with a struct `s` and every register taken,
  `freeUpRegisters(false, rsi, rdi, rcx)` (`src/backend/backend.go:1029`) releases a
  variable that has no slot without storing it (`src/backend/backend.go:593`). Behind
  the return the label saves those tables (`src/backend/backend.go:1963`), and the jump
  around the return drops the variable on its way there
  (`src/backend/backend.go:533`): its value is lost though the return did not run.
  `ImplementsProgram` fails.

Blocks (`ParserStack`):

* `} else {` behind the body of a procedure closes it without `doCompile` noticing, for
  it looks at the second node of the line (`src/compiler.go:214`); a procedure that is
  never closed, or that has another one in it, is dropped the same way. No message is
  shown.
* A foreign procedure opens a block that nothing closes
  (`src/parsing/parser.go:94`), so one brace too many is accepted behind it.
* An else without an if reaches the frontend, whose internal error says "bare else.
  Should've been caught by the parser" (`src/frontend/frontend.go:159`).
  `BareElseCaught` fails.

Expressions (`Expressions`, by members of `KnownDefects`):

* `"argument begins with a bracket"`: `f(g() + a)` is parsed as `f(g(), a)`, and
  `f((a) + a)` likewise: a finished part at the start of an argument is taken for all of
  it, and the token behind for the comma (`src/parsing/parse_expression.go:545`).
  `NothingLost` fails.
* `"argument has a comma"`: the comma of `f(@g(a, b))` or `f(1 + g(a, b))` ends the
  outer argument, and the line is refused. `SameAsGrammar` fails.
* `"argument is missing"`: `f(a,)` and `f(+)` are accepted, with arguments that are nil.
  `NothingLost` fails.
* `"index of nothing"`: `[a]` is an internal error
  (`src/parsing/parse_expression.go:337`), and `f([a])` is read as `f(a)`.
* `"minus is an operand"`, `"parts side by side"`: `a - -a`, `@-a` and `@a @a` are
  internal errors (`src/parsing/parse_expression.go:503`), for a minus without a part is
  read as a literal. `ParserEnds` fails.
* `:= 1` dereferences nil in the message it is to make
  (`src/parsing/parse_expression.go:182`). `ParserEnds` fails with `":="` in `Alphabet`.

## 6. Not modelled

* The label after `LoopEnd` takes the tables from before the loop
  (`src/backend/backend.go:1958`), and a variable can get its first slot inside. `Jumps`
  has one jump at a time and no addresses; with both, and the loop around them, the
  instance is past what TLC can enumerate.
* Widths: sign and zero extension, truncation, and evaluation with 64 bits of what has
  fewer (`src/backend/backend.go:655`, `1510`). Values in the models of storage are
  opaque, which is what makes the theorems about all values possible; `Precompute` has
  one width.
* Of `Precompute`: subtraction, multiplication and division (generated like addition),
  `!`, members and elements, returns. Of `Frontend`: addresses, indexing and members,
  `+=` through a pointer, `||` (as `&&`); so `findLastusage`'s clause for addresses
  (`src/backend/backend.go:2157`) is not met by `LastUsage`. Of `Calls`: casts, making of
  structs and strings, arrays as pointers.
* Of the expression parser: parameters and types of procedures, declarations of fields
  and ranges: fixed sequences of tokens, without choices between readings.
* The tokenizer: a function of one line without state, which a model could only copy.
* The typer: a table of which types fit which instruction, applied once to each
  instruction; there is no second description of alang's types to hold it against.
  `Driver` has its outcomes.
* `Prune` and `findConstantVars` have no effect on the output; only its own test uses
  the package `fsm`; of the run-time library's text, what the code generator relies on
  is in `clobber` and `copied`; messages and dumps are formatting.
