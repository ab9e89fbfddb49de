------------------------------ MODULE Frontend ------------------------------
(***************************************************************************)
(* Generation of the IR of a procedure (src/frontend/frontend.go).         *)
(* genForProcSubSection consumes the parser's nodes and calls itself for   *)
(* each block; its calls are the frames of "scopes", innermost last.  An   *)
(* action is what happens for one node, up to the next.                    *)
(*                                                                         *)
(* The mutation lists are slices behind pointers: they are appended to     *)
(* while the instruction that holds them is long emitted, and the code     *)
(* generator reads them when it comes to that instruction.  Their order    *)
(* and their duplicates are left out, so they are sets.                    *)
(*                                                                         *)
(* The parser hands over one node per line; addresses, indexing and        *)
(* members are left out, as are the types of operands.                     *)
(*                                                                         *)
(* "faulty" operators are wrong variants that no specification uses.       *)
(***************************************************************************)
EXTENDS Integers, Sequences, FiniteSets

CONSTANTS
    Names,          \* the names of variables
    Args,           \* the names of the procedure's arguments, in order
    Expressions,    \* the right-hand sides, conditions and bounds
    Statements,     \* the statements of the program
    LoopKinds,      \* the headers of its loops
    SelfReference,  \* whether "x := x" may stand where there is no outer x
    MaxNodes,       \* bound: nodes of the procedure
    MaxDepth        \* bound: blocks within blocks

Kinds == {"name", "sum", "and", "call"}

ASSUME ArgsAssumption == Args \in Seq(Names)
ASSUME ProgramAssumption ==
    /\ Expressions \subseteq {[kind |-> "literal"]} \cup [kind : Kinds, name : Names]
    /\ Statements \subseteq {"declaration", "declare", "assign", "update", "write",
                           "call", "return", "break", "continue", "if", "loop"}
    /\ LoopKinds \subseteq {"range", "named range", "while", "forever"}
    /\ SelfReference \in BOOLEAN
ASSUME BoundsAssumption == MaxNodes \in Nat /\ MaxDepth \in Nat

none == -1       \* FindMutationVar's noMutation
noList == 0      \* a nil pointer to a list
noLabel == <<"", 0>>

VARIABLES
    gen,      \* procGen, its lists, and the label generator
    scopes,   \* the calls of genForProcSubSection
    nodes,    \* nodes consumed so far
    failed    \* a user error

vars == <<gen, scopes, nodes, failed>>

-----------------------------------------------------------------------------
(* Instructions, variables and scopes.                                     *)

\* A scope, and what its caller does once it has ended.
Frame(kind, g, line, list, loopLabel, exit) ==
    [kind |-> kind, varTable |-> [n \in {} |-> 0], firstVarInScope |-> g.nextVarNum,
     outOfScopeMutations |-> list, loopLabel |-> loopLabel,
     line |-> line, exit |-> exit, counter |-> none, endVar |-> none,
     elseNext |-> FALSE, optionSelect |-> noList]

\* "vars" is not in the source: how many variables there are before the
\* instruction.
Inst(g, type, mut, reads, label, list) ==
    [type |-> type, mut |-> mut, reads |-> reads, label |-> label, list |-> list,
     line |-> g.line, vars |-> g.nextVarNum]

newList(g) == [g EXCEPT !.lists = Append(@, {})]
lastList(g) == Len(g.lists)

appendList(g, list, vns) == [g EXCEPT !.lists[list] = @ \cup vns]

\* The first variable of the block itself is listed, too.
faultyAddOpt(g, s, type, mut, reads, label, list) ==
    LET emitted == [g EXCEPT !.opts = Append(@, Inst(g, type, mut, reads, label, list))]
    IN  IF s.outOfScopeMutations # noList /\ mut # none /\ mut <= s.firstVarInScope
        THEN appendList(emitted, s.outOfScopeMutations, {mut})
        ELSE emitted

\* scope.addOpt
addOpt(g, s, type, mut, reads, label, list) ==
    LET emitted == [g EXCEPT !.opts = Append(@, Inst(g, type, mut, reads, label, list))]
    IN  IF s.outOfScopeMutations # noList /\ mut # none /\ mut < s.firstVarInScope
        THEN appendList(emitted, s.outOfScopeMutations, {mut})
        ELSE emitted

Compute(g, s, type, mut, reads) == addOpt(g, s, type, mut, reads, noLabel, noList)
Label(g, s, label) == addOpt(g, s, "Label", none, {}, label, noList)
Jump(g, s, type, reads, label) == addOpt(g, s, type, none, reads, label, noList)
Mark(g, s, type, list) == addOpt(g, s, type, none, {}, noLabel, list)

\* scope.newVar: the variable is the number before the increment.
newVar(g) == [g EXCEPT !.nextVarNum = @ + 1]
newNamedVar(g) == [newVar(g) EXCEPT !.nonTemporaryVars = @ \cup {g.nextVarNum}]

\* The number was given out before.
faultyGenLabel(g) == g

\* LabelIdGen.GenLabel: the number is the one before the increment.
GenLabel(g) == [g EXCEPT !.availableId = @ + 1]

depth == Len(scopes)
innermost == scopes[depth]

\* scope.resolve: the innermost of the scopes that have the name.
visible(name) == {i \in DOMAIN scopes : name \in DOMAIN scopes[i].varTable}

found(name) == visible(name) # {}

resolve(name) ==
    LET i == CHOOSE k \in visible(name) : \A l \in visible(name) : l <= k
    IN  scopes[i].varTable[name]

Bind(s, name, vn) ==
    [s EXCEPT !.varTable = [n \in DOMAIN s.varTable \cup {name} |->
                               IF n = name THEN vn ELSE s.varTable[n]]]

\* What the names mean here.
table == [n \in {m \in Names : found(m)} |-> resolve(n)]

-----------------------------------------------------------------------------
(* Expressions.  The names in them mean what the table r says.             *)

\* genExpressionValueToVar.  The second operand of a sum or a conjunction is a
\* literal.
toVar(g, s, dest, e, r) ==
    LET t == g.nextVarNum
    IN  CASE e.kind = "literal" -> Compute(g, s, "AssignImm", dest, {})
          [] e.kind = "name" -> Compute(g, s, "Assign", dest, {r[e.name]})
          [] e.kind = "call" -> Compute(g, s, "Call", dest, {r[e.name]})
          [] e.kind = "sum" ->
               LET left == Compute(newVar(g), s, "Assign", t, {r[e.name]})
                   right == Compute(newVar(left), s, "AssignImm", t + 1, {})
                   sum == Compute(right, s, "Add", t, {t, t + 1})
               IN  Compute(sum, s, "Assign", dest, {t})
          [] e.kind = "and" ->
               LET end == <<"andEnd", g.availableId>>
                   left == Compute(GenLabel(g), s, "Assign", dest, {r[e.name]})
                   jump == Jump(left, s, "ShortJumpIfFalse", {dest}, end)
                   right == Compute(newVar(jump), s, "AssignImm", t, {})
                   both == Compute(right, s, "And", dest, {dest, t})
               IN  Label(both, s, end)

\* genExpressionValue: a name is its variable, the rest gets a new one.
value(g, s, e, r) ==
    IF e.kind = "name" THEN g ELSE toVar(newVar(g), s, g.nextVarNum, e, r)

valueVar(g, e, r) == IF e.kind = "name" THEN r[e.name] ELSE g.nextVarNum

namesIn(e) == IF e.kind = "literal" THEN {} ELSE {e.name}

Defined(e) == \A name \in namesIn(e) : found(name)

-----------------------------------------------------------------------------
(* Nodes.                                                                  *)

Init ==
    /\ LET start == [opts |-> <<>>, nextVarNum |-> 0, nonTemporaryVars |-> {},
                     lists |-> <<>>, availableId |-> 0, line |-> 0]
           root == Frame("proc", start, 0, noList, noLabel, noLabel)
           number(arg) == CHOOSE i \in DOMAIN Args : Args[i] = arg
           args == {Args[i] : i \in DOMAIN Args}
           g == [start EXCEPT !.nextVarNum = Len(Args),
                              !.nonTemporaryVars = 0 .. Len(Args) - 1]
       IN  /\ gen = Mark(g, root, "StartProc", noList)
           /\ scopes = <<[root EXCEPT !.varTable = [n \in args |-> number(n) - 1]]>>
    /\ nodes = 0 /\ failed = FALSE

\* The generator with the node pushed that it is at.
here == [gen EXCEPT !.line = nodes + 1]

Node(statement) ==
    /\ ~ failed /\ depth > 0 /\ ~ innermost.elseNext
    /\ statement \in Statements
    /\ nodes < MaxNodes /\ nodes' = nodes + 1

UserError == failed' = TRUE /\ UNCHANGED <<gen, scopes>>

\* What the node emits, and its scope afterwards.
Emitted(g, s) ==
    gen' = g /\ scopes' = [scopes EXCEPT ![depth] = s] /\ UNCHANGED failed

\* The node opens a block.
Opened(g, outer, inner) ==
    /\ gen' = g
    /\ scopes' = Append([scopes EXCEPT ![depth] = outer], inner)
    /\ UNCHANGED failed

\* A declaration without a value does not look for one of the same name.
Declaration(name) ==
    /\ Node("declaration")
    /\ LET vn == here.nextVarNum
           s == Bind(innermost, name, vn)
       IN  Emitted(Compute(newNamedVar(here), s, "AssignImm", vn, {}), s)

Redeclare(name) ==
    /\ Node("declare") /\ name \in DOMAIN innermost.varTable
    /\ UserError

\* The new variable is there before the right side is generated.
faultyDeclareAgain(name, e) ==
    /\ Node("declare")
    /\ found(name) /\ name \notin DOMAIN innermost.varTable
    /\ Defined(e)
    /\ LET vn == here.nextVarNum
           s == Bind(innermost, name, vn)
           r == [table EXCEPT ![name] = vn]
           right == value(newNamedVar(here), s, e, r)
       IN  Emitted(Compute(right, s, "Assign", vn, {valueVar(newNamedVar(here), e, r)}), s)

\* On the right side the name is still the outer variable's.
DeclareAgain(name, e) ==
    /\ Node("declare")
    /\ found(name) /\ name \notin DOMAIN innermost.varTable
    /\ Defined(e)
    /\ LET right == value(here, innermost, e, table)
           vn == right.nextVarNum
           s == Bind(innermost, name, vn)
       IN  Emitted(Compute(newNamedVar(right), s, "Assign", vn, {valueVar(here, e, table)}), s)

\* Here the name on the right side would be the new variable's.
Declare(name, e) ==
    /\ Node("declare") /\ ~ found(name)
    /\ Defined(e) \/ (SelfReference /\ name \in namesIn(e))
    /\ LET vn == here.nextVarNum
           s == Bind(innermost, name, vn)
           r == [n \in DOMAIN table \cup {name} |-> IF n = name THEN vn ELSE table[n]]
       IN  Emitted(toVar(newNamedVar(here), s, vn, e, r), s)

\* Assign, or Add for += (and Sub for -=).
AssignTo(statement, name, e) ==
    /\ Node(statement) /\ found(name) /\ Defined(e)
    /\ LET right == value(here, innermost, e, table)
           vn == table[name]
           rightVar == valueVar(here, e, table)
       IN  Emitted(CASE statement = "assign" ->
                          Compute(right, innermost, "Assign", vn, {rightVar})
                     [] statement = "update" ->
                          Compute(right, innermost, "Add", vn, {vn, rightVar})
                     [] statement = "write" ->
                          Compute(right, innermost, "IndirectWrite", none, {vn, rightVar}),
                   innermost)

\* A statement whose value nobody takes.
Call(e) ==
    /\ Node("call") /\ e.kind = "call" /\ Defined(e)
    /\ Emitted(value(here, innermost, e, table), innermost)

Return(e) ==
    /\ Node("return") /\ Defined(e)
    /\ Emitted(Compute(value(here, innermost, e, table), innermost, "Return", none,
                       {valueVar(here, e, table)}), innermost)

\* A name that no scope has, on either side; but see Declare.
Undefined(statement, name, e) ==
    /\ Node(statement)
    /\ statement \in {"declare", "assign", "update", "write", "call", "return", "if", "loop"}
    /\ ~ Defined(e) \/ (statement \in {"assign", "update", "write"} /\ ~ found(name))
    /\ statement = "loop" => LoopKinds # {"forever"}
    /\ statement = "declare" => name \notin DOMAIN innermost.varTable \cup namesIn(e)
    /\ UserError

BreakLabel(s) == <<"loopEnd", s.loopLabel[2]>>
ContinueLabel(s) == <<"loopContinue", s.loopLabel[2]>>

\* Jumps to the loop of the innermost block that is one.
faultyLeave(statement) ==
    /\ Node(statement) /\ innermost.kind = "loop"
    /\ Emitted(Jump(here, innermost, "Jump", {},
                    IF statement = "break" THEN BreakLabel(innermost)
                    ELSE innermost.loopLabel), innermost)

Leave(statement) ==
    /\ Node(statement) /\ innermost.loopLabel # noLabel
    /\ Emitted(Jump(here, innermost, "Jump", {},
                    IF statement = "break" THEN BreakLabel(innermost)
                    ELSE ContinueLabel(innermost)), innermost)

LeaveNothing(statement) ==
    /\ Node(statement) /\ innermost.loopLabel = noLabel
    /\ UserError

-----------------------------------------------------------------------------
(* Blocks.                                                                 *)

\* The condition belongs to the scope of the block.
If(e) ==
    /\ Node("if") /\ depth <= MaxDepth /\ Defined(e)
    /\ LET select == newList(here)
           mutations == newList(select)
           else == <<"else", here.availableId>>
           g == GenLabel(mutations)
           outer == [innermost EXCEPT !.optionSelect = lastList(select)]
           inner == Frame("if", g, here.line, lastList(mutations), outer.loopLabel, else)
           cond == value(Mark(g, inner, "OptionSelectStart", outer.optionSelect), inner, e, table)
       IN  Opened(Jump(cond, inner, "JumpIfFalse", {valueVar(g, e, table)}, else), outer, inner)

\* The label of the else goes behind a jump past it.  The parser hands over an
\* else only behind the block of an if.
Else ==
    /\ ~ failed /\ depth > 0 /\ innermost.elseNext
    /\ nodes' = nodes + 1
    /\ LET last == Len(gen.opts)
           end == <<"if_else_end", gen.availableId>>
           g == GenLabel(newList(here))
           outer == [innermost EXCEPT !.elseNext = FALSE]
           inner == Frame("else", g, here.line, lastList(g), outer.loopLabel, end)
           jump == Inst([here EXCEPT !.line = 0], "Jump", none, {}, end, noList)
       IN  Opened(Label([g EXCEPT !.opts[last] = jump], inner, gen.opts[last].label),
                  outer, inner)

\* The counter and the end of a range belong to the scope around the loop.
\* Ranges start at a literal.
RangeLoop(kind, name, e) ==
    /\ Node("loop") /\ kind \in LoopKinds \cap {"range", "named range"}
    /\ depth <= MaxDepth /\ Defined(e)
    /\ LET id == here.availableId
           counter == here.nextVarNum
           counted == newVar(GenLabel(newList(here)))
           end == valueVar(counted, e, table)
           before == Compute(value(counted, innermost, e, table), innermost,
                             "AssignImm", counter, {})
           inner == [Frame("loop", before, here.line, lastList(counted), <<"loop", id>>,
                           <<"loopEnd", id>>) EXCEPT !.counter = counter, !.endVar = end]
           head == Label(Mark(before, inner, "OutsideLoopMutations", lastList(counted)),
                         inner, <<"loop", id>>)
           cond == head.nextVarNum
           check == Jump(Compute(newVar(head), inner, "Compare", cond, {counter, end}),
                         inner, "JumpIfFalse", {cond}, inner.exit)
           named == check.nextVarNum
       IN  IF kind = "range" THEN Opened(check, innermost, inner)
           ELSE Opened(Compute(newNamedVar(check), inner, "Assign", named, {counter}),
                       innermost, Bind(inner, name, named))

Loop(kind, e) ==
    /\ Node("loop") /\ kind \in LoopKinds \cap {"while", "forever"}
    /\ depth <= MaxDepth /\ Defined(e)
    /\ LET id == here.availableId
           g == GenLabel(newList(here))
           inner == Frame("loop", g, here.line, lastList(g), <<"loop", id>>, <<"loopEnd", id>>)
           head == Label(Mark(g, inner, "OutsideLoopMutations", lastList(g)),
                         inner, <<"loop", id>>)
           cond == head.nextVarNum
           check == Jump(toVar(newVar(head), inner, cond, e, table),
                         inner, "JumpIfFalse", {cond}, inner.exit)
       IN  Opened(IF kind = "while" THEN check ELSE head, innermost, inner)

\* What of a block's list the list of the block around it gets.
faultyPassOn(g, s, outer) == g

PassOn(g, s, outer) ==
    IF s.outOfScopeMutations = noList \/ outer.outOfScopeMutations = noList THEN g
    ELSE appendList(g, outer.outOfScopeMutations,
             {vn \in g.lists[s.outOfScopeMutations] : vn < outer.firstVarInScope})

\* The generator with the node pushed that opened the block.
AtOpener(outer) == PassOn([gen EXCEPT !.line = innermost.line], innermost, outer)

Closed(g, outer) ==
    /\ gen' = g
    /\ scopes' = Append(SubSeq(scopes, 1, depth - 2), outer)
    /\ UNCHANGED <<nodes, failed>>

BlockEnd(kind) == ~ failed /\ depth > 0 /\ ~ innermost.elseNext /\ innermost.kind = kind

EndIf(elseNext) ==
    /\ BlockEnd("if") /\ (elseNext => nodes < MaxNodes)
    /\ LET outer == scopes[depth - 1]
           mutations == innermost.outOfScopeMutations
           end == Mark(AtOpener(outer), innermost, "OptionEnd", mutations)
           g == appendList(end, outer.optionSelect, end.lists[mutations])
           after == IF elseNext THEN g ELSE Mark(g, outer, "OptionSelectEnd", noList)
       IN  Closed(Label(after, innermost, innermost.exit), [outer EXCEPT !.elseNext = elseNext])

\* The list of the whole tree misses what the else mutates.
faultyEndElse ==
    /\ BlockEnd("else")
    /\ LET outer == scopes[depth - 1]
           end == Mark(AtOpener(outer), innermost, "OptionEnd", innermost.outOfScopeMutations)
       IN  Closed(Label(Mark(end, outer, "OptionSelectEnd", noList), innermost, innermost.exit),
                  outer)

EndElse ==
    /\ BlockEnd("else")
    /\ LET outer == scopes[depth - 1]
           mutations == innermost.outOfScopeMutations
           passed == AtOpener(outer)
           g == Mark(appendList(passed, outer.optionSelect, passed.lists[mutations]),
                     innermost, "OptionEnd", mutations)
       IN  Closed(Label(Mark(g, outer, "OptionSelectEnd", noList), innermost, innermost.exit),
                  outer)

\* The counter and the end of the range may go with the line of the header.
faultyEndLoop ==
    /\ BlockEnd("loop")
    /\ LET outer == scopes[depth - 1]
           continue == Label(AtOpener(outer), innermost, ContinueLabel(innermost))
           counted == IF innermost.counter = none THEN continue
                      ELSE Compute(continue, innermost, "Increment", innermost.counter,
                                   {innermost.counter})
           back == Jump(counted, innermost, "Jump", {}, innermost.loopLabel)
       IN  Closed(Label(Mark(back, innermost, "LoopEnd", noList), innermost, innermost.exit), outer)

\* The counter's Increment comes after the list was passed on.
EndLoop ==
    /\ BlockEnd("loop")
    /\ LET outer == scopes[depth - 1]
           continue == Label(AtOpener(outer), innermost, ContinueLabel(innermost))
           counted == IF innermost.counter = none THEN continue
                      ELSE [Compute(continue, innermost, "Increment", innermost.counter,
                                    {innermost.counter})
                               EXCEPT !.nonTemporaryVars =
                                   @ \cup {innermost.counter, innermost.endVar}]
           back == Jump(counted, innermost, "Jump", {}, innermost.loopLabel)
       IN  Closed(Label(Mark(back, innermost, "LoopEnd", noList), innermost, innermost.exit), outer)

EndProc ==
    /\ BlockEnd("proc")
    /\ gen' = Mark([gen EXCEPT !.line = 0], innermost, "EndProc", noList)
    /\ scopes' = <<>>
    /\ UNCHANGED <<nodes, failed>>

Next ==
    \/ \E name \in Names : Declaration(name)
    \/ \E name \in Names : Redeclare(name)
    \/ \E name \in Names, e \in Expressions : DeclareAgain(name, e)
    \/ \E name \in Names, e \in Expressions : Declare(name, e)
    \/ \E statement \in {"assign", "update", "write"}, name \in Names, e \in Expressions :
           AssignTo(statement, name, e)
    \/ \E e \in Expressions : Call(e)
    \/ \E e \in Expressions : Return(e)
    \/ \E statement \in Statements, name \in Names, e \in Expressions :
           Undefined(statement, name, e)
    \/ \E statement \in {"break", "continue"} : Leave(statement)
    \/ \E statement \in {"break", "continue"} : LeaveNothing(statement)
    \/ \E e \in Expressions : If(e)
    \/ Else
    \/ \E kind \in LoopKinds, name \in Names, e \in Expressions : RangeLoop(kind, name, e)
    \/ \E kind \in LoopKinds, e \in Expressions : Loop(kind, e)
    \/ \E elseNext \in BOOLEAN : EndIf(elseNext)
    \/ EndElse
    \/ EndLoop
    \/ EndProc

Spec == Init /\ [][Next]_vars

-----------------------------------------------------------------------------
(* Properties.                                                             *)

Variable == 0 .. gen.nextVarNum - 1

\* All nodes are consumed: what goes to the code generator.
Finished == depth = 0

\* The instructions of an if with its else, or of a loop.
Starts == {i \in DOMAIN gen.opts :
    gen.opts[i].type \in {"OptionSelectStart", "OutsideLoopMutations"}}
Ends == {i \in DOMAIN gen.opts : gen.opts[i].type \in {"OptionSelectEnd", "LoopEnd"}}

Region(i) ==
    LET balanced(j) == Cardinality(Starts \cap i .. j) = Cardinality(Ends \cap i .. j)
    IN  i .. CHOOSE j \in Ends :
            i < j /\ balanced(j) /\ \A k \in Ends \cap i .. j - 1 : ~ balanced(k)

\* The list at the start of an if or a loop has exactly the variables of the
\* scopes around it that are mutated in it, at whatever depth, by a statement or
\* by the counting of a loop.  The code generator relies on it for what to put
\* to storage, and Precompute assumes it.
ListsExact ==
    Finished => \A i \in Starts :
        gen.lists[gen.opts[i].list] =
            {gen.opts[k].mut : k \in Region(i)} \cap 0 .. gen.opts[i].vars - 1

Jumps == {i \in DOMAIN gen.opts :
    gen.opts[i].type # "Label" /\ gen.opts[i].label # noLabel}

Places(label) == {i \in DOMAIN gen.opts :
    gen.opts[i].type = "Label" /\ gen.opts[i].label = label}

Loops == {i \in Starts : gen.opts[i].type = "OutsideLoopMutations"}

\* Each jump has its label, once; jumps go forward except for the one at the end
\* of a loop, never into an if or a loop from outside of it, and break and
\* continue go to the innermost loop around them.  morphToState, findLastusage
\* and Precompute rely on it.
JumpsLand ==
    Finished =>
        LET regions == {[start |-> r, body |-> Region(r)] : r \in Starts}
            around(i) == {region \in regions : i \in region.body}
            loopsAround(i) == {region.start : region \in around(i)} \cap Loops
        IN  \A i \in Jumps :
                LET label == gen.opts[i].label
                    places == Places(label)
                IN  /\ Cardinality(places) = 1
                    /\ \A target \in places :
                          /\ target < i => gen.opts[i + 1].type = "LoopEnd"
                          /\ around(target) \subseteq around(i)
                    /\ label[1] \in {"loopEnd", "loopContinue"} =>
                          \E r \in loopsAround(i) :
                              /\ gen.opts[r + 1].label[2] = label[2]
                              /\ \A l \in loopsAround(i) : l <= r

=============================================================================
