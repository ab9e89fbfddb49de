---------------------------- MODULE ParserStack -----------------------------
(***************************************************************************)
(* From lines to work orders: the parser's stack of open blocks            *)
(* (src/parsing/parser.go) and the loop of doCompile (src/compiler.go)     *)
(* that collects the nodes of each procedure and the fields of each        *)
(* struct.  A line is its kind; one action feeds one line.  What a line    *)
(* says inside of an expression is in Expressions.                         *)
(***************************************************************************)
EXTENDS Integers, Sequences, FiniteSetsExt, SequencesExt

CONSTANTS LineKinds, \* the kinds of lines that sources are made of
          MaxLines   \* bound on the lines of a source

AllKinds == {"proc", "foreign", "struct", "if", "for", "else", "} else", "}",
             "field", "word", "statement"}

ASSUME LinesAssumption == LineKinds \subseteq AllKinds /\ MaxLines \in Nat

VARIABLES
    source,          \* the lines fed so far
    incompleteStack, \* nodes whose blocks are open
    contextStack,    \* "global", then "struct" inside of a struct
    currentProc,     \* the procedure whose nodes are collected
    nodesForProc,    \* its nodes so far
    workOrders,      \* procedures handed over, with their nodes
    members,         \* fields, each with the struct that it went to
    parseFailed

parser == <<incompleteStack, contextStack>>
procs == <<currentProc, nodesForProc, workOrders>>
vars == <<source, parser, procs, members, parseFailed>>

\* A node is known by its line.
node(kind) == [line |-> Len(source) + 1, kind |-> kind]
nil == [line |-> 0, kind |-> "nil"]

Init ==
    /\ source = <<>> /\ incompleteStack = <<>> /\ contextStack = <<"global">>
    /\ currentProc = nil /\ nodesForProc = <<>> /\ workOrders = <<>>
    /\ members = <<>> /\ parseFailed = FALSE

currentContext == Last(contextStack)

\* parseInStructDeclContext knows the end of the struct and declarations; a lone
\* return, break or continue is one that names its own type.
Parses(kind) ==
    IF currentContext = "struct" THEN kind \in {"}", "field", "word"}
    ELSE kind # "field"

Feed(kind) ==
    /\ ~ parseFailed /\ Len(source) < MaxLines
    /\ kind \in LineKinds /\ Parses(kind)
    /\ source' = Append(source, kind)
    /\ UNCHANGED parseFailed

\* The first error: nothing is compiled any more.
Fail(kind) ==
    /\ ~ parseFailed /\ Len(source) < MaxLines
    /\ Parses(kind) => kind \in {"}", "} else"} /\ incompleteStack = <<>>
    /\ source' = Append(source, kind)
    /\ parseFailed' = TRUE
    /\ UNCHANGED <<parser, procs, members>>

startNewBlock(block) == incompleteStack' = Append(incompleteStack, block)

-----------------------------------------------------------------------------
(* What doCompile does with the nodes of a line.                           *)

\* Only the last node of the line is taken.
faultyCollect(nodes) ==
    /\ nodesForProc' = IF currentProc = nil THEN nodesForProc
                       ELSE Append(nodesForProc, Last(nodes))
    /\ UNCHANGED <<currentProc, workOrders>>

Collect(nodes) ==
    /\ nodesForProc' = IF currentProc = nil THEN nodesForProc ELSE nodesForProc \o nodes
    /\ UNCHANGED <<currentProc, workOrders>>

\* The procedure goes to the workers, with what was collected and this node.
HandOver(proc, last) ==
    /\ workOrders' = Append(workOrders, [proc |-> proc, in |-> Append(nodesForProc, last)])
    /\ nodesForProc' = <<>> /\ currentProc' = nil

-----------------------------------------------------------------------------
(* The kinds of lines.                                                     *)

DeclareProc ==
    /\ Feed("proc")
    /\ startNewBlock(node("proc"))
    /\ currentProc' = node("proc")
    /\ UNCHANGED <<contextStack, nodesForProc, workOrders, members>>

\* A foreign procedure has no body, but opens a block like any other.
DeclareForeign ==
    /\ Feed("foreign")
    /\ startNewBlock(node("foreign"))
    /\ HandOver(node("foreign"), node("foreign"))
    /\ UNCHANGED <<contextStack, members>>

OpenBlock(kind) ==
    /\ kind \in {"if", "for", "else"} /\ Feed(kind)
    /\ startNewBlock(node(kind))
    /\ Collect(<<node(kind)>>)
    /\ UNCHANGED <<contextStack, members>>

\* The line of an else that closes a block gives two nodes.  doCompile looks at
\* the second when it asks whether the procedure has ended.
CloseElse ==
    /\ Feed("} else") /\ incompleteStack # <<>>
    /\ incompleteStack' = Append(Front(incompleteStack), node("else"))
    /\ Collect(<<node("}"), node("else")>>)
    /\ UNCHANGED <<contextStack, members>>

DeclareStruct ==
    /\ Feed("struct")
    /\ startNewBlock(node("struct"))
    /\ contextStack' = Append(contextStack, "struct")
    /\ Collect(<<node("struct")>>)
    /\ UNCHANGED members

\* The context stays that of the struct.
faultyCloseBlock ==
    /\ Feed("}") /\ incompleteStack # <<>>
    /\ incompleteStack' = Front(incompleteStack)
    /\ IF Last(incompleteStack) = currentProc THEN HandOver(currentProc, node("}"))
       ELSE Collect(<<node("}")>>)
    /\ UNCHANGED <<contextStack, members>>

CloseBlock ==
    /\ Feed("}") /\ incompleteStack # <<>>
    /\ incompleteStack' = Front(incompleteStack)
    /\ contextStack' = IF Last(incompleteStack).kind = "struct" THEN Front(contextStack)
                       ELSE contextStack
    /\ IF Last(incompleteStack) = currentProc THEN HandOver(currentProc, node("}"))
       ELSE Collect(<<node("}")>>)
    /\ UNCHANGED members

\* A field, whose type doCompile looks up the struct for, or a statement.
Simple(kind) ==
    /\ kind \in {"field", "word", "statement"} /\ Feed(kind)
    /\ Collect(<<node(kind)>>)
    /\ members' = IF currentContext = "struct"
                     /\ incompleteStack # <<>> /\ Last(incompleteStack).kind = "struct"
                  THEN Append(members, [of |-> Last(incompleteStack), field |-> node(kind)])
                  ELSE members
    /\ UNCHANGED parser

Next ==
    \/ DeclareProc \/ DeclareForeign \/ DeclareStruct \/ CloseElse \/ CloseBlock
    \/ \E kind \in LineKinds : OpenBlock(kind) \/ Simple(kind) \/ Fail(kind)

Spec == Init /\ [][Next]_vars

-----------------------------------------------------------------------------
(* What a source means, by matching braces.                                *)

LinesOf(s, kinds) == {i \in DOMAIN s : s[i] \in kinds}

Opening == {"proc", "struct", "if", "for", "else", "} else"}
Closing == {"}", "} else"}

\* The open blocks behind line i, and between its closing and its opening brace.
Depth(s, i) ==
    Cardinality({j \in LinesOf(s, Opening) : j <= i})
        - Cardinality({j \in LinesOf(s, Closing) : j <= i})
Lowest(s, i) == IF s[i] = "} else" THEN Depth(s, i) - 1 ELSE Depth(s, i)

\* The block of line i is open as far as the line before "to".
OpenUntil(s, i, to) == \A k \in i + 1 .. to - 1 : Lowest(s, k) >= Depth(s, i)

\* The line that opens the block that line i is in, and the one that closes it.
Encloser(s, i) ==
    Max({0} \cup {j \in LinesOf(s, Opening) : j < i /\ OpenUntil(s, j, i)})
Closer(s, i) ==
    Max({j \in LinesOf(s, Closing) : i < j /\ OpenUntil(s, i, j)})

\* What may stand where: declarations outside, fields in structs, statements in
\* procedures, and each else behind an if.
InPlace(s, i) ==
    LET around == Encloser(s, i)
        ofIf(j) == j # 0 /\ s[j] = "if"
    IN  CASE s[i] \in {"proc", "foreign", "struct"} -> around = 0
          [] s[i] = "field" -> around # 0 /\ s[around] = "struct"
          [] s[i] = "}" -> around # 0
          [] s[i] = "} else" -> ofIf(around)
          [] s[i] = "else" -> i > 1 /\ s[i - 1] = "}" /\ ofIf(Encloser(s, i - 1))
          [] OTHER -> around # 0 /\ s[around] # "struct"

WellFormed(s) == Depth(s, Len(s)) = 0 /\ \A i \in DOMAIN s : InPlace(s, i)

NodesOf(s, i) ==
    LET at(kind) == [line |-> i, kind |-> kind]
    IN  IF s[i] = "} else" THEN <<at("}"), at("else")>> ELSE <<at(s[i])>>

\* The nodes of the block that line i opens, with the closing brace.
Body(s, i) == FlattenSeq([k \in 1 .. Closer(s, i) - i |-> NodesOf(s, i + k)])

InOrder(lines) == SetToSortSeq(lines, <)

-----------------------------------------------------------------------------
(* Properties.                                                             *)

\* The types of the variables: what is on the stack, collected and handed over are
\* nodes, and "global" and "struct" are the only contexts.
Node == [line : Nat, kind : AllKinds]
TypeOK ==
    /\ source \in Seq(AllKinds) /\ parseFailed \in BOOLEAN
    /\ incompleteStack \in Seq(Node) /\ contextStack \in Seq({"global", "struct"})
    /\ currentProc \in Node \cup {nil} /\ nodesForProc \in Seq(Node)
    /\ workOrders \in Seq([proc : Node, in : Seq(Node)])
    /\ members \in Seq([of : Node, field : Node])

\* The two stacks tell the same: whatever the lines are, the parser is in a
\* struct exactly when the innermost open block is one, no struct is open
\* further out, and the last context is never popped.
ContextsMatch ==
    /\ Len(contextStack) = IF currentContext = "struct" THEN 2 ELSE 1
    /\ \A i \in DOMAIN incompleteStack :
          incompleteStack[i].kind = "struct"
             <=> i = Len(incompleteStack) /\ currentContext = "struct"
    /\ currentContext = "struct" => incompleteStack # <<>>

\* A source whose blocks match is taken as it is meant: no line of it is an
\* error, each procedure is handed over once, in the order of the source, with
\* exactly the nodes of its body, and each struct gets its fields.
OrdersExact ==
    WellFormed(source) =>
        LET declared == InOrder(LinesOf(source, {"proc", "foreign"}))
            fieldsOf(i) == SelectSeq(members, LAMBDA m : m.of.line = i)
        IN  /\ ~ parseFailed
            /\ [k \in DOMAIN workOrders |-> workOrders[k].proc.line] = declared
            /\ \A k \in DOMAIN workOrders : source[declared[k]] = "proc" =>
                  workOrders[k].in = Body(source, declared[k])
            /\ \A i \in LinesOf(source, {"struct"}) :
                  [k \in DOMAIN fieldsOf(i) |-> fieldsOf(i)[k].field.line]
                     = [k \in 1 .. Closer(source, i) - i - 1 |-> i + k]

\* "bare else. Should've been caught by the parser": in what a worker is given,
\* an else follows the end of a block.
BareElseCaught ==
    \A k \in DOMAIN workOrders : \A i \in DOMAIN workOrders[k].in :
        workOrders[k].in[i].kind = "else" => i > 1 /\ workOrders[k].in[i - 1].kind = "}"

=============================================================================
