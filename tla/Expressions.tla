---------------------------- MODULE Expressions -----------------------------
(***************************************************************************)
(* The expression parser (src/parsing/parse_expression.go) on the tokens   *)
(* of one line, next to the grammar it stands for.                         *)
(*                                                                         *)
(* A node is the text of its expression with a pair of brackets around     *)
(* each operator and its operands; nil is the empty text.  The parser      *)
(* keeps the nodes of finished parts in "parsed", at both of their ends;   *)
(* the map is shared by all the calls for a line and handed on here.       *)
(* Types of literals, the locations of nodes and the messages are left     *)
(* out, and so are the parameters and types of procedure declarations.     *)
(***************************************************************************)
EXTENDS Integers, SequencesExt

CONSTANTS Names,        \* tokens that are identifiers
          Literals,     \* tokens that are literals
          Alphabet,     \* the tokens that arbitrary lines are made of
          MaxTokens,    \* bound on arbitrary lines
          BinaryIn,     \* the binary operators of expressions of the grammar
          UnaryIn,      \* their unary operators
          MaxOperators, \* bound on the operators of such an expression
          KnownDefects  \* kinds of calls that are parsed wrongly and still tried

ASSUME TokensAssumption ==
    /\ MaxTokens \in Nat /\ MaxOperators \in Nat
    /\ KnownDefects \subseteq {"argument begins with a bracket", "argument has a comma",
                             "argument is missing", "index of nothing",
                             "minus is an operand", "parts side by side"}

VARIABLES line,   \* the tokens
          meant,  \* the tree the grammar has for the line, nil for an arbitrary line
          result  \* of the parser

vars == <<line, meant, result>>

nil == <<>>

-----------------------------------------------------------------------------
(* Operators, nodes and the map of parsed parts.                           *)

Assignments == {"=", "+=", "-=", ":=", "::"}
isUnary(op) == op \in {"@", "&", "!"}

precedences ==
    << {".", "["}, {"@", "&"}, {"*", "/"}, {"+", "-"}, {"!"},
       {"<", "<=", ">", ">=", "==", "!="}, {"&&", "||"}, {".."}, Assignments >>
isOperator(tok) == \E i \in DOMAIN precedences : tok \in precedences[i]
precedence(op) == CHOOSE i \in DOMAIN precedences : op \in precedences[i]

\* OpHeap.Less: equal binary operators from left to right, unary ones from the
\* innermost.
faultyLess(i, j) ==
    \/ precedence(line[i]) < precedence(line[j])
    \/ precedence(line[i]) = precedence(line[j]) /\ j < i

Less(i, j) ==
    \/ precedence(line[i]) < precedence(line[j])
    \/ /\ precedence(line[i]) = precedence(line[j])
       /\ IF isUnary(line[i]) THEN j < i ELSE i < j

\* A part of the line that has a node, as its ends know it.
part(node, otherEnd) == [node |-> node, otherEnd |-> otherEnd]
found(parsed, i) == i \in DOMAIN parsed
store(parsed, node, left, right) ==
    (right :> part(node, left)) @@ (left :> part(node, right)) @@ parsed

ok(parsed, node) == [status |-> "ok", node |-> node, parsed |-> parsed]
failed(status) == [status |-> status, node |-> nil, parsed |-> <<>>]

\* A lone minus is read as a literal.
isLiteral(tok) == tok \in Literals \cup {"-", "-="}
parseToken(i) == IF line[i] \in Names \/ isLiteral(line[i]) THEN <<line[i]>> ELSE nil

\* What the parser has at token i: a finished part, or the token alone.
operand(parsed, i) == IF found(parsed, i) THEN parsed[i] ELSE part(parseToken(i), i)

-----------------------------------------------------------------------------
(* parseExprUnit: an expression whose brackets have been parsed.           *)

\* The tokens from i on that are in no finished part; of an index, its bracket.
RECURSIVE Outside(_, _, _)
Outside(parsed, i, end) ==
    IF i >= end THEN {}
    ELSE IF found(parsed, i) /\ line[i] # "[" THEN Outside(parsed, parsed[i].otherEnd + 1, end)
    ELSE {i} \cup Outside(parsed, IF found(parsed, i) THEN parsed[i].otherEnd + 1 ELSE i + 1, end)

bracketed(left, op, right) ==
    <<"(">> \o left \o <<op>> \o right \o (IF op = "[" THEN <<"]">> ELSE <<>>) \o <<")">>

\* finishExprNode's checks, and the new node at both ends of what it covers.
finishExprNode(parsed, op, left, right) ==
    LET node == bracketed(left.node, op, right.node)
    IN  IF right.node = nil \/ (~ isUnary(op) /\ left.node = nil) THEN failed("error")
        ELSE ok(store(parsed, node, left.otherEnd, right.otherEnd), node)

\* The first operator of the unit has nothing to its left, and the bracket of an
\* index is its own right operand.
consume(r, k, start) ==
    IF r.status # "ok" THEN r
    ELSE finishExprNode(r.parsed, line[k],
             CASE isUnary(line[k]) -> part(nil, k)
               [] ~ isUnary(line[k]) /\ k = start -> part(nil, k - 1)
               [] OTHER -> operand(r.parsed, k - 1),
             CASE line[k] = "[" -> r.parsed[k]
               [] line[k] # "[" /\ k = Len(line) -> part(nil, k + 1)
               [] OTHER -> operand(r.parsed, k + 1))

\* The node of what is between brackets is the one that was made last.
faultyWholeUnit(r, start, end, lastMade) ==
    IF r.status # "ok" \/ lastMade \/ ~ found(r.parsed, start) THEN r
    ELSE ok(r.parsed, r.parsed[start].node)

wholeUnit(r, start, end, lastMade) ==
    IF r.status # "ok" THEN r
    ELSE IF found(r.parsed, start) /\ r.parsed[start].otherEnd = end - 1
    THEN IF lastMade THEN r ELSE ok(r.parsed, r.parsed[start].node)
    ELSE IF \A i \in start .. end - 1 : found(r.parsed, i) THEN failed("panic")
    ELSE failed("error")

parseExprUnit(parsed, start, end, inBrackets) ==
    LET outside == Outside(parsed, start, end)
        ops == SetToSortSeq({i \in outside : isOperator(line[i])}, Less)
    IN  IF start = end THEN ok(parsed, nil)
        ELSE IF end - start = 1 THEN ok(parsed, parseToken(start))
        ELSE IF \E i \in outside : line[i] \in {"(", "["} /\ ~ found(parsed, i)
        THEN failed("panic")
        ELSE wholeUnit(FoldLeft(LAMBDA r, k : consume(r, k, start), ok(parsed, nil), ops),
                       start, end, inBrackets /\ ops # <<>>)

-----------------------------------------------------------------------------
(* Brackets and calls.                                                     *)

closing == "(" :> ")" @@ "[" :> "]"
scanned(stack, pairs) == [stack |-> stack, pairs |-> pairs, matched |-> TRUE]
unmatched == [stack |-> <<>>, pairs |-> <<>>, matched |-> FALSE]

\* genParenInfo: the pairs of brackets, inner ones first.
faultyPair(pairs, left, right) == <<[open |-> left, end |-> right]>> \o pairs

pair(pairs, left, right) == Append(pairs, [open |-> left, end |-> right])

bracketAt(info, i) ==
    IF ~ info.matched THEN info
    ELSE IF line[i] \in {"(", "["} THEN scanned(Append(info.stack, i), info.pairs)
    ELSE IF line[i] \notin {")", "]"} THEN info
    ELSE IF info.stack # <<>> /\ line[i] = closing[line[Last(info.stack)]]
    THEN scanned(Front(info.stack), pair(info.pairs, Last(info.stack), i))
    ELSE unmatched

genParenInfo(start, end) ==
    LET info == FoldLeft(bracketAt, scanned(<<>>, <<>>),
                         [i \in 1 .. end - start |-> start + i - 1])
    IN  IF info.stack = <<>> THEN info ELSE unmatched

RECURSIVE parseExprWithParen(_, _, _)

withArguments(parsed, args) == [status |-> "ok", parsed |-> parsed, nodes |-> args]
withArgument(args, r) ==
    IF r.status = "ok" THEN withArguments(r.parsed, Append(args, r.node)) ELSE r

\* The loop of parseCallList: the argument starts at i, and j looks for its end.
\* One that starts with a finished part is that part, and what follows it is
\* taken for the comma.  A part that is found by its end leads the loop back; it
\* would then not stop any more.
RECURSIVE parseArguments(_, _, _, _)
parseArguments(r, i, j, end) ==
    IF r.status # "ok" \/ j > end THEN r
    ELSE IF Len(r.nodes) > Len(line) THEN failed("hang")
    ELSE IF found(r.parsed, i)
    THEN LET next == r.parsed[i].otherEnd + 2
         IN  parseArguments([r EXCEPT !.nodes = Append(@, r.parsed[i].node)], next, next + 1, end)
    ELSE IF line[j] # "," /\ j # end THEN parseArguments(r, i, j + 1, end)
    ELSE parseArguments(withArgument(r.nodes, parseExprWithParen(r.parsed, i, j)),
                        j + 1, j + 1, end)

Joined(args) ==
    FoldLeftDomain(LAMBDA text, k : text \o (IF k = 1 THEN <<>> ELSE <<",">>) \o args[k],
                   <<>>, args)

callNode(callee, args) == <<callee, "(">> \o Joined(args) \o <<")">>

calledWith(r, callee) ==
    IF r.status = "ok" THEN ok(r.parsed, callNode(callee, r.nodes)) ELSE r

parseCallList(parsed, bracket) ==
    LET i == bracket.open + 1
    IN  calledWith(parseArguments(withArguments(parsed, <<>>), i, i,
                                  IF i = bracket.end THEN 0 ELSE bracket.end),
                   line[bracket.open - 1])

\* A bracket behind a name is a call, which begins at the name.
isCall(bracket, start) ==
    line[bracket.open] = "(" /\ bracket.open - 1 >= start /\ line[bracket.open - 1] \in Names

finished(r, left, right) ==
    IF r.status = "ok" THEN ok(store(r.parsed, r.node, left, right), r.node) ELSE r

parseBracket(r, bracket, start) ==
    IF r.status # "ok" THEN r
    ELSE IF line[bracket.open] = "[" /\ bracket.open = start THEN failed("panic")
    ELSE IF isCall(bracket, start)
    THEN finished(parseCallList(r.parsed, bracket), bracket.open - 1, bracket.end)
    ELSE finished(parseExprUnit(r.parsed, bracket.open + 1, bracket.end, TRUE),
                  bracket.open, bracket.end)

\* One part may be all there is: the code looks at the first token of the line.
afterBrackets(r, start, end) ==
    IF r.status # "ok" THEN r
    ELSE IF found(r.parsed, 1) /\ r.parsed[1].otherEnd = end - 1
    THEN ok(r.parsed, r.parsed[1].node)
    ELSE parseExprUnit(r.parsed, start, end, FALSE)

parseExprWithParen(parsed, start, end) ==
    LET brackets == genParenInfo(start, end)
    IN  IF start >= end THEN ok(parsed, nil)
        ELSE IF ~ brackets.matched THEN failed("error")
        ELSE afterBrackets(FoldLeft(LAMBDA r, b : parseBracket(r, b, start),
                                    ok(parsed, nil), brackets.pairs),
                           start, end)

-----------------------------------------------------------------------------
(* parseInStatementContext, for the lines that have an expression.         *)

nothing == <<>>

\* An assignment is split at the first operator that assigns; its sides share
\* the map.
assigned(left, op, right) ==
    IF right.status # "ok" THEN right
    ELSE IF right.node = nil \/ left.node = nil THEN failed("error")
    ELSE ok(right.parsed, left.node \o <<op>> \o right.node)

assignTo(left, at) ==
    LET declares == line[at] \in {":=", "::"}
    IN  IF left.status # "ok" THEN left
        ELSE IF declares /\ left.node = nil THEN failed("panic")
        ELSE IF declares /\ (Len(left.node) # 1 \/ left.node[1] \notin Names) THEN failed("error")
        ELSE assigned(left, line[at], parseExprWithParen(left.parsed, at + 1, Len(line) + 1))

\* The keyword and the expression behind it.
headed(r) == IF r.status = "ok" THEN ok(r.parsed, <<line[1]>> \o r.node) ELSE r

present(r) == IF r.status = "ok" /\ r.node = nil THEN failed("error") ELSE r

parseInStatementContext ==
    LET n == Len(line)
        assigning == {i \in DOMAIN line : line[i] \in Assignments}
        opens == line[1] \in {"if", "for"}
    IN  IF opens /\ (line[n] # "{" \/ (line[1] = "if" /\ n < 3)) THEN failed("error")
        ELSE IF opens \/ line[1] = "return"
        THEN headed(parseExprWithParen(nothing, 2, IF opens THEN n ELSE n + 1))
        ELSE IF assigning # {}
        THEN assignTo(parseExprWithParen(nothing, 1, Min(assigning)), Min(assigning))
        ELSE present(parseExprWithParen(nothing, 1, n + 1))

-----------------------------------------------------------------------------
(* The grammar: every tree with up to MaxOperators operators, and a text   *)
(* for it, with brackets only where precedence asks for them.              *)

leaf == [text |-> <<"a">>, tree |-> <<"a">>, level |-> 0]

\* The text of an operand of an operator that binds at the level given.
within(e, level) == IF e.level <= level THEN e.text ELSE <<"(">> \o e.text \o <<")">>

binary(op, e, f) ==
    LET level == precedence(op)
    IN  [text |-> within(e, level) \o <<op>> \o within(f, level - 1),
         tree |-> bracketed(e.tree, op, f.tree), level |-> level]

unary(op, e) ==
    LET level == precedence(op)
    IN  [text |-> <<op>> \o within(e, level), tree |-> bracketed(nil, op, e.tree),
         level |-> level]

index(e, f) ==
    [text |-> within(e, 1) \o <<"[">> \o f.text \o <<"]">>,
     tree |-> bracketed(e.tree, "[", f.tree), level |-> 1]

call(args) ==
    [text |-> callNode("f", [k \in DOMAIN args |-> args[k].text]),
     tree |-> callNode("f", [k \in DOMAIN args |-> args[k].tree]), level |-> 0]

\* A text begins with a bracket, or with the name of what is called; of such a
\* text, something may follow the part it begins with.
BeginsBracketed(text) == text[1] = "(" \/ (Len(text) > 1 /\ text[2] = "(")
GoesOn(text) ==
    LET depth(k) == Cardinality({i \in 1 .. k : text[i] = "("})
                        - Cardinality({i \in 1 .. k : text[i] = ")"})
    IN  \E k \in 2 .. Len(text) - 1 : text[k] = ")" /\ depth(k) = 0

\* The arguments of calls, without those that are known to be parsed wrongly.
Passed(e) ==
    IF BeginsBracketed(e.text)
    THEN GoesOn(e.text) => "argument begins with a bracket" \in KnownDefects
    ELSE "," \in Range(e.text) => "argument has a comma" \in KnownDefects

\* The expressions with n operators, members, indices and calls.
Grammar[n \in 0 .. MaxOperators] ==
    IF n = 0 THEN {leaf}
    ELSE LET pairs == UNION {Grammar[k] \X Grammar[n - 1 - k] : k \in 0 .. n - 1}
             passed == {q \in pairs : Passed(q[1]) /\ Passed(q[2])}
         IN  {unary(op, e) : op \in UnaryIn, e \in Grammar[n - 1]}
                 \cup {binary(op, q[1], q[2]) : op \in BinaryIn, q \in pairs}
                 \cup {binary(".", e, leaf) : e \in Grammar[n - 1]}
                 \cup {index(q[1], q[2]) : q \in pairs}
                 \cup {call(<<e>>) : e \in {d \in Grammar[n - 1] : Passed(d)}}
                 \cup {call(<<q[1], q[2]>>) : q \in passed}
                 \cup (IF n = 1 THEN {call(<<>>)} ELSE {})

\* The statements that an expression can be in.
Statements(e) ==
    {[line |-> e.text, meant |-> e.tree],
     [line |-> <<"a", "=">> \o e.text, meant |-> <<"a", "=">> \o e.tree],
     [line |-> <<"if">> \o e.text \o <<"{">>, meant |-> <<"if">> \o e.tree],
     [line |-> <<"return">> \o e.text, meant |-> <<"return">> \o e.tree]}

\* Arbitrary lines, without those that are known to be parsed wrongly.
Ends(tok) == tok \in Names \cup Literals \cup {")", "]"}
Bracket(s, k) == k <= Len(s) /\ (s[k] = "(" \/ (k < Len(s) /\ s[k] \in Names /\ s[k + 1] = "("))
Admitted(s) ==
    /\ (\E k \in DOMAIN s : s[k] \in {"(", ","} /\ Bracket(s, k + 1))
           => "argument begins with a bracket" \in KnownDefects
    /\ (\E k \in 2 .. Len(s) : s[k] \in {",", ")"} /\ ~ Ends(s[k - 1]))
           => "argument is missing" \in KnownDefects
    /\ (\E k \in DOMAIN s : s[k] = "[" /\ (k = 1 \/ ~ Ends(s[k - 1])))
           => "index of nothing" \in KnownDefects
    /\ (\E k \in 2 .. Len(s) : s[k] = "-" /\ isOperator(s[k - 1]))
           => "minus is an operand" \in KnownDefects
    /\ (\E k \in 2 .. Len(s) : isUnary(s[k]) /\ Ends(s[k - 1]))
           => "parts side by side" \in KnownDefects

Lines == {s \in UNION {[1 .. n -> Alphabet] : n \in 1 .. MaxTokens} : Admitted(s)}

pending == [status |-> "pending", node |-> nil]

Init ==
    /\ result = pending
    /\ \/ \E n \in 0 .. MaxOperators : \E e \in Grammar[n] : \E s \in Statements(e) :
              line = s.line /\ meant = s.meant
       \/ line \in Lines /\ meant = nil

Parse ==
    /\ result = pending
    /\ LET r == parseInStatementContext
       IN  result' = [status |-> r.status, node |-> r.node]
    /\ UNCHANGED <<line, meant>>

Next == Parse

Spec == Init /\ [][Next]_vars

-----------------------------------------------------------------------------
(* Properties.                                                             *)

\* What the grammar has a tree for is parsed to this tree by parseExprUnit's heap of
\* operators: precedence, the order among equals, brackets, members, indices and
\* arguments.
SameAsGrammar == meant # nil /\ result # pending => result = [status |-> "ok", node |-> meant]

\* The tokens that are no round brackets, and not the one that opens a block.
Words(text) == SelectSeq(text, LAMBDA tok : tok \notin {"(", ")", "{"})

\* All of a line that is accepted is in its tree, in its order: no token is passed
\* over, not even where the parser skips what it has a node for, or the comma that
\* is behind an argument (parseCallList).
NothingLost == result.status = "ok" => Words(result.node) = Words(line)

\* No line leads to one of the parser's internal errors ("the whole range isn't
\* covered but a node that isn't parsed can't be found in the map", an open bracket
\* in a unit, an index that is not parsed), or is read forever.
ParserEnds == result.status \notin {"panic", "hang"}

=============================================================================
