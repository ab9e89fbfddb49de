------------------------- MODULE ParserStackProofs --------------------------
(* Theorems about ParserStack.                                             *)
EXTENDS ParserStack, SequenceTheorems, TLAPS

Context == {"global", "struct"}

\* What ContextsMatch needs to be inductive: the struct's context lies on the
\* global one, which is left when the struct ends.
ContextInv ==
    /\ source \in Seq(LineKinds)
    /\ incompleteStack \in Seq(Node)
    /\ contextStack \in Seq(Context)
    /\ contextStack # <<>> /\ contextStack[1] = "global"
    /\ ContextsMatch

LEMMA NodeType ==
    ASSUME source \in Seq(LineKinds), NEW kind \in AllKinds
    PROVE  node(kind) \in Node /\ node(kind).kind = kind
BY DEF node, Node

\* Pushing onto the stack of blocks, as a fact about sequences.
LEMMA Pushed ==
    ASSUME NEW S, NEW s \in Seq(S), NEW e \in S
    PROVE  /\ Append(s, e) \in Seq(S) /\ Len(Append(s, e)) = Len(s) + 1
           /\ Last(Append(s, e)) = e
           /\ \A i \in DOMAIN s : Append(s, e)[i] = s[i]
BY DEF Last

\* Popping from it.
LEMMA Popped ==
    ASSUME NEW S, NEW s \in Seq(S), s # <<>>
    PROVE  /\ Front(s) \in Seq(S) /\ Len(Front(s)) = Len(s) - 1
           /\ Last(s) \in S
           /\ \A i \in 1 .. Len(s) - 1 : Front(s)[i] = s[i]
<1>1. /\ Len(s) \in Nat \ {0}
      /\ \A i \in 1 .. Len(s) : s[i] \in S
  <2>1. Len(s) \in Nat \ {0}
    BY EmptySeq
  <2>2. s \in [1 .. Len(s) -> S]
    BY LenProperties
  <2> QED BY <2>1, <2>2
<1> DEFINE n == Len(s) - 1
<1>2. n \in Nat /\ \A i \in 1 .. n : s[i] \in S
  BY <1>1
<1>3. Front(s) = SubSeq(s, 1, n) /\ Last(s) \in S
  BY <1>1 DEF Front, Last
<1> HIDE DEF n
<1>4. /\ SubSeq(s, 1, n) \in Seq(S)
      /\ Len(SubSeq(s, 1, n)) = IF 1 <= n THEN n - 1 + 1 ELSE 0
      /\ \A i \in 1 .. n - 1 + 1 : SubSeq(s, 1, n)[i] = s[1 + i - 1]
  BY <1>2, SubSeqProperties
<1>5. Len(SubSeq(s, 1, n)) = n /\ \A i \in 1 .. n : SubSeq(s, 1, n)[i] = s[i]
  BY <1>2, <1>4
<1> QED BY <1>3, <1>4, <1>5 DEF n

\* A block that is no struct is opened outside of structs.
LEMMA OpenedOutside ==
    ASSUME ContextInv, currentContext # "struct",
           NEW kind \in AllKinds \ {"struct"},
           NEW rest \in Seq(Node),
           rest = incompleteStack
              \/ (incompleteStack # <<>> /\ rest = Front(incompleteStack)),
           incompleteStack' = Append(rest, node(kind)),
           contextStack' = contextStack,
           source' \in Seq(LineKinds)
    PROVE  ContextInv'
<1>1. node(kind) \in Node /\ node(kind).kind = kind
  BY NodeType DEF ContextInv
<1>2. \A i \in DOMAIN rest : rest[i].kind # "struct"
  <2>1. CASE rest = incompleteStack
    BY <2>1 DEF ContextInv, ContextsMatch
  <2>2. CASE incompleteStack # <<>> /\ rest = Front(incompleteStack)
    <3>1. incompleteStack \in Seq(Node) /\ incompleteStack # <<>>
      BY <2>2 DEF ContextInv
    <3>2. /\ Len(rest) = Len(incompleteStack) - 1
          /\ \A i \in 1 .. Len(incompleteStack) - 1 : rest[i] = incompleteStack[i]
      BY <2>2, <3>1, Popped
    <3>3. /\ DOMAIN rest = 1 .. Len(rest) /\ Len(incompleteStack) \in Nat
          /\ DOMAIN incompleteStack = 1 .. Len(incompleteStack)
      BY <3>1, LenProperties
    <3>4. \A i \in DOMAIN incompleteStack : incompleteStack[i].kind # "struct"
      BY DEF ContextInv, ContextsMatch
    <3> QED BY <3>2, <3>3, <3>4
  <2> QED BY <2>1, <2>2
<1>3. /\ incompleteStack' \in Seq(Node) /\ Len(incompleteStack') = Len(rest) + 1
      /\ incompleteStack'[Len(incompleteStack')].kind # "struct"
      /\ \A i \in DOMAIN rest : incompleteStack'[i] = rest[i]
  BY <1>1, Pushed DEF Last
<1>4. \A i \in DOMAIN incompleteStack' : incompleteStack'[i].kind # "struct"
  BY <1>2, <1>3
<1>5. currentContext' = currentContext
  BY DEF currentContext
<1>6. ContextsMatch'
  BY <1>4, <1>5 DEF ContextInv, ContextsMatch
<1> QED BY <1>3, <1>6 DEF ContextInv

\* Nothing that the two stacks depend on changes.
LEMMA StacksStay ==
    ASSUME ContextInv, UNCHANGED parser, source' \in Seq(LineKinds)
    PROVE  ContextInv'
BY DEF ContextInv, ContextsMatch, currentContext, parser

LEMMA Initially == Init => ContextInv
BY DEF Init, ContextInv, Context, ContextsMatch, currentContext, Last

LEMMA Inductive == ContextInv /\ [Next]_vars => ContextInv'
<1> SUFFICES ASSUME ContextInv, [Next]_vars PROVE ContextInv'
  OBVIOUS
<1> USE LinesAssumption
<1>1. ASSUME NEW kind \in AllKinds, Feed(kind) PROVE source' \in Seq(LineKinds)
  BY <1>1 DEF Feed, ContextInv
<1>2. ASSUME NEW kind \in AllKinds, Feed(kind), kind # "}", kind # "field", kind # "word"
      PROVE  currentContext # "struct"
  BY <1>2 DEF Feed, Parses
<1>3. CASE DeclareProc
  BY <1>1, <1>2, <1>3, OpenedOutside
     DEF DeclareProc, startNewBlock, ContextInv, AllKinds
<1>4. CASE DeclareForeign
  BY <1>1, <1>2, <1>4, OpenedOutside
     DEF DeclareForeign, startNewBlock, ContextInv, AllKinds
<1>5. ASSUME NEW kind \in LineKinds, OpenBlock(kind) PROVE ContextInv'
  BY <1>1, <1>2, <1>5, OpenedOutside
     DEF OpenBlock, startNewBlock, ContextInv, AllKinds
<1>6. CASE CloseElse
  <2>1. Front(incompleteStack) \in Seq(Node)
    BY <1>6, Popped DEF CloseElse, ContextInv
  <2> QED BY <1>1, <1>2, <1>6, <2>1, OpenedOutside DEF CloseElse, AllKinds
<1>7. CASE DeclareStruct
  <2>1. node("struct") \in Node /\ node("struct").kind = "struct"
    BY NodeType DEF ContextInv, AllKinds
  <2>2. currentContext # "struct" /\ source' \in Seq(LineKinds)
    BY <1>1, <1>2, <1>7 DEF DeclareStruct, AllKinds
  <2>3. /\ incompleteStack' \in Seq(Node)
        /\ Len(incompleteStack') = Len(incompleteStack) + 1
        /\ incompleteStack'[Len(incompleteStack')].kind = "struct"
        /\ \A i \in DOMAIN incompleteStack : incompleteStack'[i] = incompleteStack[i]
    BY <1>7, <2>1, Pushed DEF DeclareStruct, startNewBlock, ContextInv, Last
  <2>4. \A i \in DOMAIN incompleteStack : incompleteStack[i].kind # "struct"
    BY <2>2 DEF ContextInv, ContextsMatch
  <2>5. /\ contextStack' \in Seq(Context)
        /\ Len(contextStack') = 2 /\ Last(contextStack') = "struct"
        /\ contextStack'[1] = "global"
    <3>1. /\ contextStack' = Append(contextStack, "struct") /\ "struct" \in Context
          /\ contextStack \in Seq(Context) /\ Len(contextStack) = 1 /\ contextStack[1] = "global"
      BY <1>7, <2>2 DEF DeclareStruct, ContextInv, ContextsMatch, Context
    <3> QED BY <3>1 DEF Last
  <2>6. currentContext' = "struct"
    BY <2>5 DEF currentContext
  <2>7. /\ Len(incompleteStack) \in Nat /\ DOMAIN incompleteStack = 1 .. Len(incompleteStack)
        /\ contextStack' # <<>> /\ incompleteStack' # <<>>
    <3>1. /\ Len(incompleteStack) \in Nat
          /\ DOMAIN incompleteStack = 1 .. Len(incompleteStack)
      BY LenProperties DEF ContextInv
    <3>2. contextStack' # <<>>
      BY <2>5
    <3>3. incompleteStack' # <<>>
      BY <2>3, <3>1
    <3> QED BY <3>1, <3>2, <3>3
  <2>8. ContextsMatch'
    BY <2>3, <2>4, <2>5, <2>6, <2>7 DEF ContextsMatch
  <2> QED BY <2>2, <2>3, <2>5, <2>6, <2>7, <2>8 DEF ContextInv
<1>8. CASE CloseBlock
  <2> DEFINE top == Last(incompleteStack)
  <2>1. incompleteStack # <<>> /\ source' \in Seq(LineKinds)
    BY <1>1, <1>8 DEF CloseBlock, AllKinds
  <2>2. /\ incompleteStack' \in Seq(Node)
        /\ Len(incompleteStack') = Len(incompleteStack) - 1
        /\ \A i \in 1 .. Len(incompleteStack) - 1 : incompleteStack'[i] = incompleteStack[i]
    BY <1>8, <2>1, Popped DEF CloseBlock, ContextInv
  <2>3. \A i \in DOMAIN incompleteStack' : incompleteStack'[i].kind # "struct"
    <3>1. /\ Len(incompleteStack) \in Nat
          /\ DOMAIN incompleteStack = 1 .. Len(incompleteStack)
          /\ DOMAIN incompleteStack' = 1 .. Len(incompleteStack')
      BY <2>2, LenProperties DEF ContextInv
    <3>2. \A i \in 1 .. Len(incompleteStack) - 1 : incompleteStack[i].kind # "struct"
      BY <3>1 DEF ContextInv, ContextsMatch
    <3> QED BY <2>2, <3>1, <3>2
  <2>4. top.kind = "struct" <=> currentContext = "struct"
    BY <2>1 DEF ContextInv, ContextsMatch, Last
  <2>5. /\ contextStack' \in Seq(Context) /\ Len(contextStack') = 1
        /\ contextStack'[1] = "global"
    <3>1. CASE currentContext = "struct"
      <4>1. contextStack' = Front(contextStack)
        BY <1>8, <2>4, <3>1 DEF CloseBlock
      <4>2. /\ contextStack \in Seq(Context) /\ contextStack # <<>>
            /\ Len(contextStack) = 2 /\ contextStack[1] = "global"
        BY <3>1 DEF ContextInv, ContextsMatch
      <4>3. /\ Front(contextStack) \in Seq(Context)
            /\ Len(Front(contextStack)) = Len(contextStack) - 1
            /\ \A i \in 1 .. Len(contextStack) - 1 : Front(contextStack)[i] = contextStack[i]
        BY <4>2, Popped
      <4> QED BY <4>1, <4>2, <4>3
    <3>2. CASE currentContext # "struct"
      BY <1>8, <2>4, <3>2 DEF CloseBlock, ContextInv, ContextsMatch
    <3> QED BY <3>1, <3>2
  <2>6. currentContext' # "struct" /\ contextStack' # <<>>
    BY <2>5 DEF currentContext, Last
  <2>7. ContextsMatch'
    BY <2>3, <2>5, <2>6 DEF ContextsMatch
  <2> QED BY <2>1, <2>2, <2>5, <2>6, <2>7 DEF ContextInv
<1>9. ASSUME NEW kind \in LineKinds, Simple(kind) PROVE ContextInv'
  BY <1>1, <1>9, StacksStay DEF Simple
<1>10. ASSUME NEW kind \in LineKinds, Fail(kind) PROVE ContextInv'
  <2>1. source' \in Seq(LineKinds)
    <3>1. source' = Append(source, kind) /\ source \in Seq(LineKinds)
      BY <1>10 DEF Fail, ContextInv
    <3> QED BY <3>1, Pushed
  <2>2. UNCHANGED parser
    BY <1>10 DEF Fail
  <2> QED BY <2>1, <2>2, StacksStay
<1>11. CASE UNCHANGED vars
  BY <1>11, StacksStay DEF vars, ContextInv
<1> QED BY <1>3, <1>4, <1>5, <1>6, <1>7, <1>8, <1>9, <1>10, <1>11 DEF Next

\* Whatever lines come, the stack of contexts tells whether the innermost open
\* block is a struct.
THEOREM ContextsAlwaysMatch == Spec => []ContextsMatch
<1>1. ContextInv => ContextsMatch
  BY DEF ContextInv
<1> QED BY Initially, Inductive, <1>1, PTL DEF Spec

-----------------------------------------------------------------------------
(* Types.                                                                  *)

\* The part of TypeOK that ContextInv does not have.
CollectedOK ==
    /\ parseFailed \in BOOLEAN
    /\ currentProc \in Node \cup {nil} /\ nodesForProc \in Seq(Node)
    /\ workOrders \in Seq([proc : Node, in : Seq(Node)])
    /\ members \in Seq([of : Node, field : Node])

\* Nodes are added to those collected, or nothing is collected.
LEMMA CollectsNodes ==
    ASSUME CollectedOK, NEW nodes \in Seq(Node), Collect(nodes)
    PROVE  /\ currentProc' \in Node \cup {nil} /\ nodesForProc' \in Seq(Node)
           /\ workOrders' \in Seq([proc : Node, in : Seq(Node)])
<1>1. nodesForProc \o nodes \in Seq(Node)
  BY ConcatProperties DEF CollectedOK
<1> QED BY <1>1 DEF Collect, CollectedOK

\* What is handed over is a procedure with nodes.
LEMMA HandsOverNodes ==
    ASSUME CollectedOK, NEW proc \in Node, NEW last \in Node, HandOver(proc, last)
    PROVE  /\ currentProc' \in Node \cup {nil} /\ nodesForProc' \in Seq(Node)
           /\ workOrders' \in Seq([proc : Node, in : Seq(Node)])
<1>1. Append(nodesForProc, last) \in Seq(Node)
  BY Pushed DEF CollectedOK
<1>2. [proc |-> proc, in |-> Append(nodesForProc, last)] \in [proc : Node, in : Seq(Node)]
  BY <1>1
<1>3. workOrders' \in Seq([proc : Node, in : Seq(Node)])
  BY <1>2, Pushed DEF HandOver, CollectedOK
<1>4. nodesForProc' \in Seq(Node) /\ currentProc' \in Node \cup {nil}
  BY DEF HandOver
<1> QED BY <1>3, <1>4

LEMMA CollectedInductive ==
    ASSUME ContextInv, CollectedOK, [Next]_vars
    PROVE  CollectedOK'
<1> USE LinesAssumption
<1>1. ASSUME NEW kind \in AllKinds
      PROVE  node(kind) \in Node /\ <<node(kind)>> \in Seq(Node)
  BY <1>1, NodeType DEF ContextInv
<1>2. ASSUME NEW kind, Feed(kind) PROVE parseFailed' \in BOOLEAN
  BY <1>2 DEF Feed, CollectedOK
<1>3. CASE DeclareProc
  BY <1>1, <1>2, <1>3 DEF DeclareProc, CollectedOK, AllKinds
<1>4. CASE DeclareForeign
  BY <1>1, <1>2, <1>4, HandsOverNodes DEF DeclareForeign, CollectedOK, AllKinds
<1>5. ASSUME NEW kind \in LineKinds, OpenBlock(kind) PROVE CollectedOK'
  BY <1>1, <1>2, <1>5, CollectsNodes DEF OpenBlock, CollectedOK
<1>6. CASE CloseElse
  <2>1. node("}") \in Node /\ node("else") \in Node
    BY <1>1 DEF AllKinds
  <2>2. <<node("}"), node("else")>> \in Seq(Node)
    <3> DEFINE first == node("}")
               second == node("else")
    <3> HIDE DEF first, second
    <3>1. first \in Node /\ second \in Node => <<first, second>> \in Seq(Node)
      OBVIOUS
    <3> QED BY <2>1, <3>1 DEF first, second
  <2> QED BY <1>2, <1>6, <2>2, CollectsNodes DEF CloseElse, CollectedOK
<1>7. CASE DeclareStruct
  BY <1>1, <1>2, <1>7, CollectsNodes DEF DeclareStruct, CollectedOK, AllKinds
<1>8. CASE CloseBlock
  <2>1. node("}") \in Node /\ <<node("}")>> \in Seq(Node)
    BY <1>1 DEF AllKinds
  <2>2. CASE Last(incompleteStack) = currentProc
    <3>1. Last(incompleteStack) \in Node
      BY <1>8, Popped DEF CloseBlock, ContextInv
    <3>2. HandOver(currentProc, node("}")) /\ currentProc \in Node
      BY <1>8, <2>2, <3>1 DEF CloseBlock
    <3> QED BY <1>2, <1>8, <2>1, <3>2, HandsOverNodes DEF CloseBlock, CollectedOK
  <2>3. CASE Last(incompleteStack) # currentProc
    BY <1>2, <1>8, <2>1, <2>3, CollectsNodes DEF CloseBlock, CollectedOK
  <2> QED BY <2>2, <2>3
<1>9. ASSUME NEW kind \in LineKinds, Simple(kind) PROVE CollectedOK'
  <2>1. node(kind) \in Node /\ <<node(kind)>> \in Seq(Node)
    BY <1>1
  <2>2. members' \in Seq([of : Node, field : Node])
    <3>1. CASE members' = members
      BY <3>1 DEF CollectedOK
    <3>2. CASE members' # members
      <4>1. /\ incompleteStack # <<>>
            /\ members' = Append(members, [of |-> Last(incompleteStack), field |-> node(kind)])
        BY <1>9, <3>2 DEF Simple
      <4>2. Last(incompleteStack) \in Node
        BY <4>1, Popped DEF ContextInv
      <4>3. [of |-> Last(incompleteStack), field |-> node(kind)] \in [of : Node, field : Node]
        BY <2>1, <4>2
      <4> QED BY <4>1, <4>3, Pushed DEF CollectedOK
    <3> QED BY <3>1, <3>2
  <2> QED BY <1>2, <1>9, <2>1, <2>2, CollectsNodes DEF Simple, CollectedOK
<1>10. ASSUME NEW kind \in LineKinds, Fail(kind) PROVE CollectedOK'
  BY <1>10 DEF Fail, CollectedOK, procs
<1>11. CASE UNCHANGED vars
  BY <1>11 DEF vars, procs, CollectedOK
<1> QED BY <1>3, <1>4, <1>5, <1>6, <1>7, <1>8, <1>9, <1>10, <1>11 DEF Next

\* The parser and the loop around it keep the types of their variables.
THEOREM ParserTypes == Spec => []TypeOK
<1>1. Init => ContextInv /\ CollectedOK
  <2>1. \A S : <<>> \in Seq(S)
    OBVIOUS
  <2>2. Init => CollectedOK
    BY <2>1 DEF Init, CollectedOK
  <2> QED BY <2>2, Initially
<1>2. ContextInv /\ CollectedOK /\ [Next]_vars => ContextInv' /\ CollectedOK'
  BY Inductive, CollectedInductive
<1>3. ContextInv /\ CollectedOK => TypeOK
  <2>1. LineKinds \subseteq AllKinds
    BY LinesAssumption
  <2>2. source \in Seq(LineKinds) => source \in Seq(AllKinds)
    BY <2>1
  <2> QED BY <2>2 DEF ContextInv, CollectedOK, TypeOK, Context
<1> QED BY <1>1, <1>2, <1>3, PTL DEF Spec

=============================================================================
