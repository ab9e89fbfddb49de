SPECIFICATION Spec
CONSTANTS
    a = a
    b = b
    Names = {a}
    Args <- OneArg
    Expressions <- Conjunctions
    Statements = {"declaration", "declare", "update", "break", "continue", "if", "loop"}
    LoopKinds = {"range", "named range", "while", "forever"}
    SelfReference = FALSE
    MaxNodes = 4
    MaxDepth = 3
INVARIANTS
    ListsExact
    JumpsLand
\* The procedure ends, or a user error ends it.
CHECK_DEADLOCK FALSE
