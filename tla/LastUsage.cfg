SPECIFICATION Spec
CONSTANTS
    a = a
    b = b
    Names = {a, b}
    Args <- OneArg
    Expressions <- Sums
    Statements = {"declare", "assign", "write", "call", "return", "break", "continue", "if", "loop"}
    LoopKinds = {"range", "while"}
    SelfReference = FALSE
    MaxNodes = 4
    MaxDepth = 2
INVARIANTS
    LastUsageIsLast
    TemporariesDie
    ReadsDefined
\* The procedure ends, or a user error ends it.
CHECK_DEADLOCK FALSE
