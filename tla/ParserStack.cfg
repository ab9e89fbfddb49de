SPECIFICATION Spec
\* A source may be over.
CHECK_DEADLOCK FALSE
CONSTANTS
    LineKinds = {"proc", "foreign", "struct", "if", "else", "} else", "}",
                 "field", "statement"}
    MaxLines = 7
INVARIANTS
    ContextsMatch
    OrdersExact
