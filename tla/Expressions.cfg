SPECIFICATION Spec
\* A line has been parsed.
CHECK_DEADLOCK FALSE
CONSTANTS
    Names = {"a", "f"}
    Literals = {"1"}
    Alphabet = {"a", "1", "+", "-", "@", "(", ")", "[", "]", ",", "="}
    MaxTokens = 5
    BinaryIn = {"*", "+", "-", "==", "&&"}
    UnaryIn = {"@", "!"}
    MaxOperators = 3
    KnownDefects = {}
INVARIANTS
    SameAsGrammar
    NothingLost
    ParserEnds
