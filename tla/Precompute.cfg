SPECIFICATION Spec
CONSTANTS
    a = a
    b = b
    r = r
    t = t
    q1 = q1
    q2 = q2
    junk = junk
    Vars = {a, r, t, q1, q2}
    Base = 3
    Immediates = {1}
    Declares <- MCPointers
    Reassigned = {a}
    Logical = {t}
    Pointers = {q1, q2}
    Addressed = {a, r}
    AddressedInside = {r}
    LoopsInElse = FALSE
    ComparesAssigned = FALSE
    MaxInsts = 6
    MaxDepth = 2
INVARIANTS
    SameAsIR
    NeverPanics
PROPERTIES
    RoundsAgree
    NeverAgain
CHECK_DEADLOCK FALSE
