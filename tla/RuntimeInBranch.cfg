SPECIFICATION Spec
CONSTANTS
    a = a
    b = b
    r = r
    t = t
    q1 = q1
    q2 = q2
    junk = junk
    Vars = {r, t}
    Base = 3
    Immediates = {1}
    Declares <- MCNumbers
    Reassigned = {r}
    Logical = {t}
    Pointers = {}
    Addressed = {}
    AddressedInside = {}
    LoopsInElse = FALSE
    ComparesAssigned = FALSE
    MaxInsts = 6
    MaxDepth = 2
INVARIANTS
    SameAsIR
CHECK_DEADLOCK FALSE
