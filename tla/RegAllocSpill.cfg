SPECIFICATION Spec
CONSTANTS
    a = a
    b = b
    c = c
    s = s
    t = t
    x = x
    y = y
    invalidVn = invalidVn
    junk = junk
    initialAvailable <- MCInitialAvailable
    SizeOf <- MCSizeOf
    Vars = {a, b, c, s}
    numRegisters = 2
    Val = {x}
    zero = x
    rax = 0
    rcx = 0
    rdx = 1
    rsi = 0
    rdi = 1
    r9 = 1
    ImmediatesFor <- MCOneImmediate
    argOffset <- MCArgOffset
INVARIANTS
    RegistersAgree
    AvailableIsFree
    SlotsDisjoint
    NeverPanics
    ValuesSurvive
PROPERTIES
    ImplementsStore
    SlotsStay
    OperandsStay
