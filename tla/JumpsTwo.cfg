SPECIFICATION JSpec
CONSTANTS
    a = a
    b = b
    c = c
    s = s
    x = x
    y = y
    invalidVn = invalidVn
    junk = junk
    initialAvailable <- MCInitialAvailable
    SizeOf <- MCSizeOf
    Vars = {a, b, c, s}
    numRegisters = 2
    Val = {x, y}
    zero = x
    rax = 0
    rcx = 0
    rdx = 1
    rsi = 0
    rdi = 0
    r9 = 1
    ImmediatesFor <- MCOwnImmediate
    argOffset <- MCArgOffset
    MaxBefore = 3
    MaxBetween = 2
INVARIANTS
    ValuesArrive
    MorphKeepsTables
    QuietMeansNoCode
PROPERTIES
    MorphStaysInFrame
    MorphTerminates
CHECK_DEADLOCK FALSE
