SPECIFICATION CSpec
\* The procedure may be over: every variable is decommissioned.
CHECK_DEADLOCK FALSE
CONSTANTS
    a = a
    b = b
    c = c
    s = s
    t = t
    x = x
    y = y
    invalidVn = invalidVn
    junk = junk
    initialAvailable <- MCInitialAvailable
    SizeOf <- MCSizeOf
    Vars = {a, b, c, s}
    numRegisters = 3
    Val = {x, y}
    zero = x
    rdi = 0
    rsi = 1
    rdx = 1
    rax = 2
    rcx = 2
    r8 = 0
    r9 = 1
    paramPassingRegOrder <- MCParamPassingRegOrder
    regsThatGetDestroyed <- MCRegsThatGetDestroyed
    numPreserved = 5
    ImmediatesFor <- MCImmediatesFor
    argOffset <- MCArgOffset
    Addressed = {c}
    Pointers = {a}
    ArgLists <- MCArgLists
    Ending = {b}
    KnownDefects = {}
INVARIANTS
    ArgumentsArrive
PROPERTY
    ImplementsProgram
