CONSTANTS
    c1 = c1
    c2 = c2
    c3 = c3
    Calls = {c1, c2, c3}
    Abandoners = {}
    Opcodes <- MCOpcodes
    Expected <- MCExpected
    MaxId = 1
SPECIFICATION Spec
INVARIANTS
    RecvOnlyWhenClosed
CHECK_DEADLOCK FALSE
