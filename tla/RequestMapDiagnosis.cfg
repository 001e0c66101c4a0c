CONSTANTS
    c1 = c1
    c2 = c2
    Calls = {c1, c2}
    Abandoners = {}
    Opcodes <- MCOpcodes
    Expected <- MCExpected
    MaxId = 2
SPECIFICATION Spec
INVARIANTS
    RecordedCollisionIsReported
CHECK_DEADLOCK FALSE
