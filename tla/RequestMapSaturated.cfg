CONSTANTS
    c1 = c1
    c2 = c2
    c3 = c3
    Calls = {c1, c2, c3}
    Abandoners = {c1, c2}
    Opcodes <- MCOpcodes
    Expected <- MCExpected
    MaxId = 2
SPECIFICATION FairSpec
PROPERTIES
    EveryCallResolves
CHECK_DEADLOCK FALSE
