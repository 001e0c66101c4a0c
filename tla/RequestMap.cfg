CONSTANTS
    c1 = c1
    c2 = c2
    c3 = c3
    c4 = c4
    Calls = {c1, c2, c3, c4}
    Abandoners = {c1}
    Opcodes <- MCOpcodes
    Expected <- MCExpected
    MaxId = 2
SPECIFICATION Spec
SYMMETRY Symmetry
CHECK_DEADLOCK FALSE
INVARIANTS
    TypeOK
    IdAlwaysFree
    FullLap
    ReplyIsDeclaredAndOwn
    OutcomeIsOwn
    PermitAccounting
    EntryOwner
PROPERTIES
    LiveWaiterKept
