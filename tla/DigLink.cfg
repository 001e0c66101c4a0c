CONSTANTS
    infallible = infallible
    fallible = fallible
    Calls = {infallible, fallible}
    Abandoners = {infallible}
    Opcodes <- MCOpcodes
    Request <- MCRequest
    MaxId = 2
    ChannelCapacity = 1
    Frames <- MCFrames
    MaxFrames = 2
SPECIFICATION Spec
CHECK_DEADLOCK FALSE
INVARIANTS
    EveryMessageAccounted
    ChannelInOrder
    LastArmUnreachable
PROPERTIES
    ImplementsService
