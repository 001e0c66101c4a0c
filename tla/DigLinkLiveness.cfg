CONSTANTS
    infallible = infallible
    fallible = fallible
    Calls = {infallible, fallible}
    Abandoners = {}
    Opcodes <- MCOpcodes
    Request <- MCRequest
    MaxId = 1
    ChannelCapacity = 1
    Frames <- MCFewFrames
    MaxFrames = 2
SPECIFICATION FairSpec
CHECK_DEADLOCK FALSE
INVARIANTS
    TypeOK
PROPERTIES
    EveryFrameRouted
    DroppedLinkStops
    EveryCallEnds
