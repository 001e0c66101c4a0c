CONSTANTS
    s1 = s1
    s2 = s2
    big = big
    close = close
    Types <- MCTypes
    Opcodes <- MCOpcodes
    WireByte <- MCWireByte
    TxTable <- MCTable
    OtherTable <- MCTable
    DefaultSettings <- MCRateLimit
    NonTxFrequency = 1
    NonTxMaxTotalSize = 2
    FactorNum = 1
    FactorDen = 1
    ResetSeconds = 2
    Message <- MCMessage
    Backoff = 1
    SendTimeout = 3
    Senders = {s1, s2, big}
    Closers = {close}
    Droppers = {s1}
    LastStart = 0
    MaxNow = 3
SPECIFICATION FairSpec
CHECK_DEADLOCK FALSE
INVARIANTS
    TypeOK
    ChargedOnce
    WireBudget
    TimeoutMeansBusy
PROPERTIES
    EveryCallEnds
    SinkIsFair
