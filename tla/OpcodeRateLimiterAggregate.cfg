CONSTANTS
    Types <- MCTypes
    Opcodes <- MCOpcodes
    WireByte <- MCWireByte
    TxTable <- MCTxTable
    OtherTable <- MCOtherTable
    DefaultSettings <- MCDefaultSettings
    NonTxFrequency = 4
    NonTxMaxTotalSize = 6
    FactorNum = 1
    FactorDen = 2
    ResetSeconds = 2
    Sizes <- MCSizes
    MaxClock = 3
    MaxCalls = 4
SPECIFICATION Spec
INVARIANTS
    AggregateSparesTransactions
