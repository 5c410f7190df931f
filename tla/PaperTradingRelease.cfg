SPECIFICATION Spec
CONSTANTS
    Engines = {"paper-trading-runtime"}
    PolicyCommands <- OipCommands
    ExecutionCommands <- PexCommands
    SettlementCommands <- SrCommands
    PipelineCommands <- PtrCommands
    Quantities <- PtrQuantities
    OrderIds <- OipOrders
    Unit <- OrderUnit
    Trades <- SrTrades
    Grace <- SrGrace
    MaxIntents <- SrMaxIntents
    Bounds <- MCBounds
    MaxLog = 32
    CrashKinds = {"power"}
    CheckpointAt = 0
    FaultsAt = {}
    Strays = {}
CHECK_DEADLOCK FALSE
INVARIANT
    UnpostedFillsStayReserved
