SPECIFICATION Spec
CONSTANTS
    DailyDDPct = 2
    MaxDDPct = 4
    MaxRiskPct = 1
    DayLength = 1
    ResetAt = 0
    Whole = 2
    MinRR = 2
    SizingBalance = 400
    RiskPct = 1
    MaxLot = 2
    LotCost = 1
    Keys <- OneKeys
    Instruments <- OneInstrument
    Signals <- OneSignals
    Prices <- MCPrices
    MaxSignals = 4
    MaxDays = 1
INVARIANTS
    EveryCloseBooksEverything
CHECK_DEADLOCK FALSE
