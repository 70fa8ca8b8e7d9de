SPECIFICATION FairSpec
CONSTANTS
    DailyDDPct = 2
    MaxDDPct = 4
    MaxRiskPct = 1
    DayLength = 1
    ResetAt = 0
    Whole = 2
    MinRR = 2
    SizingBalance = 400
    RiskPct = 1
    MaxLot = 2
    LotCost = 1
    RealBalance = 380
    MinVolume = 1
    Keys <- MCKeys
    Instruments <- MCInstruments
    Signals <- MCSignals
    Prices <- MCPrices
    Times = {1}
    Answers = {"ok", "refused", "lost"}
    Accounting = {"real", "none"}
    MaxOrders = 1
INVARIANTS
    NothingStuck
    RemainderTracksBroker
PROPERTIES
    OpenEventuallyFlat
CHECK_DEADLOCK FALSE
