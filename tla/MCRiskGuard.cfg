SPECIFICATION Spec
CONSTANTS
    DailyDDPct = 10
    MaxDDPct = 20
    MaxRiskPct = 4
    DayLength = 3
    ResetAt = 1
    Balance = 100
    Pnls <- MCPnls
    Floatings <- MCFloatings
    Risks <- MCRisks
    RealBalances <- MCRealBalances
    MaxTime = 6
    MinBalance = 44
    MaxBalance = 112
    MaxResets = 2
    MaxRestarts = 1
    NoTrade = NoTrade
INVARIANTS
    TypeOK
    AboveFloorUnlessBreached
    OneHaltPerDay
    ApprovedLossFitsDailyBudget
PROPERTIES
    GateSpec
CHECK_DEADLOCK FALSE
