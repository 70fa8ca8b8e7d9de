SPECIFICATION OfflineSpec
CONSTANTS
    Atr = 4
    Shapes <- MCShapes
    PathLength = 5
    Delay = 2
    Checkpoint = 3
    Lookback = 3
    Kinds <- MCKinds
    Instruments = {eur, usd}
    RuleSets <- MCRules
    DailyDD = 4
    MaxDD = 5
    PerDay = 2
    AtOnce = 2
    MaxOpenRisk = 2
    TradeRisk = 1
    SlotsPerDay = 2
    MaxSlots = 6
    MaxTrades = 4
INVARIANTS
    ResultsWithinReach
    ModelsComparable
    PassMeansAlive
    SimulatorsAgree
    GapsHealed
CHECK_DEADLOCK FALSE
