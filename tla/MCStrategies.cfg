SPECIFICATION MarketSpec
CONSTANTS
    Prices <- MCPrices
    MinRange = 1
    MaxRange = 2
    Distances <- MCDistances
    MinStop = 1
    RewardRatio = 2
    VwapCooldown = 2
    EmaCooldown = 2
    VwapTrades = 2
    SqueezeTrades = 1
    ChopWindow = 3
    MaxFlips = 2
    MinSqueeze = 2
    Missing = 1
    MaxCandles = 6
    MaxDays = 2
INVARIANTS
    StopsLose
    Rationed
    CausedToday
    PortFollows
CHECK_DEADLOCK FALSE
