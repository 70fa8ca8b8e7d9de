SPECIFICATION NseSpec
CONSTANTS
    Strategies <- MCStrategies
    MaySignal <- MCMaySignal
    Prices <- MCPrices
    Distances <- MCDistances
    RewardRatio = 1
    Slippages <- MCSlippages
    Window = 0
    LastEntry = 1
    SquareOff = 2
    Close = 2
    MaxSignals = 3
    Tokens <- MCTokens
    Hour = 1
    MorningEnd = 3
    MiddayEnd = 5
    AutoSquareOff = 7
    DayEnd = 7
    MinAtrs = 2
    MinHistory = 2
    Rsis <- MCRsis
    Volatile <- MCVolatile
    Structured <- MCStructured
    MaxStarts = 2
    MaxRaised = 1
INVARIANTS
    ConfluenceEarned
    TradedOnce
    SameCandleSameView
    TradesAccounted
    OverdueLeavesOnTick
PROPERTIES
    FlatAfterSquareOff
CHECK_DEADLOCK FALSE
