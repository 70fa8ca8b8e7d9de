SPECIFICATION PaperSpec
CONSTANTS
    Tokens <- MCTokens
    Hour = 1
    MorningEnd = 4
    MiddayEnd = 5
    AutoSquareOff = 7
    DayEnd = 7
    MinAtrs = 2
    MinHistory = 2
    Rsis <- MCRsis
    Volatile <- MCVolatile
    Structured <- MCStructured
    MaxStarts = 2
    MaxRaised = 1
PROPERTY
    RegimeUpdatedEachCandle
CHECK_DEADLOCK FALSE
