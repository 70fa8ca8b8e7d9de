SPECIFICATION ResearchSpec
CONSTANTS
    Silence = 2
    MaxRetries = 1
    MaxThreads = 1
    MaxTime = 12
    Frames <- MCFrames
    Interval <- MCInterval
    MaxHistory = 2
    Begin <- MCBegin
    Variants <- MCVariants
    Timeframe <- MCTimeframe
    Straddlers <- MCStraddlers
    Expiry <- MCExpiry
    Levels <- MCLevels
    MaxArmed = 12
    MaxCandles = 4
    Base = "5m"
    Bars <- MCBars
    MaxBars = 4
    MinCandles = 3
    Warmups <- MCWarmups
    Trades <- MCTrades
    DedupKey <- MCDedupKey
    MaxBuffer = 2
    MaxHanded = 3
    Closed <- MCClosed
    Moments <- MCMoments
    Requests <- MCRequests
    Needed = 50
    MaxTries = 2
INVARIANTS
    HistoryInOrder
    ArmedIsWatched
    WindowsKept
    NothingLost
    ReadyAtOpen
PROPERTIES
    OutagesKeepCandles
    DeadFeedNoticed
    EventuallyWritten
CHECK_DEADLOCK FALSE
