SPECIFICATION FairSpec
CONSTANTS
    Strategies <- MCStrategies
    Instrument <- MCInstrument
    Instruments <- MCInstruments
    Windows <- MCWindows
    MaxSignals = 2
INVARIANTS
    BookedBeforeGone
PROPERTIES
    FlatInTheEnd
    ShutdownTerminates
    ChatCommandsHold
CHECK_DEADLOCK FALSE
