CONSTANTS
    AdsBits = 3
    AdsWidth = 5
    ReadyTimeout = 3
    Conversion = 2
    MaxPinErrors = 2
    MaxStalls = 2
    GdBits = 3
    Registers = 4
    MaxUpsets = 2
SPECIFICATION BenchSpec
INVARIANT BenchTypeOK
PROPERTIES ReportsAreTrue StatusAnswersRequest
