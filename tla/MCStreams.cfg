SPECIFICATION FairDataSpec
CONSTANTS
    Total = 16
    MaxLength = 16
    MaxRaw = 6
    WriterSize = 3
    ReaderSize = 2
    SocketSize = 2
    Plans <- MCPlans
INVARIANTS
    ReadsWhatWasWritten
    InStep
PROPERTIES
    FlushedArrives
CHECK_DEADLOCK FALSE
