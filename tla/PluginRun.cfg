SPECIFICATION FairSpec
CONSTANTS
    MaxOutputs = 2
    MaxBatches = 2
    SocketRoom = 3
    PipeRoom = 1
    None = None
INVARIANTS
    OutputsAreWhole
    ProtocolAgrees
    GuestsAreReaped
PROPERTIES
    RunEnds
CHECK_DEADLOCK FALSE
