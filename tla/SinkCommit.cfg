CONSTANTS
    Attempt = {a1, a2}
    Output = {1, 2}
    Uri <- OneEach
    QuarantineUri <- OneEach
    Database = {2}
    Mode <- Appending
    Policy <- Policies
    MaxValid = 1
    MaxBad = 2
    Overlap = FALSE
    NoFile = NoFile
    Free = Free
    Other = Other
    None = None
SPECIFICATION Spec
INVARIANTS
    FilesAreWhole
    SuccessIsComplete
    FailedGroupPublishesNothing
    TablesHoldCommittedRows
    QuarantineWithinPolicy
CHECK_DEADLOCK FALSE
SYMMETRY Symmetry
