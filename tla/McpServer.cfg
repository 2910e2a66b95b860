SPECIFICATION FairSpec
CONSTANTS
    a1 = a1
    s2 = s2
    OtherServers <- MCOtherServers
    Approvals <- MCApprovals
    NoApproval = NoApproval
    MaxJobs = 2
    MaxFiles = 2
    MaxFaults = 2
INVARIANTS
    TypeOK
    OneJobPerApproval
    TokensAreLive
PROPERTIES
    JobsKeepLifecycle
    ApprovalsDecidedOnce
    QueuedIsPickedUp
CHECK_DEADLOCK FALSE
