SPECIFICATION FairSpec
CONSTANTS
    w1 = w1
    w2 = w2
    s1 = s1
    s2 = s2
    s3 = s3
    Workspace = {w1, w2}
    Source = {s1, s2, s3}
    saved = w1
    home <- MCHome
    Known = {s1, s3}
    Filter = {all, some}
    NoFilter = all
    LastOffset = 1
    MaxEvents = 2
    Message = Message
    None = None
INVARIANTS
    WorkspaceIsolation
PROPERTIES
    LoadingEnds
CHECK_DEADLOCK FALSE
