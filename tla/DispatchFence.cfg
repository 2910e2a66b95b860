CONSTANTS
    Job = {1}
    Worker = {w1, w2}
    Parser = {p1}
    Run = {r1}
    Token = {t1, t2}
    NoWorker = NoWorker
    NoRun = NoRun
    NoToken = NoToken
    NoLease = NoLease
    MAX_RETRY_COUNT = 1
    CIRCUIT_BREAKER_THRESHOLD = 3
    max_workers = 2
    Cancelled = {1}
    Mortal = {w1, w2}
    Beating = {}
    MaxStarts = 1
    Failures = {"transient", "permanent", "fail_dispatch", "defer_dispatch"}
    Capacity = 1
SPECIFICATION Spec
SYMMETRY LeaseSymmetry
INVARIANTS
    CompletedWasCommitted
    MaterializedWasCommitted
    AbortedDidNotFinish
PROPERTIES
    ImplementsJobQueue
CHECK_DEADLOCK FALSE
