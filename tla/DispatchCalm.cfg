CONSTANTS
    Job = {1, 2}
    Worker = {w1}
    Parser = {p1}
    Run = {r1}
    Token = {t1, t2}
    NoWorker = NoWorker
    NoRun = NoRun
    NoToken = NoToken
    NoLease = NoLease
    MAX_RETRY_COUNT = 1
    CIRCUIT_BREAKER_THRESHOLD = 3
    max_workers = 2
    Cancelled = {}
    Mortal = {}
    Beating = {w1}
    MaxStarts = 1
    Failures = {}
    Capacity = 2
SPECIFICATION Spec
SYMMETRY TokenSymmetry
INVARIANTS
    OutcomeOnItsWay
CHECK_DEADLOCK FALSE
