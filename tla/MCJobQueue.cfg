CONSTANTS
    Job = {1, 2}
    Worker = {w1, w2}
    Parser = {p1}
    Run = {r1}
    Token = {t1, t2}
    NoWorker = NoWorker
    NoRun = NoRun
    NoToken = NoToken
    MAX_RETRY_COUNT = 1
    CIRCUIT_BREAKER_THRESHOLD = 2
    MaxFails = 2
    MaxLetters = 1
SPECIFICATION MCSpec
SYMMETRY TokenSymmetry
INVARIANTS
    QueueTypeOK
    AtMostOneOutcome
    RunningIsOwned
    RetriesBounded
    LeaseInv
CHECK_DEADLOCK FALSE
