SPECIFICATION Spec
CONSTANTS
    r1 = r1
    w1 = w1
    w2 = w2
    report = report
    Runs = {r1}
    Workers = {w1,w2}
    Objects = {report}
    NoWorker = NoWorker
    NoRun = NoRun
    MaxAttempts = 2
    HasStore = FALSE
    Crashable = {}
    Punctual = {}
    Expiring = {}
SYMMETRY WorkerSymmetry
CHECK_DEADLOCK FALSE
INVARIANTS
    EvidenceMatchesResult
