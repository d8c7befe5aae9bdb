SPECIFICATION Spec
CONSTANTS
    r1 = r1
    w1 = w1
    w2 = w2
    report = report
    Runs = {r1}
    Workers = {w1,w2}
    Objects = {report}
    NoWorker = NoWorker
    NoRun = NoRun
    MaxAttempts = 2
    HasStore = TRUE
    Crashable = {w1,w2}
    Punctual = {}
    Expiring = {r1}
SYMMETRY WorkerSymmetry
CHECK_DEADLOCK FALSE
INVARIANTS
    TypeOK
    HolderIsWorking
    NoForgottenLease
    NoStrandedRun
    VerdictFromLastAttempt
    AuditedOnce
PROPERTIES
    OutcomeIsFinal
    CancelWins
    ImplementsLifecycle
