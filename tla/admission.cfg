SPECIFICATION Spec
CONSTANTS
    q1 = q1
    q2 = q2
    q3 = q3
    k1 = k1
    k2 = k2
    k3 = k3
    t1 = t1
    t2 = t2
    Requests = {q1,q2,q3}
    Keys = {k1,k2,k3}
    Targets = {t1,t2}
    NoRequest = NoRequest
    DailyLimit = 2
    ConcurrentLimit = 1
    Retention = 2
    LastDay = 2
SYMMETRY AdmissionSymmetry
CHECK_DEADLOCK FALSE
INVARIANTS
    TypeOK
    DailyQuotaKept
    ConcurrentQuotaKept
    RetryFindsItsRun
    OneRunPerKey
PROPERTIES
    AdmissionIsAtomic
