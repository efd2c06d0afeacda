CONSTANTS
    Workers = {w1, w2}
    Subjects = {s1, s2}
    Requests = {r1, r2}
    MaxAudits = 1
    MaxTime = 2
    MaxRequests = 1
    WindowSeconds = 2
    MaxConsumers = 1
    MaxAge = 1
    Skew = 1
    Retention = 2
SPECIFICATION Spec
INVARIANTS
    WindowAllowance
    CapacityKept
    AnswersAreEarned
    AuditIsKept
PROPERTY RequestsEnd
