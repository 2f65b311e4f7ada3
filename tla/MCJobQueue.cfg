SPECIFICATION Spec
CONSTANTS
    j1 = j1
    j2 = j2
    w1 = w1
    w2 = w2
    s1 = s1
    s2 = s2
    s3 = s3
    o1 = o1
    o2 = o2
    NoJob = NoJob
    Jobs = {j1, j2}
    Procs = {w1, w2}
    Slots = {s1, s3}
    ProcOf <- MCProcOf
    Operators = {o1}
    Priority <- MCPriority
    MaxAttempts <- MCMaxAttempts
    Handled = {j1, j2}
    RequeueLimit = 1
    Draining = {w1}
    MaxFaults = 1
    MaxRequeues = 1
INVARIANTS
    TypeOK
    SingleOwner
    SucceededWasDone
    AttemptsAreExact
PROPERTIES
    OwnerSettles
    ImplementsLease
