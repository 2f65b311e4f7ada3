SPECIFICATION FairWorkSpec
CONSTANTS
    j1 = j1
    j2 = j2
    w1 = w1
    w2 = w2
    s1 = s1
    s2 = s2
    s3 = s3
    o1 = o1
    o2 = o2
    NoJob = NoJob
    Jobs = {j1, j2}
    Procs = {w1}
    Slots = {s1, s2}
    ProcOf <- MCProcOf
    Operators = {}
    Priority <- MCPriority
    MaxAttempts <- MCMaxAttempts
    Handled = {j1}
    RequeueLimit = 1
    Draining = {}
    MaxFaults = 1
    MaxRequeues = 0
    Sha <- MCSha
    Corpora <- MCCorpora
    Embedders = {p1, p2}
    BatchSize = 2
    CommitEvery = 3
    MaxCalls = 2
    MaxMishaps = 2
INVARIANTS
    VectorsBelong
    NoDeadlock
    CrashCostsLittle
PROPERTIES
    EveryJobSettles
    StopDrains
    EmbeddedInTheEnd
