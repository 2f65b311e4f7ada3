SPECIFICATION FairIngestSpec
CONSTANTS
    secA = secA
    secB = secB
    w1 = w1
    w2 = w2
    s1 = s1
    s2 = s2
    NoJob = NoJob
    Open = Open
    Jobs = {1, 2}
    Procs = {w1, w2}
    Slots = {s1, s2}
    ProcOf <- MCProcOf
    Operators = {}
    Priority <- MCPriority
    MaxAttempts <- MCMaxAttempts
    Handled = {1, 2}
    RequeueLimit = 1
    Draining = {w1, w2}
    MaxFaults = 1
    MaxRequeues = 0
    SectionOrder <- MCSectionOrder
    Histories <- MCHistories
    Horizons = {1, 2}
INVARIANTS
    SucceededIsIngested
    NoDuplicates
    NoHalfVersions
    NoDeadlock
PROPERTIES
    EverySnapshotSettles
