SPECIFICATION IngestSpec
CONSTANTS
    secA = secA
    secB = secB
    w1 = w1
    w2 = w2
    s1 = s1
    s2 = s2
    NoJob = NoJob
    Open = Open
    Jobs = {1, 2}
    Procs = {w1, w2}
    Slots = {s1, s2}
    ProcOf <- MCProcOf
    Operators = {}
    Priority <- MCPriority
    MaxAttempts <- MCMaxAttempts
    Handled = {1, 2}
    RequeueLimit = 1
    Draining = {}
    MaxFaults = 0
    MaxRequeues = 0
    SectionOrder <- MCSectionOrder
    Histories <- MCAmended
    Horizons = {1, 2}
INVARIANTS
    ChangesAreAccepted
