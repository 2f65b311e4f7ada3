SPECIFICATION Spec
CONSTANTS
    t1 = t1
    t2 = t2
    c1 = c1
    c2 = c2
    c3 = c3
    Alien = Alien
    Before = {c1}
    Turns = {t1, t2}
    Streamed = {t1}
    Chunks = {c1, c2, c3}
    Days = {0, 1, 2, 3}
    Requested <- MCRequested
    InForceOn <- MCInForceOn
    CorpusSince = 1
    Today = 2
    K = 2
    MaxRefs = 2
    MaxRestarts = 1
INVARIANTS
    TypeOK
    CitedWasInForce
    TurnsAreNumbered
    NoSourceIsTrue
PROPERTIES
    ImplementsCiteOrRefuse
CHECK_DEADLOCK FALSE
