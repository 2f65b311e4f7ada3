SPECIFICATION FilesSpec
CONSTANTS
    f1 = f1
    f2 = f2
    f3 = f3
    Fetchers = {f1, f2, f3}
    Parts = 2
    MaxBodies = 3
    MaxFaults = 1
    Widths <- MCWidths
    Lengths = {1, 6}
    MaxDepth = 4
    TargetChars = 3
    MaxChars = 5
    Terms <- MCTerms
    Texts <- MCTexts
    Base = 2
    Gain <- MCGain
    MaxBuilds = 2
    Questions <- MCQuestions
    Limits = {2}
    Depth = 2
    RrfK = 60
    Scale = 3782
INVARIANTS
    NeverHalfWritten
    BuildsLast
    FilterIsPushedDown
    HalfOnlyWhenShared
    ChunksAreCitable
    AgreementWins
