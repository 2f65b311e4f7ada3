SPECIFICATION PortSpec
CONSTANTS
    Points = {0, 1, 3}
    Distance <- MCDistance
    Size = 7
    M = 2
    EfConstruction = 5
    MaxVisits = 4
    DefaultVisits = 7
    Draws <- MCDraws
    MaxLevel = 1
    Queries <- MCQueries
    Places = {0, 1, 2, 3, 4, 5, 6, 7}
    CosineDistance <- MCCosine
    Corpora <- MCCorpora
    Lists = 0
    Iterations = 2
    Searches <- MCSearches
INVARIANTS
    EdgesGoBothWays
    BornLinked
    AllReachable
    SearchIsFull
    SearchIsExact
    ListsHoldNearest
    FlatSearchIsSound
    GapIsDuplication
    PushdownIsNeverBeaten
