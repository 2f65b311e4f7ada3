SPECIFICATION Spec
CONSTANTS
    Turns = {1, 2}
    FollowUps = {2}
    Price <- MCPrice
    MaxAttempts = 2
    MaxFaults = 1
INVARIANTS
    RowCostsTheTurn
PROPERTIES
    PageIsAnswered
    PendingIsReleased
CHECK_DEADLOCK FALSE
