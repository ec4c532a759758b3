SPECIFICATION MCSpec
CONSTANTS
    k1 = k1
    k2 = k2
    r1 = r1
    r2 = r2
    Keys = {k1, k2}
    Requests = {r1, r2}
    Budget = 3
    Window = 3
    Floor = 1
    Second = 2
    SweepAbove = 1
    Sizes = {1, 3}
    Horizon = 5
    MaxStepsBack = 1
    MaxTries = 2
INVARIANTS OverdraftBounded RetryAfterIsEnough RequestsAreUnderstood OnlyTheEntitledLearn EveryByteIsPaid
PROPERTY AnswersAsRolling
SYMMETRY SameNames
\* The clock stops at Horizon with every request answered, and a call that
\* was understood is over.
CHECK_DEADLOCK FALSE
