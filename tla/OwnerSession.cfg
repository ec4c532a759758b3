\* One owner on one page, which is opened three times, with two failures; and
\* within a session two albums, four views and two mishaps.
SPECIFICATION MCSpec
CONSTANTS
    Albums = {a}
    MaxTokens = 3
    MaxVisits = 2
    MaxFaults = 2
    AlbumIds = {a1, a2}
    MaxViews = 4
    MaxMishaps = 2
INVARIANTS KeysAccounted SignedOutEnds OneScreenOpen
PROPERTIES NeverStuckBusy LeavesAsAsked
\* The owner may leave the page for good.
CHECK_DEADLOCK FALSE
