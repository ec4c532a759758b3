SPECIFICATION Spec
CONSTANTS
    p1 = p1
    p2 = p2
    p3 = p3
    Photos = {p1}
    NoPhoto = NoPhoto
    Modes = {"passphrase"}
    Concurrency = 4
    MaxOpens = 1
    MaxFaults = 1
INVARIANT KeyReleased
\* A session may end, and a reader may do nothing.
CHECK_DEADLOCK FALSE
