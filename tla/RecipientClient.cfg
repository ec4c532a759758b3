SPECIFICATION Spec
CONSTANTS
    p1 = p1
    p2 = p2
    p3 = p3
    Photos = {p1, p2}
    NoPhoto = NoPhoto
    Modes = {"qr", "passphrase"}
    Concurrency = 4
    MaxOpens = 2
    MaxFaults = 1
INVARIANTS PicturesAccounted ViewerShowsItsPhoto NothingKept
PROPERTY Settles
\* A session may end, and a reader may do nothing.
CHECK_DEADLOCK FALSE
