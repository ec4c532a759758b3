\* Four calls, one failure of the device; two objects of two chunks each; JPEGs of four pieces;
\* a telephone's stage, turned, a square photograph, fitted or at twice that, and two pointers.
SPECIFICATION MCSpec

CONSTANTS
    HeaderLen = 1
    TagLen = 1
    MaxSize = 100
    ChunkSize = 2
    MaxCalls = 4
    MaxFaults = 1
    MaxKept = 2
    MaxPieces = 4
    Uses = {"asset", "title"}
    Ids = {1, 2}
    Plaintexts <- MCPlaintexts
    StageSides = {8, 16}
    PictureSides = {1}
    NoPicture = NoPicture
    Pointers = {1, 2}
    Reach = 2
    One = 1
    ZOOM_LEVELS = {1, 2}
    DOUBLE_TAP_SCALE = 2
    TapSlop = 0
    DoubleTapSlop = 2

\* The calls and the writes are bounded.
CHECK_DEADLOCK FALSE

INVARIANTS HandlesExact OpensWhatWasWrapped BlameIsDeserved ReadsAreWrites PreparedIsStripped PhotoInHand
