SPECIFICATION Spec
CONSTANTS
    u1 = u1
    u2 = u2
    d1 = d1
    d2 = d2
    Uploads = {u1, u2}
    Removals = {d1, d2}
    Repeaters = {d1}
    Lengths = {3}
    ConfirmAttempts = 2
    Faults = {"refuse", "landed", "cut", "lost", "lag", "kept", "store", "db", "crash"}
    MaxFaults = 2
INVARIANTS
    CountExact
    NoUploadUnderErasure
    GoneForGood
    ReadyHasBoth
    CompletedIsReady
PROPERTIES
    RetriedDeleteMeansDone
    KeepsPromise
SYMMETRY SameUploads
\* Every request may have been answered, with nobody sending another.
CHECK_DEADLOCK FALSE
