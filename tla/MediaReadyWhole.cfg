SPECIFICATION Spec
CONSTANTS
    u1 = u1
    u2 = u2
    d1 = d1
    d2 = d2
    Uploads = {u1, u2}
    Removals = {d1}
    Repeaters = {d1}
    Lengths = {3}
    ConfirmAttempts = 2
    Faults = {"landed"}
    MaxFaults = 1
INVARIANT ReadyMeansWhole
CHECK_DEADLOCK FALSE
