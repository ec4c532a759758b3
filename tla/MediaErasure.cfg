SPECIFICATION FairSpec
CONSTANTS
    u1 = u1
    u2 = u2
    d1 = d1
    d2 = d2
    Uploads = {u1, u2}
    Removals = {d1, d2}
    Repeaters = {d1}
    Lengths = {3}
    ConfirmAttempts = 1
    Faults = {"refuse", "lag", "kept", "store"}
    MaxFaults = 1
PROPERTIES
    LastOutErases
    RepeatedDeleteErases
\* Every request may have been answered, with nobody sending another.
CHECK_DEADLOCK FALSE
