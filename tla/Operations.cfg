\* Three events (a start, a death, a removal, a night), two photographs, three
\* days with a backup of day 0; the newest two are kept, and a day makes one old.
\* Between events a server may rest, hence no deadlock check.
SPECIFICATION Spec
CONSTANTS
    Media = {m1, m2}
    KeepMin = 2
    RetentionDays = 1
    MaxDay = 3
    MaxEvents = 3
INVARIANTS ServesItsSchema PointersLand NoCallLosesItsPool
PROPERTIES LastCopiesKept
CHECK_DEADLOCK FALSE
