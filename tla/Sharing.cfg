\* Two recipient ids, one photo, pages of one entry, two attempts to an invite;
\* four things done by anybody, one failure.  Everybody may stop acting, hence
\* no deadlock check.
SPECIFICATION Spec
CONSTANTS
    Ids = {r1, r2}
    Media = {m1}
    Tries = 2
    Limit = 1
    MaxActs = 4
    MaxFaults = 1
    r1 = r1
    r2 = r2
    m1 = m1
INVARIANTS RemovalIsNotFound LogIsTrue InvitesAccounted
SYMMETRY Symmetry
CHECK_DEADLOCK FALSE
