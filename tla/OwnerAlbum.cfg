\* Two photos, each the album's or to be chosen here, one at a time in memory;
\* one poll, two openings of the viewer or of a question, one
\* failure.  Everybody may stop acting, hence no deadlock check.
SPECIFICATION Spec
CONSTANTS
    Photos = {p1, p2}
    Cap = 1
    Polls = 1
    MaxOpens = 2
    MaxFaults = 1
    p1 = p1
    p2 = p2
INVARIANTS ListTellsTheRows BytesAndPicturesAccounted
PROPERTY EveryUploadSettles
CHECK_DEADLOCK FALSE
