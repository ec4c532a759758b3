\* The session ends under a question, and the owner signs in again.
SPECIFICATION ScreensSpec
CONSTANTS
    AlbumIds = {a1}
    MaxViews = 3
    MaxMishaps = 1
PROPERTY BackIsToTheList
CHECK_DEADLOCK FALSE
