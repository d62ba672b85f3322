\* A review whose metrics stages may fail.
SPECIFICATION Spec
CONSTANTS
    NoFile = NoFile
    NoFigure = NoFigure
    NoProse = NoProse
    N = 2
    Values = {0, 1, 2}
    Breaching = {1, 2}
    MaxReviews = 1
PROPERTIES
    ChecksSurviveMetricsFailure
CHECK_DEADLOCK FALSE
