\* A second review over the notes of the first.
SPECIFICATION Spec
CONSTANTS
    NoFile = NoFile
    NoFigure = NoFigure
    NoProse = NoProse
    N = 2
    Values = {0, 1, 2}
    Breaching = {1, 2}
    MaxReviews = 2
INVARIANTS
    StaleNotesRejected
CHECK_DEADLOCK FALSE
