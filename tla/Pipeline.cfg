\* Two reviews, each possibly failing or killed, with notes and renders between.
SPECIFICATION FairSpec
CONSTANTS
    NoFile = NoFile
    NoFigure = NoFigure
    NoProse = NoProse
    N = 2
    Values = {0, 1, 2}
    Breaching = {1, 2}
    MaxReviews = 2
INVARIANTS
    TypeOK
    CompleteReviewIsFresh
    OwnInputs
    StagePartsAreOneReview
PROPERTIES
    ReviewEnds
CHECK_DEADLOCK FALSE
