\* Two reviews, two models, one panel
SPECIFICATION ReviewFairSpec
CONSTANTS
    MaxReviews = 2
    NumModels = 2
    NumTokens = 2
CHECK_DEADLOCK FALSE
INVARIANTS ReviewTypeOK PanelIsHonest
PROPERTY ReviewEnds
