CONSTANTS
    Names = {1, 2, 3}
    NoName = 0
    Queries <- MCQueries
    NoQuery = ""
    Matches <- MCMatches
SPECIFICATION Spec
INVARIANT ScreenIsState
INVARIANT ClosedForgets
INVARIANT HighlightIsOption
PROPERTY EnterMeansHighlighted
PROPERTY OpensOnActive
