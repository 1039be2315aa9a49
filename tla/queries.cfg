\* Requests on graphs of four entries while another process changes one thing.
CONSTANTS
    Ids <- Four
    EdgeIds = {e1, e2, e3, e4}
    Contents <- Four
    Titles = {"t"}
    Labels = {}
    EdgeTypes = {"related-to", "contradicts", "supersedes"}
    Segments = {"a", "b"}
    Paths <- TwoPaths
    LikeUnder <- NothingUnder
    Weights = {Null}
    Null = Null
    Initial <- CycleAndCorrected
    Kinds <- AllKinds
    Depths = {1, 2}
    Directions = {"out", "in", "both"}
    TypeFilters = {{}, {"contradicts"}}
    Scope <- Here
    Now = 1
    Similarity <- Scores
    Relevance <- Ranks
    Freshness <- OneAge
    Recencies = {0, 100}
    Limits = {0, 1, 3}
    DefaultLimit = 2
    Filters <- AllAndOne
    Arguments <- Texts
    SimilarLimit = 2
    TextLimit = 2
    ListLimit = 3
    LinkTypes = {"contradicts"}
    Threshold = 4000
    MaxWrites = 1
    n1 = n1
    n2 = n2
    n3 = n3
    n4 = n4
    n5 = n5
    e1 = e1
    e2 = e2
    e3 = e3
    e4 = e4
SPECIFICATION Spec
INVARIANT TypeOK
INVARIANT ResponseIsClosed
INVARIANT EdgesAreExact
INVARIANT TraversalIsExact
INVARIANT PathIsShortest
INVARIANT HitsAreRanked
INVARIANT RecallMissesNothing
INVARIANT ExpansionIsSound
INVARIANT ResolutionIsJustified
PROPERTY EveryRequestEnds
