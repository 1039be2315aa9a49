\* Hybrid search with two hits whose neighbourhoods meet.
CONSTANTS
    Ids <- Five
    EdgeIds = {e1, e2, e3, e4}
    Contents <- Five
    Titles = {"t"}
    Labels = {}
    EdgeTypes = {"related-to", "contradicts", "supersedes"}
    Segments = {"a", "b"}
    Paths <- TwoPaths
    LikeUnder <- NothingUnder
    Weights = {Null}
    Null = Null
    Initial <- OnlyBridge
    Kinds = {"hybrid"}
    Depths = {2}
    Directions = {"out", "in", "both"}
    TypeFilters = {{}, {"contradicts"}}
    Scope <- Here
    Now = 1
    Similarity <- TwoHits
    Relevance <- Ranks
    Freshness <- OneAge
    Recencies = {0}
    Limits = {2}
    DefaultLimit = 2
    Filters <- AllAndOne
    Arguments <- Texts
    SimilarLimit = 2
    TextLimit = 2
    ListLimit = 3
    LinkTypes = {"contradicts"}
    Threshold = 4000
    MaxWrites = 0
    n1 = n1
    n2 = n2
    n3 = n3
    n4 = n4
    n5 = n5
    e1 = e1
    e2 = e2
    e3 = e3
    e4 = e4
SPECIFICATION Spec
INVARIANT ExpansionReachesDepth
