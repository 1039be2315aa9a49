\* Recall of entries that match the query well.
CONSTANTS
    Ids <- Four
    EdgeIds = {e1, e2, e3, e4}
    Contents <- Four
    Titles = {"t"}
    Labels = {}
    EdgeTypes = {"related-to", "contradicts", "supersedes"}
    Segments = {"a", "b"}
    Paths <- TwoPaths
    LikeUnder <- NothingUnder
    Weights = {Null}
    Null = Null
    Initial <- OnlyCorrected
    Kinds = {"recall"}
    Depths = {1, 2}
    Directions = {"out", "in", "both"}
    TypeFilters = {{}, {"contradicts"}}
    Scope <- Here
    Now = 1
    Similarity <- Scores
    Relevance <- Ranks
    Freshness <- OneAge
    Recencies = {0}
    Limits = {1, 3}
    DefaultLimit = 2
    Filters <- AllAndOne
    Arguments <- Texts
    SimilarLimit = 2
    TextLimit = 2
    ListLimit = 3
    LinkTypes = {"contradicts"}
    Threshold = 4000
    MaxWrites = 0
    n1 = n1
    n2 = n2
    n3 = n3
    n4 = n4
    n5 = n5
    e1 = e1
    e2 = e2
    e3 = e3
    e4 = e4
SPECIFICATION Spec
INVARIANT LowRelevanceIsHonest
