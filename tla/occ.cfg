\* Two processes editing one scope: upserts, updates, deletes and links.
CONSTANTS
    Null = Null
    a = a
    b = b
    c = c
    Ids = {i1, i2}
    EdgeIds = {e1}
    Contents = {c1, c2}
    Titles = {t1, t2}
    Labels = {l1}
    EdgeTypes = {ty1}
    Weights <- NoWeights
    Segments <- AllSegments
    LikeUnder <- PlainLike
    Paths <- FlatPaths
    Procs = {p1, p2}
    Commands = {"add", "update", "delete", "link", "link accept", "unlink"}
    TTLs = {}
    Recursive = {FALSE}
    MaxNow = 0
    MaxVersion = 3
SPECIFICATION Spec
SYMMETRY Symmetry
INVARIANT TypeOK
INVARIANT SchemaHolds
INVARIANT VersionIdentifiesRow
PROPERTY UpdateReplacesWhatItRead
PROPERTY VersionCountsWrites
PROPERTY NoResurrection
PROPERTY ImplementsStore
