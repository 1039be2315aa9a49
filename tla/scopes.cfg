\* Scope administration beside adds and the clock.
CONSTANTS
    Null = Null
    a = a
    b = b
    c = c
    Ids = {i1, i2, i3}
    EdgeIds = {e1}
    Contents = {c1, c2}
    Titles = {t1}
    Labels = {}
    EdgeTypes = {ty1}
    Weights <- NoWeights
    Segments <- AllSegments
    LikeUnder <- PlainLike
    Paths <- TreePaths
    Procs = {p1, p2}
    Commands = {"add", "gc", "scope create", "scope delete"}
    TTLs = {1}
    Recursive = {TRUE, FALSE}
    MaxNow = 1
    MaxVersion = 1
SPECIFICATION Spec
SYMMETRY Symmetry
INVARIANT SchemaHolds
PROPERTY PruneKeepsHierarchy
PROPERTY TreeDeleteIsComplete
PROPERTY ImplementsStore
