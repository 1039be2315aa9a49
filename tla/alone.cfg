\* One command at a time, each of them killed anywhere.
CONSTANTS
    Null = Null
    a = a
    b = b
    c = c
    Ids = {i1, i2}
    EdgeIds = {e1}
    Contents = {c1, c2}
    Titles = {t1}
    Labels = {l1, l2}
    EdgeTypes = {ty1}
    Weights <- NoWeights
    Segments <- AllSegments
    LikeUnder <- PlainLike
    Paths <- TreePaths
    Procs = {p1}
    Commands = {"add", "update", "gc", "scope create", "scope delete"}
    TTLs = {1}
    Recursive = {TRUE, FALSE}
    MaxNow = 1
    MaxVersion = 3
SPECIFICATION Spec
SYMMETRY Symmetry
INVARIANT EntryHierarchy
PROPERTY UpdateSetsLabels
