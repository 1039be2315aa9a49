\* An update moves an entry into a new scope while gc prunes.
CONSTANTS
    Null = Null
    a = a
    b = b
    c = c
    Ids = {i1}
    EdgeIds = {e1}
    Contents = {c1}
    Titles = {t1}
    Labels = {}
    EdgeTypes = {ty1}
    Weights <- NoWeights
    Segments <- AllSegments
    LikeUnder <- PlainLike
    Paths <- ForestPaths
    Procs = {p1, p2}
    Commands = {"add", "update", "gc"}
    TTLs = {}
    Recursive = {FALSE}
    MaxNow = 0
    MaxVersion = 3
SPECIFICATION Spec
INVARIANT EntryHierarchy
