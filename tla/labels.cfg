\* Two updates of one entry, each with its own --label list.
CONSTANTS
    Null = Null
    a = a
    b = b
    c = c
    Ids = {i1}
    EdgeIds = {e1}
    Contents = {c1}
    Titles = {t1}
    Labels = {l1, l2}
    EdgeTypes = {ty1}
    Weights <- NoWeights
    Segments <- AllSegments
    LikeUnder <- PlainLike
    Paths <- FlatPaths
    Procs = {p1, p2}
    Commands = {"add", "update"}
    TTLs = {}
    Recursive = {FALSE}
    MaxNow = 0
    MaxVersion = 3
SPECIFICATION Spec
PROPERTY UpdateSetsLabels
