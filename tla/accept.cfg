\* The same suggestion accepted by two processes.
CONSTANTS
    Null = Null
    a = a
    b = b
    c = c
    Ids = {i1, i2}
    EdgeIds = {e1, e2}
    Contents = {c1, c2}
    Titles = {t1}
    Labels = {}
    EdgeTypes = {ty1}
    Weights <- NoWeights
    Segments <- AllSegments
    LikeUnder <- PlainLike
    Paths <- FlatPaths
    Procs = {p1, p2}
    Commands = {"add", "link accept"}
    TTLs = {}
    Recursive = {FALSE}
    MaxNow = 0
    MaxVersion = 1
SPECIFICATION Spec
PROPERTY AcceptedOnce
