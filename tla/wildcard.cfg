\* scope delete --recursive of a scope whose name holds an underscore.
CONSTANTS
    Null = Null
    a = a
    b = b
    c = c
    Ids = {i1, i2}
    EdgeIds = {e1}
    Contents = {c1}
    Titles = {t1}
    Labels = {}
    EdgeTypes = {ty1}
    Weights <- NoWeights
    Segments <- AllSegments
    LikeUnder <- WildcardLike
    Paths <- ForestPaths
    Procs = {p1}
    Commands = {"add", "scope delete"}
    TTLs = {}
    Recursive = {TRUE}
    MaxNow = 0
    MaxVersion = 1
SPECIFICATION Spec
PROPERTY TreeDeleteStaysBelow
