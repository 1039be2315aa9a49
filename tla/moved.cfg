\* An update moves an entry out of the tree that scope delete is deleting.
CONSTANTS
    Null = Null
    a = a
    b = b
    p1 = p1
    p2 = p2
    Ids = {i1, i2}
    EdgeIds = {e1}
    Contents = {c1}
    Titles = {t1}
    Labels = {l1}
    EdgeTypes = {ty1}
    Weights = {Null}
    Segments = {a, b}
    Paths <- TwoPaths
    LikeUnder <- HierarchicalLike
    Procs = {p1, p2}
    Runs <- Division
    TTLs = {1}
    LtreeLabel <- NoHyphen
    MaxNow = 1
    MaxVersion = 2
SPECIFICATION Spec
SYMMETRY Symmetry
PROPERTY TreeDeleteStaysBelow
