\* Two processes list the same ended session and both work it off.
CONSTANTS
    Null = Null
    a = a
    i1 = i1
    i2 = i2
    text1 = text1
    text2 = text2
    title = title
    Ids = {i1, i2}
    EdgeIds = {e1}
    Contents = {text1, text2}
    Titles = {title}
    Labels = {}
    EdgeTypes = {ty1}
    Weights <- AllWeights
    Segments = {a}
    LikeUnder <- NothingBelow
    Paths <- OnePath
    Sessions = {s1, s2}
    Procs = {p1, p2}
    Agents = {p1}
    Reinforcers = {p1, p2}
    InitialDB <- TwoEntries
    Exported = FALSE
    LinkWeights <- ManualWeights
    MaxEvents = 2
SPECIFICATION Spec
SYMMETRY Symmetry
PROPERTY OneBoostPerSession
