\* session end is killed between the UPDATE and the removal of the file.
CONSTANTS
    Null = Null
    a = a
    i1 = i1
    i2 = i2
    text1 = text1
    text2 = text2
    title = title
    Ids = {i1, i2}
    EdgeIds = {e1}
    Contents = {text1, text2}
    Titles = {title}
    Labels = {}
    EdgeTypes = {ty1}
    Weights <- AllWeights
    Segments = {a}
    LikeUnder <- NothingBelow
    Paths <- OnePath
    Sessions = {s1, s2}
    Procs = {p1}
    Agents = {p1}
    Reinforcers = {p1}
    InitialDB <- TwoEntries
    Exported = FALSE
    LinkWeights <- ManualWeights
    MaxEvents = 2
SPECIFICATION Spec
SYMMETRY Symmetry
PROPERTY ResumesOpenSession
