\* The same, with the fairness of a knowledge base that is looked after.
CONSTANTS
    Null = Null
    a = a
    i1 = i1
    i2 = i2
    text1 = text1
    text2 = text2
    title = title
    Ids = {i1, i2}
    EdgeIds = {e1}
    Contents = {text1, text2}
    Titles = {title}
    Labels = {}
    EdgeTypes = {ty1}
    Weights <- AllWeights
    Segments = {a}
    LikeUnder <- NothingBelow
    Paths <- OnePath
    Sessions = {s1, s2}
    Procs = {p1, p2}
    Agents = {p2}
    Reinforcers = {p1}
    InitialDB <- TwoEntries
    Exported = FALSE
    LinkWeights = {Null}
    MaxEvents = 1
SPECIFICATION FairSpec
PROPERTY EndedIsReinforced
