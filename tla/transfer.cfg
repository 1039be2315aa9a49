\* Entries, labels and edges carried from a SQLite to a PostgreSQL knowledge
\* base and back, while both are edited.
CONSTANTS
    Ids = {i1, i2, i3}
    EdgeIds = {e1}
    Contents = {c1, c2}
    Titles = {t1}
    Labels = {l1}
    EdgeTypes = {"related-to"}
    Segments = {"a"}
    Paths <- OnePath
    LikeUnder <- NothingUnder
    Weights = {Null}
    Null = Null
    Sites <- HomeAndAway
    Backend <- OneOfEach
    MaxWrites = 4
    MaxBatch = 2
    MaxVersion = 2
SPECIFICATION Spec
SYMMETRY Symmetry
INVARIANT TypeOK
PROPERTY ExportIsTheDatabase
PROPERTY ImportBringsEveryEntry
PROPERTY ImportLosesOnlyForwardEdges
PROPERTY PostgresImportsAllEdges
PROPERTY BatchWritesTheRest
