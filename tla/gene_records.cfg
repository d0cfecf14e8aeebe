SPECIFICATION Spec
CONSTANTS
    Local = n0
    Peers = {n0, p1, p2}
    Pseudonyms = {r1}
    NoProof = NoProof
    Genes = {g1, g2}
    NoRecord = NoRecord
    Signatures = {0, 1}
    OwnSignature = 0
    MaxRecords = 3
    AnonymousRecords = 1
    RecordsPerPublisher = 2
    MaxAge = 1
    StoreTtl = 1
    MaxFuture = 0
    MaxTime = 2
SYMMETRY Symmetry
INVARIANTS TypeOK TotalBudget
PROPERTIES OwnRecordsAreExempt EvictionIsFair ReplaysDoNotRefresh VersionsOnlyAdvance
CHECK_DEADLOCK FALSE
