SPECIFICATION FairSpec
CONSTANTS
    Files = {f1}
    NameOf <- OneName
    Genes = {g1, g2}
    Gone = Gone
    Tasks = {t1, t2}
    Copies = 2
    None = None
    MaxEdits = 1
    MaxFaults = 1
    MaxCrashes = 0
INVARIANTS TypeOK FileMatchesTable UnlistedIsNotServed
PROPERTIES ListedEventuallyServed
CHECK_DEADLOCK FALSE
