SPECIFICATION Spec
CONSTANTS
    Files = {f1, f2}
    NameOf <- OneName
    Genes = {g1, g2}
    Gone = Gone
    Tasks = {t1, t2}
    Copies = 1
    None = None
    MaxEdits = 0
    MaxFaults = 1
    MaxCrashes = 1
SYMMETRY Symmetry
INVARIANTS TableIsUnique WithdrawnStaysWithdrawn AlwaysScheduled
CHECK_DEADLOCK FALSE
