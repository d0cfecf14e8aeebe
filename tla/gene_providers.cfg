SPECIFICATION Spec
CONSTANTS
    Local = n0
    Peers = {n0, p1, p2, p3}
    Pseudonyms = {r1}
    NoProof = NoProof
    Genes = {g1, g2}
    ProvidersPerKey = 2
    ProviderShare = 1
    MaxProviderKeys = 1
    MaxProviderEntries = 3
    StoreTtl = 1
    MaxTime = 2
SYMMETRY Symmetry
INVARIANTS ProviderBudgets
PROPERTIES EvictionIsFair
CHECK_DEADLOCK FALSE
