SPECIFICATION Spec
CONSTANTS
    Sources = {1, 2, 3}
    Pseudonyms = {r1, r2}
    None = None
    MaxTracked = 2
    Counted = 1
    BonusPeers = 1
    ForgeryWindow = 1
    Lifetime = 1
    ClockSkew = 0
    MaxPast = 0
    MaxFuture = 0
    IssueTimes = {0, 1}
    MaxForgeries = 2
    MaxConnected = 1
    MaxTime = 2
SYMMETRY Symmetry
INVARIANTS TrackedIsBounded PenaltyIsRemembered BlocksAreEarned
PROPERTIES ForgersAreForgottenLast QueueOrderHolds
