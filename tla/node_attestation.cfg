SPECIFICATION Spec
CONSTANTS
  Users = {u1, u2}
  Peers = {p1, p2}
  Requests = {r1, r2}
  Ttl = 1
  Skew = 1
  ChallengeTtl = 1
  MaxNodes = 1
  MaxOpen = 1
  Offsets <- MCOffsets
  Cutoffs <- MCCutoffs
  MaxClock = 3
  MaxNonces = 2
  MaxRevocations = 1
INVARIANTS
  QuotaHolds
  OneAccountPerPeer
  NonceYieldsOne
  NodesNamesLiveOwner
  JwksListCovers
  SomeoneAdvances
PROPERTIES IssuesAtomically
CHECK_DEADLOCK FALSE
SYMMETRY Symmetries
