SPECIFICATION Spec
CONSTANTS
  a = a
  b = b
  Genes = {a, b}
  DomainOf <- Domains
  Keys = {1, 2, 3}
  Requests <- MCRequests
  Quota = 2
  AgentDays = 2
  Runs = {r1, r2}
  MaxClock = 2
  MaxFaults = 1
INVARIANTS QuotaHolds EvictionIsMinimal AuditAddsUp
PROPERTIES PoliciesAreTheCreators
SYMMETRY Symmetries
CHECK_DEADLOCK FALSE
