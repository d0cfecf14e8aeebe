SPECIFICATION FairSpec
CONSTANTS
  None = None
  Unknown = Unknown
  n1 = n1
  n2 = n2
  n3 = n3
  Peers = {n1, n2, n3}
  Addrs = 2
  Hosts <- MCHosts
  Configured <- MCConfigured
  ConnIds = {c1, c2, c3}
  First = 1
  BackoffMax = 4
  JitterPart = 4
  CheckInterval = 1
  Stable = 1
  MaxFailures = 2
  MaxFaults = 1
  MaxRekeys = 1
INVARIANTS
  DialIsTracked
PROPERTIES
  DialsAreSpaced
  Reconnects
