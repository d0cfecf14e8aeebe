SPECIFICATION TrySpec
CONSTANTS
  Runners = {1}
  Domains <- TwoDomains
  Pools <- FourInTwo
  Setups <- MCSetups
  Initial = 4
  Reward = 1
  Penalty = 3
  Ceiling = 7
  MaxTurns = 1
  MaxEdits = 1
  MaxFaults = 1
INVARIANTS
  FailsOnlyWhenAllFailed
PROPERTIES
  BestFirst
