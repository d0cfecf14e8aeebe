SPECIFICATION FairSpec
CONSTANTS
  Runners = {1,2}
  Domains <- OneDomain
  Pools <- TwoGenes
  Setups <- MCBroken
  Initial = 2
  Reward = 1
  Penalty = 1
  Ceiling = 4
  MaxTurns = 1
  MaxEdits = 1
  MaxFaults = 1
PROPERTIES
  RunsLearn
