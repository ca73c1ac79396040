SPECIFICATION FairSpec
CONSTANTS
  Agent <- MCAgent
  TurnLimit = 2
  Broken <- TheFirst
INVARIANTS
  OneChance
PROPERTIES
  NobodyStarves
  RequestChainsEnd
CHECK_DEADLOCK FALSE
