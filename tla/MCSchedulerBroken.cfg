SPECIFICATION FairSpec
CONSTANTS
  Agent <- MCAgent
  TurnLimit = 2
  Broken <- TheFirst
PROPERTIES
  BrokenDoNotBlock
CHECK_DEADLOCK FALSE
