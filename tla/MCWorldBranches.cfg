SPECIFICATION Spec
CONSTANTS
  Agent <- MCAgent
  LocationOf <- MCLocationOf
  TurnLimit = 2
  Quota <- OneSize
  Decisions <- AllDecisions
  MaxDispatch = 4
  MaxVersion = 6
INVARIANTS
  BranchesContinue
CHECK_DEADLOCK FALSE
