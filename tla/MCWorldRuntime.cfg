SPECIFICATION Spec
CONSTANTS
  Agent <- MCAgent
  LocationOf <- MCLocationOf
  TurnLimit = 2
  Quota <- OneSize
  Decisions <- AllDecisions
  MaxDispatch = 4
  MaxVersion = 5
INVARIANTS
  TypeOK
  DispatchesServable
  WaitersHaveRead
  LinesAreSound
PROPERTIES
  ImplementsParts
CHECK_DEADLOCK FALSE
