SPECIFICATION Spec
CONSTANTS
  Session <- MCSession
  LocationOf <- MCLocationOf
  MaxVersion = 5
INVARIANTS
  TypeOK
  TopologyInv
  PlansAccepted
PROPERTIES
  LineFollowsCompany
  StaysColocated
  ImplementsBlocks
CHECK_DEADLOCK FALSE
