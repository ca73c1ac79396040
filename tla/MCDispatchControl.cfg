SPECIFICATION FairSpec
CONSTANTS
  None = None
  Runner = {r1, r2}
  Agent = {a1}
  Quota <- OneDecision
  MaxEpoch = 4
  Faults <- AllFaults
INVARIANTS
  TypeOK
  RowSound
  HolderOwnsRun
  OneChargePerCall
PROPERTIES
  ImplementsSerial
  RunEnds
CHECK_DEADLOCK FALSE
