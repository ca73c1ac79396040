SPECIFICATION Spec
CONSTANTS
  None = None
  Runner = {r1, r2}
  Agent = {a1, a2}
  Quota <- TwoDecisions
  MaxEpoch = 3
  Faults <- InterruptFaults
INVARIANTS
  InterruptFences
CHECK_DEADLOCK FALSE
