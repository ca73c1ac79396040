SPECIFICATION Spec
CONSTANTS
  None = None
  Caller = {c1, c2}
  a1 = a1
  a2 = a2
  Agent = {a1, a2}
  Kinds <- Steps
  Heard <- Audiences
  Operations <- Switch
  FirstState = "off"
  Observing = {a2}
  Budget = 1
  Drafts <- OnePlan
  MaxEpoch = 2
  MaxSeq = 3
SYMMETRY Threads
INVARIANTS
  TypeOK
  OneAnswer
  CommitsAreWhole
  FenceSuffices
  NothingSkipped
  RequestsAreHeard
CHECK_DEADLOCK FALSE
