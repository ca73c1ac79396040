SPECIFICATION Spec
CONSTANTS
  None = None
  Run = {r1, r2}
  HeadRevision = 3
  CallLimit = 2
  MaxTransportAttempts = 2
  Judgements <- MCJudgements
  MaxVersion = 3
SYMMETRY Runs
INVARIANTS
  TypeOK
  CanonicalIsAttested
  StoryShowsItsRun
  CallsAccounted
  ExhaustedRunsFail
  DatabaseIsWhole
CHECK_DEADLOCK FALSE
