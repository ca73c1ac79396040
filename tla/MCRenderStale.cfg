SPECIFICATION FairSpec
CONSTANTS
  NoPage = NoPage
  Page = {p1}
  Timeline <- TwoEdits
  FirstTimeline <- Base
  MaxSelect = 0
  MaxEdit = 2
PROPERTIES
  EditsAreReloaded
CHECK_DEADLOCK FALSE
