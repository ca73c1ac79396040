SPECIFICATION FairSpec
CONSTANTS
  NoPage = NoPage
  Page = {p1, p2}
  Timeline <- Edits
  FirstTimeline <- Base
  MaxSelect = 1
  MaxEdit = 1
INVARIANTS
  TypeOK
  TimelineKeepsHistory
  StageIsCurrent
PROPERTIES
  PlayedWasShown
  SelectedEventPlays
CHECK_DEADLOCK FALSE
