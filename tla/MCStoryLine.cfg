SPECIFICATION Spec
CONSTANTS
  Agent <- MCAgent
  LocationOf <- MCLocationOf
  TurnLimit = 2
  Quota <- OneSize
  Decisions <- StoryDecisions
  MaxDispatch = 4
  MaxVersion = 6
INVARIANTS
  StoryBuilds
  OnePathPerCharacter
PROPERTIES
  HistoryIsFixed
CHECK_DEADLOCK FALSE
