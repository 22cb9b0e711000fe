CONSTANTS
  MaxTurns = 2
  MaxUnits = 1
  MaxFiller = 0
  MaxBargeIns = 1
  MaxReconnect = 1
  EnableBargeIn = TRUE
SPECIFICATION FairSpec
PROPERTIES SessionProgresses
CHECK_DEADLOCK FALSE
