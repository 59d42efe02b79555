SPECIFICATION FairSpec
CONSTANTS
  MaxFrames = 3
  MaxOutput = 0
PROPERTY SessionEndReturns
CHECK_DEADLOCK FALSE
