SPECIFICATION FruSpec
CONSTANTS
  MaxFruDevices = 2
  AreaResponses <- MCAreaResponses
  BoardStarts <- MCBoardStarts
CHECK_DEADLOCK FALSE
INVARIANT ParsedAtBoardArea
