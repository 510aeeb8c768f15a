SPECIFICATION AllocSpec
CONSTANTS
  Hotkeys <- MCHotkeys
  Coldkeys <- MCColdkeys
  Houses <- MCHouses
  Prints <- MCPrints
  Today = 3
  MaxStandIn = 1
  Scores <- MCScores
  ScoreThreshold = 1
  MaxEarners = 2
  Multipliers <- MCMultipliers
INVARIANT OneModelOnePayee
INVARIANT SetsKeepAMember
PROPERTY HoldKeepsTheVector
CHECK_DEADLOCK FALSE
