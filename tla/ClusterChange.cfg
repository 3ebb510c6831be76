SPECIFICATION ChangeSpec
CONSTANTS
  Node = {"n1", "n2"}
  LevelSets <- AllLevels
  Plan <- MCPlan
  Inherited <- MCInherited
  UserConfig <- MCUserConfig
  MaxTries = 2
  MaxFaults = 1
INVARIANT ChangeSucceeds
CHECK_DEADLOCK FALSE
