SPECIFICATION Spec
CONSTANTS
  Node = {"n1"}
  LevelSets <- MCLevels
  Plan <- MCPlan
  Inherited <- MCInherited
  UserConfig <- MCUserConfig
  MaxTries = 2
  MaxFaults = 1
INVARIANT DetachLeavesNothing
CHECK_DEADLOCK FALSE
