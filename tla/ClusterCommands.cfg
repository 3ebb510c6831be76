SPECIFICATION Spec
CONSTANTS
  Node = {"n1"}
  LevelSets <- MCLevels
  Plan <- MCPlan
  Inherited <- MCInherited
  UserConfig <- MCUserConfig
  MaxTries = 2
  MaxFaults = 1
INVARIANTS TypeOK AddonComplete DetachComplete DetachClears DetachSucceeds AddonLosesLittle RerunSucceeds
  TunnelEdgeDeployed InitSucceeds
PROPERTIES UserConfigKept EveryCommandEnds
CHECK_DEADLOCK FALSE
