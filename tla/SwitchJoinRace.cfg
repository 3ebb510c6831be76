SPECIFICATION Spec
CONSTANTS
  Clients = {c1}
  Node = {n1}
  Commands = {"addon", "detach"}
  Concurrent = {}
  FaultyCommands = {}
  MaxRuns = 2
  MaxFaults = 0
  MaxWrites = 0
INVARIANT DetachSparesEdgeNodes
CHECK_DEADLOCK FALSE
