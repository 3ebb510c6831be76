SPECIFICATION PlannedSpec
CONSTANTS
  Operator = c1
  Clients = {c1}
  Node = {n1, n2}
  Commands = {"addon", "detach"}
  Concurrent = {}
  FaultyCommands = {"addon", "detach"}
  MaxRuns = 4
  MaxFaults = 2
  MaxWrites = 2
PROPERTY FollowsPlan
CHECK_DEADLOCK FALSE
