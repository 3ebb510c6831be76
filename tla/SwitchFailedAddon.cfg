SPECIFICATION Spec
CONSTANTS
  Clients = {c1}
  Node = {n1}
  Commands = {"addon", "detach"}
  Concurrent = {}
  FaultyCommands = {"addon"}
  MaxRuns = 2
  MaxFaults = 1
  MaxWrites = 0
INVARIANT DetachCleansUp
CHECK_DEADLOCK FALSE
