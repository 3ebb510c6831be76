SPECIFICATION Spec
CONSTANTS
  Clients = {c1, c2}
  Node = {n1}
  Commands = {"addon", "detach"}
  Concurrent = {"addon", "detach"}
  FaultyCommands = {}
  MaxRuns = 3
  MaxFaults = 0
  MaxWrites = 0
INVARIANT BackupIsOriginal
CHECK_DEADLOCK FALSE
