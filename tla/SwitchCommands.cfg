SPECIFICATION Spec
CONSTANTS
  Clients = {c1, c2}
  Node = {n1, n2}
  Commands = {"addon", "detach"}
  Concurrent = {"addon"}
  FaultyCommands = {"addon", "detach"}
  MaxRuns = 4
  MaxFaults = 2
  MaxWrites = 2
INVARIANTS
  TypeOK
  OriginalKept
  UpdateCompletes
  RecoverCompletes
PROPERTIES
  AddonKeepsProxy
  OneUpdater
CHECK_DEADLOCK FALSE
