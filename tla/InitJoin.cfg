CONSTANTS
  Host = {h1}
  SANs = {"name", "mixed"}
  MaxClusters = 2
  MaxCommands = 3
  MaxFaults = 1
SPECIFICATION Spec
INVARIANT TypeOK
INVARIANT EdgeAppsFirst
INVARIANT ThroughLite
INVARIANT DnsOfEdge
INVARIANT LabelledByRole
INVARIANT JoinSucceeds
PROPERTY CommandsEnd
CHECK_DEADLOCK FALSE
