SPECIFICATION Spec
CONSTANTS
  Node = {n1, n2}
  Callers = {c1}
  Operations = {"add", "delete", "label", "revert"}
  Key = {"edge", "change"}
  Wanted = {"edge"}
  ChangeKey = "change"
  MaxTries = 1
INVARIANT TypeOK
PROPERTIES
  NoChangeLost
  SuccessIsReal
  CallsEnd
