SPECIFICATION Spec
CONSTANTS
  Sources = {s1, s2}
  Tags = {"v1", "v2"}
  MaxMoves = 4
INVARIANTS
  CarefulReleaseIsChecked
  ReleaseMatchesTag
PROPERTIES
  GatedFirst
  NoRetry
CHECK_DEADLOCK FALSE
