CONSTANTS
  p1 = p1
  p2 = p2
  r1 = r1
  Rows <- MCRows
  Progress = {"progress"}
  Traffic <- MCTraffic
  Bodies = {"a", "b", "progress"}
  Pushers = {p1, p2}
  Readers = {r1}
  Nobody = Nobody
  NoRow = NoRow
  DeadAttempts = 1
SPECIFICATION Spec
SYMMETRY MCSymmetry
CHECK_DEADLOCK FALSE
INVARIANTS
  TypeOK
  WindowKeepsItsRails
  StampedRowWasCarried
PROPERTIES
  RecordedPushIsFinal
