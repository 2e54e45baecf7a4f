CONSTANTS
  p1 = p1
  p2 = p2
  Procs = {p1, p2}
  Nobody = Nobody
  Absent = Absent
  Torn = Torn
  Edited = "edited"
  Editable = {"b"}
  Devices = {"state", "target"}
  Stages = {"do", "undo", "next"}
  Ops <- MCOps
  Tree <- MCTree
  DirOf <- MCDirOf
  Homes <- MCHomes
  MaxKills = 2
  MaxLosses = 2
  MaxEdits = 1
  MaxFaults = 2
SPECIFICATION Spec
SYMMETRY MCSymmetry
CHECK_DEADLOCK FALSE
INVARIANTS
  TypeOK
  PayloadBeforeJournal
  HalfAppliedIsLogged
  ReceiptHasItsWork
  CommittedIsDurable
  JournalCanFinish
PROPERTIES
  KeepsEarlierEdits
