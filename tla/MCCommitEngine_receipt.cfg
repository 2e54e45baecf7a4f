CONSTANTS
  p1 = p1
  p2 = p2
  Procs = {p1, p2}
  Nobody = Nobody
  Absent = Absent
  Torn = Torn
  Edited = "edited"
  Editable = {}
  Devices = {"state", "target"}
  Stages = {"do", "undo"}
  Ops <- MCOps
  Tree <- MCTree
  DirOf <- MCDirOf
  Homes <- MCHomes
  MaxKills = 1
  MaxLosses = 0
  MaxEdits = 0
  MaxFaults = 1
SPECIFICATION Spec
CHECK_DEADLOCK FALSE
INVARIANT ReceiptNeverOutlivesWork
