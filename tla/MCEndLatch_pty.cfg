CONSTANTS
  SignalNumbers <- MCSignals
  Hangup = 1
  PtyCanDie = TRUE
  StoreCanFail = FALSE
  HasDeadline = TRUE
SPECIFICATION FairSpec
CHECK_DEADLOCK FALSE
INVARIANTS
  TypeOK
  OneLatchRow
  SecondRowNeedsDeadPrint
  EndedLaneLeavesARow
PROPERTIES
  MainSilentAfterSignal
  SignalledProcessExits
