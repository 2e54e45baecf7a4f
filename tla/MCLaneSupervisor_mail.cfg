CONSTANTS
  note = note
  cancel = cancel
  guard = guard
  reminder = reminder
  Hails = {note, reminder, cancel}
  Cancels = {cancel}
  Guards = {}
  Reminders = {reminder}
  FlakeResumeCap = 1
  EmptyBriefRefeeds = 1
  MaxRuns = 2
  MayResume = TRUE
  StoreCanFail = TRUE
  HasDeadline = TRUE
  ExpectsOutput = TRUE
  Verifies = FALSE
  IdleShutdown = TRUE
SPECIFICATION Spec
CHECK_DEADLOCK FALSE
INVARIANTS
  TypeOK
  NoClaimForgotten
  IdleMeansReported
  FreshSuccessIsBriefed
PROPERTIES
  LedgerSpec
  ExpiredReminderStaysOut
