CONSTANTS
  note = note
  cancel = cancel
  guard = guard
  reminder = reminder
  Hails = {note, guard}
  Cancels = {}
  Guards = {guard}
  Reminders = {}
  FlakeResumeCap = 1
  EmptyBriefRefeeds = 1
  MaxRuns = 2
  MayResume = TRUE
  StoreCanFail = TRUE
  HasDeadline = FALSE
  ExpectsOutput = TRUE
  Verifies = FALSE
  IdleShutdown = TRUE
SPECIFICATION FairSpec
CHECK_DEADLOCK FALSE
PROPERTIES
  MailReachesHarness
  LaneSettles
