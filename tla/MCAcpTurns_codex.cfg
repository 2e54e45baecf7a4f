CONSTANTS
  note = note
  cancel = cancel
  resume = resume
  Notes = {note}
  Cancels = {cancel}
  Resumes = {resume}
  NoMail = NoMail
  Codex = TRUE
  MaxTurns = 2
  MaxBreaches = 1
  AgentCanDie = TRUE
SPECIFICATION FairSpec
CHECK_DEADLOCK FALSE
INVARIANTS
  TypeOK
  HailIsGivenOnce
  StoppedIsPaused
PROPERTIES
  TurnsKeptApart
  CancelHitsItsTurn
  EveryTurnEnds
