CONSTANTS
  s1 = s1
  s2 = s2
  m1 = m1
  m2 = m2
  m3 = m3
  Senders = {s1}
  Mails = {m1, m2, m3}
  NoMail = NoMail
  AllowKill = TRUE
  AllowFail = TRUE
  OtherLanes = TRUE
SPECIFICATION Spec
CHECK_DEADLOCK FALSE
INVARIANTS
  TypeOK
  LiveLaneIsRouted
  ReviveMeansRan
PROPERTIES
  ClearsOnlyLeftovers
