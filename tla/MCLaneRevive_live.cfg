CONSTANTS
  s1 = s1
  s2 = s2
  m1 = m1
  m2 = m2
  m3 = m3
  Senders = {s1, s2}
  Mails = {m1, m2}
  NoMail = NoMail
  AllowKill = FALSE
  AllowFail = FALSE
  OtherLanes = TRUE
SPECIFICATION FairSpec
CHECK_DEADLOCK FALSE
PROPERTIES
  ListeningLaneReads
