CONSTANTS
  Names = {1, 2}
  Envelopes = {1, 2}
  NoName = 0
  NoEnvelope = 0
  ObserverLimit = 2
  MaxFaults = 1
SPECIFICATION FairSpec
CHECK_DEADLOCK FALSE
INVARIANTS
  TypeOK
  OneOccurrenceAtWork
PROPERTIES
  UncertainIsNotReplayed
  AcceptedIsReleased
