SPECIFICATION FairSpec
CONSTANTS
  u1 = u1
  u2 = u2
  Users = {u1, u2}
  MaxPendingWrites = 2
  Handshake = Handshake
  Faults = {"break", "kill"}
  MaxWrites = 3
  MaxCloses = 3
INVARIANTS
  TypeOK
  AnswersAreTrue
  PipelineMatchesQueue
  StreamAssertions
  NoLostUpdate
PROPERTIES
  WritesAnswered
  ImplementsDelivery
CHECK_DEADLOCK FALSE
