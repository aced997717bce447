SPECIFICATION FairSpec
CONSTANTS
  Setup = 2
  QueueLimit = 2
  EventLimit = 5
  PipeRoom = 1
CHECK_DEADLOCK FALSE
INVARIANTS
  ReceptionIsHonest
  NothingBlocks
PROPERTIES
  ReceptionEnds
  Contract
