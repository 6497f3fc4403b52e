SPECIFICATION FairSpec
CONSTANTS
  QueueCap = 1
  WireCap = 1
  MaxLinks = 2
  MaxCommands = 2
  BaseDelay = 2
  MaxDelay = 5
  Setups <- OneLinkOrTwo
INVARIANTS TypeOK CommandsOnceInOrder NothingLostUnbroken EndedLinkIsSilent
PROPERTIES LossIsNoticed StopFires
CHECK_DEADLOCK FALSE
