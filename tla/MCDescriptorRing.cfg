SPECIFICATION FairSpec
CONSTANTS
  Requests = {r1, r2}
  SlotCount = 2
  MaxSequence = 3
INVARIANTS
  TypeOK
  AnswersOwnRequest
  ExecutesInOrder
  NoBrokenRing
  NoLostHandoff
PROPERTIES
  WaitsEnd
CHECK_DEADLOCK FALSE
