SPECIFICATION Spec
CONSTANTS
  SlotCount = 2
  MaxSequence = 3
INVARIANTS
  TypeOK
  ReadsOldestFrame
  NoProtocolError
  NoImageLost
  ConsumerNotStranded
PROPERTY
  ImplementsFrameQueue
