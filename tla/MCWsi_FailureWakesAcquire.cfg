SPECIFICATION Spec
CONSTANTS
  SlotCount = 2
  MaxSequence = 3
INVARIANT
  FailureWakesAcquire
