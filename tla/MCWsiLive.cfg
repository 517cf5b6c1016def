SPECIFICATION FairSpec
CONSTANTS
  SlotCount = 2
  MaxSequence = 2
PROPERTY
  PublishedIsShown
