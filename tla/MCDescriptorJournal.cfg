SPECIFICATION Spec
CONSTANTS
  l1 = l1
  l2 = l2
  Pools = {p, q}
  Layouts = {l1, l2}
  Contents = {x, y}
  Blank = Blank
  MaxSets = 3
  TableRoom = 4
  BankCount = 1
  MaxPerAllocate = 2
  MaxRecords = 2
  MaxSequence = 5
  MaxEpoch = 2
  MaxSerial = 4
  Fragments = FALSE
  Signatures <- Nested
INVARIANTS
  InSync
  JournalAccepted
PROPERTIES
  ImplementsPools
CHECK_DEADLOCK FALSE
SYMMETRY Symmetry
