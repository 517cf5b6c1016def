SPECIFICATION Spec
CONSTANTS
  l1 = l1
  l2 = l2
  Pools = {p}
  Layouts = {l1, l2}
  Contents = {}
  Blank = Blank
  MaxSets = 7
  TableRoom = 8
  BankCount = 2
  MaxPerAllocate = 4
  MaxRecords = 2
  MaxSequence = 9
  MaxEpoch = 2
  MaxSerial = 9
  Fragments = TRUE
  Signatures <- Nested
INVARIANTS
  LeasesAreLive
  PoolSpaceAccounted
PROPERTIES
  ImplementsPools
CHECK_DEADLOCK FALSE
