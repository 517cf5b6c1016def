SPECIFICATION Spec
CONSTANTS
  WireIds <- MCWireIds
  ParentIds <- MCParentIds
  ObjectTypes = {1, 2}
  Natives = {0, 1}
  Capacity = 4
  Hash <- MCHash
INVARIANTS
  EntriesReachable
  CountIsOccupancy
PROPERTY
  ImplementsMap
