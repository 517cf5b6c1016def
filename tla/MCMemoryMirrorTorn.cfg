SPECIFICATION Spec
CONSTANTS
  Bytes = {x1}
  Values = {0, 1}
  Modes = {"shared"}
  MaxMaps = 1
PROPERTIES
  UnchangedBytesKept
CHECK_DEADLOCK FALSE
