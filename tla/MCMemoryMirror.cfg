SPECIFICATION Spec
CONSTANTS
  Bytes = {x1, x2}
  Values = {0, 1}
  Modes = {"strict", "shared", "direct"}
  MaxMaps = 2
INVARIANTS
  SidesAgree
  ImagesStayStrict
  NoChangeForgotten
PROPERTIES
  SubmitSeesHostWrites
  GpuBytesKept
CHECK_DEADLOCK FALSE
