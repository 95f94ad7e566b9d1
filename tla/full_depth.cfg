SPECIFICATION Spec
CONSTANTS
  DEPTH = 8
  CpuByte = CpuByte
  Transfers <- DeepTransfers
  Ports = {"sterm", "d16"}
  FlushWrites = TRUE
  ChipAccess = TRUE
  MayAbort = FALSE
  MemBytes = 64
INVARIANTS
  CountNeverWraps
  PointersAgree
  ChipAccessOnce
PROPERTIES
  StreamSpec
  FlushNotDropped
  ChipGetsCpuByte
