SPECIFICATION Spec
CONSTANTS
  DEPTH = 2
  CpuByte = CpuByte
  Transfers <- SmallWrites
  Ports = {"sterm", "d32", "d16"}
  FlushWrites = FALSE
  ChipAccess = FALSE
  MayAbort = FALSE
  MemBytes = 64
INVARIANTS
  MemoryReachesChip
