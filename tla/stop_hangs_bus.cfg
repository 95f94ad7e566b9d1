SPECIFICATION FairSpec
CONSTANTS
  DEPTH = 2
  CpuByte = CpuByte
  Transfers <- Stopped
  Ports = {"sterm"}
  FlushWrites = FALSE
  ChipAccess = FALSE
  MayAbort = TRUE
  MemBytes = 64
PROPERTIES
  StopAborts
