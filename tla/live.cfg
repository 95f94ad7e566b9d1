SPECIFICATION FairSpec
CONSTANTS
  DEPTH = 2
  CpuByte = CpuByte
  Transfers <- LiveTransfers
  Ports = {"d16"}
  FlushWrites = FALSE
  ChipAccess = TRUE
  MayAbort = FALSE
  MemBytes = 64
PROPERTIES
  TransferCompletes
  BusReleased
  FlushCompletes
  AccessTerminates
