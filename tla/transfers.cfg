SPECIFICATION Spec
CONSTANTS
  DEPTH = 2
  CpuByte = CpuByte
  Transfers <- ReadsAndWrites
  Ports = {"sterm", "d32", "d16"}
  FlushWrites = FALSE
  ChipAccess = FALSE
  MayAbort = FALSE
  MemBytes = 64
INVARIANTS
  TypeOK
  CountOneWay
  RequestNotOverrun
  RequestNotSwallowed
  CountNeverWraps
  PointersAgree
  FlushWritesWhatRemains
  OneMaster
PROPERTIES
  StreamSpec
  FlushNotDropped
  CyclesAnswered
  DackAnswersDreq
