SPECIFICATION Spec
CONSTANTS
  rd = rd
  wr = wr
  tur = tur
  tp = tp
  sn = sn
  NULL = NULL
  Cmds = {rd, wr}
  Attr <- Commands
  Setups <- Aborts
INVARIANTS
  CommandsKept
  NoDmaAfterReturn
  AbortedIsOver
CHECK_DEADLOCK FALSE
