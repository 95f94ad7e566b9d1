SPECIFICATION LiveSpec
CONSTANTS
  rd = rd
  wr = wr
  tur = tur
  tp = tp
  sn = sn
  NULL = NULL
  Cmds = {rd, wr}
  Attr <- Commands
  Setups <- Live
PROPERTIES
  EveryCommandReturned
