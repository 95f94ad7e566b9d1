SPECIFICATION Spec
CONSTANTS
  rd = rd
  wr = wr
  tur = tur
  tp = tp
  sn = sn
  NULL = NULL
  Cmds = {rd, wr, tur, tp, sn}
  Attr <- Commands
  Setups <- Operation
INVARIANTS
  CommandsKept
  TargetsAgree
  DataInPlace
  ConnectionsUnderstood
  ReselectionEnabled
  TimingAgreed
PROPERTIES
  MessagesEndWithConnection
  LoserPutBack
  CommandsServed
