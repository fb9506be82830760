CONSTANTS
  Managers = {m1}
  Updater = Updater
  Clients = {c1, c2}
  Nobody = Nobody
  PipeCapacity = 1
  MaxCalls = 4
SPECIFICATION Spec
PROPERTIES CloseReturns
CHECK_DEADLOCK FALSE
