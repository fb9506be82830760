CONSTANTS
  Managers = {m1}
  Updater = Updater
  Clients = {c1, c2}
  Nobody = Nobody
  PipeCapacity = 3
  MaxCalls = 3
SPECIFICATION FlushingSpec
PROPERTIES ShutdownTerminates
