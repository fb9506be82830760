CONSTANTS
  Managers = {m1, m2}
  Updater = Updater
  Clients = {c1, c2}
  Nobody = Nobody
  PipeCapacity = 3
  MaxCalls = 3
SPECIFICATION Spec
SYMMETRY Symmetry
INVARIANTS TypeOK PollsetSound RefsBalanced
PROPERTIES ShutdownShrinks
