CONSTANTS
  Clients = {c1, c2}
  Symbols = {s1}
  Vals = {1, 2}
  MaxUpdates = 2
  listener = listener
  Texts <- MCTexts
  max_buf_size = 4
  MaxTexts = 2
SPECIFICATION ServerSpec
INVARIANTS ServerTypeOK OutputInSync NoLeak
PROPERTIES ServersSettle
CHECK_DEADLOCK FALSE
