CONSTANTS
  Senders = {s1, s2}
  Loop = Loop
  Nobody = Nobody
  Async = {a1}
  Requests = {r1}
  Calls = {c1}
  Guarded = TRUE
SPECIFICATION Spec
INVARIANTS TypeOK NoLostWakeup NeverDangling Accounted
PROPERTIES MessagesSettle
