CONSTANTS
  Senders = {s1}
  Loop = Loop
  Nobody = Nobody
  Async = {a1}
  Requests = {r1}
  Calls = {}
  Guarded = FALSE
SPECIFICATION Spec
INVARIANTS OwnerExists
