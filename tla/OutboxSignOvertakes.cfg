SPECIFICATION OutboxSpec
CONSTANTS
  break = break
  spares = spares
  Reasons = {break}
  Blocking = {}
  NoTime = NoTime
  Jobs = {j1}
  Calls = {c1}
  Drains = {sync}
  Acts = {"overtake"}
  MaxTaps = 5
  MaxTroubles = 0
INVARIANT SealedAsWritten
CHECK_DEADLOCK FALSE
