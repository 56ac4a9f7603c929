SPECIFICATION DrainSpec
CONSTANTS
  Callers = {c1}
  c1 = c1
  break = break
  spares = spares
  Reasons = {break, spares}
  Blocking = {spares}
  Skews <- TrueTime
  Contents = {1}
  HasVan = FALSE
  MaxNow = 5
  NoTime = NoTime
  NoCode = NoCode
  Drains = {d1}
  d1 = d1
  Allowlist = {TRUE}
  MAX_ATTEMPTS = 2
  MaxFaults = 0
INVARIANT OnKeyAgrees
CHECK_DEADLOCK FALSE
