SPECIFICATION LiveDrainSpec
CONSTANTS
  Callers = {c1}
  c1 = c1
  spares = spares
  Reasons = {spares}
  Blocking = {spares}
  Skews <- TrueTime
  Contents = {1}
  HasVan = TRUE
  MaxNow = 4
  NoTime = NoTime
  NoCode = NoCode
  Drains = {d1}
  d1 = d1
  Allowlist = {TRUE, FALSE}
  MAX_ATTEMPTS = 2
  MaxFaults = 1
INVARIANT DeadNeverLanded
PROPERTY RowsSettle
PROPERTY NoOvertaking
CHECK_DEADLOCK FALSE
