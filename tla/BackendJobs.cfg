SPECIFICATION JobsSpec
CONSTANTS
  Kicks = {k1, k2}
  k1 = k1
  k2 = k2
  delta = delta
  sweep = sweep
  Modes <- MCModes
  Drain = drain
  Patient = {sweep}
  LeaseSeconds <- Leases
  Work <- Works
  Delay = 1
  Timeout = 1
  VerifyAfter = 3
  NoJob = NoJob
  NoKick = NoKick
  NumOrders = 2
  Cap = 1
  Overlap = 1
  Lag = 1
  FirstReach = 0
  Lanes = {"delta", "incremental"}
  BandOf <- MCBands
  MaxEdits = 1
  MaxClock = 1
  MaxExtras = 1
  MaxCursorClock = 3
INVARIANT SingleFlight
INVARIANT CursorKeepsEdits
PROPERTY FreedByItsOwn
PROPERTY FairLeaseComesFree
PROPERTY FairKicksResolved
PROPERTY FairRegisterCatchesUp
