SPECIFICATION RegisterSpec
CONSTANTS
  Ids = {d1, d2, d3}
  First = d1
  MaxForms = 1
  MaxOutages = 1
  Watched = {"list"}
  Absent = Absent
  Cold = Cold
  NoEntry = NoEntry
  NoPull = NoPull
  NoSync = NoSync
INVARIANT AddedOnce
CHECK_DEADLOCK FALSE
