SPECIFICATION PartsSpec
CONSTANTS
  Callers = {c1}
  c1 = c1
  break = break
  Reasons = {break, parts_wait}
  Blocking = {parts_wait}
  Skews <- AnySkew
  Contents = {1, 2}
  HasVan = TRUE
  MaxNow = 8
  NoTime = NoTime
  NoCode = NoCode
  wheel = wheel
  hose = hose
  van = van
  store = store
  Items = {wheel, hose}
  Warehouses = {van, store}
  Home <- MCHome
  MaxVersion = 2
  MaxLoads = 2
  Parts = {wheel}
  MaxEntries = 3
  MaxHurried = 1
  MaxRequests = 2
  MaxKept = 1
  Blank = Blank
  MaxActs = 7
  MaxRushed = 4
  MaxCalls = 3
  MaxOwed = 1
  NotYet = NotYet
  Unlisted = Unlisted
  Refusal = Refusal
INVARIANT SealFinishes
INVARIANT CostingAsSigned
INVARIANT QueueTellsState
INVARIANT PausesFitWork
INVARIANT WatermarkCovers
INVARIANT EntriesKept
INVARIANT PageLeadsOn
PROPERTY PruneTakesOnlyTheGone
CHECK_DEADLOCK FALSE
