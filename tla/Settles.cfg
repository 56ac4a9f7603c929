SPECIFICATION SettlesSpec
CONSTANTS
  Certs = {c1, c2}
  Reqs = {r1}
  Keys = {1, 2}
  Numbers = {1, 2}
  Versions = {v1, v2}
  ParentOf <- NoParents
  MaxSignings = 4
  MaxNumber = 2
  UserActs = {"discard"}
  Overlap = FALSE
  MaxFaults = 1
  break = break
  j1 = j1
  j2 = j2
  screen1 = screen1
  NoTime = NoTime
  Reasons = {break}
  Blocking = {}
  Jobs = {j1, j2}
  Calls = {screen1}
  Drains = {"sync"}
  Acts = {"recall"}
  MaxTaps = 4
  MaxTroubles = 1
  Ids = {d1, d2}
  First = d1
  MaxForms = 2
  MaxOutages = 1
  Watched = {d2}
  Absent = Absent
  Cold = Cold
  NoEntry = NoEntry
  NoPull = NoPull
  NoSync = NoSync
INVARIANTS StoredMatchesRow AppliedInOrder MirrorAgrees AsEntered
PROPERTIES FairQueuedGetsSynced FairWritesAnswered FairRegisterSettles LeavesOnceTaken
CHECK_DEADLOCK FALSE
