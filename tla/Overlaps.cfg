SPECIFICATION OverlapSpec
CONSTANTS
  Reqs = {r1, r2}
  Keys = {1, 2}
  Numbers = {1, 2}
  Versions = {v1}
  ParentOf <- MCParentOf
  MaxSignings = 3
  MaxNumber = 1
  break = break
  j1 = j1
  c1 = c1
  c2 = c2
  sync = sync
  profile = profile
  i1 = i1
  i2 = i2
  l1 = l1
  l2 = l2
  Wsdl = Wsdl
  Callers = {c1, c2}
  Jobs = {j1}
  Calls = {c1, c2}
  Drains = {sync, profile}
  Acts = {"overtake", "lost_answer", "kill", "recall", "stale_list"}
  MaxTaps = 3
  MaxTroubles = 1
  Invocations = {i1, i2}
  Cards = {1}
  Lines = {l1, l2}
  Report <- MCReport
  Bite = 2
  GiveUp = 2
  MaxHiccups = 1
  Reasons = {break}
  Blocking = {}
  Skews <- TrueTime
  Contents = {1}
  HasVan = TRUE
  MaxNow = 7
  NoTime = NoTime
  NoCode = NoCode
INVARIANTS IssuedRetrievable AnswersOwnCertificate StopRollsOver ReplayInOrder
INVARIANTS LogsOff BookedOncePerTry
PROPERTY IssuedOnce
SYMMETRY ReqSymmetry
CHECK_DEADLOCK FALSE
