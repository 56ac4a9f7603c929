SPECIFICATION PhoneSpec
CONSTANTS
  w1 = w1
  w2 = w2
  s1 = s1
  k1 = k1
  k2 = k2
  o1 = o1
  o2 = o2
  t1 = t1
  q1 = q1
  q2 = q2
  Persons = {o1, o2}
  Book <- MCBook
  SiteOf <- MCSiteOf
  Found = {w1}
  JobOf <- MCJobOf
  MaxVisits = 2
  MaxFlights = 2
  MaxRuns = 2
  MaxDrops = 1
  Nothing = Nothing
  Certs = {c1}
  Reqs = {r1, r2}
  Keys = {1, 2}
  Numbers = {1}
  Versions = {v1, v2}
  ParentOf <- NoParents
  MaxSignings = 3
  MaxNumber = 1
  UserActs = {"offline", "lateEdit", "discard", "archive", "evict"}
  Overlap = TRUE
  MaxFaults = 1
  Technicians = {t1, t2}
  Admins = {}
  MaxSignIns = 2
  None = None
  Nobody = Nobody
  Enforce = TRUE
  Calls = {q1, q2}
  Hoses = {h1}
  Points = {"min_flow_20l", "preset"}
  Slips = {0, 104}
  Held = {"20L", "5L", "200L"}
  MaxDay = 2
  MaxRenewals = 1
  Opening = Opening
INVARIANTS IssuedAsApproved SignedIsIssued SealedCanBeActedOn SettledIsPresent NothingHidden
PROPERTIES RefusedOnlyForTime SignedByItsOfficer TrustOnFirstUse
CHECK_DEADLOCK FALSE
