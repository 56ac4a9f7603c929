SPECIFICATION MeasureSpec
CONSTANTS
  Technicians = {t1, t2}
  Admins = {adm}
  MaxSignIns = 2
  Nobody = Nobody
  MaxQueued = 1
  MaxPulls = 1
  Cold = Cold
INVARIANT BlankUntilOwn
CHECK_DEADLOCK FALSE
