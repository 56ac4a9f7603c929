\* Two requests for one certificate overlap.
SPECIFICATION ServerSpec
CONSTANTS
  Reqs = {r1, r2}
  Keys = {1, 2}
  Numbers = {1, 2}
  Versions = {v1}
  ParentOf <- MCParentOf
  MaxSignings = 2
  MaxNumber = 1
PROPERTIES IssuedPdfImmutable
CHECK_DEADLOCK FALSE
