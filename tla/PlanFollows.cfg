SPECIFICATION CaptureSpec
CONSTANTS
  Hoses = {h1}
  Points = {"min_flow_20l", "preset"}
  Slips = {0, 104}
  Held = {"20L", "5L", "200L"}
  MaxDay = 2
  None = None
  Opening = Opening
  MaxRenewals = 1
PROPERTY PlanFollowsPlate
CHECK_DEADLOCK FALSE
