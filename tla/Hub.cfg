SPECIFICATION HubSpec
CONSTANTS
  tablet = tablet
  kitchen = kitchen
  line = line
  fire = fire
  bump = bump
  Devices = {tablet, kitchen}
  HubOps = {line, fire, bump}
  By <- MCBy
  Needs <- MCNeeds
  RunCap = 2
  Budget = 3
INVARIANTS CauseFirst Custody
PROPERTIES EverythingArrives
CHECK_DEADLOCK FALSE
