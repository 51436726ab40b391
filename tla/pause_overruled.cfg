SPECIFICATION Spec
CONSTANTS
  gate = gate
  yard = yard
  p1 = p1
  p2 = p2
  home = home
  away = away
  Devices = {gate, yard}
  Pauses = {p1, p2}
  Fulls = {home, away}
  Tagged <- MCTagged
  ModeOf <- MCModeOf
  MaxEdits = 0
  MaxCuts = 0
PROPERTY FullCommandStands
CHECK_DEADLOCK FALSE
