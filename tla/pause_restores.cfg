SPECIFICATION FairSpec
CONSTANTS
  gate = gate
  yard = yard
  p1 = p1
  p2 = p2
  home = home
  away = away
  Devices = {gate, yard}
  Pauses = {p1, p2}
  Fulls = {home}
  Tagged <- MCTagged
  ModeOf <- MCModeOf
  MaxEdits = 1
  MaxCuts = 1
INVARIANT PauseIsUndone
INVARIANT SavedHasRearm
PROPERTY RestoredOnce
PROPERTY PausesEnd
CHECK_DEADLOCK FALSE
