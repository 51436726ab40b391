SPECIFICATION FairSpec
CONSTANTS
  s1 = s1
  s2 = s2
  c1 = c1
  p1 = p1
  Starts = {s1, s2}
  Cancels = {c1}
  Polls = {p1}
  Faulty = {"turn_on", "turn_off", "queue"}
  MaxCuts = 1
INVARIANT PumpTimed
INVARIANT RowIsLatest
PROPERTY OnlyLatestTurnsOff
PROPERTY PumpGoesOff
CHECK_DEADLOCK FALSE
