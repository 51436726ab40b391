SPECIFICATION RulesSpec
CONSTANTS
  gate = gate
  yard = yard
  front = front
  back = back
  m1 = m1
  m2 = m2
  b1 = b1
  b2 = b2
  e1 = e1
  e2 = e2
  e3 = e3
  Devices = {gate, yard}
  Tags = {front, back}
  Masks = {m1}
  Buttons = {b1, b2}
  Edits = {e1}
  MaxMoves = 0
INVARIANT RunStaysInRules
SYMMETRY Symmetry
CHECK_DEADLOCK FALSE
