SPECIFICATION RulesSpec
CONSTANTS
  gate = gate
  yard = yard
  front = front
  back = back
  m1 = m1
  m2 = m2
  b1 = b1
  b2 = b2
  e1 = e1
  e2 = e2
  e3 = e3
  Devices = {gate}
  Tags = {front, back}
  Masks = {m1}
  Buttons = {b1, b2}
  Edits = {e1, e2, e3}
  MaxMoves = 1
INVARIANT NoConflict
INVARIANT OneGuestHome
INVARIANT RulesOfOneForm
SYMMETRY Symmetry
CHECK_DEADLOCK FALSE
