SPECIFICATION Spec
CONSTANTS
  front = front
  back = back
  p1 = p1
  p2 = p2
  None = None
  Channels = {0, 1}
  Names = {front, back}
  Ids = {1, 2, 3}
  Pages = {p1, p2}
  MaxChanges = 1
INVARIANT AllSynced
INVARIANT OnePerChannel
PROPERTY FlagsKept
SYMMETRY Symmetry
CHECK_DEADLOCK FALSE
