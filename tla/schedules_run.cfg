SPECIFICATION Spec
CONSTANTS
  motion = motion
  person = person
  m1 = m1
  f1 = f1
  f2 = f2
  None = None
  Types = {motion, person}
  Masks = {m1}
  Posts = {f1, f2}
  Forms <- MCForms
  Suns <- MCSuns
  MaxDays = 1
INVARIANT WindowFilled
INVARIANT PreviewAgrees
INVARIANT WroteDue
INVARIANT WholeOrUntouched
INVARIANT CheckedIsArmed
SYMMETRY Symmetry
CHECK_DEADLOCK FALSE
