SPECIFICATION Spec
CONSTANTS
  ann = ann
  bob = bob
  p1 = p1
  p2 = p2
  b1 = b1
  Nobody = Nobody
  People = {ann, bob}
  Browsers = {b1}
  Posts = {p1, p2}
  MaxId = 4
  MaxPosts = 6
  MaxImports = 2
INVARIANT UsedOnce
INVARIANT SessionIsOwn
SYMMETRY Symmetry
CHECK_DEADLOCK FALSE
