CONSTANTS
  p1 = p1
  p2 = p2
  i1 = i1
  i2 = i2
  i3 = i3
  i4 = i4
  NoFile = NoFile
  Writers = {p1, p2}
  Inodes = {i1, i2, i3, i4}
  MaxDrops = 2
  MaxTime = 2
SPECIFICATION Spec
SYMMETRY Symmetry
INVARIANT TypeOK
INVARIANT NothingInvented
PROPERTY Monotone
