\* Three processes that may be killed anywhere.
CONSTANTS
  Writers = {w1, w2, w3}
  Mortal = {w1, w2}
  Inodes = {i1, i2, i3, i4, i5}
  None = None
  Temporary <- Own
SPECIFICATION Spec
SYMMETRY Symmetry
INVARIANTS
  ReadersSeeWhole
  NobodyRaises
CHECK_DEADLOCK FALSE
