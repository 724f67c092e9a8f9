CONSTANTS
  Readers = {r1}
  Writers = {w1, w2}
  Size = 2
  Wrap = 4
  MaxWrites = 4
SPECIFICATION Spec
INVARIANTS
  IInv
  NoTornRead
PROPERTIES
  ReadIsCurrent
  ReadsEnd
