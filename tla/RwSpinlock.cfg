CONSTANTS
  Threads = {a, b, c}
  ReaderMask = 3
SPECIFICATION Spec
INVARIANTS
  IInv
  WriteExclusion
PROPERTIES
  NoOvertaking
  WriterDrains
