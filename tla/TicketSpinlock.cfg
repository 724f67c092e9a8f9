CONSTANTS
  Threads = {t1, t2, t3}
  Wrap = 4
SPECIFICATION Spec
INVARIANTS
  IInv
  MutualExclusion
PROPERTIES
  TryLockNeverBarges
  UnlockedAnswerIsTrue
  FifoSpec
  StarvationFree
