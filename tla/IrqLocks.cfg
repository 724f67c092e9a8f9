CONSTANTS
  CPUs = {c1, c2}
  ThreadOps = {"spin", "write"}
  IsrOps = {"spin", "read", "write"}
SPECIFICATION Spec
INVARIANTS
  GuardsBacked
  NoCircularWait
  HeldWithIrqsOff
PROPERTIES
  FlagRestored
