CONSTANTS
  CPUs = {c1}
  ThreadOps = {"mutex"}
  IsrOps = {"mutex"}
SPECIFICATION Spec
INVARIANTS
  NoCircularWait
