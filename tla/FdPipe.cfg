CONSTANTS
  PIPE_BUF_SIZE = 2
  StdFds = 1
  MaxFd = 4
  MaxPipes = 1
  MaxBytes = 4
SPECIFICATION Spec
CHECK_DEADLOCK FALSE
INVARIANTS TypeOK CountsCover
PROPERTIES EofIsFinal PipesAreStreams
