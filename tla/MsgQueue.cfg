CONSTANTS
  Uids = {1, 2}
  Gids = {1}
  Keys = {"k"}
  Modes = {{"ur", "uw", "gr"}}
  MTypes = {1, 2}
  I64Max = 2
  Sizes = {1}
  Buffers = {0}
  Limits = {5}
  MSGMNI = 1
  MSGMNB = 1
  MaxId = 2
  Word = 6
  MaxStamp = 3
  MaxLen = 3
SPECIFICATION Spec
INVARIANTS
  TypeOK
  KeysIndexed
  SendOrder
PROPERTIES
  LeavesByDelivery
