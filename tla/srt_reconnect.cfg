SPECIFICATION Spec
CONSTANTS
  MAX_SEG_LEN = 2
  GBN_WINDOW = 1
  RECEIVE_BUF_SIZE = 2
  SYN_MAX_RETRY = 0
  FIN_MAX_RETRY = 0
  SEQ_MOD = 16
  UINT_MOD = 4
  NetCap = 2
  Reroute = FALSE
  SendLens = {1}
  MaxBytes = 2
  MaxConnects = 2
  MaxTimers = 1
  LinkMayFail = FALSE
  RecvLens = {1}
  MaxAccepts = 2
  ServerLinkMayFail = FALSE
INVARIANTS TypeOK InOrder FifoInv
PROPERTY ImplementsStream
CHECK_DEADLOCK FALSE
