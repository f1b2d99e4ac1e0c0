SPECIFICATION Spec
CONSTANTS
  MAX_SEG_LEN = 2
  GBN_WINDOW = 1
  RECEIVE_BUF_SIZE = 3
  SYN_MAX_RETRY = 0
  FIN_MAX_RETRY = 1
  SEQ_MOD = 16
  UINT_MOD = 4
  NetCap = 2
  Reroute = TRUE
  SendLens = {3}
  MaxBytes = 3
  MaxConnects = 1
  MaxTimers = 2
  LinkMayFail = TRUE
  RecvLens = {2}
  MaxAccepts = 1
  ServerLinkMayFail = TRUE
INVARIANTS AckedIsStored UnsentIsLive TimerRuns SafetyInv
CHECK_DEADLOCK FALSE
