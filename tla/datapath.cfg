SPECIFICATION FairSpec
CONSTANTS
  a = a
  b = b
  u = u
  r = r
  Segments = {a, b, u}
  Updates = {r}
  Bytes <- MCBytes
  Senders <- MCSenders
  SegSize = 3
  Stale = {"."}
  StreamCap = 1
  MaxFrames = 3
  MaxCloses = 1
  None = None
  M = 16
  HeadWords = 1
  DataWords = 2
  DATA = 4
CONSTRAINT Bounds
INVARIANTS TypeOK BufferSuffices NothingBogus Intact
PROPERTIES Arrives
CHECK_DEADLOCK FALSE
