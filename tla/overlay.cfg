SPECIFICATION FairSpec
CONSTANTS
  Nodes <- MCNodes
  Table <- MCTable
  SockCap = 1
  None = None
  MaxPackets <- MCMaxPackets
  MayStop = {3}
  SnpMayStop = {1}
INVARIANTS TypeOK AllLinked FullOnlyIfRead
PROPERTIES ImplementsLinks AllInitialise Carries
CHECK_DEADLOCK FALSE
