SPECIFICATION HashedSpec
CONSTANTS
  Nodes <- MCNodes
  LinkCost <- MCLinkCost
  Shortest <- MCShortest
  INFINITE_COST = 9
  None = None
  MaxQueue = 0
  Flows <- MCFlows
  MayStop = {3}
  NoRoute = None
  File <- MCFile
  MAX_ROUTINGTABLE_SLOTS = 2
  MAX_NODE_NUM = 5
CONSTRAINT Bounds
INVARIANTS TypeOK NextHopCloser LoopFree PacketCloser NeverTooShort LookupAgrees
CHECK_DEADLOCK FALSE
