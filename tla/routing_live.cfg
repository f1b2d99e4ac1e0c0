SPECIFICATION FairSpec
CONSTANTS
  Nodes <- MCNodes
  LinkCost <- MCLinkCost
  Shortest <- MCShortest
  INFINITE_COST = 9
  None = None
  MaxQueue = 0
  Flows <- MCFlows
  MayStop = {3}
CONSTRAINT Bounds
PROPERTY Converges
CHECK_DEADLOCK FALSE
