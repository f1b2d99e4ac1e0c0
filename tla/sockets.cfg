SPECIFICATION Spec
CONSTANTS
  Clients = {c1,c2}
  Servers = {s1}
  ClientPorts = {p1,p2}
  ServerPorts = {q1}
  MAX_TRANSPORT_CONNECTIONS = 2
  SYN_MAX_RETRY = 1
  FIN_MAX_RETRY = 1
  MaxTimers = 2
INVARIANTS TypeOK Agreement OneTimer SocketsInv
PROPERTY EndsByDisconnect
SYMMETRY Symmetry
CONSTRAINT Bounds
CHECK_DEADLOCK FALSE
