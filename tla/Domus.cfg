SPECIFICATION FairSpec
CONSTANTS
  p = p
  q = q
  r = r
  Peers = {p, q}
  Foreign = r
  Conns = {1, 2, 3}
  Dials = {6, 7, 8, 9}
  HandshakeTotal = 1
  AcceptedCapacity = 1
  HandshakePerPeer = 1
  MaxHandles = 2
  CommandCapacity = 2
  ErrorCapacity = 2
  ReadLimit = 1
  Workloads <- MCWorkloads
CHECK_DEADLOCK FALSE
INVARIANTS PermitsExact RendezvousExact OneLiveHandle ReportsExact ErrorsAccounted
PROPERTY ShutdownEnds
