SPECIFICATION Spec
CONSTANTS
  Clients = {c1, c2}
  MaxProduced = 2
  Payloads = {"keys", "invalid"}
  Backlog <- KeepOne
  Capacity <- TwoOrOne
  SocketCapacity = 1
  MaxSent = 2
INVARIANTS
  BridgeIsSound
  NothingIsLostOnTheWay
CHECK_DEADLOCK FALSE
PROPERTIES
  InputReachesTheParent
