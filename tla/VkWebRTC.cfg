SPECIFICATION MCSpec
CONSTANTS
  Transports = {a, b}
  First = a
  MaxJoins = 3
  MaxFaults = 1
INVARIANTS TypeOK OffersNeverMeet SocketHasPeer
PROPERTIES AloneWaits PairsUp
CHECK_DEADLOCK FALSE
