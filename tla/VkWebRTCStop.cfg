SPECIFICATION Spec
CONSTANTS
  Transports = {a, b}
  MaxJoins = 3
  MaxFaults = 1
PROPERTIES IdleLasts
CHECK_DEADLOCK FALSE
