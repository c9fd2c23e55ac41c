SPECIFICATION Spec
CONSTANTS
  MaxProcs = 2
  Backlog = 2
  BackoffMin = 250
  BackoffMax = 8000
  Slots = {1, 2, 3}
  MaxFaults = 2
PROPERTIES EdgeComesDown TunnelComesUp
CHECK_DEADLOCK FALSE
