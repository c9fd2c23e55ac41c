\* The default timeout, three heartbeats, as relay, router and libpeer use it.
SPECIFICATION FairSpec
CONSTANTS
  Heartbeat = 2
  ConfigTimeout = 0
  MaxRtt = 1
  MaxLate = 1
PROPERTIES DeadPeerDetected
CHECK_DEADLOCK FALSE
