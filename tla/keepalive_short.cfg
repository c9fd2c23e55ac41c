\* A timeout no longer than the heartbeat.
SPECIFICATION FairSpec
CONSTANTS
  Heartbeat = 4
  ConfigTimeout = 4
  MaxRtt = 3
  MaxLate = 2
INVARIANTS NoFalseAlarm DetectedInTime
CHECK_DEADLOCK FALSE
