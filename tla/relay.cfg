SPECIFICATION Spec
CONSTANTS
  Roles = {"edge", "backend"}
  MaxStreams = 2
  MaxConns = 2
  MaxRead = 1
  MaxBatch = 2
  MaxReady = 2
  MaxSid = 2
  Win = 2
  ConnWin = 8
INVARIANTS MirrorsStream BlockedHasWakeup InterestCurrent FinishedReleased ListenerResumes
CHECK_DEADLOCK FALSE
