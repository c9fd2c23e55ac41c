SPECIFICATION Spec
CONSTANTS
  MaxSid = 2
  Win = 1
  ConnWin = 2
  LP_WBUF_HIGH = 1
  MaxWrite = 1
  MaxHandles = 2
  MaxBatch = 1
  MaxSessions = 2
  Uses = {"calls", "reconnects", "polls"}
INVARIANTS SleepersHaveReason RequestsMove SessionMatches ListsExact ReadyArmed
\* The client is freed in the end.
CHECK_DEADLOCK FALSE
