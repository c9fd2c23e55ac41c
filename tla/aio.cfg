SPECIFICATION AioSpec
CONSTANTS
  MaxSid = 1
  Win = 1
  ConnWin = 2
  LP_WBUF_HIGH = 1
  MaxWrite = 1
  MaxHandles = 1
  MaxBatch = 1
  MaxSessions = 2
  Uses = {"polls"}
  max_events = 2
INVARIANTS WaitersHaveReason MapMirrors
PROPERTIES ServeReturns NobodyStrands
CHECK_DEADLOCK FALSE
