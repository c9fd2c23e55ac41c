\* Two streams at a time, each with a window of its own, share a connection window
\* of which the bytes of streams that are gone keep a part; either end resets
\* streams and their slots are used again.
SPECIFICATION FairSpec
CONSTANTS
  MaxSid = 5
  SidSpace = 100
  InitWindow <- One
  SessionWindow <- Two
  MaxStreams <- Two
  MaxDataFrame = 2
  MaxCredit = 2
  WindowCeiling = 100
  OutCap = 100
  Openers = {"DIALER"}
  Writers = {"DIALER"}
  Closers = {}
  Resetters = {"DIALER", "ACCEPTOR"}
  Controllers = {}
  MaxWrite = 2
  MaxControl = 1
INVARIANTS BlockedMeansNoRoom WaitingIsBlocked SingleOpenerNeverRefused
PROPERTIES DialerWindow WaitingEnds
CHECK_DEADLOCK FALSE
