\* Both sides open, close and reset streams in any order while one of them writes
\* and drains, with a cap of one stream and an output buffer that fills up.
SPECIFICATION Spec
CONSTANTS
  MaxSid = 2
  SidSpace = 100
  InitWindow <- One
  SessionWindow <- One
  MaxStreams <- One
  MaxDataFrame = 1
  MaxCredit = 2
  WindowCeiling = 100
  OutCap = 3
  Openers = {"DIALER", "ACCEPTOR"}
  Writers = {"ACCEPTOR"}
  Closers = {"DIALER", "ACCEPTOR"}
  Resetters = {"DIALER", "ACCEPTOR"}
  Controllers = {"ACCEPTOR"}
  MaxWrite = 1
  MaxControl = 1
INVARIANTS NoPeerFault QuiescentTablesAgree StreamConservation
CHECK_DEADLOCK FALSE
