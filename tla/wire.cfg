SPECIFICATION Spec
CONSTANTS
  Base = 4
  Width16 = 1
  Width32 = 2
  MUX_MAX_PAYLOAD = 3
  OutCap = 8
  max_out_buffer = 16
  EvqCap = 2
  SoftCaps = {1, 32}
  max_streams = 3
  RecvCap = 15
  Pipe = 9
  MaxFrames = 3
INVARIANTS BuffersBounded NothingLeftBehind
PROPERTIES IsChannel
CHECK_DEADLOCK FALSE
