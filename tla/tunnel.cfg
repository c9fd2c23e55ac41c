\* The window is four times the mark, as it is with the defaults of mux_config and
\* of the hosts; a direction of the tunnel holds one frame.
SPECIFICATION Spec
CONSTANTS
  SessionWindow = 12
  High = 3
  Pipe = 4
  Header = 1
  Chunk = 3
  Short = 1
  MaxControl = 1
PROPERTIES PauseEnds
CHECK_DEADLOCK FALSE
