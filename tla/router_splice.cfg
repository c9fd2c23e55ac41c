SPECIFICATION Spec
CONSTANTS
  NEdges = 1
  NWorkers = 1
  MaxSid = 2
  Win = 2
  ConnWin = 2
  MaxWeight = 1
  MaxBatch = 2
INVARIANTS StreamsRouted Coupled PendWakes MapsMirror
