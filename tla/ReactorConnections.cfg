CONSTANTS
  Workers = {w1, w2}
  Sockets = {s1, s2}
  NoTask = NoTask
  None = None
  MaxQueueSize = 2
  MAX_CONNECTIONS = 2
  MAX_PIPELINE_DEPTH = 1
  LineKinds = {"command"}
  MaxLines = 2
  MaxDials = 3
SPECIFICATION Spec
SYMMETRY Symmetry
INVARIANTS TypeOK ResponsesInOrder NothingForgotten ConnectionCount PausedAreConnected
