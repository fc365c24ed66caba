CONSTANTS
  Workers = {w1}
  Sockets = {s1}
  NoTask = NoTask
  None = None
  MaxQueueSize = 1
  MAX_CONNECTIONS = 1
  MAX_PIPELINE_DEPTH = 1
  LineKinds = {"command"}
  MaxLines = 1
  MaxDials = 2
SPECIFICATION Spec
INVARIANT OwnResponsesOnly
