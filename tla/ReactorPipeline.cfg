CONSTANTS
  Workers = {w1, w2}
  Sockets = {s1}
  NoTask = NoTask
  None = None
  MaxQueueSize = 1
  MAX_CONNECTIONS = 1
  MAX_PIPELINE_DEPTH = 2
  LineKinds = {"command", "unknown", "blank"}
  MaxLines = 4
  MaxDials = 1
SPECIFICATION Spec
INVARIANTS ResponsesInOrder NothingForgotten PipelineDepthRespected
  NeverBusy WritesArePolled
PROPERTIES PausedIsNotRead StampedIsAnswered StopReturns
