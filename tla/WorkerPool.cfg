CONSTANTS
  Workers = {w1, w2, w3}
  Task = {t1, t2, t3, t4}
  MaxQueueSize = 2
  NoTask = NoTask
SPECIFICATION Spec
INVARIANTS TypeOK ExactlyOnce JoinedMeansDone WorkConserving
PROPERTIES AcceptedCompletes ShutdownReturns ImplementsTaskPool
