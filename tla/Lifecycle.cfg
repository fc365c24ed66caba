CONSTANTS
  Workers = {w1, w2}
  MaxQueueSize = 2
  NoTask = NoTask
  Tasks = {t1, t2, t3}
SPECIFICATION Spec
INVARIANTS TypeOK OnlySweeperRefused ReturnsQuiet
PROPERTY ShutdownCompletes
