CONSTANTS
  Keys = {k1}
  Fields = {f1}
  Values = {v1, v2}
  Indices <- MCIndices
  TTLs <- MCTTLs
  DefaultTTL = 2
  MaxTime = 2
  MaxLength = 3
  NotANumber = NotANumber
  Null = Null
  Requests <- MCRequests
  Readings <- MCReadings
  MaxWorkers = 2
  MaxEntries = 3
  MaxStarts = 2
SPECIFICATION PersistenceSpec
SYMMETRY Symmetry
VIEW WithoutReply
INVARIANT FlushedIsRestored
