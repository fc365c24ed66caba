CONSTANTS
  Keys = {k1}
  Fields = {f1}
  Values = {v1}
  Indices <- MCIndices
  TTLs <- MCTTLs
  DefaultTTL = 3
  MaxTime = 6
  MaxLength = 1
  WHEEL_SIZE = 3
  Delays <- MCDelays
  None = None
  MaxWaiting = 2
  MaxLag = 1
SPECIFICATION WheelSpec
INVARIANTS WheelTypeOK NothingMissed
PROPERTIES SweeperUnseen DueIsEvicted
