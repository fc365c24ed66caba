CONSTANTS
  Keys = {k1, k2}
  Fields = {f1, f2}
  Values = {v1, v2}
  Indices <- MCIndices
  TTLs <- MCTTLs
  DefaultTTL = 2
  MaxTime = 2
  MaxLength = 2
SPECIFICATION Spec
SYMMETRY Symmetry
INVARIANT TypeOK
PROPERTIES ImplementsKeyValue LeaseKept
