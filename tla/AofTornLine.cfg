CONSTANTS
  Commands = {c1, c2}
  Readings = {c1, torn}
  MaxLogged = 2
  MaxStarts = 2
SPECIFICATION Spec
INVARIANT FlushedIsReplayed
