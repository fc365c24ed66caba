CONSTANTS
  Commands = {c1, c2}
  Readings = {c1, torn}
  MaxLogged = 3
  MaxStarts = 2
SPECIFICATION Spec
INVARIANTS TypeOK LoggedInOrder ShutdownIsDurable KillLosesSuffix
PROPERTIES ImplementsCommandLog LoggedReachesFile ShutdownReturns
