CONSTANTS
  Holds = {h1, h2, h3}
  Nothing = Nothing
  MaxCrashes = 3

SPECIFICATION Spec
INVARIANT FileIsWhole
PROPERTY KeepsTheBook
