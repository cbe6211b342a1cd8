SPECIFICATION Spec
CONSTANTS
  Rules = {q1}
  Required = {q1}
  PassMark = 60
  Noms = {n1}
  Sessions = {s1}
  Readings <- MCReadings
  MaxChecks = 3
INVARIANT OverrideSupersedes
CHECK_DEADLOCK FALSE
