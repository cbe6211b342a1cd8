SPECIFICATION Spec
CONSTANTS
  Rules = {q1, q2}
  Required = {q1}
  PassMark = 60
  Noms = {n1}
  Sessions = {s1, s2}
  Readings <- MCReadings
  MaxChecks = 3
INVARIANTS
  TypeOK
  DecisionBacked
  DecisionGrounds
SYMMETRY Symmetry
CHECK_DEADLOCK FALSE
