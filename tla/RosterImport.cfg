SPECIFICATION Spec
CONSTANTS
  Codes = {c7, c007, c8}
  Emails = {x, y}
  Names = {ann, anne}
  Blank = Blank
  Trimmed <- MCTrimmed
  Similarity <- MCSimilarity
  Threshold = 90
  Importers = {m1, m2}
  Rows <- MCRows
  MaxRows = 4
  c7 = c7
  c007 = c007
  c8 = c8
  x = x
  y = y
  ann = ann
  anne = anne
INVARIANTS
  TypeOK
  OnePerson
  RightPerson
  RefusalsAreStale
  
SYMMETRY Symmetry
CHECK_DEADLOCK FALSE
