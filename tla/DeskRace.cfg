SPECIFICATION BoardSpec
CONSTANTS
  Employees = {e1}
  Programs = {p1}
  Batches = {b1, b2}
  ProgramOf <- MCProgramOf
  NomIds = {n1, n2, n3}
  Sessions = {s1, s2}
  Moves <- DeskMoves
  ActiveIndex = FALSE
  MaxOps = 4
  NoRow = NoRow
  Viewers = {v1}
  Capacity <- MCCapacity
  b1 = b1
  b2 = b2
  p1 = p1
INVARIANTS
  TypeOK
  HeldOK
  CreatedOnce
  StatusExplained
  ContentionBound
  TrailReplays
  SummaryDrift
SYMMETRY Symmetry
CHECK_DEADLOCK FALSE
