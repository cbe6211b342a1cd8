SPECIFICATION Spec
CONSTANTS
  Employees = {e1}
  Programs = {p1}
  Batches = {b1}
  ProgramOf <- MCProgramOf
  NomIds = {n1, n2}
  Sessions = {s1, s2}
  Moves <- ForwardMoves
  ActiveIndex = FALSE
  MaxOps = 3
  NoRow = NoRow
  b1 = b1
  b2 = b2
  p1 = p1
INVARIANT OneActive
CHECK_DEADLOCK FALSE
