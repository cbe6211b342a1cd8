SPECIFICATION Spec
CONSTANTS
  java = java
  cloud = cloud
  data = data
  t1 = t1
  t2 = t2
  e1 = e1
  e2 = e2
  code1 = code1
  name1 = name1
  Nothing = Nothing
  None = None
  ProgramNames = {java, cloud, data}
  Trfs = {t1, t2}
  Employees = {e1, e2}
  Profile <- MCProfile
  Sessions = {s1, s2}
  FirstPrograms <- MCFirstPrograms
  FirstBatches <- MCFirstBatches
  MaxRows = 6
INVARIANTS
  TypeOK
  ChoiceHonoured
  ExportSound
SYMMETRY Symmetry
CHECK_DEADLOCK FALSE
