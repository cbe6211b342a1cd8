SPECIFICATION Spec
CONSTANTS
  id = id
  mail = mail
  mailPadded = mailPadded
  grade = grade
  tracker = tracker
  report = report
  wId = wId
  wMail = wMail
  wScore = wScore
  passed = passed
  failed = failed
  other = other
  na = na
  Blank = Blank
  Headers = {id, mail, mailPadded, grade, Blank}
  Normal <- MCNormal
  Sheets <- MCSheets
  Fields = {status}
  Unmapped = Unmapped
  KindOrder <- MCKindOrder
  Keywords <- MCKeywords
  Inside <- MCInside
  Cells <- MCCells
  BlankMarkers = {na}
  NotNumeric = NotNumeric
  NaN = NaN
  NoRule = NoEntry
  NoThreshold = NoThreshold
  Sessions = {s1, s2}
  RuleChoices <- MCRuleChoices
  NoEntry = NoEntry
  Unopenable = Unopenable
  MaxSaves = 2
INVARIANTS
  TypeOK
  DamageExplained
  SavedIsStored
  DriftSeen
  NeverAdverse
PROPERTY GrowthHarmless
SYMMETRY Symmetry
CHECK_DEADLOCK FALSE
