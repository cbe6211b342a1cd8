SPECIFICATION FairSpec
CONSTANTS
  Launch = Launch
  Reminder1 = Reminder1
  Reminder2 = Reminder2
  Escalation = Escalation
  FinalReminder = FinalReminder
  ClosureReview = ClosureReview
  CommTypes = {Launch, Reminder1, Reminder2, Escalation, FinalReminder, ClosureReview}
  OffsetTables <- MCOffsetTables
  LaunchDays <- MCLaunchDays
INVARIANTS
  TypeOK
  DueIsNthWorkday
  ScheduleOrdered
PROPERTY ScheduleComplete
CHECK_DEADLOCK FALSE
