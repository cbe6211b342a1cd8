------------------------- MODULE MCEscalationSchedule -------------------------
(* Small instances of EscalationSchedule for TLC: DEFAULT_OFFSETS, and a     *)
(* table with dates before the launch.                                       *)
EXTENDS EscalationSchedule, TLC

CONSTANTS Launch, Reminder1, Reminder2, Escalation, FinalReminder, ClosureReview

MCDefaultOffsets ==
  Launch :> 0 @@ Reminder1 :> 3 @@ Reminder2 :> 5 @@ Escalation :> 7
  @@ FinalReminder :> 9 @@ ClosureReview :> 11

MCEarlyOffsets == Launch :> 0 @@ Reminder1 :> -7 @@ Reminder2 :> -1 @@ Escalation :> 1

MCOffsetTables == {MCDefaultOffsets, MCEarlyOffsets}

MCLaunchDays == 0 .. 6
=============================================================================
