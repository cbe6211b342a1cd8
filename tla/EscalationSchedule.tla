--------------------------- MODULE EscalationSchedule ---------------------------
(***************************************************************************)
(* scheduler/escalation_schedule.py: the due date of every communication   *)
(* of a schedule, computed one type at a time and, when only business days *)
(* count, one day at a time.  A date is the number of days since some      *)
(* Monday; a negative offset (a date before the launch) is allowed.        *)
(***************************************************************************)
EXTENDS Integers, FiniteSets

CONSTANTS
  CommTypes,      (* communication types *)
  OffsetTables,   (* the offsets a schedule may be configured with, each a function on some types *)
  LaunchDays      (* the days a nomination window may open on *)

ASSUME ScheduleAssumption ==
  /\ \A table \in OffsetTables : DOMAIN table \subseteq CommTypes /\ table \in [DOMAIN table -> Int]
  /\ LaunchDays \subseteq Int

VARIABLES
  config,   (* the ScheduleConfig: offsets and business_days_only *)
  launch,   (* launch_date *)
  due,      (* the dates computed so far: a function on some of the types *)
  loop      (* the local variables of _add_days, or Idle *)

vars == <<config, launch, due, loop>>

Idle == [running |-> FALSE]
Loop == [running : {TRUE}, type : CommTypes, current : Int, remaining : Int]

Workday(d) == d % 7 < 5

Direction(days) == IF days >= 0 THEN 1 ELSE -1

(* Mutant: the day is counted from the launch. *)
DayAfter_Launch(l) == launch + Direction(config.offsets[l.type])

DayAfter(l) == l.current + Direction(config.offsets[l.type])

(* Mutant: types without an offset are given a date as well. *)
Recorded_AllTypes(ct, date) ==
  [t \in CommTypes |-> IF t \in DOMAIN due \ {ct} THEN due[t] ELSE date]

Recorded(ct, date) ==
  [t \in DOMAIN due \cup {ct} |-> IF t = ct THEN date ELSE due[t]]

------------------------------------------------------------------------------
Init ==
  /\ \E offsets \in OffsetTables, only \in BOOLEAN :
       config = [offsets |-> offsets, business_days_only |-> only]
  /\ launch \in LaunchDays
  /\ due = [t \in {} |-> 0]
  /\ loop = Idle

(* Mutant: a date that falls on a weekend is moved back to the Friday. *)
CalendarDays_RolledBack(ct) ==
  /\ loop = Idle
  /\ LET date == launch + config.offsets[ct] IN
       due' = Recorded(ct, IF Workday(date) THEN date ELSE date - ((date % 7) - 4))
  /\ UNCHANGED <<config, launch, loop>>

(* compute_due_date when every day counts. *)
CalendarDays(ct) ==
  /\ loop = Idle
  /\ ~config.business_days_only
  /\ due' = Recorded(ct, launch + config.offsets[ct])
  /\ UNCHANGED <<config, launch, loop>>

(* compute_due_date enters the loop of _add_days. *)
EnterLoop(ct) ==
  /\ loop = Idle
  /\ config.business_days_only
  /\ loop' = [running |-> TRUE, type |-> ct, current |-> launch,
              remaining |-> config.offsets[ct]]
  /\ UNCHANGED <<config, launch, due>>

(* One round of the loop: the day moves on, a working day uses up one. *)
NextDay ==
  /\ loop.running
  /\ loop.remaining # 0
  /\ LET day == DayAfter(loop) IN
       loop' = [loop EXCEPT
         !.current = day,
         !.remaining = IF Workday(day) THEN @ - Direction(config.offsets[loop.type]) ELSE @]
  /\ UNCHANGED <<config, launch, due>>

ReturnDate ==
  /\ loop.running
  /\ loop.remaining = 0
  /\ due' = Recorded(loop.type, loop.current)
  /\ loop' = Idle
  /\ UNCHANGED <<config, launch>>

(* compute_full_schedule asks for each configured type in turn, so that the  *)
(* ValueError of compute_due_date for a type without an offset cannot arise; *)
(* is_due, its other caller, is used by the tests alone.                     *)
Ask == \E ct \in DOMAIN config.offsets \ DOMAIN due : CalendarDays(ct) \/ EnterLoop(ct)

Next == Ask \/ NextDay \/ ReturnDate

Spec == Init /\ [][Next]_vars

(* Plain sequential code: it goes on until it returns. *)
FairSpec == Spec /\ WF_vars(Next)

(* is_due, once the schedule is computed. *)
IsDue(ct, asOf) == asOf >= due[ct]

------------------------------------------------------------------------------
TypeOK ==
  /\ config \in [offsets : OffsetTables, business_days_only : BOOLEAN]
  /\ launch \in LaunchDays
  /\ DOMAIN due \subseteq DOMAIN config.offsets
  /\ due \in [DOMAIN due -> Int]
  /\ loop = Idle \/ (loop \in Loop /\ loop.type \in DOMAIN config.offsets)

Workdays(from, to) == {d \in from .. to : Workday(d)}

(* Day d is reached after n of the "days" working days asked for: n working   *)
(* days lie after the launch up to d (before it, down to d, for negative     *)
(* days), and d is itself the last of them.                                  *)
Counts(d, days, n) ==
  /\ days >= 0 => d >= launch /\ Cardinality(Workdays(launch + 1, d)) = n
  /\ days < 0 => d <= launch /\ Cardinality(Workdays(d, launch - 1)) = -n
  /\ n # 0 /\ n = days => Workday(d)

(* The loop of _add_days never loses count over a weekend: at every round     *)
(* the working days passed and those remaining make up the offset.           *)
LoopCounts ==
  loop.running =>
    LET days == config.offsets[loop.type] IN
      /\ config.business_days_only
      /\ loop.type \in DOMAIN config.offsets \ DOMAIN due
      /\ IF days >= 0 THEN loop.remaining \in 0 .. days ELSE loop.remaining \in days .. 0
      /\ Counts(loop.current, days, days - loop.remaining)

(* In business days the due date is the offset-th working day after (or       *)
(* before) the launch, never a weekend unless the launch itself is asked     *)
(* for; in calendar days it is that many days away.                          *)
DueIsNthWorkday ==
  \A ct \in DOMAIN due :
    LET days == config.offsets[ct] IN
      IF config.business_days_only THEN Counts(due[ct], days, days)
      ELSE due[ct] = launch + days

(* Whatever weekday the launch falls on, a step with a larger offset is due   *)
(* on a strictly later day: weekends never make two steps of the escalation  *)
(* fall together or swap, so is_due turns true in the order configured.      *)
ScheduleOrdered ==
  \A c1, c2 \in DOMAIN due :
    config.offsets[c1] < config.offsets[c2] =>
      /\ due[c1] < due[c2]
      /\ \A asOf \in launch .. launch + 30 : IsDue(c2, asOf) => IsDue(c1, asOf)

(* The loop ends, also for an offset before the launch: every configured type *)
(* gets its date.                                                            *)
ScheduleComplete == <>(DOMAIN due = DOMAIN config.offsets)
=============================================================================
