----------------------- MODULE EscalationSchedule_proofs -----------------------
(***************************************************************************)
(* Every due date of a schedule is right, for any offsets, launch day and    *)
(* order of computation: the loop of _add_days keeps count of the working    *)
(* days it passed, so its result is the offset-th of them, and such dates    *)
(* are in the order of their offsets.                                       *)
(***************************************************************************)
EXTENDS EscalationSchedule, FiniteSetTheorems, TLAPS

(* The working days of an interval are finitely many, and of two intervals    *)
(* the one that holds the other has at least as many.                        *)
LEMMA WorkdaysFinite ==
  ASSUME NEW a \in Int, NEW b \in Int
  PROVE  IsFiniteSet(Workdays(a, b)) /\ Cardinality(Workdays(a, b)) \in Nat
<1>1. IsFiniteSet(a .. b)
  BY FS_Interval
<1>2. Workdays(a, b) \subseteq a .. b
  BY DEF Workdays
<1> QED
  BY <1>1, <1>2, FS_Subset, FS_CardinalityType

(* A longer interval has as many working days at least. *)
LEMMA WorkdaysMonotone ==
  ASSUME NEW a \in Int, NEW b \in Int, NEW c \in Int, NEW d \in Int, c <= a, b <= d
  PROVE  Cardinality(Workdays(a, b)) <= Cardinality(Workdays(c, d))
<1>1. Workdays(a, b) \subseteq Workdays(c, d)
  BY DEF Workdays
<1> QED
  BY <1>1, WorkdaysFinite, FS_Subset

(* An empty interval has none. *)
LEMMA NoWorkdays ==
  ASSUME NEW a \in Int, NEW b \in Int, b < a
  PROVE  Cardinality(Workdays(a, b)) = 0
<1>1. Workdays(a, b) = {}
  BY DEF Workdays
<1> QED
  BY <1>1, FS_EmptySet

(* One more day at the end, or at the start, adds one working day or none. *)
LEMMA WorkdaysNext ==
  ASSUME NEW a \in Int, NEW b \in Int, a <= b + 1
  PROVE  Cardinality(Workdays(a, b + 1)) =
           Cardinality(Workdays(a, b)) + (IF Workday(b + 1) THEN 1 ELSE 0)
<1>1. CASE Workday(b + 1)
  <2>1. Workdays(a, b + 1) = Workdays(a, b) \cup {b + 1}
    BY <1>1 DEF Workdays
  <2>2. b + 1 \notin Workdays(a, b)
    BY DEF Workdays
  <2> QED
    BY <1>1, <2>1, <2>2, WorkdaysFinite, FS_AddElement
<1>2. CASE ~Workday(b + 1)
  <2>1. Workdays(a, b + 1) = Workdays(a, b)
    BY <1>2 DEF Workdays
  <2> QED
    BY <1>2, <2>1, WorkdaysFinite
<1> QED
  BY <1>1, <1>2

(* One day more at the start adds itself if it is a working day. *)
LEMMA WorkdaysBefore ==
  ASSUME NEW a \in Int, NEW b \in Int, a - 1 <= b
  PROVE  Cardinality(Workdays(a - 1, b)) =
           Cardinality(Workdays(a, b)) + (IF Workday(a - 1) THEN 1 ELSE 0)
<1>1. CASE Workday(a - 1)
  <2>1. Workdays(a - 1, b) = Workdays(a, b) \cup {a - 1}
    BY <1>1 DEF Workdays
  <2>2. a - 1 \notin Workdays(a, b)
    BY DEF Workdays
  <2> QED
    BY <1>1, <2>1, <2>2, WorkdaysFinite, FS_AddElement
<1>2. CASE ~Workday(a - 1)
  <2>1. Workdays(a - 1, b) = Workdays(a, b)
    BY <1>2 DEF Workdays
  <2> QED
    BY <1>2, <2>1, WorkdaysFinite
<1> QED
  BY <1>1, <1>2

------------------------------------------------------------------------------
(* The offset of a configured type is an integer, and so is the launch day. *)
LEMMA OffsetsAreInts ==
  ASSUME TypeOK
  PROVE  launch \in Int /\ \A ct \in DOMAIN config.offsets : ct \in CommTypes /\ config.offsets[ct] \in Int
<1>1. config.offsets \in OffsetTables
  BY DEF TypeOK
<1> QED
  BY <1>1, ScheduleAssumption DEF TypeOK

(* In the loop of _add_days. *)
LEMMA RunningLoop ==
  ASSUME TypeOK, loop.running
  PROVE  /\ loop \in Loop /\ loop.type \in DOMAIN config.offsets /\ loop.running = TRUE
         /\ loop.current \in Int /\ loop.remaining \in Int
<1>1. loop # Idle
  BY DEF Idle
<1> QED
  BY <1>1 DEF TypeOK, Loop

(* A date that is recorded joins those found before. *)
LEMMA RecordedType ==
  ASSUME TypeOK, NEW ct \in DOMAIN config.offsets, NEW date \in Int
  PROVE  /\ DOMAIN Recorded(ct, date) = DOMAIN due \cup {ct}
         /\ DOMAIN Recorded(ct, date) \subseteq DOMAIN config.offsets
         /\ Recorded(ct, date) \in [DOMAIN Recorded(ct, date) -> Int]
<1>1. DOMAIN Recorded(ct, date) = DOMAIN due \cup {ct}
  BY DEF Recorded
<1>2. \A t \in DOMAIN due : due[t] \in Int
  BY DEF TypeOK
<1>3. \A t \in DOMAIN due \cup {ct} : Recorded(ct, date)[t] \in Int
  BY <1>2 DEF Recorded
<1> QED
  BY <1>1, <1>3 DEF TypeOK, Recorded

(* The computation starts with its types. *)
LEMMA TypeInit == Init => TypeOK
  BY ScheduleAssumption DEF Init, TypeOK

(* Every step keeps the types. *)
LEMMA TypeStep == TypeOK /\ [Next]_vars => TypeOK'
<1> SUFFICES ASSUME TypeOK, [Next]_vars PROVE TypeOK'
  OBVIOUS
<1>1. ASSUME NEW ct \in DOMAIN config.offsets \ DOMAIN due, CalendarDays(ct)
      PROVE  TypeOK'
  <2>1. launch + config.offsets[ct] \in Int
    BY OffsetsAreInts
  <2>2. due' = Recorded(ct, launch + config.offsets[ct])
    BY <1>1 DEF CalendarDays
  <2>3. config' = config /\ launch' = launch /\ loop' = loop
    BY <1>1 DEF CalendarDays
  <2>4. DOMAIN due' \subseteq DOMAIN config.offsets /\ due' \in [DOMAIN due' -> Int]
    BY <2>1, <2>2, RecordedType
  <2> QED
    BY <2>3, <2>4 DEF TypeOK
<1>2. ASSUME NEW ct \in DOMAIN config.offsets \ DOMAIN due, EnterLoop(ct)
      PROVE  TypeOK'
  BY <1>2, OffsetsAreInts DEF EnterLoop, TypeOK, Loop
<1>3. CASE NextDay
  <2>1. loop \in Loop /\ loop.type \in DOMAIN config.offsets
    BY <1>3, RunningLoop DEF NextDay
  <2>2. DayAfter(loop) \in Int /\ loop'.remaining \in Int /\ loop'.current \in Int
    BY <1>3, <2>1 DEF NextDay, Loop, DayAfter, Direction
  <2>3. loop' \in Loop /\ loop'.type = loop.type
    BY <1>3, <2>1, <2>2 DEF NextDay, Loop
  <2> QED
    BY <1>3, <2>1, <2>3 DEF NextDay, TypeOK
<1>4. CASE ReturnDate
  <2>1. loop.current \in Int /\ loop.type \in DOMAIN config.offsets
    BY <1>4, RunningLoop DEF ReturnDate
  <2>2. config' = config /\ launch' = launch /\ loop' = Idle
        /\ due' = Recorded(loop.type, loop.current)
    BY <1>4 DEF ReturnDate
  <2>3. DOMAIN due' \subseteq DOMAIN config.offsets /\ due' \in [DOMAIN due' -> Int]
    BY <2>1, <2>2, RecordedType
  <2> QED
    BY <2>2, <2>3 DEF TypeOK
<1>5. CASE UNCHANGED vars
  BY <1>5 DEF vars, TypeOK
<1> QED
  BY <1>1, <1>2, <1>3, <1>4, <1>5 DEF Next, Ask

(* Every reachable state has its types. *)
THEOREM TypeCorrect == Spec => []TypeOK
  BY TypeInit, TypeStep, PTL DEF Spec

------------------------------------------------------------------------------
ScheduleInv == TypeOK /\ LoopCounts /\ DueIsNthWorkday

(* The count is right before the first round of the loop. *)
LEMMA CountsAtLaunch ==
  ASSUME TypeOK, NEW days \in Int
  PROVE  Counts(launch, days, 0)
<1>1. launch \in Int
  BY OffsetsAreInts
<1>2. Cardinality(Workdays(launch + 1, launch)) = 0 /\ Cardinality(Workdays(launch, launch - 1)) = 0
  BY <1>1, NoWorkdays
<1> QED
  BY <1>1, <1>2 DEF Counts

(* One round of the loop keeps the count, forwards and backwards. *)
LEMMA RoundKeepsCount ==
  ASSUME TypeOK, LoopCounts, NextDay
  PROVE  LoopCounts'
<1> DEFINE days == config.offsets[loop.type]
           day  == DayAfter(loop)
<1>1. /\ loop \in Loop
      /\ loop.type \in DOMAIN config.offsets \ DOMAIN due
      /\ config.business_days_only
      /\ loop.current \in Int /\ loop.remaining \in Int
      /\ launch \in Int /\ days \in Int
  <2>1. loop.running
    BY DEF NextDay
  <2> QED
    BY <2>1, RunningLoop, OffsetsAreInts DEF LoopCounts
<1>2. /\ loop'.type = loop.type /\ loop'.current = day
      /\ loop'.remaining = IF Workday(day) THEN loop.remaining - Direction(days) ELSE loop.remaining
      /\ config' = config /\ launch' = launch /\ due' = due
  BY <1>1 DEF NextDay, Loop
<1>3. CASE days >= 0
  <2>1. day = loop.current + 1 /\ Direction(days) = 1
    BY <1>3 DEF DayAfter, Direction
  <2>2. loop.current >= launch /\ loop.remaining \in 1 .. days
    BY <1>1, <1>3 DEF LoopCounts, Counts, NextDay
  <2>3. Cardinality(Workdays(launch + 1, loop.current)) = days - loop.remaining
    BY <1>1, <1>3 DEF LoopCounts, Counts, NextDay
  <2>4. Cardinality(Workdays(launch + 1, day)) =
          days - loop.remaining + (IF Workday(day) THEN 1 ELSE 0)
    BY <1>1, <2>1, <2>2, <2>3, WorkdaysNext
  <2>5. /\ loop'.remaining \in 0 .. days
        /\ Cardinality(Workdays(launch + 1, day)) = days - loop'.remaining
        /\ loop'.remaining = 0 => Workday(day)
    BY <1>1, <1>2, <2>1, <2>2, <2>4
  <2>6. Counts(day, days, days - loop'.remaining)
    BY <1>1, <1>3, <2>1, <2>2, <2>5 DEF Counts
  <2> QED
    BY <1>1, <1>2, <1>3, <2>5, <2>6 DEF LoopCounts, Counts, Workdays
<1>4. CASE days < 0
  <2>1. day = loop.current - 1 /\ Direction(days) = -1
    BY <1>1, <1>4 DEF DayAfter, Direction
  <2>2. loop.current <= launch /\ loop.remaining \in days .. -1
    BY <1>1, <1>4 DEF LoopCounts, Counts, NextDay
  <2>3. Cardinality(Workdays(loop.current, launch - 1)) = loop.remaining - days
    BY <1>1, <1>4 DEF LoopCounts, Counts, NextDay
  <2>4. Cardinality(Workdays(day, launch - 1)) =
          loop.remaining - days + (IF Workday(day) THEN 1 ELSE 0)
    BY <1>1, <2>1, <2>2, <2>3, WorkdaysBefore
  <2>5. /\ loop'.remaining \in days .. 0
        /\ Cardinality(Workdays(day, launch - 1)) = loop'.remaining - days
        /\ loop'.remaining = 0 => Workday(day)
    BY <1>1, <1>2, <2>1, <2>2, <2>4
  <2>6. Counts(day, days, days - loop'.remaining)
    BY <1>1, <1>4, <2>1, <2>2, <2>5 DEF Counts
  <2> QED
    BY <1>1, <1>2, <1>4, <2>5, <2>6 DEF LoopCounts, Counts, Workdays
<1> QED
  BY <1>1, <1>3, <1>4

(* A date recorded with a right count is the date asked for. *)
LEMMA RecordingKeepsDates ==
  ASSUME TypeOK, DueIsNthWorkday, NEW ct \in DOMAIN config.offsets, NEW date \in Int,
         IF config.business_days_only THEN Counts(date, config.offsets[ct], config.offsets[ct])
         ELSE date = launch + config.offsets[ct],
         due' = Recorded(ct, date), config' = config, launch' = launch
  PROVE  DueIsNthWorkday'
<1>1. DOMAIN due' = DOMAIN due \cup {ct}
  BY RecordedType
<1>2. \A t \in DOMAIN due' : due'[t] = IF t = ct THEN date ELSE due[t]
  BY <1>1 DEF Recorded
<1> QED
  BY <1>1, <1>2 DEF DueIsNthWorkday, Counts, Workdays

(* Every step keeps the count of the loop and the dates found. *)
LEMMA InvStep == ScheduleInv /\ [Next]_vars => ScheduleInv'
<1> SUFFICES ASSUME ScheduleInv, [Next]_vars PROVE (LoopCounts /\ DueIsNthWorkday)' /\ TypeOK'
  BY DEF ScheduleInv
<1>0. TypeOK'
  BY TypeStep DEF ScheduleInv
<1>1. ASSUME NEW ct \in DOMAIN config.offsets \ DOMAIN due, CalendarDays(ct)
      PROVE  (LoopCounts /\ DueIsNthWorkday)'
  <2>1. launch + config.offsets[ct] \in Int
    BY OffsetsAreInts DEF ScheduleInv
  <2>2. DueIsNthWorkday'
    BY <1>1, <2>1, RecordingKeepsDates DEF CalendarDays, ScheduleInv
  <2>3. LoopCounts'
    BY <1>1 DEF CalendarDays, LoopCounts, Idle
  <2> QED
    BY <2>2, <2>3
<1>2. ASSUME NEW ct \in DOMAIN config.offsets \ DOMAIN due, EnterLoop(ct)
      PROVE  (LoopCounts /\ DueIsNthWorkday)'
  <2>1. config.offsets[ct] \in Int
    BY OffsetsAreInts DEF ScheduleInv
  <2>2. Counts(launch, config.offsets[ct], 0)
    BY <2>1, CountsAtLaunch DEF ScheduleInv
  <2>3. LoopCounts'
    BY <1>2, <2>1, <2>2 DEF EnterLoop, LoopCounts, Counts, Workdays
  <2>4. DueIsNthWorkday'
    BY <1>2 DEF EnterLoop, ScheduleInv, DueIsNthWorkday, Counts, Workdays
  <2> QED
    BY <2>3, <2>4
<1>3. CASE NextDay
  <2>1. LoopCounts'
    BY <1>3, RoundKeepsCount DEF ScheduleInv
  <2>2. DueIsNthWorkday'
    BY <1>3 DEF NextDay, ScheduleInv, DueIsNthWorkday, Counts, Workdays
  <2> QED
    BY <1>0, <2>1, <2>2
<1>4. CASE ReturnDate
  <2>1. /\ loop.current \in Int /\ loop.type \in DOMAIN config.offsets /\ config.business_days_only
        /\ config.offsets[loop.type] \in Int
        /\ Counts(loop.current, config.offsets[loop.type], config.offsets[loop.type] - loop.remaining)
    BY <1>4, RunningLoop, OffsetsAreInts DEF ReturnDate, ScheduleInv, LoopCounts
  <2>2. Counts(loop.current, config.offsets[loop.type], config.offsets[loop.type])
    BY <1>4, <2>1 DEF ReturnDate
  <2>3. DueIsNthWorkday'
    BY <1>4, <2>1, <2>2, RecordingKeepsDates DEF ReturnDate, ScheduleInv
  <2>4. LoopCounts'
    BY <1>4 DEF ReturnDate, LoopCounts, Idle
  <2> QED
    BY <1>0, <2>3, <2>4
<1>5. CASE UNCHANGED vars
  BY <1>0, <1>5 DEF vars, ScheduleInv, LoopCounts, DueIsNthWorkday, Counts, Workdays
<1> QED
  BY <1>0, <1>1, <1>2, <1>3, <1>4, <1>5 DEF Next, Ask

(* Every reachable state of the computation satisfies the inductive         *)
(* invariant: types, the count of the loop in _add_days and the dates found. *)
THEOREM InvHolds == Spec => []ScheduleInv
<1>1. Init => ScheduleInv
  BY TypeInit DEF Init, ScheduleInv, LoopCounts, DueIsNthWorkday, Idle
<1> QED
  BY <1>1, InvStep, PTL DEF Spec

(* The loop of _add_days keeps count, for any offset and launch day. *)
THEOREM LoopCountsHolds == Spec => []LoopCounts
<1>1. ScheduleInv => LoopCounts
  BY DEF ScheduleInv
<1> QED
  BY <1>1, InvHolds, PTL

(* Every due date is the working day, or the day, its offset asks for. *)
THEOREM DueDatesRight == Spec => []DueIsNthWorkday
<1>1. ScheduleInv => DueIsNthWorkday
  BY DEF ScheduleInv
<1> QED
  BY <1>1, InvHolds, PTL

(* A larger offset gives a later date: were it not later, the working days    *)
(* counted for it would be among those counted for the smaller one.          *)
LEMMA LaterOffsetLaterDate ==
  ASSUME TypeOK, DueIsNthWorkday, NEW c1 \in DOMAIN due, NEW c2 \in DOMAIN due,
         config.offsets[c1] < config.offsets[c2]
  PROVE  due[c1] < due[c2]
<1> DEFINE o1 == config.offsets[c1]
           o2 == config.offsets[c2]
<1>1. /\ launch \in Int /\ o1 \in Int /\ o2 \in Int
      /\ due[c1] \in Int /\ due[c2] \in Int
  BY OffsetsAreInts DEF TypeOK
<1>2. CASE ~config.business_days_only
  BY <1>1, <1>2 DEF DueIsNthWorkday
<1>3. CASE config.business_days_only
  <2>1. Counts(due[c1], o1, o1) /\ Counts(due[c2], o2, o2)
    BY <1>3 DEF DueIsNthWorkday
  <2>2. CASE o1 >= 0
    <3>1. /\ Cardinality(Workdays(launch + 1, due[c1])) = o1
          /\ Cardinality(Workdays(launch + 1, due[c2])) = o2
      BY <1>1, <2>1, <2>2 DEF Counts
    <3>2. due[c2] <= due[c1] => o2 <= o1
      BY <1>1, <3>1, WorkdaysMonotone
    <3> QED
      BY <1>1, <3>2
  <2>3. CASE o1 < 0 /\ o2 >= 0
    <3>1. due[c1] <= launch /\ launch <= due[c2] /\ Cardinality(Workdays(due[c1], launch - 1)) = -o1
      BY <1>1, <2>1, <2>3 DEF Counts
    <3>2. due[c1] # launch
      BY <1>1, <2>3, <3>1, NoWorkdays
    <3> QED
      BY <1>1, <3>1, <3>2
  <2>4. CASE o2 < 0
    <3>1. /\ Cardinality(Workdays(due[c1], launch - 1)) = -o1
          /\ Cardinality(Workdays(due[c2], launch - 1)) = -o2
      BY <1>1, <2>1, <2>4 DEF Counts
    <3>2. due[c2] <= due[c1] => -o1 <= -o2
      BY <1>1, <3>1, WorkdaysMonotone
    <3> QED
      BY <1>1, <3>2
  <2> QED
    BY <1>1, <2>2, <2>3, <2>4
<1> QED
  BY <1>2, <1>3

(* Due dates, and is_due with them, follow the order of the offsets. *)
THEOREM OrderHolds == Spec => []ScheduleOrdered
<1>1. ScheduleInv => ScheduleOrdered
  <2> SUFFICES ASSUME ScheduleInv, NEW c1 \in DOMAIN due, NEW c2 \in DOMAIN due,
                      config.offsets[c1] < config.offsets[c2]
               PROVE  /\ due[c1] < due[c2]
                      /\ \A asOf \in launch .. launch + 30 : IsDue(c2, asOf) => IsDue(c1, asOf)
    BY DEF ScheduleOrdered
  <2>1. due[c1] < due[c2]
    BY LaterOffsetLaterDate DEF ScheduleInv
  <2>2. due[c1] \in Int /\ due[c2] \in Int /\ launch \in Int
    BY OffsetsAreInts DEF ScheduleInv, TypeOK
  <2> QED
    BY <2>1, <2>2 DEF IsDue
<1> QED
  BY <1>1, InvHolds, PTL
=============================================================================
