-------------------------- MODULE CommDispatch_proofs --------------------------
(***************************************************************************)
(* Theorems about dispatching communications, for any number of runners,   *)
(* keys, retries, jobs and crashes.                                        *)
(***************************************************************************)
EXTENDS CommDispatch, FiniteSetTheorems, TLAPS

USE DispatchAssumption

Job == {Idle} \cup Reading \cup Deciding \cup Storing \cup Auditing

(* A step is one action of one runner, or changes nothing. *)
LEMMA StepCases ==
  ASSUME [Next]_vars
  PROVE  \/ UNCHANGED vars
         \/ \E r \in Runners :
              \/ \E k \in Keys : Start(r, k)
              \/ ReadLog(r) \/ Suppress(r) \/ DryRun(r) \/ SendOK(r) \/ SendError(r)
              \/ Store(r) \/ StoreRefused(r) \/ Audit(r) \/ Crash(r)
  BY Zenon DEF Next, Continue, Dispatch

(* What the log may hold: every claim about it is about earlier rows, so     *)
(* appending keeps it.                                                       *)
LogOK ==
  /\ SuppressionJustified
  /\ FailedAfterRetries
  /\ OneSentPerRunner
  /\ \A i \in DOMAIN log : log[i].status = "Sent" => log[i].by \in Live

DispatchInv == TypeOK /\ JobsOK /\ LogOK

(* The shape of what a runner holds, by step.                                *)
LEMMA JobTypes ==
  ASSUME TypeOK, NEW r \in Runners
  PROVE  /\ job[r] \in Job
         /\ job[r] # Idle => /\ job[r].key \in Keys /\ job[r].attempt \in 0 .. MaxRetries
                            /\ job[r].no \in 1 .. MaxJobs
         /\ job[r].step = "read" => job[r] \in Reading
         /\ job[r].step = "dispatch" => job[r] \in Deciding
         /\ job[r].step = "store" => job[r] \in Storing
         /\ job[r].step = "audit" => job[r] \in Auditing
         /\ job[r].step \in {"read", "dispatch", "store", "audit"} => job[r] # Idle
<1>1. job[r] \in Job
  BY DEF TypeOK, Job
<1>2. QED
  BY <1>1 DEF Job, Idle, Reading, Deciding, Storing, Auditing

(* The log is empty to begin with. *)
LEMMA InitInv == Init => DispatchInv
<1> SUFFICES ASSUME Init PROVE DispatchInv
  OBVIOUS
<1>1. log = <<>> /\ log \in Seq(LogEntry) /\ DOMAIN log = {}
  BY DEF Init
<1>2. TypeOK
  BY <1>1 DEF Init, TypeOK
<1>3. JobsOK
  BY DEF Init, JobsOK
<1>4. LogOK
  BY <1>1 DEF LogOK, SuppressionJustified, FailedAfterRetries, OneSentPerRunner, SentRows
<1>5. QED
  BY <1>2, <1>3, <1>4 DEF DispatchInv

------------------------------------------------------------------------------
(* Steps that leave the log alone.  A runner whose job is unchanged keeps    *)
(* what holds of it; the other runner's job is checked step by step.         *)
LEMMA QuietStep ==
  ASSUME DispatchInv, NEW r \in Runners, NEW w \in Job,
         log' = log, job' = [job EXCEPT ![r] = w],
         w # Idle => JobOK(r)'
  PROVE  JobsOK' /\ LogOK'
<1> USE DEF DispatchInv
<1>1. LogOK'
  BY DEF LogOK, SuppressionJustified, FailedAfterRetries, OneSentPerRunner, SentRows
<1>2. ASSUME NEW q \in Runners, q # r, job'[q] # Idle PROVE JobOK(q)'
  <2>1. job'[q] = job[q] /\ JobOK(q)
    BY <1>2 DEF TypeOK, JobsOK
  <2>2. QED
    BY <2>1 DEF JobOK, Tried, HasSucceeded, NoSentBy, SentRows
<1>3. job'[r] = w
  BY DEF TypeOK
<1>4. QED
  BY <1>1, <1>2, <1>3 DEF JobsOK

(* A job that starts owes nothing to the log yet. *)
LEMMA StartStep ==
  ASSUME DispatchInv, NEW r \in Runners, NEW k \in Keys, Start(r, k)
  PROVE  DispatchInv'
<1> USE DEF DispatchInv
<1> DEFINE w == [step |-> "read", no |-> started + 1, key |-> k, attempt |-> 0]
<1>0. started + 1 \in 1 .. MaxJobs
  BY DEF Start, TypeOK
<1>1. w \in Reading /\ w \in Job
  BY <1>0 DEF Reading, Job
<1>2. job'[r] = w /\ job' = [job EXCEPT ![r] = w] /\ log' = log
  BY DEF Start, TypeOK
<1>3. TypeOK'
  BY <1>0, <1>1, <1>2 DEF Start, TypeOK, Job
<1>4. JobOK(r)'
  BY <1>2 DEF JobOK, Tried
<1>5. QED
  BY <1>1, <1>2, <1>3, <1>4, QuietStep

(* What a runner has just read is the log. *)
LEMMA ReadStep ==
  ASSUME DispatchInv, NEW r \in Runners, ReadLog(r)
  PROVE  DispatchInv'
<1> USE DEF DispatchInv
<1> DEFINE w == [step |-> "dispatch", no |-> job[r].no, key |-> job[r].key,
                 attempt |-> job[r].attempt, succeeded |-> HasSucceeded(job[r].key)]
<1>1. job[r].step = "read" /\ job[r] # Idle /\ job[r] \in Reading /\ JobOK(r)
  BY JobTypes DEF ReadLog, JobsOK
<1>2. w \in Deciding /\ w \in Job
  BY <1>1 DEF Reading, Deciding, Job, HasSucceeded
<1>3. job'[r] = w /\ job' = [job EXCEPT ![r] = w] /\ log' = log
  BY DEF ReadLog, TypeOK
<1>4. TypeOK'
  BY <1>2, <1>3 DEF ReadLog, TypeOK, Job
<1>5. JobOK(r)'
  <2>1. Tried(r, job[r], job[r].attempt)
    BY <1>1 DEF JobOK
  <2>2. HasSucceeded(job[r].key) \/ NoSentBy(r, job[r].key)
    BY DEF HasSucceeded, NoSentBy, SentRows
  <2>3. QED
    BY <1>3, <2>1, <2>2 DEF JobOK, Tried, RetryRow, HasSucceeded, NoSentBy, SentRows
<1>6. QED
  BY <1>2, <1>3, <1>4, <1>5, QuietStep

(* dispatch returns: whatever the outcome, the entry it hands over is one    *)
(* that may be stored.                                                       *)
LEMMA ReturnStep ==
  ASSUME DispatchInv, NEW r \in Runners, NEW st \in CommStatus,
         job[r].step = "dispatch", Return(r, st),
         UNCHANGED <<log, refused, audited, started, crashes, unique>>, delivered' \in [Keys -> Nat],
         st = "Suppressed" => job[r].succeeded,
         st = "Sent" => ~job[r].succeeded /\ r \in Live,
         st = "Retrying" => job[r].attempt < MaxRetries,
         st = "Failed" => job[r].attempt = MaxRetries
  PROVE  DispatchInv'
<1> USE DEF DispatchInv
<1> DEFINE x == [key |-> job[r].key, status |-> st, attempt |-> job[r].attempt,
                 by |-> r, no |-> job[r].no]
           w == [step |-> "store", no |-> job[r].no, key |-> job[r].key,
                 attempt |-> job[r].attempt, entry |-> x]
<1>1. job[r] # Idle /\ job[r] \in Deciding /\ JobOK(r)
  BY JobTypes DEF JobsOK
<1>2. x \in LogEntry /\ w \in Storing /\ w \in Job
  BY <1>1 DEF Deciding, Storing, LogEntry, Job
<1>3. job'[r] = w /\ job' = [job EXCEPT ![r] = w]
  BY DEF Return, TypeOK
<1>4. TypeOK'
  BY <1>2, <1>3 DEF TypeOK, Job
<1>5. JobOK(r)'
  <2>1. /\ Tried(r, job[r], job[r].attempt)
        /\ IF job[r].succeeded THEN HasSucceeded(job[r].key) ELSE NoSentBy(r, job[r].key)
    BY <1>1 DEF JobOK
  <2>2. QED
    BY <1>3, <2>1 DEF JobOK, Tried, RetryRow, HasSucceeded, NoSentBy, SentRows
<1>6. QED
  BY <1>2, <1>3, <1>4, <1>5, QuietStep

(* The four ways through dispatch decide on what was read. *)
LEMMA DispatchStep ==
  ASSUME DispatchInv, NEW r \in Runners,
         Suppress(r) \/ DryRun(r) \/ SendOK(r) \/ SendError(r)
  PROVE  DispatchInv'
<1>1. job[r] \in Deciding /\ TypeOK
  BY JobTypes DEF Suppress, DryRun, SendOK, SendError, DispatchInv
<1>2. delivered \in [Keys -> Nat] /\ job[r].key \in Keys /\ job[r].attempt \in 0 .. MaxRetries
  BY <1>1 DEF TypeOK, Deciding
<1>3. CASE Suppress(r)
  BY <1>2, <1>3, ReturnStep DEF Suppress, CommStatus
<1>4. CASE DryRun(r)
  BY <1>2, <1>4, ReturnStep DEF DryRun, CommStatus
<1>5. CASE SendOK(r)
  BY <1>2, <1>5, ReturnStep DEF SendOK, CommStatus
<1>6. CASE SendError(r)
  <2> DEFINE st == FailureStatus(job[r].attempt)
  <2>1. /\ st \in CommStatus /\ st # "Suppressed" /\ st # "Sent"
        /\ st = "Retrying" => job[r].attempt < MaxRetries
        /\ st = "Failed" => job[r].attempt = MaxRetries
    BY <1>2 DEF FailureStatus, CommStatus
  <2>2. delivered' \in [Keys -> Nat]
    BY <1>2, <1>6 DEF SendError
  <2> HIDE DEF st
  <2>3. QED
    BY <1>6, <2>1, <2>2, ReturnStep DEF SendError, st
<1>7. QED
  BY <1>3, <1>4, <1>5, <1>6

(* The one step that writes the log: the entry becomes its last row.         *)
LEMMA StoreStep ==
  ASSUME DispatchInv, NEW r \in Runners, Store(r)
  PROVE  DispatchInv'
<1> USE DEF DispatchInv
<1> DEFINE x == job[r].entry
           w == [step |-> "audit", no |-> job[r].no, key |-> job[r].key,
                 attempt |-> job[r].attempt, row |-> Len(log) + 1]
<1>1. /\ job[r].step = "store" /\ job[r] # Idle /\ job[r] \in Storing /\ JobOK(r)
      /\ x \in LogEntry /\ job[r].key \in Keys /\ job[r].attempt \in 0 .. MaxRetries
      /\ job[r].no \in 1 .. MaxJobs
  BY JobTypes DEF Store, JobsOK, Storing
<1>2. /\ log' = Append(log, x) /\ log \in Seq(LogEntry) /\ Len(log) \in Nat
      /\ job'[r] = w /\ \A q \in Runners \ {r} : job'[q] = job[q]
  BY DEF Store, TypeOK
<1>3. /\ log' \in Seq(LogEntry) /\ DOMAIN log' = 1 .. Len(log) + 1 /\ DOMAIN log = 1 .. Len(log)
      /\ \A i \in DOMAIN log : log'[i] = log[i]
      /\ log'[Len(log) + 1] = x
  BY <1>1, <1>2
<1>4. w \in Auditing /\ w \in Job
  BY <1>1, <1>2 DEF Auditing, Job
<1>5. TypeOK'
  BY <1>2, <1>3, <1>4 DEF Store, TypeOK, Job
<1>6. \A k : /\ HasSucceeded(k) => HasSucceeded(k)'
             /\ SentRows(k) \subseteq SentRows(k)'
             /\ SentRows(k)' \subseteq SentRows(k) \cup {Len(log) + 1}
  BY <1>3 DEF HasSucceeded, SentRows
<1>7. ASSUME NEW q, NEW j, NEW n, Tried(q, j, n)
      PROVE  \A a \in 0 .. n - 1 : \E i \in DOMAIN log' : log'[i] = RetryRow(q, j, a)
  BY <1>3, <1>7 DEF Tried
<1>8. x.by = r /\ x.key = job[r].key /\ x.attempt = job[r].attempt /\ x.no = job[r].no
  BY <1>1 DEF JobOK
<1>9. ASSUME NEW q \in Runners, job'[q] # Idle PROVE JobOK(q)'
  <2>1. CASE q = r
    <3>1. \A a \in 0 .. job[r].attempt - 1 :
            \E i \in DOMAIN log' : log'[i] = RetryRow(r, job[r], a)
      BY <1>1, <1>7 DEF JobOK
    <3>2. x.status = "Retrying" =>
            job[r].attempt < MaxRetries /\ x = RetryRow(r, job[r], job[r].attempt)
      BY <1>1, <1>8 DEF JobOK, LogEntry, RetryRow
    <3>3. QED
      BY <1>2, <1>3, <2>1, <3>1, <3>2 DEF JobOK, Tried, RetryRow
  <2>2. CASE q # r
    <3>1. job'[q] = job[q] /\ JobOK(q) /\ job[q] # Idle
      BY <1>2, <1>9, <2>2 DEF JobsOK
    <3>2. \A k : NoSentBy(q, k) => NoSentBy(q, k)'
      BY <1>3, <1>6, <1>8, <2>2 DEF NoSentBy, SentRows
    <3>3. \A a \in 0 .. job[q].attempt - 1 :
            \E i \in DOMAIN log' : log'[i] = RetryRow(q, job[q], a)
      BY <1>7, <3>1 DEF JobOK
    <3>4. QED
      BY <1>3, <1>6, <3>1, <3>2, <3>3 DEF JobOK, Tried
  <2>3. QED
    BY <2>1, <2>2
<1>10. JobsOK'
  BY <1>9 DEF JobsOK
<1>11. LogOK'
  <2>1. SuppressionJustified'
    <3>1. x.status = "Suppressed" => \E j \in DOMAIN log : log[j].key = x.key /\ log[j].status = "Sent"
      BY <1>1, <1>8 DEF JobOK, HasSucceeded
    <3>2. QED
      BY <1>3, <3>1 DEF LogOK, SuppressionJustified, SentRows
  <2>2. FailedAfterRetries'
    <3>1. x.status = "Failed" => Tried(r, x, MaxRetries)
      BY <1>1, <1>8 DEF JobOK, Tried, RetryRow
    <3> SUFFICES ASSUME NEW i \in DOMAIN log', log'[i].status = "Failed",
                        NEW a \in 0 .. MaxRetries - 1
                 PROVE  \E j \in 1 .. i - 1 : log'[j] = RetryRow(log'[i].by, log'[i], a)
      BY DEF FailedAfterRetries
    <3>2. CASE i \in DOMAIN log
      <4>1. PICK j \in 1 .. i - 1 : log[j] = RetryRow(log[i].by, log[i], a)
        BY <1>3, <3>2 DEF LogOK, FailedAfterRetries
      <4>2. j \in DOMAIN log
        BY <1>3, <3>2
      <4>3. QED
        BY <1>3, <3>2, <4>1, <4>2
    <3>3. CASE i = Len(log) + 1
      <4>1. PICK j \in DOMAIN log : log[j] = RetryRow(r, x, a)
        BY <1>3, <3>1, <3>3 DEF Tried
      <4>2. QED
        BY <1>2, <1>3, <1>8, <3>3, <4>1
    <3>4. QED
      BY <1>3, <3>2, <3>3
  <2>3. OneSentPerRunner'
    <3>1. x.status = "Sent" => NoSentBy(r, x.key)
      BY <1>1, <1>8 DEF JobOK
    <3>2. QED
      BY <1>3, <1>8, <3>1 DEF LogOK, OneSentPerRunner, SentRows, NoSentBy
  <2>4. \A i \in DOMAIN log' : log'[i].status = "Sent" => log'[i].by \in Live
    BY <1>1, <1>3, <1>8 DEF JobOK, LogOK
  <2>5. QED
    BY <2>1, <2>2, <2>3, <2>4 DEF LogOK
<1>12. QED
  BY <1>5, <1>10, <1>11

(* After the audit entry a job ends or is tried again. *)
LEMMA AuditStep ==
  ASSUME DispatchInv, NEW r \in Runners, Audit(r)
  PROVE  DispatchInv'
<1> USE DEF DispatchInv
<1> DEFINE again == log[job[r].row].status = "Retrying"
           w == IF again
                THEN [step |-> "read", no |-> job[r].no, key |-> job[r].key,
                      attempt |-> job[r].attempt + 1]
                ELSE Idle
<1>1. job[r] # Idle /\ job[r] \in Auditing /\ JobOK(r) /\ job[r].step = "audit"
  BY JobTypes DEF Audit, JobsOK
<1>2. /\ job[r].row \in DOMAIN log /\ job[r].key \in Keys /\ job[r].attempt \in 0 .. MaxRetries
      /\ job[r].no \in 1 .. MaxJobs
      /\ again => /\ job[r].attempt < MaxRetries
                  /\ log[job[r].row] = RetryRow(r, job[r], job[r].attempt)
  BY <1>1 DEF JobOK, Auditing
<1>3. w \in Job
  BY <1>2 DEF Job, Reading
<1>4. job'[r] = w /\ job' = [job EXCEPT ![r] = w] /\ log' = log
  BY DEF Audit, TypeOK
<1>5. TypeOK'
  <2>1. audited' \subseteq DOMAIN log'
    BY <1>2, <1>4 DEF Audit, TypeOK
  <2>2. job' \in [Runners -> Job]
    BY <1>3, <1>4 DEF TypeOK, Job
  <2>3. QED
    BY <1>4, <2>1, <2>2 DEF Audit, TypeOK, Job
<1>6. w # Idle => JobOK(r)'
  <2>1. CASE again
    <3>1. Tried(r, job[r], job[r].attempt)
      BY <1>1 DEF JobOK
    <3>2. Tried(r, job[r], job[r].attempt + 1)
      BY <1>2, <2>1, <3>1 DEF Tried
    <3>3. QED
      BY <1>4, <2>1, <3>2 DEF JobOK, Tried, RetryRow
  <2>2. QED
    BY <2>1
<1>7. QED
  BY <1>3, <1>4, <1>5, <1>6, QuietStep

(* A refused insert or a crash ends the job and leaves the log as it is. *)
LEMMA EndStep ==
  ASSUME DispatchInv, NEW r \in Runners, StoreRefused(r) \/ Crash(r)
  PROVE  DispatchInv'
<1>1. job' = [job EXCEPT ![r] = Idle] /\ log' = log /\ Idle \in Job
  BY DEF StoreRefused, Crash, Job
<1>2. refused' \subseteq LogEntry
  BY JobTypes DEF StoreRefused, Crash, Storing, TypeOK, DispatchInv
<1>3. TypeOK'
  BY <1>1, <1>2 DEF StoreRefused, Crash, TypeOK, DispatchInv
<1>4. QED
  BY <1>1, <1>3, QuietStep DEF DispatchInv

(* Every step keeps the invariant, action by action. *)
LEMMA InvStep ==
  ASSUME DispatchInv, [Next]_vars
  PROVE  DispatchInv'
<1>1. CASE UNCHANGED vars
  BY <1>1 DEF vars, DispatchInv, TypeOK, JobsOK, JobOK, LogOK, Tried, HasSucceeded, NoSentBy,
     SentRows, SuppressionJustified, FailedAfterRetries, OneSentPerRunner
<1>2. QED
  BY <1>1, StepCases, StartStep, ReadStep, DispatchStep, StoreStep, AuditStep, EndStep, Zenon

(* The inductive invariant of dispatching.                                    *)
THEOREM DispatchInvariant == Spec => []DispatchInv
  BY InitInv, InvStep, PTL DEF Spec

(* Type correctness: in particular the retry loop never passes MaxRetries.    *)
THEOREM TypeCorrect == Spec => []TypeOK
  BY DispatchInvariant, PTL DEF DispatchInv

(* What a runner acts on is never stale in a harmful way.                     *)
THEOREM JobsCorrect == Spec => []JobsOK
  BY DispatchInvariant, PTL DEF DispatchInv

(* A message is suppressed only after a Sent row of its key, for any number   *)
(* of overlapping runs and crashes.                                          *)
THEOREM SuppressionIsJustified == Spec => []SuppressionJustified
  BY DispatchInvariant, PTL DEF DispatchInv, LogOK

(* A job is recorded as Failed only after every retry of it was recorded.     *)
THEOREM FailsOnlyAfterRetries == Spec => []FailedAfterRetries
  BY DispatchInvariant, PTL DEF DispatchInv, LogOK

(* No runner ever stores two Sent rows for the same key.                      *)
THEOREM NoRunnerSendsTwice == Spec => []OneSentPerRunner
  BY DispatchInvariant, PTL DEF DispatchInv, LogOK

(* Overlapping runs record a key as sent at most once each: the number of     *)
(* Sent rows of a key is bounded by the number of live runners.              *)
THEOREM SentBoundHolds ==
  ASSUME IsFiniteSet(Live)
  PROVE  Spec => []SentBound
<1>1. DispatchInv => SentBound
  <2> SUFFICES ASSUME DispatchInv, NEW k \in Keys
               PROVE  Cardinality(SentRows(k)) <= Cardinality(Live)
    BY DEF SentBound
  <2> DEFINE f == [i \in SentRows(k) |-> log[i].by]
  <2>1. f \in [SentRows(k) -> Live]
    BY DEF DispatchInv, LogOK, SentRows
  <2>2. \A i, j \in SentRows(k) : f[i] = f[j] => i = j
    BY DEF DispatchInv, LogOK, OneSentPerRunner
  <2> HIDE DEF f
  <2>3. f \in Injection(SentRows(k), Live)
    BY <2>1, <2>2 DEF Injection, IsInjective
  <2>4. QED
    BY <2>3, FS_Injection
<1>2. QED
  BY <1>1, DispatchInvariant, PTL

(* With a single live runner the runbook's claim holds: a key reaches Sent    *)
(* only once, crashes and lost answers included.                             *)
THEOREM SingleRunnerOneSentRow ==
  ASSUME NEW only, Live = {only}
  PROVE  Spec => [](\A k \in Keys : Cardinality(SentRows(k)) <= 1)
<1>1. IsFiniteSet(Live) /\ Cardinality(Live) = 1
  BY FS_Singleton
<1>2. SentBound => \A k \in Keys : Cardinality(SentRows(k)) <= 1
  BY <1>1 DEF SentBound
<1>3. QED
  BY <1>1, <1>2, SentBoundHolds, PTL

(* What the unique constraint of the ORM schema makes of the log: a key has   *)
(* one row of each status at most; and every row of the log follows the       *)
(* Retrying rows of its job's earlier attempts.                               *)
UniqueRows ==
  unique => \A i, j \in DOMAIN log :
    log[i].key = log[j].key /\ log[i].status = log[j].status => i = j

RowsTried == \A i \in DOMAIN log : Tried(log[i].by, log[i], log[i].attempt)

(* Both hold of the log in every state. *)
LEMMA UniqueLog == Spec => [](UniqueRows /\ RowsTried)
<1>1. Init => UniqueRows /\ RowsTried
  BY DEF Init, UniqueRows, RowsTried
<1>2. DispatchInv /\ UniqueRows /\ RowsTried /\ [Next]_vars => UniqueRows' /\ RowsTried'
  <2> SUFFICES ASSUME DispatchInv, UniqueRows, RowsTried, [Next]_vars
               PROVE  UniqueRows' /\ RowsTried'
    OBVIOUS
  <2>0. unique' = unique
    BY StepCases DEF vars, Start, ReadLog, Suppress, DryRun, SendOK, SendError, Store,
       StoreRefused, Audit, Crash
  <2>1. CASE log' = log
    BY <2>0, <2>1 DEF UniqueRows, RowsTried, Tried
  <2>2. ASSUME NEW r \in Runners, Store(r) PROVE UniqueRows' /\ RowsTried'
    <3> DEFINE x == job[r].entry
    <3>1. /\ x \in LogEntry /\ log \in Seq(LogEntry)
          /\ x.by = r /\ Tried(r, x, x.attempt)
      <4>1. job[r].step = "store" /\ job[r] # Idle /\ job[r] \in Storing /\ JobOK(r)
        <5>1. job[r].step = "store" /\ job[r] # Idle /\ job[r] \in Storing
          BY <2>2, JobTypes DEF Store, DispatchInv
        <5>2. QED
          BY <5>1 DEF DispatchInv, JobsOK
      <4>2. QED
        BY <4>1 DEF Storing, DispatchInv, TypeOK, JobOK, Tried, RetryRow
    <3>2. /\ DOMAIN log' = 1 .. Len(log) + 1 /\ DOMAIN log = 1 .. Len(log)
          /\ \A i \in DOMAIN log : log'[i] = log[i]
          /\ log'[Len(log) + 1] = x
      BY <2>2, <3>1 DEF Store
    <3>3. unique => \A i \in DOMAIN log : log[i].key # x.key \/ log[i].status # x.status
      BY <2>2 DEF Store, KeyTaken
    <3> HIDE DEF x
    <3>4. UniqueRows'
      BY <2>0, <3>2, <3>3 DEF UniqueRows
    <3>5. RowsTried'
      <4> SUFFICES ASSUME NEW i \in DOMAIN log', NEW a \in 0 .. log'[i].attempt - 1
                   PROVE  \E j \in DOMAIN log' : log'[j] = RetryRow(log'[i].by, log'[i], a)
        BY DEF RowsTried, Tried
      <4>1. CASE i \in DOMAIN log
        <5>1. log'[i] = log[i] /\ Tried(log[i].by, log[i], log[i].attempt)
          BY <3>2, <4>1 DEF RowsTried
        <5>2. PICK j \in DOMAIN log : log[j] = RetryRow(log[i].by, log[i], a)
          BY <5>1 DEF Tried
        <5>3. QED
          BY <3>2, <5>1, <5>2
      <4>2. CASE i = Len(log) + 1
        <5>1. log'[i] = x
          BY <3>2, <4>2
        <5>2. PICK j \in DOMAIN log : log[j] = RetryRow(r, x, a)
          BY <3>1, <5>1 DEF Tried
        <5>3. QED
          BY <3>1, <3>2, <5>1, <5>2
      <4>3. QED
        BY <3>2, <4>1, <4>2
    <3>6. QED
      BY <3>4, <3>5
  <2>3. log' = log \/ \E r \in Runners : Store(r)
    BY StepCases DEF vars, Start, ReadLog, Suppress, DryRun, SendOK, SendError, StoreRefused,
       Audit, Crash
  <2>4. QED
    BY <2>1, <2>2, <2>3
<1>3. QED
  BY <1>1, <1>2, DispatchInvariant, PTL DEF Spec

(* On the ORM schema the retry loop never gets past its first retry, and with *)
(* two retries or more no job is ever recorded as failed: whatever the number *)
(* of runners, jobs, retries and crashes.                                     *)
THEOREM UniqueCutsRetriesShort == Spec => []RetriesCutShort
<1>1. DispatchInv /\ UniqueRows /\ RowsTried => RetriesCutShort
  <2> SUFFICES ASSUME DispatchInv, UniqueRows, RowsTried, unique, NEW i \in DOMAIN log
               PROVE  log[i].attempt <= 1 /\ (log[i].status = "Failed" => MaxRetries <= 1)
    BY DEF RetriesCutShort
  <2>1. log[i].attempt \in Nat
    <3>1. log \in Seq(LogEntry)
      BY DEF DispatchInv, TypeOK
    <3>2. log[i] \in LogEntry
      BY <3>1
    <3>3. QED
      BY <3>2 DEF LogEntry
  <2>2. ASSUME NEW n \in Nat, Tried(log[i].by, log[i], n) PROVE n <= 1
    <3> SUFFICES ASSUME n >= 2 PROVE FALSE
      BY <2>2
    <3>1. PICK j \in DOMAIN log : log[j] = RetryRow(log[i].by, log[i], 0)
      BY <2>2 DEF Tried
    <3>2. PICK h \in DOMAIN log : log[h] = RetryRow(log[i].by, log[i], 1)
      BY <2>2 DEF Tried
    <3>3. log[j].key = log[h].key /\ log[j].status = log[h].status /\ log[j].attempt # log[h].attempt
      BY <3>1, <3>2 DEF RetryRow
    <3>4. QED
      BY <3>3 DEF UniqueRows
  <2>3. log[i].attempt <= 1
    BY <2>1, <2>2 DEF RowsTried
  <2>4. ASSUME log[i].status = "Failed" PROVE MaxRetries <= 1
    <3>1. log \in Seq(LogEntry) /\ FailedAfterRetries
      BY DEF DispatchInv, TypeOK, LogOK
    <3>2. DOMAIN log = 1 .. Len(log) /\ Len(log) \in Nat /\ i \in 1 .. Len(log)
      BY <3>1
    <3>3. ASSUME NEW a \in 0 .. MaxRetries - 1
          PROVE  \E j \in DOMAIN log : log[j] = RetryRow(log[i].by, log[i], a)
      <4>1. PICK j \in 1 .. i - 1 : log[j] = RetryRow(log[i].by, log[i], a)
        BY <2>4, <3>1 DEF FailedAfterRetries
      <4>2. j \in DOMAIN log
        BY <3>2, <4>1
      <4>3. QED
        BY <4>1, <4>2
    <3>4. Tried(log[i].by, log[i], MaxRetries)
      BY <3>3 DEF Tried
    <3>5. MaxRetries \in Nat
      BY DispatchAssumption
    <3>6. QED
      BY <2>2, <3>4, <3>5
  <2>5. QED
    BY <2>3, <2>4
<1>2. QED
  BY <1>1, DispatchInvariant, UniqueLog, PTL

------------------------------------------------------------------------------
(* Counting the reports on a key: taking one element out of a finite set.     *)
LEMMA CountOne ==
  ASSUME NEW A, IsFiniteSet(A), NEW x
  PROVE  /\ Cardinality(A) = Cardinality(A \ {x}) + IF x \in A THEN 1 ELSE 0
         /\ Cardinality(A) \in Nat /\ Cardinality(A \ {x}) \in Nat
<1>1. Cardinality(A) \in Nat
  BY FS_CardinalityType
<1>2. CASE x \in A
  <2>1. IsFiniteSet(A \ {x}) /\ Cardinality(A \ {x}) = Cardinality(A) - 1
    BY <1>2, FS_RemoveElement
  <2>2. Cardinality(A \ {x}) \in Nat
    BY <2>1, FS_CardinalityType
  <2>3. QED
    BY <1>1, <1>2, <2>1, <2>2
<1>3. CASE x \notin A
  <2>1. A \ {x} = A
    BY <1>3
  <2>2. QED
    BY <1>1, <1>3, <2>1
<1>4. QED
  BY <1>2, <1>3

(* Runner r is about to store a report on k with a status of S. *)
Holds(r, k, S) == job[r].step = "store" /\ job[r].key = k /\ job[r].entry.status \in S

StoredReports(k, S) == {i \in DOMAIN log : log[i].key = k /\ log[i].status \in S}
HeldReports(k, S) == {r \in Runners : Holds(r, k, S)}

(* Both kinds of reports are finitely many. *)
LEMMA ReportsFinite ==
  ASSUME IsFiniteSet(Runners), log \in Seq(LogEntry), NEW k, NEW S
  PROVE  /\ IsFiniteSet(StoredReports(k, S)) /\ IsFiniteSet(HeldReports(k, S))
         /\ Reports(k, S) = Cardinality(StoredReports(k, S)) + Cardinality(HeldReports(k, S))
         /\ Reports(k, S) \in Nat
<1>1. Len(log) \in Nat /\ DOMAIN log = 1 .. Len(log)
  OBVIOUS
<1>2. IsFiniteSet(1 .. Len(log))
  BY <1>1, FS_Interval
<1>3. StoredReports(k, S) \in SUBSET (1 .. Len(log)) /\ HeldReports(k, S) \in SUBSET Runners
  BY <1>1 DEF StoredReports, HeldReports
<1>4. IsFiniteSet(StoredReports(k, S)) /\ IsFiniteSet(HeldReports(k, S))
  BY <1>2, <1>3, FS_Subset
<1>5. Reports(k, S) = Cardinality(StoredReports(k, S)) + Cardinality(HeldReports(k, S))
  BY DEF Reports, StoredReports, HeldReports, Holds
<1>6. QED
  BY <1>4, <1>5, FS_CardinalityType

Bit(b) == IF b THEN 1 ELSE 0

(* Changing what one runner holds changes the held reports by that one.      *)
LEMMA HeldMove ==
  ASSUME IsFiniteSet(Runners), NEW r \in Runners, \A q \in Runners \ {r} : job'[q] = job[q],
         NEW k, NEW S
  PROVE  /\ Cardinality(HeldReports(k, S)) \in Nat /\ Cardinality(HeldReports(k, S)') \in Nat
         /\ Cardinality(HeldReports(k, S)') + Bit(Holds(r, k, S))
              = Cardinality(HeldReports(k, S)) + Bit(Holds(r, k, S)')
<1> DEFINE A == HeldReports(k, S)
           B == HeldReports(k, S)'
<1>1. A \subseteq Runners /\ B \subseteq Runners
  BY DEF HeldReports
<1>2. IsFiniteSet(A) /\ IsFiniteSet(B)
  BY <1>1, FS_Subset
<1>3. A \ {r} = B \ {r}
  BY DEF HeldReports, Holds
<1>4. (r \in A <=> Holds(r, k, S)) /\ (r \in B <=> Holds(r, k, S)')
  BY DEF HeldReports
<1> HIDE DEF A, B
<1>5. /\ Cardinality(A) = Cardinality(A \ {r}) + Bit(r \in A) /\ Cardinality(A) \in Nat
      /\ Cardinality(B) = Cardinality(B \ {r}) + Bit(r \in B) /\ Cardinality(B) \in Nat
      /\ Cardinality(A \ {r}) \in Nat
  BY <1>2, CountOne DEF Bit
<1>6. Cardinality(A \ {r}) = Cardinality(B \ {r})
  BY <1>3
<1>7. Cardinality(A) \in Nat /\ Cardinality(B) \in Nat
      /\ Cardinality(B) + Bit(r \in A) = Cardinality(A) + Bit(r \in B)
  BY <1>5, <1>6 DEF Bit
<1>8. Bit(r \in A) = Bit(Holds(r, k, S)) /\ Bit(r \in B) = Bit(Holds(r, k, S)')
  BY <1>4 DEF Bit
<1>9. QED
  BY <1>7, <1>8 DEF A, B

(* So as long as the log stays, the reports change by what the runner holds. *)
LEMMA ReportsMove ==
  ASSUME IsFiniteSet(Runners), log \in Seq(LogEntry), log' = log,
         NEW r \in Runners, \A q \in Runners \ {r} : job'[q] = job[q], NEW k, NEW S
  PROVE  /\ Reports(k, S) \in Nat /\ Reports(k, S)' \in Nat
         /\ Reports(k, S)' + Bit(Holds(r, k, S)) = Reports(k, S) + Bit(Holds(r, k, S)')
<1> DEFINE C == Cardinality(StoredReports(k, S))
           H == Cardinality(HeldReports(k, S))
           G == Cardinality(HeldReports(k, S)')
<1>1. Reports(k, S) = C + H /\ C \in Nat
  BY ReportsFinite, FS_CardinalityType
<1>2. Reports(k, S)' = C + G
  BY DEF Reports, StoredReports, HeldReports, Holds
<1>3. H \in Nat /\ G \in Nat /\ G + Bit(Holds(r, k, S)) = H + Bit(Holds(r, k, S)')
  BY HeldMove
<1>4. Bit(Holds(r, k, S)) \in Nat /\ Bit(Holds(r, k, S)') \in Nat
  BY DEF Bit
<1> HIDE DEF C, H, G
<1>5. QED
  BY <1>1, <1>2, <1>3, <1>4

(* Storing a report only moves it from the runner to the log. *)
LEMMA ReportStored ==
  ASSUME IsFiniteSet(Runners), DispatchInv, NEW r \in Runners, Store(r), NEW k, NEW S
  PROVE  Reports(k, S)' = Reports(k, S)
<1> DEFINE x == job[r].entry
           n == Len(log) + 1
           A == StoredReports(k, S)
           B == StoredReports(k, S)'
           H == Cardinality(HeldReports(k, S))
           G == Cardinality(HeldReports(k, S)')
<1> USE DEF DispatchInv
<1>1. /\ job[r].step = "store" /\ x \in LogEntry /\ x.key = job[r].key
      /\ log \in Seq(LogEntry) /\ Len(log) \in Nat
      /\ log' = Append(log, x)
      /\ job'[r].step = "audit" /\ \A q \in Runners \ {r} : job'[q] = job[q]
  <2>1. job[r].step = "store" /\ job[r] # Idle /\ job[r] \in Storing /\ JobOK(r)
    <3>1. job[r].step = "store" /\ job[r] # Idle /\ job[r] \in Storing
      BY JobTypes DEF Store
    <3>2. QED
      BY <3>1 DEF JobsOK
  <2>2. job'[r].step = "audit" /\ \A q \in Runners \ {r} : job'[q] = job[q]
    BY DEF Store, TypeOK
  <2>3. x \in LogEntry /\ x.key = job[r].key
    BY <2>1 DEF JobOK, Storing
  <2>4. QED
    BY <2>1, <2>2, <2>3 DEF Store, TypeOK
<1>2. /\ DOMAIN log' = 1 .. n /\ DOMAIN log = 1 .. Len(log)
      /\ n \in Nat /\ n \in DOMAIN log' /\ n \notin DOMAIN log
      /\ \A i \in DOMAIN log : log'[i] = log[i]
      /\ log'[n] = x
  BY <1>1
<1> HIDE DEF n, x
<1>3. B \ {n} = A /\ (n \in B <=> Holds(r, k, S))
  <2>1. B = {i \in DOMAIN log' : log'[i].key = k /\ log'[i].status \in S}
    BY DEF StoredReports
  <2>2. n \in B <=> (x.key = k /\ x.status \in S)
    BY <1>1, <1>2, <2>1
  <2>3. B \ {n} = A
    BY <1>1, <1>2, <2>1 DEF StoredReports, n
  <2>4. QED
    BY <1>1, <2>2, <2>3 DEF Holds, x
<1>4. B \in SUBSET (1 .. n) /\ IsFiniteSet(1 .. n)
  BY <1>1, <1>2, FS_Interval DEF StoredReports
<1>5. IsFiniteSet(B) /\ IsFiniteSet(A)
  BY <1>3, <1>4, FS_Subset
<1>6. ~Holds(r, k, S)'
  BY <1>1 DEF Holds
<1>7. H \in Nat /\ G \in Nat /\ G + Bit(Holds(r, k, S)) = H
  BY <1>1, <1>6, HeldMove DEF Bit
<1>8. Reports(k, S) = Cardinality(A) + H /\ Reports(k, S)' = Cardinality(B) + G
  BY DEF Reports, StoredReports, HeldReports, Holds
<1> HIDE DEF A, B, H, G
<1>9. Cardinality(B) = Cardinality(B \ {n}) + Bit(n \in B) /\ Cardinality(B \ {n}) \in Nat
  BY <1>5, CountOne DEF Bit
<1>10. Cardinality(B) = Cardinality(A) + Bit(Holds(r, k, S)) /\ Cardinality(A) \in Nat
  BY <1>3, <1>9 DEF Bit
<1>11. Bit(Holds(r, k, S)) \in Nat
  BY DEF Bit
<1>12. QED
  BY <1>7, <1>8, <1>10, <1>11

(* SentIsDelivered for one key.  Only a send raises the deliveries, and only *)
(* a refused insert or a crash loses a report.                               *)
Accounted(k) ==
  /\ Reports(k, {"Sent"}) <= delivered[k]
  /\ ~unique => delivered[k] <= Reports(k, Outcomes) + crashes

(* A step that leaves the log alone: it is enough to compare what the runner *)
(* holds before and after it with the deliveries and the crashes.            *)
LEMMA QuietAccount ==
  ASSUME IsFiniteSet(Runners), DispatchInv, NEW r \in Runners, log' = log, unique' = unique,
         \A q \in Runners \ {r} : job'[q] = job[q],
         NEW k \in Keys, Accounted(k), crashes' \in Nat, delivered'[k] \in Nat,
         Bit(Holds(r, k, {"Sent"})') + delivered[k] <= Bit(Holds(r, k, {"Sent"})) + delivered'[k],
         ~unique => delivered'[k] + Bit(Holds(r, k, Outcomes)) + crashes
                      <= delivered[k] + Bit(Holds(r, k, Outcomes)') + crashes'
  PROVE  Accounted(k)'
<1> DEFINE a == Reports(k, {"Sent"})  b == Reports(k, Outcomes)
           c == Reports(k, {"Sent"})' d == Reports(k, Outcomes)'
           f == Bit(Holds(r, k, {"Sent"}))  g == Bit(Holds(r, k, Outcomes))
           h == Bit(Holds(r, k, {"Sent"})') j == Bit(Holds(r, k, Outcomes)')
           m == delivered[k]  n == delivered'[k]
<1>1. /\ log \in Seq(LogEntry) /\ m \in Nat /\ crashes \in Nat
  BY DEF DispatchInv, TypeOK
<1>2. a \in Nat /\ c \in Nat /\ c + f = a + h
  BY <1>1, ReportsMove
<1>3. b \in Nat /\ d \in Nat /\ d + g = b + j
  <2>1. Outcomes' = Outcomes
    BY DEF Outcomes
  <2>2. QED
    BY <1>1, <2>1, ReportsMove
<1>4. f \in Nat /\ g \in Nat /\ h \in Nat /\ j \in Nat
  BY DEF Bit
<1>5. a <= m /\ (~unique => m <= b + crashes)
  BY DEF Accounted
<1>6. h + m <= f + n /\ (~unique => n + g + crashes <= m + j + crashes') /\ n \in Nat
  OBVIOUS
<1> HIDE DEF a, b, c, d, f, g, h, j, m, n
<1>7. c <= n
  BY <1>1, <1>2, <1>4, <1>5, <1>6
<1>8. ASSUME ~unique PROVE n <= d + crashes'
  <2>1. m <= b + crashes /\ n + g + crashes <= m + j + crashes' /\ crashes' \in Nat
    BY <1>5, <1>6, <1>8
  <2> DEFINE v == crashes  w == crashes'
  <2>2. v \in Nat /\ w \in Nat /\ m <= b + v /\ n + g + v <= m + j + w
    BY <1>1, <2>1
  <2> HIDE DEF v, w
  <2>3. n + g + v <= b + v + j + w
    BY <1>1, <1>3, <1>4, <1>6, <2>2, SMTT(30)
  <2>4. n <= d + w
    BY <1>1, <1>3, <1>4, <1>6, <2>2, <2>3, SMTT(30)
  <2>5. QED
    BY <2>4 DEF w
<1>9. QED
  BY <1>7, <1>8 DEF Accounted, c, d, n

(* dispatch returns: the account of its key balances if what it reports is   *)
(* what has left.                                                            *)
LEMMA ReturnAccount ==
  ASSUME IsFiniteSet(Runners), DispatchInv, NEW r \in Runners, NEW st,
         job[r].step = "dispatch", Return(r, st),
         UNCHANGED <<log, refused, audited, started, crashes, unique>>,
         NEW d \in 0 .. 1, delivered' = [delivered EXCEPT ![job[r].key] = @ + d],
         st = "Sent" => d = 1, d = 1 => st \in Outcomes,
         NEW k \in Keys, Accounted(k)
  PROVE  Accounted(k)'
<1>1. /\ delivered \in [Keys -> Nat] /\ crashes \in Nat /\ crashes' = crashes
      /\ \A q \in Runners \ {r} : job'[q] = job[q]
      /\ job'[r].step = "store" /\ job'[r].key = job[r].key /\ job'[r].entry.status = st
  BY DEF DispatchInv, TypeOK, Return
<1>2. job[r].key \in Keys /\ ~Holds(r, k, {"Sent"}) /\ ~Holds(r, k, Outcomes)
  <2>1. job[r].key \in Keys
    BY JobTypes DEF DispatchInv, Deciding
  <2>2. QED
    BY <2>1 DEF Holds
<1>3. CASE job[r].key = k
  <2>1. Holds(r, k, {"Sent"})' <=> st = "Sent"
    BY <1>1, <1>3 DEF Holds
  <2>2. Holds(r, k, Outcomes)' <=> st \in Outcomes
    BY <1>1, <1>3 DEF Holds, Outcomes
  <2>3. delivered'[k] = delivered[k] + d /\ delivered[k] \in Nat
    BY <1>1, <1>2, <1>3
  <2>4. /\ Bit(Holds(r, k, {"Sent"})') <= d /\ d <= Bit(Holds(r, k, Outcomes)')
        /\ Bit(Holds(r, k, {"Sent"})') \in Nat /\ Bit(Holds(r, k, Outcomes)') \in Nat
    BY <2>1, <2>2 DEF Bit
  <2>5. Bit(Holds(r, k, {"Sent"})) = 0 /\ Bit(Holds(r, k, Outcomes)) = 0
    BY <1>2 DEF Bit
  <2>6. QED
    BY <1>1, <2>3, <2>4, <2>5, QuietAccount
<1>4. CASE job[r].key # k
  <2>1. ~Holds(r, k, {"Sent"})' /\ ~Holds(r, k, Outcomes)'
    BY <1>1, <1>4 DEF Holds
  <2>2. delivered'[k] = delivered[k] /\ delivered[k] \in Nat
    BY <1>1, <1>2, <1>4
  <2>3. /\ Bit(Holds(r, k, {"Sent"})') = 0 /\ Bit(Holds(r, k, Outcomes)') = 0
        /\ Bit(Holds(r, k, {"Sent"})) = 0 /\ Bit(Holds(r, k, Outcomes)) = 0
    BY <1>2, <2>1 DEF Bit
  <2>4. QED
    BY <1>1, <2>2, <2>3, QuietAccount
<1>5. QED
  BY <1>3, <1>4

(* The four ways through dispatch. *)
LEMMA DispatchAccount ==
  ASSUME IsFiniteSet(Runners), DispatchInv, NEW r \in Runners,
         Suppress(r) \/ DryRun(r) \/ SendOK(r) \/ SendError(r),
         NEW k \in Keys, Accounted(k)
  PROVE  Accounted(k)'
<1>1. /\ job[r].step = "dispatch" /\ delivered \in [Keys -> Nat]
      /\ job[r].key \in Keys /\ UNCHANGED <<log, refused, audited, started, crashes, unique>>
  BY JobTypes DEF Suppress, DryRun, SendOK, SendError, DispatchInv, TypeOK, Deciding
<1>2. delivered = [delivered EXCEPT ![job[r].key] = @ + 0]
  BY <1>1
<1>3. CASE Suppress(r)
  BY <1>1, <1>2, <1>3, ReturnAccount DEF Suppress
<1>4. CASE DryRun(r)
  BY <1>1, <1>2, <1>4, ReturnAccount DEF DryRun
<1>5. CASE SendOK(r)
  <2>1. "Sent" \in Outcomes
    BY DEF Outcomes
  <2> DEFINE d == 1
  <2>2. d \in 0 .. 1 /\ d = 1 /\ delivered' = [delivered EXCEPT ![job[r].key] = @ + d]
    BY <1>5 DEF SendOK
  <2>3. Return(r, "Sent")
    BY <1>5 DEF SendOK
  <2> HIDE DEF d
  <2>4. QED
    BY <1>1, <2>1, <2>2, <2>3, ReturnAccount
<1>6. CASE SendError(r)
  <2> DEFINE st == FailureStatus(job[r].attempt)
  <2>1. st # "Sent" /\ (LossySend => st \in Outcomes)
    BY DEF FailureStatus, Outcomes
  <2>2. Return(r, st)
    BY <1>6 DEF SendError
  <2> HIDE DEF st
  <2>3. CASE UNCHANGED delivered
    BY <1>1, <1>2, <2>1, <2>2, <2>3, ReturnAccount
  <2>4. CASE LossySend /\ delivered' = [delivered EXCEPT ![job[r].key] = @ + 1]
    <3> DEFINE d == 1
    <3>1. d \in 0 .. 1 /\ delivered' = [delivered EXCEPT ![job[r].key] = @ + d]
      BY <2>4
    <3> HIDE DEF d
    <3>2. QED
      BY <1>1, <2>1, <2>2, <2>4, <3>1, ReturnAccount
  <2>5. QED
    BY <1>6, <2>3, <2>4 DEF SendError
<1>7. QED
  BY <1>3, <1>4, <1>5, <1>6

(* Steps that hold no report before or after them. *)
LEMMA IdleAccount ==
  ASSUME IsFiniteSet(Runners), DispatchInv, NEW r \in Runners,
         (\E k \in Keys : Start(r, k)) \/ ReadLog(r) \/ Audit(r),
         NEW k \in Keys, Accounted(k)
  PROVE  Accounted(k)'
<1>1. /\ UNCHANGED <<log, delivered, crashes, unique>> /\ job \in [Runners -> Job]
      /\ delivered[k] \in Nat /\ crashes \in Nat
      /\ \A q \in Runners \ {r} : job'[q] = job[q]
  BY DEF Start, ReadLog, Audit, DispatchInv, TypeOK, Job
<1>2. job[r].step # "store"
  BY DEF Start, ReadLog, Audit, Idle
<1>3. job'[r].step # "store"
  BY <1>1 DEF Start, ReadLog, Audit, Idle
<1>4. \A S \in {{"Sent"}, Outcomes} : Bit(Holds(r, k, S)) = 0 /\ Bit(Holds(r, k, S)') = 0
  BY <1>2, <1>3 DEF Holds, Bit
<1>5. Bit(Holds(r, k, Outcomes)') = 0
  BY <1>3 DEF Holds, Bit
<1>6. QED
  BY <1>1, <1>4, <1>5, QuietAccount

(* A refused insert loses a report, only on the schema where one may be      *)
(* lost; a crash loses at most one and is counted.                           *)
LEMMA EndAccount ==
  ASSUME IsFiniteSet(Runners), DispatchInv, NEW r \in Runners, StoreRefused(r) \/ Crash(r),
         NEW k \in Keys, Accounted(k)
  PROVE  Accounted(k)'
<1>1. /\ UNCHANGED <<log, delivered, unique>> /\ delivered[k] \in Nat /\ crashes \in Nat
      /\ job'[r] = Idle /\ \A q \in Runners \ {r} : job'[q] = job[q]
  BY DEF StoreRefused, Crash, DispatchInv, TypeOK
<1>2. Bit(Holds(r, k, {"Sent"})') = 0 /\ Bit(Holds(r, k, Outcomes)') = 0
  BY <1>1 DEF Holds, Bit, Idle
<1>3. Bit(Holds(r, k, {"Sent"})) \in 0 .. 1 /\ Bit(Holds(r, k, Outcomes)) \in 0 .. 1
  BY DEF Bit
<1>4. crashes' \in Nat /\ (~unique => crashes' = crashes + 1)
  BY <1>1 DEF StoreRefused, Crash, KeyTaken
<1>5. QED
  BY <1>1, <1>2, <1>3, <1>4, QuietAccount

(* Storing only moves a report. *)
LEMMA StoreAccount ==
  ASSUME IsFiniteSet(Runners), DispatchInv, NEW r \in Runners, Store(r),
         NEW k \in Keys, Accounted(k)
  PROVE  Accounted(k)'
<1>1. Reports(k, {"Sent"})' = Reports(k, {"Sent"})
  BY ReportStored
<1>2. Reports(k, Outcomes)' = Reports(k, Outcomes)
  <2>1. Outcomes' = Outcomes
    BY DEF Outcomes
  <2>2. QED
    BY <2>1, ReportStored
<1>3. UNCHANGED <<delivered, crashes, unique>>
  BY DEF Store
<1>4. QED
  BY <1>1, <1>2, <1>3 DEF Accounted

(* The log never says Sent more often than messages have left, and on the    *)
(* schema that stores every report each message that left is reported or     *)
(* explained by a crash: for any number of runners, jobs, retries and        *)
(* crashes.  dispatch and the repository call that logs it are two           *)
(* transactions; this is what remains true of the gap between them.          *)
THEOREM SentRowsAreDeliveries ==
  ASSUME IsFiniteSet(Runners)
  PROVE  Spec => []SentIsDelivered
<1>1. SentIsDelivered <=> \A k \in Keys : Accounted(k)
  BY DEF SentIsDelivered, Accounted
<1>2. Init => SentIsDelivered
  <2> SUFFICES ASSUME Init, NEW k \in Keys, NEW S PROVE Reports(k, S) = 0
    BY DEF Init, SentIsDelivered
  <2>1. StoredReports(k, S) = {} /\ HeldReports(k, S) = {} /\ log \in Seq(LogEntry)
    BY DEF Init, StoredReports, HeldReports, Holds, Idle
  <2>2. Cardinality(StoredReports(k, S)) = 0 /\ Cardinality(HeldReports(k, S)) = 0
    BY <2>1, FS_EmptySet
  <2>3. Reports(k, S) = Cardinality(StoredReports(k, S)) + Cardinality(HeldReports(k, S))
    BY <2>1, ReportsFinite
  <2>4. QED
    BY <2>2, <2>3
<1>3. DispatchInv /\ SentIsDelivered /\ [Next]_vars => SentIsDelivered'
  <2> SUFFICES ASSUME DispatchInv, [Next]_vars, NEW k \in Keys, Accounted(k) PROVE Accounted(k)'
    BY <1>1 DEF SentIsDelivered, Accounted
  <2>1. CASE UNCHANGED vars
    BY <2>1 DEF vars, Accounted, Reports, Outcomes
  <2>2. QED
    BY <2>1, StepCases, IdleAccount, DispatchAccount, StoreAccount, EndAccount, Zenon
<1>4. QED
  BY <1>2, <1>3, DispatchInvariant, PTL DEF Spec

------------------------------------------------------------------------------
(* One live runner, no crash and no lost answer: a message has left exactly  *)
(* when its key is recorded as sent or the runner is about to record it.     *)
Pending(r, k) == Holds(r, k, {"Sent"})

Exact(r) ==
  \A k \in Keys : delivered[k] = Bit(HasSucceeded(k) \/ Pending(r, k))

(* Only the live runner ever holds a Sent report, and not of a key that it   *)
(* has recorded as sent before.                                              *)
LEMMA PendingIsFresh ==
  ASSUME NEW only, Live = {only}, DispatchInv, NEW r \in Runners, NEW k, Pending(r, k)
  PROVE  r = only /\ ~HasSucceeded(k)
<1>1. job[r].step = "store" /\ job[r].key = k /\ job[r].entry.status = "Sent"
  BY DEF Pending, Holds
<1>2. job[r] # Idle
  BY <1>1, JobTypes DEF DispatchInv
<1>3. r \in Live /\ NoSentBy(r, k)
  BY <1>1, <1>2 DEF DispatchInv, JobsOK, JobOK
<1>4. QED
  BY <1>3 DEF DispatchInv, LogOK, NoSentBy, HasSucceeded, SentRows

(* What the mailer is shown: a delivery, a record of it, or nothing.         *)
LEMMA MailerStep ==
  ASSUME NEW only, Live = {only}, ~LossySend, MaxCrashes = 0,
         DispatchInv, Exact(only), [Next]_vars
  PROVE  Exact(only)' /\ [Mailer!Next]_<<delivered, Recorded>>
<1> USE DEF DispatchInv
<1>1. only \in Runners /\ delivered \in [Keys -> Nat] /\ log \in Seq(LogEntry)
  BY DEF TypeOK
(* A step that neither delivers nor writes the log nor touches what the live *)
(* runner is about to record.                                                *)
<1>2. ASSUME log' = log, delivered' = delivered,
             \A k \in Keys : Pending(only, k)' <=> Pending(only, k)
      PROVE  Exact(only)' /\ [Mailer!Next]_<<delivered, Recorded>>
  <2>1. \A k \in Keys : HasSucceeded(k)' <=> HasSucceeded(k)
    BY <1>2 DEF HasSucceeded
  <2>2. Recorded' = Recorded
    BY <2>1 DEF Recorded
  <2>3. Exact(only)'
    BY <1>2, <2>1 DEF Exact, Bit
  <2>4. QED
    BY <1>2, <2>2, <2>3
<1>3. CASE UNCHANGED vars
  BY <1>2, <1>3 DEF vars, Pending, Holds
<1>4. ASSUME NEW r \in Runners, \E k \in Keys : Start(r, k)
      PROVE  Exact(only)' /\ [Mailer!Next]_<<delivered, Recorded>>
  <2>1. job[r].step # "store" /\ job'[r].step # "store" /\ \A q \in Runners \ {r} : job'[q] = job[q]
    BY <1>4 DEF Start, Idle, TypeOK
  <2>2. QED
    BY <1>1, <1>2, <1>4, <2>1 DEF Start, Pending, Holds
<1>5. ASSUME NEW r \in Runners, ReadLog(r) \/ Audit(r)
      PROVE  Exact(only)' /\ [Mailer!Next]_<<delivered, Recorded>>
  <2>1. job[r].step # "store" /\ job'[r].step # "store" /\ \A q \in Runners \ {r} : job'[q] = job[q]
    BY <1>5 DEF ReadLog, Audit, Idle, TypeOK
  <2>2. QED
    BY <1>1, <1>2, <1>5, <2>1 DEF ReadLog, Audit, Pending, Holds
<1>6. ASSUME NEW r \in Runners, Suppress(r) \/ DryRun(r) \/ SendError(r)
      PROVE  Exact(only)' /\ [Mailer!Next]_<<delivered, Recorded>>
  <2>1. PICK st \in CommStatus \ {"Sent"} : Return(r, st)
    BY <1>6 DEF Suppress, DryRun, SendError, FailureStatus, CommStatus
  <2>2. /\ job[r].step = "dispatch" /\ log' = log /\ delivered' = delivered
        /\ job'[r].entry.status # "Sent" /\ \A q \in Runners \ {r} : job'[q] = job[q]
    BY <1>6, <2>1 DEF Suppress, DryRun, SendError, Return, TypeOK
  <2>3. QED
    BY <1>1, <1>2, <2>2 DEF Pending, Holds
<1>7. ASSUME NEW r \in Runners, SendOK(r)
      PROVE  Exact(only)' /\ [Mailer!Next]_<<delivered, Recorded>>
  <2> DEFINE k == job[r].key
  <2>1. /\ r = only /\ job[r].step = "dispatch" /\ k \in Keys /\ ~job[r].succeeded /\ JobOK(r)
        /\ log' = log /\ delivered' = [delivered EXCEPT ![k] = @ + 1]
    BY <1>7, JobTypes DEF SendOK, Deciding, JobsOK
  <2>2. ~HasSucceeded(k)
    BY <2>1 DEF JobOK, LogOK, NoSentBy, HasSucceeded, SentRows
  <2>3. job'[only].step = "store" /\ job'[only].key = k /\ job'[only].entry.status = "Sent"
    BY <1>7, <2>1 DEF SendOK, Return, TypeOK
  <2>4. PICK key \in Keys : key = k
    BY <2>1
  <2>5. /\ \A q \in Keys : ~Pending(only, q) /\ (HasSucceeded(q)' <=> HasSucceeded(q))
        /\ \A q \in Keys : Pending(only, q)' <=> q = key
    BY <2>1, <2>3, <2>4 DEF Pending, Holds, HasSucceeded
  <2> HIDE DEF k
  <2>6. delivered[key] = 0 /\ delivered' = [delivered EXCEPT ![key] = 1]
    <3>1. ~HasSucceeded(key) /\ ~Pending(only, key)
      BY <2>2, <2>4, <2>5
    <3>2. delivered[key] = 0
      BY <3>1 DEF Exact, Bit
    <3>3. delivered' = [delivered EXCEPT ![key] = @ + 1]
      BY <2>1, <2>4
    <3>4. QED
      BY <1>1, <3>2, <3>3
  <2>7. Recorded' = Recorded
    BY <2>5 DEF Recorded
  <2>8. Mailer!Deliver(key)
    BY <2>6, <2>7 DEF Mailer!Deliver
  <2>9. Exact(only)'
    BY <1>1, <2>5, <2>6 DEF Exact, Bit
  <2>10. QED
    BY <2>4, <2>8, <2>9 DEF Mailer!Next
<1>8. ASSUME NEW r \in Runners, Store(r)
      PROVE  Exact(only)' /\ [Mailer!Next]_<<delivered, Recorded>>
  <2> DEFINE x == job[r].entry
  <2>1. /\ job[r].step = "store" /\ job[r] \in Storing /\ job[r] # Idle
        /\ job'[r].step = "audit" /\ \A q \in Runners \ {r} : job'[q] = job[q]
        /\ log' = Append(log, x) /\ delivered' = delivered
    BY <1>8, JobTypes DEF Store, TypeOK
  <2>2. x \in LogEntry /\ x.key = job[r].key
    BY <2>1 DEF Storing, JobsOK, JobOK
  <2>3. PICK key \in Keys, st \in CommStatus : key = x.key /\ st = x.status
    BY <2>2 DEF LogEntry
  <2>4. /\ DOMAIN log' = 1 .. Len(log) + 1 /\ DOMAIN log = 1 .. Len(log)
        /\ \A i \in DOMAIN log : log'[i] = log[i]
        /\ log'[Len(log) + 1] = x /\ Len(log) \in Nat
    BY <1>1, <2>1, <2>2
  <2>5. \A q \in Keys : HasSucceeded(q)' <=> HasSucceeded(q) \/ (q = key /\ st = "Sent")
    BY <2>3, <2>4 DEF HasSucceeded
  <2>6. CASE st = "Sent"
    <3>1. Pending(r, key)
      BY <2>1, <2>2, <2>3, <2>6 DEF Pending, Holds
    <3>2. r = only /\ ~HasSucceeded(key)
      BY <3>1, PendingIsFresh
    <3>3. /\ \A q \in Keys : Pending(only, q) <=> q = key
          /\ \A q \in Keys : ~Pending(only, q)'
      BY <2>1, <3>1, <3>2 DEF Pending, Holds
    <3>4. Exact(only)'
      BY <2>1, <2>5, <2>6, <3>3 DEF Exact, Bit
    <3>5. delivered[key] = 1 /\ Recorded' = Recorded \cup {key}
      BY <2>3, <2>5, <2>6, <3>1, <3>2 DEF Exact, Bit, Recorded
    <3>6. Mailer!Record(key)
      BY <2>1, <3>5 DEF Mailer!Record
    <3>7. QED
      BY <3>4, <3>6 DEF Mailer!Next
  <2>7. CASE st # "Sent"
    <3>1. \A q \in Keys : HasSucceeded(q)' <=> HasSucceeded(q)
      BY <2>5, <2>7
    <3>2. \A q \in Keys : Pending(only, q)' <=> Pending(only, q)
      BY <1>1, <2>1, <2>3, <2>7 DEF Pending, Holds
    <3>3. Recorded' = Recorded
      BY <3>1 DEF Recorded
    <3>4. Exact(only)'
      BY <2>1, <3>1, <3>2 DEF Exact, Bit
    <3>5. QED
      BY <2>1, <3>3, <3>4
  <2>8. QED
    BY <2>6, <2>7
<1>9. ASSUME NEW r \in Runners, StoreRefused(r)
      PROVE  Exact(only)' /\ [Mailer!Next]_<<delivered, Recorded>>
  <2>1. /\ job[r].step = "store" /\ job'[r] = Idle /\ \A q \in Runners \ {r} : job'[q] = job[q]
        /\ log' = log /\ delivered' = delivered /\ KeyTaken(job[r].entry) /\ job[r] # Idle
    BY <1>9, JobTypes DEF StoreRefused, TypeOK
  <2>2. \A q \in Keys : ~Pending(r, q)
    <3> SUFFICES ASSUME NEW q \in Keys, Pending(r, q) PROVE FALSE
      OBVIOUS
    <3>1. ~HasSucceeded(q)
      BY PendingIsFresh
    <3>2. job[r].entry.key = q /\ job[r].entry.status = "Sent"
      BY <2>1 DEF Pending, Holds, JobsOK, JobOK
    <3>3. QED
      BY <2>1, <3>1, <3>2 DEF KeyTaken, HasSucceeded
  <2>3. \A q \in Keys : ~Pending(r, q)'
    BY <2>1 DEF Pending, Holds, Idle
  <2>4. \A q \in Keys : Pending(only, q)' <=> Pending(only, q)
    BY <1>1, <2>1, <2>2, <2>3 DEF Pending, Holds
  <2>5. QED
    BY <1>2, <2>1, <2>4
<1>10. ASSUME NEW r \in Runners, Crash(r) PROVE FALSE
  BY <1>10 DEF Crash, TypeOK
<1>11. QED
  BY <1>3, <1>4, <1>5, <1>6, <1>7, <1>8, <1>9, <1>10, StepCases, Zenon

(* The implementation theorem: one live runner that neither crashes nor      *)
(* loses an answer is the at-most-once mailer that                           *)
(* services/communication_service.py promises, next to any number of dry     *)
(* runs and on either schema.  (With a second live runner, a crash between   *)
(* the send and the log, or a lost answer it is not: the runs show it.)      *)
THEOREM SingleRunnerIsMailer ==
  ASSUME NEW only, Live = {only}, ~LossySend, MaxCrashes = 0
  PROVE  Spec => MailerSpec
<1>1. Init => Exact(only) /\ Mailer!Init
  <2> SUFFICES ASSUME Init PROVE Exact(only) /\ Mailer!Init
    OBVIOUS
  <2>1. only \in Runners /\ \A k : ~HasSucceeded(k) /\ ~Pending(only, k)
    BY DEF Init, HasSucceeded, Pending, Holds, Idle
  <2>2. QED
    BY <2>1 DEF Init, Exact, Bit, Recorded, Mailer!Init
<1>2. DispatchInv /\ Exact(only) /\ [Next]_vars
        => Exact(only)' /\ [Mailer!Next]_<<delivered, Recorded>>
  BY MailerStep
<1>3. QED
  BY <1>1, <1>2, DispatchInvariant, PTL DEF Spec, MailerSpec, Mailer!Spec
=============================================================================
