----------------------------- MODULE CommDispatch -----------------------------
(***************************************************************************)
(* Dispatching a communication: the runners (the Communications page, and  *)
(* scheduler runs with a retry loop around dispatch) share the             *)
(* communication log.  A runner reads the log, calls dispatch on what it   *)
(* read, stores the entry dispatch returns and then an audit entry; each   *)
(* repository call is a transaction of its own, and the message leaves     *)
(* between the read and the write.                                         *)
(*                                                                         *)
(* An idempotency key stands for its (employee, nomination, type, template *)
(* version, schedule date) tuple: build_idempotency_key is a function of   *)
(* it, and of these only the template version is free text, between fields *)
(* of fixed form, so no two tuples share a key.                            *)
(***************************************************************************)
EXTENDS Naturals, Sequences, FiniteSets

CONSTANTS
  Runners,          (* whoever calls dispatch *)
  Live,             (* those that pass dry_run = False *)
  Keys,             (* idempotency keys *)
  MaxRetries,       (* the max_retries argument *)
  Schemas,          (* the values "unique" may have, see there *)
  LossySend,        (* TRUE: a send may be reported failed though it was delivered *)
  MaxCrashes,       (* bounds how often a runner stops half way *)
  MaxJobs           (* bounds how many dispatch jobs are started *)

ASSUME DispatchAssumption ==
  /\ Live \subseteq Runners
  /\ MaxRetries \in Nat /\ MaxCrashes \in Nat /\ MaxJobs \in Nat
  /\ Schemas \subseteq BOOLEAN /\ LossySend \in BOOLEAN

CommStatus == {"Pending", "Sent", "DryRun", "Suppressed", "Failed", "Retrying"}

(* A communication_log row: the key, the status and the retry_count.  "by"   *)
(* and "no" are history, the runner and the job that stored it; nothing      *)
(* reads them.                                                               *)
LogEntry == [key : Keys, status : CommStatus, attempt : 0 .. MaxRetries,
             by : Runners, no : 1 .. MaxJobs]

(* What a runner holds between two calls; "no" is the number of its job and  *)
(* "row" the id of the row stored.                                           *)
Idle     == [step |-> "idle"]
Reading  == [step : {"read"}, no : 1 .. MaxJobs, key : Keys, attempt : 0 .. MaxRetries]
Deciding == [step : {"dispatch"}, no : 1 .. MaxJobs, key : Keys, attempt : 0 .. MaxRetries,
             succeeded : BOOLEAN]
Storing  == [step : {"store"}, no : 1 .. MaxJobs, key : Keys, attempt : 0 .. MaxRetries,
             entry : LogEntry]
Auditing == [step : {"audit"}, no : 1 .. MaxJobs, key : Keys, attempt : 0 .. MaxRetries,
             row : Nat]

VARIABLES
  log,        (* the communication_log table, in insertion order *)
  refused,    (* history: the entries the schema refused to store *)
  audited,    (* the rows of the log that have an audit entry *)
  job,        (* per runner: the job under way *)
  delivered,  (* per key: how many messages have left *)
  started,    (* how many jobs were started *)
  crashes,    (* how many jobs were cut short *)
  unique      (* TRUE on the ORM schema, unique on (idempotency_key, status); *)
              (* FALSE on the SQLite schema.  Chosen once, never changed.     *)

vars == <<log, refused, audited, job, delivered, started, crashes, unique>>

------------------------------------------------------------------------------
(* Mutants: any row of the key counts; only the latest row is looked at. *)
HasSucceeded_AnyRow(k) == \E i \in DOMAIN log : log[i].key = k
HasSucceeded_Latest(k) ==
  \E i \in DOMAIN log : /\ log[i].key = k /\ log[i].status = "Sent"
                        /\ \A j \in DOMAIN log : log[j].key = k => j <= i

(* has_already_succeeded: only a Sent row counts. *)
HasSucceeded(k) == \E i \in DOMAIN log : log[i].key = k /\ log[i].status = "Sent"

(* Mutants: one retry too many, one too few, and a last failure logged as Sent. *)
FailureStatus_TooMany(a) == IF a <= MaxRetries THEN "Retrying" ELSE "Failed"
FailureStatus_TooFew(a) == IF a + 1 < MaxRetries THEN "Retrying" ELSE "Failed"
FailureStatus_Sent(a) == IF a < MaxRetries THEN "Retrying" ELSE "Sent"

(* The status of a send that was reported failed. *)
FailureStatus(a) == IF a < MaxRetries THEN "Retrying" ELSE "Failed"

(* Mutant: the constraint also spans retry_count. *)
KeyTaken_PerAttempt(x) ==
  unique /\ \E i \in DOMAIN log :
    log[i].key = x.key /\ log[i].status = x.status /\ log[i].attempt = x.attempt

(* Does the schema refuse to store this entry? *)
KeyTaken(x) ==
  unique /\ \E i \in DOMAIN log : log[i].key = x.key /\ log[i].status = x.status

------------------------------------------------------------------------------
Init ==
  /\ log = <<>>
  /\ refused = {}
  /\ audited = {}
  /\ job = [r \in Runners |-> Idle]
  /\ delivered = [k \in Keys |-> 0]
  /\ started = 0
  /\ crashes = 0
  /\ unique \in Schemas

(* A job begins, with attempt = 0: the Dispatch button, or a due reminder. *)
Start(r, k) ==
  /\ job[r] = Idle
  /\ started < MaxJobs
  /\ started' = started + 1
  /\ job' = [job EXCEPT ![r] = [step |-> "read", no |-> started', key |-> k, attempt |-> 0]]
  /\ UNCHANGED <<log, refused, audited, delivered, crashes, unique>>

(* list_communication_log: the rows dispatch will be given. *)
ReadLog(r) ==
  /\ job[r].step = "read"
  /\ job' = [job EXCEPT ![r] =
       [step |-> "dispatch", no |-> job[r].no, key |-> job[r].key, attempt |-> job[r].attempt,
        succeeded |-> HasSucceeded(job[r].key)]]
  /\ UNCHANGED <<log, refused, audited, delivered, started, crashes, unique>>

(* dispatch returned an entry with status st to runner r. *)
Return(r, st) ==
  job' = [job EXCEPT ![r] =
    [step |-> "store", no |-> job[r].no, key |-> job[r].key, attempt |-> job[r].attempt,
     entry |-> [key |-> job[r].key, status |-> st, attempt |-> job[r].attempt,
                by |-> r, no |-> job[r].no]]]

(* dispatch, the history it was given shows a Sent row. *)
Suppress(r) ==
  /\ job[r].step = "dispatch"
  /\ job[r].succeeded
  /\ Return(r, "Suppressed")
  /\ UNCHANGED <<log, refused, audited, delivered, started, crashes, unique>>

(* dispatch with dry_run = True: send_fn is not called. *)
DryRun(r) ==
  /\ job[r].step = "dispatch"
  /\ ~job[r].succeeded
  /\ r \notin Live
  /\ Return(r, "DryRun")
  /\ UNCHANGED <<log, refused, audited, delivered, started, crashes, unique>>

(* Mutant: the check for an earlier success is dropped. *)
SendOK_Unchecked(r) ==
  /\ job[r].step = "dispatch"
  /\ r \in Live
  /\ delivered' = [delivered EXCEPT ![job[r].key] = @ + 1]
  /\ Return(r, "Sent")
  /\ UNCHANGED <<log, refused, audited, started, crashes, unique>>

(* dispatch calls send_fn, which delivers and says so. *)
SendOK(r) ==
  /\ job[r].step = "dispatch"
  /\ ~job[r].succeeded
  /\ r \in Live
  /\ delivered' = [delivered EXCEPT ![job[r].key] = @ + 1]
  /\ Return(r, "Sent")
  /\ UNCHANGED <<log, refused, audited, started, crashes, unique>>

(* dispatch calls send_fn, which reports an error; with LossySend the        *)
(* message may have left all the same (a time-out while waiting for the      *)
(* provider's answer).                                                       *)
SendError(r) ==
  /\ job[r].step = "dispatch"
  /\ ~job[r].succeeded
  /\ r \in Live
  /\ \/ UNCHANGED delivered
     \/ LossySend /\ delivered' = [delivered EXCEPT ![job[r].key] = @ + 1]
  /\ Return(r, FailureStatus(job[r].attempt))
  /\ UNCHANGED <<log, refused, audited, started, crashes, unique>>

(* add_communication_log. *)
Store(r) ==
  /\ job[r].step = "store"
  /\ ~KeyTaken(job[r].entry)
  /\ log' = Append(log, job[r].entry)
  /\ job' = [job EXCEPT ![r] =
       [step |-> "audit", no |-> job[r].no, key |-> job[r].key, attempt |-> job[r].attempt,
        row |-> Len(log) + 1]]
  /\ UNCHANGED <<refused, audited, delivered, started, crashes, unique>>

(* add_communication_log under the ORM schema: IntegrityError ends the job.  *)
StoreRefused(r) ==
  /\ job[r].step = "store"
  /\ KeyTaken(job[r].entry)
  /\ refused' = refused \cup {job[r].entry}
  /\ job' = [job EXCEPT ![r] = Idle]
  /\ UNCHANGED <<log, audited, delivered, started, crashes, unique>>

(* Mutant: a Retrying job is never taken up again. *)
Audit_NoRetry(r) ==
  /\ job[r].step = "audit"
  /\ audited' = audited \cup {job[r].row}
  /\ job' = [job EXCEPT ![r] = Idle]
  /\ UNCHANGED <<log, refused, delivered, started, crashes, unique>>

(* add_audit names the stored row; then a Retrying job goes round again with *)
(* attempt + 1 once its backoff is over, and any other job is finished.      *)
Audit(r) ==
  /\ job[r].step = "audit"
  /\ audited' = audited \cup {job[r].row}
  /\ job' = [job EXCEPT ![r] =
       IF log[job[r].row].status = "Retrying"
       THEN [step |-> "read", no |-> job[r].no, key |-> job[r].key, attempt |-> job[r].attempt + 1]
       ELSE Idle]
  /\ UNCHANGED <<log, refused, delivered, started, crashes, unique>>

(* The process stops, or a repository call or send_fn raises: what the       *)
(* runner holds is gone, and nothing resumes the job.                        *)
Crash(r) ==
  /\ job[r] # Idle
  /\ crashes < MaxCrashes
  /\ crashes' = crashes + 1
  /\ job' = [job EXCEPT ![r] = Idle]
  /\ UNCHANGED <<log, refused, audited, delivered, started, unique>>

Dispatch(r) == Suppress(r) \/ DryRun(r) \/ SendOK(r) \/ SendError(r)

Continue(r) == ReadLog(r) \/ Dispatch(r) \/ Store(r) \/ StoreRefused(r) \/ Audit(r)

Next ==
  \E r \in Runners :
    \/ \E k \in Keys : Start(r, k)
    \/ Continue(r)
    \/ Crash(r)

Spec == Init /\ [][Next]_vars

(* A run that has started goes on, and so does the backoff loop; neither a   *)
(* new job nor a crash is owed.                                              *)
FairSpec == Spec /\ \A r \in Runners : WF_vars(Continue(r))

------------------------------------------------------------------------------
(* Types of the tables and of what the runners hold; the row a runner audits *)
(* is one of the log, and the retry loop never runs past MaxRetries.         *)
TypeOK ==
  /\ log \in Seq(LogEntry)
  /\ refused \subseteq LogEntry
  /\ audited \subseteq DOMAIN log
  /\ job \in [Runners -> {Idle} \cup Reading \cup Deciding \cup Storing \cup Auditing]
  /\ delivered \in [Keys -> Nat]
  /\ started \in 0 .. MaxJobs /\ crashes \in 0 .. MaxCrashes /\ unique \in BOOLEAN

SentRows(k) == {i \in DOMAIN log : log[i].key = k /\ log[i].status = "Sent"}

NoSentBy(r, k) == \A i \in SentRows(k) : log[i].by # r

(* What runner r stores when attempt a of its job j has failed. *)
RetryRow(r, j, a) ==
  [key |-> j.key, status |-> "Retrying", attempt |-> a, by |-> r, no |-> j.no]

(* Runner r has stored a Retrying row for each of the first n attempts of j.  *)
Tried(r, j, n) ==
  \A a \in 0 .. n - 1 : \E i \in DOMAIN log : log[i] = RetryRow(r, j, a)

(* What a runner acts on may be stale, but never in a way that lets it send  *)
(* again what it recorded as sent itself, suppress without a Sent row, or    *)
(* give up or go on retrying with the wrong number of attempts behind it.    *)
JobOK(r) ==
  LET j == job[r] IN
  /\ Tried(r, j, j.attempt)
  /\ j.step = "dispatch" => IF j.succeeded THEN HasSucceeded(j.key) ELSE NoSentBy(r, j.key)
  /\ j.step = "store" =>
       /\ j.entry.key = j.key /\ j.entry.attempt = j.attempt
       /\ j.entry.by = r /\ j.entry.no = j.no
       /\ j.entry.status = "Suppressed" => HasSucceeded(j.key)
       /\ j.entry.status = "Sent" => r \in Live /\ NoSentBy(r, j.key)
       /\ j.entry.status = "Retrying" => j.attempt < MaxRetries
       /\ j.entry.status = "Failed" => j.attempt = MaxRetries
  /\ j.step = "audit" =>
       /\ j.row \in DOMAIN log
       /\ log[j.row].status = "Retrying" =>
            j.attempt < MaxRetries /\ log[j.row] = RetryRow(r, j, j.attempt)

JobsOK == \A r \in Runners : job[r] # Idle => JobOK(r)

(* A message is suppressed only because it was sent before: each Suppressed  *)
(* row comes after a Sent row of its key, although the decision was taken on *)
(* a reading of the log that others have added to since.                     *)
SuppressionJustified ==
  \A i \in DOMAIN log : log[i].status = "Suppressed" =>
    \E j \in SentRows(log[i].key) : j < i

(* A job gives up only after all its retries: a Failed row comes after a     *)
(* Retrying row of the same job for each attempt before the last.            *)
FailedAfterRetries ==
  \A i \in DOMAIN log : log[i].status = "Failed" =>
    \A a \in 0 .. MaxRetries - 1 :
      \E j \in 1 .. i - 1 : log[j] = RetryRow(log[i].by, log[i], a)

(* One runner never stores two Sent rows for a key, however its jobs crash   *)
(* and start again: it sees its own first one.                               *)
OneSentPerRunner ==
  \A k \in Keys : \A i, j \in SentRows(k) : log[i].by = log[j].by => i = j

(* So overlapping runs can at worst store one Sent row each.                 *)
SentBound == \A k \in Keys : Cardinality(SentRows(k)) <= Cardinality(Live)

(* How dispatch reports on a message that has left. *)
Outcomes == {"Sent"} \cup (IF LossySend THEN {"Retrying", "Failed"} ELSE {})

(* Reports on key k with a status of S, stored or about to be. *)
Reports(k, S) ==
  Cardinality({i \in DOMAIN log : log[i].key = k /\ log[i].status \in S})
  + Cardinality({r \in Runners : /\ job[r].step = "store" /\ job[r].key = k
                                 /\ job[r].entry.status \in S})

(* The log never says Sent more often than messages have left, and every     *)
(* message that left is one it reports on or one that a crash explains, on   *)
(* the schema that stores every report.                                      *)
SentIsDelivered ==
  \A k \in Keys :
    /\ Reports(k, {"Sent"}) <= delivered[k]
    /\ ~unique => delivered[k] <= Reports(k, Outcomes) + crashes

(* What the unique constraint of the ORM schema makes of the retry loop: a    *)
(* second Retrying row of a key is refused, and ends the job, so no job gets  *)
(* past its first retry, and with two retries or more none is ever recorded   *)
(* as failed, whatever runners and jobs there are.                            *)
RetriesCutShort ==
  unique => \A i \in DOMAIN log :
    /\ log[i].attempt <= 1
    /\ log[i].status = "Failed" => MaxRetries <= 1

(* services/communication_service.py:40-42: never two sends for a key.       *)
OneDelivery == \A k \in Keys : delivered[k] <= 1

(* A row, or an entry refused, that ends its job. *)
Final(x) == x.status # "Retrying"

Ends(no) == \E i \in DOMAIN log : log[i].no = no /\ Final(log[i])

(* The schema refused an entry of the job, in favour of a row that says the   *)
(* same of the key.                                                           *)
Repeats(no) ==
  \E x \in refused, i \in DOMAIN log :
    x.no = no /\ log[i].no # no /\ log[i].key = x.key /\ log[i].status = x.status

(* The one job that ends without an outcome, its own or another's: under the  *)
(* unique constraint a failed retry is refused because of the failure before. *)
GivesUp(no) ==
  \E x \in refused, i \in DOMAIN log :
    x.no = no /\ ~Final(x) /\ log[i].no = no /\ log[i].key = x.key /\ log[i].status = x.status

(* Every job that is started leaves a row of its own that ends it: sent, dry  *)
(* run, suppressed or, when the retries are used up, failed.  Only the unique *)
(* constraint lets one end otherwise: because another job left such a row, or *)
(* by refusing its own second Retrying row, and then nothing records the end. *)
Resolved ==
  \A no \in 1 .. MaxJobs :
    started >= no ~> Ends(no) \/ (unique /\ (Repeats(no) \/ GivesUp(no)))

(* The abstract mailer, read off the deliveries and the log.                 *)
Recorded == {k \in Keys : HasSucceeded(k)}

Mailer == INSTANCE AtMostOnceMailer WITH sent <- delivered, recorded <- Recorded

(* One live runner that neither crashes nor loses an answer sends each       *)
(* message at most once and records it as sent only afterwards.              *)
MailerSpec == Mailer!Spec
=============================================================================
