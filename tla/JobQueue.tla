------------------------------ MODULE JobQueue ------------------------------
(***************************************************************************)
(* The durable job queue, backend/app/modules/jobs/runner.py, with the     *)
(* retry route of backend/app/api/jobs.py.  The tables jobs, job_attempts  *)
(* and event_log of one SQLite database are the state; every operation of  *)
(* JobRunner is one write transaction, hence one action.  Nothing here     *)
(* says who calls an operation or when: a caller may present any job,      *)
(* worker and attempt it likes, at any time, and the guards of the code    *)
(* decide.  JobWorker restricts the callers to the program's own worker.   *)
(*                                                                         *)
(* Time is kept as count-downs: lease[j] is lease_expires_at - now and     *)
(* backoff[j] is next_run_at - now, so Tick only decrements them.  Both    *)
(* saturate where no operation can tell the difference any more.           *)
(***************************************************************************)
EXTENDS JobRetry, Integers, FiniteSets, Sequences

CONSTANTS
  Jobs,               \* job ids (uuid7): numbers, in creation order
  Keys,               \* (project_id, kind, idempotency_key)
  Plans,              \* immutable execution plans
  Priorities,
  Workers,            \* worker ids
  Errors,             \* error records a caller of fail may pass
  LeaseTime,          \* LEASE_SECONDS
  RecoveryThreshold,  \* RECOVERY_THRESHOLD_SECONDS
  NoKey, NoPlan, NoWorker, NoError,
  MaxAttempts,        \* bound: a job with this many attempts is not retried by hand
  MaxSequence         \* bound: no user request publishes a marker beyond this one

ASSUME QueueAssumption ==
  /\ Jobs \subseteq Nat
  /\ Priorities \subseteq Nat
  /\ LeaseTime \in Nat
  /\ RecoveryThreshold \in Nat
  /\ Errors \subseteq [code : ErrorCodes, retryable : BOOLEAN, sent : BOOLEAN,
                       retryAfter : Int \union {NoRetryAfter}]
  /\ NoKey \notin Keys
  /\ NoPlan \in Plans
  /\ NoWorker \notin Workers
  /\ NoError \notin ErrorCodes

VARIABLES
  status,       \* jobs.status, "ABSENT" before the row is inserted
  key,          \* the unique key of the row
  plan,         \* jobs.plan_json
  priority,     \* jobs.priority
  owner,        \* jobs.lease_owner
  lease,        \* jobs.lease_expires_at - now; 0 while owner is NULL
  backoff,      \* jobs.next_run_at - now, 0 when due or NULL
  cancelAsked,  \* jobs.cancel_requested_at is not NULL
  errorCode,    \* jobs.error_code
  attempts,     \* job_attempts of each job, in attempt_no order
  eventLog      \* event_log rows of entity_type 'job'

vars == <<status, key, plan, priority, owner, lease, backoff, cancelAsked,
          errorCode, attempts, eventLog>>

rowVars == <<key, plan, priority>>

Live == {"RUNNING", "CANCEL_REQUESTED"}
Terminal == {"SUCCEEDED", "FAILED", "CANCELED", "BLOCKED_BUDGET", "BILLING_UNKNOWN"}
Status == {"ABSENT", "QUEUED"} \union Live \union Terminal
Outcomes == {"SUCCEEDED", "FAILED", "CANCELED", "BILLING_UNKNOWN", "RETRY", "EXPIRED_RETRY"}
Open == "OPEN"      \* finished_at IS NULL

Attempt == [outcome : Outcomes \union {Open}, sent : BOOLEAN]
Marker == [seq : Nat \ {0}, job : Jobs]

TypeOK ==
  /\ status \in [Jobs -> Status]
  /\ key \in [Jobs -> Keys \union {NoKey}]
  /\ plan \in [Jobs -> Plans]
  /\ priority \in [Jobs -> Priorities \union {0}]
  /\ owner \in [Jobs -> Workers \union {NoWorker}]
  /\ lease \in [Jobs -> Int]
  /\ backoff \in [Jobs -> Nat]
  /\ cancelAsked \in [Jobs -> BOOLEAN]
  /\ errorCode \in [Jobs -> ErrorCodes \union {NoError}]
  /\ attempts \in [Jobs -> Seq(Attempt)]
  /\ eventLog \in SUBSET Marker

-----------------------------------------------------------------------------
(* The feed: one marker row per job, numbered by SQLite with max(rowid)+1. *)

NextSequence(log) == Max({0} \union {r.seq : r \in log}) + 1

EmitJobEvent(log, j) ==
  IF \E r \in log : r.job = j
  THEN log
  ELSE log \union {[seq |-> NextSequence(log), job |-> j]}

\* Variants: the older row is deleted first; a marker is enough.
ReplaceJobEventDeletesFirst(log, j) ==
  LET others == {r \in log : r.job # j}
  IN  others \union {[seq |-> NextSequence(others), job |-> j]}

ReplaceJobEventOnce(log, j) == EmitJobEvent(log, j)

\* The new row is inserted before the older ones are deleted.
ReplaceJobEvent(log, j) ==
  LET added == log \union {[seq |-> NextSequence(log), job |-> j]}
  IN  {r \in added : r.job = j => \A s \in added : s.job = j => s.seq <= r.seq}

-----------------------------------------------------------------------------
(* Attempts and leases.                                                    *)

OpenAttempts(j) == {n \in DOMAIN attempts[j] : attempts[j][n].outcome = Open}

IsCurrentAttempt(j, n) ==
  n \in OpenAttempts(j) /\ \A m \in OpenAttempts(j) : m <= n

ClosedAs(j, outcome) ==
  [n \in DOMAIN attempts[j] |->
     IF IsCurrentAttempt(j, n) THEN [attempts[j][n] EXCEPT !.outcome = outcome]
                               ELSE attempts[j][n]]

CurrentSent(j) ==
  \E n \in DOMAIN attempts[j] : IsCurrentAttempt(j, n) /\ attempts[j][n].sent

HoldsLease(j, w, n, required) ==
  /\ status[j] = required
  /\ owner[j] = w
  /\ lease[j] >= 0
  /\ IsCurrentAttempt(j, n)

\* The lease columns are cleared together whenever a job stops being live.
DropLease(j) ==
  /\ owner' = [owner EXCEPT ![j] = NoWorker]
  /\ lease' = [lease EXCEPT ![j] = 0]

\* The transition that ends attempt n of job j: new status, error and delay.
EndAttempt(j, outcome, newStatus, error, delay) ==
  /\ attempts' = [attempts EXCEPT ![j] = ClosedAs(j, outcome)]
  /\ status' = [status EXCEPT ![j] = newStatus]
  /\ errorCode' = [errorCode EXCEPT ![j] = error]
  /\ backoff' = [backoff EXCEPT ![j] = delay]
  /\ DropLease(j)
  /\ UNCHANGED <<rowVars, cancelAsked>>

-----------------------------------------------------------------------------
Init ==
  /\ status = [j \in Jobs |-> "ABSENT"]
  /\ key = [j \in Jobs |-> NoKey]
  /\ plan = [j \in Jobs |-> NoPlan]
  /\ priority = [j \in Jobs |-> 0]
  /\ owner = [j \in Jobs |-> NoWorker]
  /\ lease = [j \in Jobs |-> 0]
  /\ backoff = [j \in Jobs |-> 0]
  /\ cancelAsked = [j \in Jobs |-> FALSE]
  /\ errorCode = [j \in Jobs |-> NoError]
  /\ attempts = [j \in Jobs |-> << >>]
  /\ eventLog = {}

\* INSERT OR IGNORE: a key already present leaves its row, plan included, alone.
EnqueueKnown(k, p, pl) ==
  /\ \E j \in Jobs : key[j] = k
  /\ UNCHANGED vars

EnqueueNew(k, p, pl) ==
  /\ \A j \in Jobs : key[j] # k
  /\ \E j \in Jobs :
       /\ status[j] = "ABSENT"
       /\ \A i \in Jobs : status[i] = "ABSENT" => j <= i
       /\ status' = [status EXCEPT ![j] = "QUEUED"]
       /\ key' = [key EXCEPT ![j] = k]
       /\ priority' = [priority EXCEPT ![j] = p]
       /\ plan' = [plan EXCEPT ![j] = pl]
  /\ UNCHANGED <<owner, lease, backoff, cancelAsked, errorCode, attempts, eventLog>>

Enqueue(k, p, pl) == EnqueueKnown(k, p, pl) \/ EnqueueNew(k, p, pl)

Due(j) == status[j] = "QUEUED" /\ backoff[j] = 0

RunsBefore(i, j) ==
  priority[i] < priority[j] \/ (priority[i] = priority[j] /\ i <= j)

Claim(j, w) ==
  /\ Due(j)
  /\ \A i \in Jobs : Due(i) => RunsBefore(j, i)
  /\ status' = [status EXCEPT ![j] = "RUNNING"]
  /\ owner' = [owner EXCEPT ![j] = w]
  /\ lease' = [lease EXCEPT ![j] = LeaseTime]
  /\ backoff' = [backoff EXCEPT ![j] = 0]
  /\ errorCode' = [errorCode EXCEPT ![j] = NoError]
  /\ attempts' = [attempts EXCEPT ![j] = Append(@, [outcome |-> Open, sent |-> FALSE])]
  /\ UNCHANGED <<rowVars, cancelAsked, eventLog>>

Heartbeat(j, w, n) ==
  /\ \E s \in Live : HoldsLease(j, w, n, s)
  /\ lease' = [lease EXCEPT ![j] = LeaseTime]
  /\ UNCHANGED <<status, rowVars, owner, backoff, cancelAsked, errorCode, attempts, eventLog>>

\* Variant: a running job is canceled at once.
RequestCancelAtOnce(j) ==
  /\ NextSequence(eventLog) <= MaxSequence
  /\ status[j] \notin Terminal \union {"ABSENT"}
  /\ status' = [status EXCEPT ![j] = "CANCELED"]
  /\ cancelAsked' = [cancelAsked EXCEPT ![j] = TRUE]
  /\ eventLog' = ReplaceJobEvent(eventLog, j)
  /\ UNCHANGED <<rowVars, owner, lease, backoff, errorCode, attempts>>

\* Decided and written by one UPDATE; the bound is the only guard of the model's own.
RequestCancel(j) ==
  /\ NextSequence(eventLog) <= MaxSequence
  /\ status[j] \notin Terminal \union {"ABSENT"}
  /\ status' = [status EXCEPT ![j] = IF @ = "QUEUED" THEN "CANCELED" ELSE "CANCEL_REQUESTED"]
  /\ cancelAsked' = [cancelAsked EXCEPT ![j] = TRUE]
  /\ eventLog' = ReplaceJobEvent(eventLog, j)
  /\ UNCHANGED <<rowVars, owner, lease, backoff, errorCode, attempts>>

\* The route consults the classifier before, on a read of its own (JobWorker): all
\* the transition itself requires is that the job is still FAILED.
RetryFailed(j) ==
  /\ NextSequence(eventLog) <= MaxSequence
  /\ Len(attempts[j]) < MaxAttempts
  /\ status[j] = "FAILED"
  /\ status' = [status EXCEPT ![j] = "QUEUED"]
  /\ backoff' = [backoff EXCEPT ![j] = 0]
  /\ cancelAsked' = [cancelAsked EXCEPT ![j] = FALSE]
  /\ errorCode' = [errorCode EXCEPT ![j] = NoError]
  /\ DropLease(j)
  /\ eventLog' = ReplaceJobEvent(eventLog, j)
  /\ UNCHANGED <<rowVars, attempts>>

AcknowledgeCancel(j, w, n) ==
  /\ HoldsLease(j, w, n, "CANCEL_REQUESTED")
  /\ EndAttempt(j, "CANCELED", "CANCELED", NoError, 0)
  /\ UNCHANGED eventLog

\* Variant: a job that is being canceled completes.
CompleteCanceled(j, w, n) ==
  /\ \E s \in Live : HoldsLease(j, w, n, s)
  /\ EndAttempt(j, "SUCCEEDED", "SUCCEEDED", NoError, 0)
  /\ eventLog' = EmitJobEvent(eventLog, j)

Complete(j, w, n) ==
  /\ HoldsLease(j, w, n, "RUNNING")
  /\ EndAttempt(j, "SUCCEEDED", "SUCCEEDED", NoError, 0)
  /\ eventLog' = EmitJobEvent(eventLog, j)

(***************************************************************************)
(* fail: a request that may have been sent is never retried; otherwise a   *)
(* retryable error requeues the job and anything else ends it.             *)
(***************************************************************************)
FailSent(j, w, n, e) ==
  /\ HoldsLease(j, w, n, "RUNNING")
  /\ e.sent \/ attempts[j][n].sent
  /\ EndAttempt(j, "BILLING_UNKNOWN", "BILLING_UNKNOWN", "BILLING_UNKNOWN", 0)
  /\ eventLog' = EmitJobEvent(eventLog, j)

FailRetry(j, w, n, e) ==
  /\ HoldsLease(j, w, n, "RUNNING")
  /\ ~e.sent /\ ~attempts[j][n].sent
  /\ e.retryable /\ MayRetry(e.code, n, e.retryAfter)
  /\ EndAttempt(j, "RETRY", "QUEUED", e.code, RetryDelay(e.code, n, e.retryAfter))
  /\ UNCHANGED eventLog

FailForGood(j, w, n, e) ==
  /\ HoldsLease(j, w, n, "RUNNING")
  /\ ~e.sent /\ ~attempts[j][n].sent
  /\ ~(e.retryable /\ MayRetry(e.code, n, e.retryAfter))
  /\ EndAttempt(j, "FAILED", "FAILED", e.code, 0)
  /\ eventLog' = EmitJobEvent(eventLog, j)

Fail(j, w, n, e) ==
  FailSent(j, w, n, e) \/ FailRetry(j, w, n, e) \/ FailForGood(j, w, n, e)

\* No status guard at all: a deferral lands on whatever row it finds.
Defer(j, d) ==
  /\ status[j] # "ABSENT"
  /\ backoff' = [backoff EXCEPT ![j] = d]
  /\ UNCHANGED <<status, rowVars, owner, lease, cancelAsked, errorCode, attempts, eventLog>>

\* Accepted while the attempt is open, even when its lease has run out.
MarkProviderSent(j, w, n) ==
  /\ n \in OpenAttempts(j)
  /\ status[j] \in Live
  /\ owner[j] = w
  /\ attempts' = [attempts EXCEPT ![j][n].sent = TRUE]
  /\ UNCHANGED <<status, rowVars, owner, lease, backoff, cancelAsked, errorCode, eventLog>>

\* Variant: only jobs nobody asked to cancel are recovered.
ExpiredRunning == {j \in Jobs : status[j] = "RUNNING" /\ owner[j] # NoWorker
                                  /\ lease[j] <= -RecoveryThreshold}

(***************************************************************************)
(* recover_expired: every job whose lease ran out RecoveryThreshold ago,   *)
(* in one transaction.  No marker is published.                            *)
(***************************************************************************)
Expired == {j \in Jobs : status[j] \in Live /\ owner[j] # NoWorker
                           /\ lease[j] <= -RecoveryThreshold}

\* Variants: the sent flag is not looked at; the last attempt is closed as a retry.
RequeuedAfter(j, n) ==
  [status |-> "QUEUED", outcome |-> "EXPIRED_RETRY", error |-> "DB_BUSY",
   delay |-> RetryDelay("DB_BUSY", n, NoRetryAfter)]

RecoveryVerdictBlind(j) ==
  CASE status[j] = "CANCEL_REQUESTED" ->
         [status |-> "CANCELED", outcome |-> "CANCELED", error |-> NoError, delay |-> 0]
    [] status[j] = "RUNNING" /\ MayRetry("DB_BUSY", Len(attempts[j]), NoRetryAfter) ->
         RequeuedAfter(j, Len(attempts[j]))
    [] OTHER ->
         [status |-> "FAILED", outcome |-> "FAILED", error |-> "DB_BUSY", delay |-> 0]

RecoveryVerdictMislabels(j) ==
  CASE CurrentSent(j) ->
         [status |-> "BILLING_UNKNOWN", outcome |-> "BILLING_UNKNOWN",
          error |-> "BILLING_UNKNOWN", delay |-> 0]
    [] ~CurrentSent(j) /\ status[j] = "CANCEL_REQUESTED" ->
         [status |-> "CANCELED", outcome |-> "CANCELED", error |-> NoError, delay |-> 0]
    [] ~CurrentSent(j) /\ status[j] = "RUNNING"
         /\ MayRetry("DB_BUSY", Len(attempts[j]), NoRetryAfter) ->
         RequeuedAfter(j, Len(attempts[j]))
    [] OTHER ->
         [status |-> "FAILED", outcome |-> "EXPIRED_RETRY", error |-> "DB_BUSY", delay |-> 0]

RecoveryVerdict(j) ==
  CASE CurrentSent(j) ->
         [status |-> "BILLING_UNKNOWN", outcome |-> "BILLING_UNKNOWN",
          error |-> "BILLING_UNKNOWN", delay |-> 0]
    [] ~CurrentSent(j) /\ status[j] = "CANCEL_REQUESTED" ->
         [status |-> "CANCELED", outcome |-> "CANCELED", error |-> NoError, delay |-> 0]
    [] ~CurrentSent(j) /\ status[j] = "RUNNING"
         /\ MayRetry("DB_BUSY", Len(attempts[j]), NoRetryAfter) ->
         [status |-> "QUEUED", outcome |-> "EXPIRED_RETRY", error |-> "DB_BUSY",
          delay |-> RetryDelay("DB_BUSY", Len(attempts[j]), NoRetryAfter)]
    [] OTHER ->
         [status |-> "FAILED", outcome |-> "FAILED", error |-> "DB_BUSY", delay |-> 0]

RecoverExpired ==
  /\ Expired # {}
  /\ status' = [j \in Jobs |-> IF j \in Expired THEN RecoveryVerdict(j).status ELSE status[j]]
  /\ attempts' = [j \in Jobs |-> IF j \in Expired THEN ClosedAs(j, RecoveryVerdict(j).outcome)
                                                  ELSE attempts[j]]
  /\ errorCode' = [j \in Jobs |-> IF j \in Expired THEN RecoveryVerdict(j).error ELSE errorCode[j]]
  /\ backoff' = [j \in Jobs |-> IF j \in Expired THEN RecoveryVerdict(j).delay ELSE backoff[j]]
  /\ owner' = [j \in Jobs |-> IF j \in Expired THEN NoWorker ELSE owner[j]]
  /\ lease' = [j \in Jobs |-> IF j \in Expired THEN 0 ELSE lease[j]]
  /\ UNCHANGED <<rowVars, cancelAsked, eventLog>>

\* Variant: a back-off that is over keeps counting.
TickWithoutFloor ==
  /\ lease' = [j \in Jobs |-> IF owner[j] # NoWorker /\ lease[j] > -RecoveryThreshold
                              THEN lease[j] - 1 ELSE lease[j]]
  /\ backoff' = [j \in Jobs |-> backoff[j] - 1]
  /\ UNCHANGED <<status, rowVars, owner, cancelAsked, errorCode, attempts, eventLog>>

\* A lease past the recovery threshold and a back-off that is over stay where they are.
Tick ==
  /\ lease' = [j \in Jobs |-> IF owner[j] # NoWorker /\ lease[j] > -RecoveryThreshold
                              THEN lease[j] - 1 ELSE lease[j]]
  /\ backoff' = [j \in Jobs |-> IF backoff[j] > 0 THEN backoff[j] - 1 ELSE 0]
  /\ UNCHANGED <<status, rowVars, owner, cancelAsked, errorCode, attempts, eventLog>>

-----------------------------------------------------------------------------
WorkerCall(j, w) ==
  \/ Claim(j, w)
  \/ \E n \in DOMAIN attempts[j] :
       \/ Heartbeat(j, w, n)
       \/ MarkProviderSent(j, w, n)
       \/ AcknowledgeCancel(j, w, n)
       \/ Complete(j, w, n)
       \/ \E e \in Errors : Fail(j, w, n, e)

UserCall(j) ==
  \/ RequestCancel(j)
  \/ RetryFailed(j)
  \/ \E n \in DOMAIN RetryDelays : Defer(j, RetryDelays[n])

Next ==
  \/ \E k \in Keys, p \in Priorities, pl \in Plans : Enqueue(k, p, pl)
  \/ \E j \in Jobs, w \in Workers : WorkerCall(j, w)
  \/ \E j \in Jobs : UserCall(j)
  \/ RecoverExpired
  \/ Tick

Spec == Init /\ [][Next]_vars

-----------------------------------------------------------------------------
(* Properties.                                                             *)

\* A request to a provider may have gone out under this attempt.
MaySent(a) == a.sent \/ a.outcome = "BILLING_UNKNOWN"

LastOutcome(j) == attempts[j][Len(attempts[j])].outcome

\* Owner, status and attempt history agree: a job is live exactly while a worker
\* owns it and exactly while its last attempt, and no earlier one, is open.  A
\* job that broke this would hold a lease nobody can renew, end or recover.
LeaseMatches(j) ==
  /\ status[j] \in Live <=> owner[j] # NoWorker
  /\ status[j] \in Live => Len(attempts[j]) > 0
  /\ \A n \in DOMAIN attempts[j] :
       attempts[j][n].outcome = Open <=> status[j] \in Live /\ n = Len(attempts[j])

NoZombie == \A j \in Jobs : LeaseMatches(j)

\* No attempt follows one whose provider request may have been sent, and a job
\* with such an attempt is never waiting to run again: neither an automatic
\* retry, nor recovery of an expired lease, nor a retry by hand pays twice.
SentIsLast(j) ==
  \A n \in DOMAIN attempts[j] : MaySent(attempts[j][n]) =>
    n = Len(attempts[j]) /\ status[j] \notin {"QUEUED", "FAILED"}

SentNeverResent == \A j \in Jobs : SentIsLast(j)

\* The row's status is the one its attempt history justifies, so a reader of
\* jobs and a reader of job_attempts can never disagree.
HistoryFits(j) ==
  /\ status[j] \in {"SUCCEEDED", "FAILED", "BILLING_UNKNOWN"} =>
       Len(attempts[j]) > 0 /\ LastOutcome(j) = status[j]
  /\ status[j] = "ABSENT" => Len(attempts[j]) = 0
  /\ status[j] \in {"QUEUED", "CANCELED"} /\ Len(attempts[j]) > 0 =>
       LastOutcome(j) \in {"RETRY", "EXPIRED_RETRY", "FAILED"}
         \union (IF status[j] = "CANCELED" THEN {"CANCELED"} ELSE {})

StatusMatchesHistory == \A j \in Jobs : HistoryFits(j)

\* The queue itself requeues a job after its first MaxRetryableAttempt attempts
\* only; every attempt beyond the next one was asked for by the user.
RetryBounded(j) ==
  \A n \in DOMAIN attempts[j] :
    /\ attempts[j][n].outcome \in {"RETRY", "EXPIRED_RETRY"} => n <= MaxRetryableAttempt
    /\ n < Len(attempts[j]) => attempts[j][n].outcome \in {"RETRY", "EXPIRED_RETRY", "FAILED"}

RetriesBounded == \A j \in Jobs : RetryBounded(j)

\* A cancel the API accepted is never lost to a completion, a failure, a retry or
\* a requeue that was already under way.
CancelKept(j) ==
  cancelAsked[j] => status[j] \in {"CANCEL_REQUESTED", "CANCELED", "BILLING_UNKNOWN"}

CancelSticks == \A j \in Jobs : CancelKept(j)

\* However often a job is published, the feed holds one marker for it.
OneMarkerPerJob ==
  \A r, s \in eventLog : r.job = s.job => r = s

\* Ended jobs stay as they are; only a FAILED one is ever put back, and a late
\* callback of a worker that lost its job changes nothing.
EndedStaysEnded ==
  [][\A j \in Jobs : status[j] \in Terminal =>
       \/ status'[j] = status[j] /\ attempts'[j] = attempts[j]
       \/ status[j] = "FAILED" /\ status'[j] = "QUEUED" /\ attempts'[j] = attempts[j]]_vars

\* The attempt history is append-only: a closed attempt is never rewritten and
\* a new one starts only once every earlier one is closed.
HistoryAppendOnly ==
  [][\A j \in Jobs :
       /\ Len(attempts'[j]) \in {Len(attempts[j]), Len(attempts[j]) + 1}
       /\ \A n \in DOMAIN attempts[j] :
            \/ attempts'[j][n] = attempts[j][n]
            \/ attempts[j][n].outcome = Open /\ Len(attempts'[j]) = Len(attempts[j])]_vars

\* Every marker published is newer than every marker any reader can have seen.
FeedAdvances ==
  [][\A r \in eventLog' \ eventLog : \A s \in eventLog : s.seq < r.seq]_vars

\* A cancel or a retry by hand reaches readers who have seen the whole feed: its
\* marker is newer than anything they can hold a cursor on.
UserActionsPublished ==
  [][\A j \in Jobs :
       cancelAsked'[j] # cancelAsked[j] \/ (status[j] = "FAILED" /\ status'[j] = "QUEUED")
         => \E r \in eventLog' : r.job = j /\ \A s \in eventLog : s.seq < r.seq]_vars

\* The queue keeps the promises of JobLifecycle.
Lifecycle == INSTANCE JobLifecycle WITH
  phase <- status,
  dispatched <- [j \in Jobs |-> \E n \in DOMAIN attempts[j] : MaySent(attempts[j][n])]

LifecycleSpec == Lifecycle!Spec
=============================================================================
