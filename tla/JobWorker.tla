------------------------------ MODULE JobWorker ------------------------------
(***************************************************************************)
(* The worker process, backend/app/worker.py, driving the queue of         *)
(* JobQueue while the API process serves the user.  A startup lock admits  *)
(* one worker process at a time, and run_once works on one job at a time.  *)
(* Its handler runs in a thread, so that heartbeats are sent meanwhile;    *)
(* everything else run_once does is synchronous and no heartbeat comes in  *)
(* between.  The process may be killed at any step and started again.      *)
(*                                                                         *)
(* The kinds of handler differ in what they hold and record around a       *)
(* provider request, segment by segment:                                   *)
(*   TRANSLATE     enqueue_translation: one database transaction for the   *)
(*                 whole chapter, held across every request                *)
(*   SYNTHESIZE    synthesize_segments: a cancel check before and a commit *)
(*                 after each segment                                      *)
(*   CHECKPOINTED  RecoveryJobContext.checkpoint_segment_artifact: like    *)
(*                 SYNTHESIZE, and the attempt is marked before a request  *)
(*                 leaves; so far only the integration tests use it        *)
(*   REVIEW        _run_fake_review: no request; the issues the rules find *)
(*                 in every segment, in one transaction                    *)
(*   SUMMARIZE     _run_fake_summarize: no request; one candidate recap of *)
(*                 the whole chapter, counted here with its first segment  *)
(***************************************************************************)
EXTENDS JobQueue

CONSTANTS
  Me,           \* worker_id of the one worker
  HandlerOf,    \* [Keys -> kind of handler]
  NSegments,    \* segments per chapter
  Forced,       \* forceSegmentIds of the plan, for SYNTHESIZE
  MaxCrashes    \* bound on how often the process is killed

\* Handlers that ask a provider, and those that work on the database alone: a
\* profile of a cloud provider is refused by these before any work.
Remote == {"TRANSLATE", "SYNTHESIZE", "CHECKPOINTED"}
Local == {"REVIEW", "SUMMARIZE"}

\* _redacted_error and HandlerUnavailable: never retryable, never "sent".
HandlerError == [code |-> "WORKER_HANDLER_EXCEPTION", retryable |-> FALSE,
                 sent |-> FALSE, retryAfter |-> NoRetryAfter]

ASSUME WorkerAssumption ==
  /\ Me \in Workers
  /\ HandlerError \in Errors
  /\ HandlerOf \in [Keys -> Remote \cup Local]
  /\ NSegments \in Nat \ {0}
  /\ Forced \subseteq 1..NSegments
  /\ MaxCrashes \in Nat

VARIABLES
  pc,       \* where run_once is
  task,     \* the lease claim returned: [job, no]
  beat,     \* heartbeat_task: "on", "ended" or "failed"
  writing,  \* the handler's transaction holds SQLite's one write lock
  seg,      \* segment the handler is at
  stage,    \* how far it is with that segment
  fresh,    \* segments finished in the open transaction
  done,     \* [Jobs -> segments finished and committed]: cache and artifacts
  calls,    \* every provider request ever sent, in order
  rows,     \* [Jobs -> [segments -> rows a local handler recorded for it]]
  granted,  \* jobs whose retry by hand the classifier granted, not carried out yet
  fate,     \* what the process ended with; "none" while it runs
  crashes

handlerVars == <<writing, seg, stage, fresh>>
workerVars == <<pc, task, beat, handlerVars, done, calls, rows, granted, fate, crashes>>
allVars == <<vars, workerVars>>

Kind(j) == IF key[j] = NoKey THEN "none" ELSE HandlerOf[key[j]]

\* Everything run_once does while it has a job.
Busy == pc \in {"check", "work", "ack", "fail", "finish", "complete"}

NoTask == [job |-> 0, no |-> 0]

WorkerInit ==
  /\ Init
  /\ pc = "recover" /\ task = NoTask /\ beat = "ended"
  /\ writing = FALSE /\ seg = 1 /\ stage = "enter" /\ fresh = {}
  /\ done = [j \in Jobs |-> {}]
  /\ calls = << >> /\ rows = [j \in Jobs |-> [s \in 1..NSegments |-> 0]] /\ granted = {} /\ fate = "none" /\ crashes = 0

-----------------------------------------------------------------------------
(* run_once.                                                               *)

RecoverStep ==
  /\ pc = "recover"
  /\ RecoverExpired \/ (Expired = {} /\ UNCHANGED vars)
  /\ pc' = "claim"
  /\ UNCHANGED <<task, beat, handlerVars, done, calls, rows, granted, fate, crashes>>

ClaimStep ==
  /\ pc = "claim"
  /\ \E j \in Jobs :
       /\ Claim(j, Me)
       /\ task' = [job |-> j, no |-> Len(attempts[j]) + 1]
  /\ pc' = "check" /\ beat' = "on"
  /\ UNCHANGED <<handlerVars, done, calls, rows, granted, fate, crashes>>

IdleStep ==
  /\ pc = "claim"
  /\ \A j \in Jobs : ~Due(j)
  /\ pc' = "recover"
  /\ UNCHANGED <<vars, task, beat, handlerVars, done, calls, rows, granted, fate, crashes>>

\* The cancel check before the handler starts.
CheckStep ==
  /\ pc = "check"
  /\ pc' = IF status[task.job] = "CANCEL_REQUESTED" THEN "ack" ELSE "work"
  /\ UNCHANGED <<vars, task, beat, handlerVars, done, calls, rows, granted, fate, crashes>>

\* The cancel check after the handler returned.
FinishStep ==
  /\ pc = "finish"
  /\ pc' = IF status[task.job] = "CANCEL_REQUESTED" THEN "ack" ELSE "complete"
  /\ UNCHANGED <<vars, task, beat, handlerVars, done, calls, rows, granted, fate, crashes>>

\* The handler's session is closed, and what it did not commit is gone.
HandlerOver == writing' = FALSE /\ seg' = 1 /\ stage' = "enter" /\ fresh' = {}

\* An error the heartbeat task ended with is raised again by the finally block.
AfterJob ==
  /\ pc' = IF beat = "failed" THEN "down" ELSE "recover"
  /\ fate' = IF beat = "failed" THEN "OperationalError" ELSE fate
  /\ task' = NoTask /\ beat' = "ended"
  /\ UNCHANGED handlerVars
  /\ UNCHANGED <<done, calls, rows, granted, crashes>>

\* The three transitions that end a job, and the status each one requires.
Ending == [ack |-> "CANCEL_REQUESTED", fail |-> "RUNNING", complete |-> "RUNNING"]

EndStep ==
  /\ \/ pc = "ack" /\ AcknowledgeCancel(task.job, Me, task.no)
     \/ pc = "complete" /\ Complete(task.job, Me, task.no)
     \/ pc = "fail" /\ Fail(task.job, Me, task.no, HandlerError)
  /\ AfterJob

(***************************************************************************)
(* A transition the queue refuses raises out of run_once and of the loop   *)
(* around it: the process ends, and the job stays as it is.                *)
(***************************************************************************)
Dies(why) ==
  /\ pc' = "down" /\ fate' = why
  /\ task' = NoTask /\ beat' = "ended"
  /\ HandlerOver
  /\ UNCHANGED <<vars, done, calls, rows, granted>>

RefusedStep ==
  /\ pc \in DOMAIN Ending
  /\ ~HoldsLease(task.job, Me, task.no, Ending[pc])
  /\ Dies(IF status[task.job] = Ending[pc] THEN "LeaseLost" ELSE "InvalidJobTransition")
  /\ UNCHANGED crashes

-----------------------------------------------------------------------------
(* The handler thread.                                                     *)

AtWork(st) == pc = "work" /\ stage = st

\* A translation works in the one session it opened, to its end.
OneTransaction(j) == Kind(j) = "TRANSLATE"

\* Plan and chapter are validated; a translation inserts its run and flushes it.
EnterStep ==
  /\ AtWork("enter")
  /\ stage' = "next" /\ writing' = OneTransaction(task.job)
  /\ UNCHANGED <<vars, pc, task, beat, seg, fresh, done, calls, rows, granted, fate, crashes>>

\* A READY artifact or a committed translation of the same cache key.
Reusable(j, s) == s \in done[j] /\ ~(Kind(j) = "SYNTHESIZE" /\ s \in Forced)

\* Variant: no handler looks for a cancel.
ChecksCancelNever(j) == FALSE

ChecksCancel(j) == Kind(j) # "TRANSLATE"

\* raise_if_cancel_requested: before a segment and, with a checkpoint of its own,
\* before what the provider returned is published.
CanceledStep ==
  /\ \/ AtWork("next") /\ seg <= NSegments /\ ChecksCancel(task.job)
     \/ AtWork("store") /\ Kind(task.job) = "CHECKPOINTED"
  /\ status[task.job] = "CANCEL_REQUESTED"
  /\ pc' = "ack" /\ HandlerOver
  /\ UNCHANGED <<vars, task, beat, done, calls, rows, granted, fate, crashes>>

MayGoOn == ChecksCancel(task.job) => status[task.job] # "CANCEL_REQUESTED"

ReuseStep ==
  /\ AtWork("next") /\ seg <= NSegments /\ MayGoOn
  /\ Reusable(task.job, seg)
  /\ seg' = seg + 1
  /\ UNCHANGED <<vars, pc, task, beat, writing, stage, fresh, done, calls, rows, granted, fate, crashes>>

\* The rendition a forced segment already has is superseded first, and flushed.
PrepareStep ==
  /\ AtWork("next") /\ seg <= NSegments /\ MayGoOn
  /\ Kind(task.job) \in Remote
  /\ ~Reusable(task.job, seg)
  /\ stage' = "call"
  /\ writing' = (OneTransaction(task.job)
                   \/ (Kind(task.job) = "SYNTHESIZE" /\ seg \in done[task.job]))
  /\ UNCHANGED <<vars, pc, task, beat, seg, fresh, done, calls, rows, granted, fate, crashes>>

MarkStep ==
  /\ AtWork("call") /\ Kind(task.job) = "CHECKPOINTED"
  /\ MarkProviderSent(task.job, Me, task.no)
  /\ stage' = "marked"
  /\ UNCHANGED <<pc, task, beat, writing, seg, fresh, done, calls, rows, granted, fate, crashes>>

SendStep ==
  /\ \/ AtWork("call") /\ Kind(task.job) # "CHECKPOINTED"
     \/ AtWork("marked")
  /\ calls' = Append(calls, [job |-> task.job, seg |-> seg, answered |-> FALSE,
                             late |-> status[task.job] = "CANCEL_REQUESTED"])
  /\ stage' = "wait"
  /\ UNCHANGED <<vars, pc, task, beat, writing, seg, fresh, done, rows, granted, fate, crashes>>

Answered == [calls EXCEPT ![Len(calls)].answered = TRUE]

\* A translated segment joins the open transaction; audio is stored on its own.
AnswerStep ==
  /\ AtWork("wait")
  /\ calls' = Answered
  /\ IF OneTransaction(task.job)
     THEN stage' = "next" /\ seg' = seg + 1 /\ fresh' = fresh \union {seg} /\ UNCHANGED writing
     ELSE /\ stage' = "store" /\ writing' = (Kind(task.job) = "SYNTHESIZE")
          /\ UNCHANGED <<seg, fresh>>
  /\ UNCHANGED <<vars, pc, task, beat, done, rows, granted, fate, crashes>>

\* What a provider returned is written to a file beside the store; a cancel drops it.
MayPublish == Kind(task.job) = "CHECKPOINTED" => MayGoOn

\* The artifact is READY, with its row.
Committed == [done EXCEPT ![task.job] = @ \union {seg}]

\* Variant: a finished segment is committed with the last one.
CommitStepAtEnd ==
  /\ AtWork("store")
  /\ MayPublish
  /\ fresh' = fresh \union {seg}
  /\ stage' = "next" /\ seg' = seg + 1 /\ writing' = FALSE
  /\ UNCHANGED <<vars, pc, task, beat, done, calls, rows, granted, fate, crashes>>

CommitStep ==
  /\ AtWork("store")
  /\ MayPublish
  /\ done' = Committed
  /\ stage' = "next" /\ seg' = seg + 1 /\ writing' = FALSE
  /\ UNCHANGED <<vars, pc, task, beat, fresh, calls, rows, granted, fate, crashes>>

\* Variant: what an earlier attempt recorded is not looked up.
RecordedAnew(j, these) == [s \in 1..NSegments |-> rows[j][s] + IF s \in these THEN 1 ELSE 0]

\* An issue that is recorded for its segment and rule, a recap that was proposed or
\* decided, is left alone.
Recorded(j, these) ==
  [s \in 1..NSegments |-> IF s \in these /\ rows[j][s] = 0 THEN 1 ELSE rows[j][s]]

\* The one transaction of a local handler, behind its one cancel check.
LocalStep(kind, these) ==
  /\ AtWork("next") /\ seg = 1 /\ MayGoOn
  /\ Kind(task.job) = kind
  /\ rows' = [rows EXCEPT ![task.job] = Recorded(task.job, these)]
  /\ seg' = NSegments + 1
  /\ UNCHANGED <<vars, pc, task, beat, writing, stage, fresh, done, calls, granted, fate, crashes>>

ReviewStep == LocalStep("REVIEW", 1..NSegments)
SummarizeStep == LocalStep("SUMMARIZE", {1})

ReturnStep ==
  /\ AtWork("next") /\ seg > NSegments
  /\ done' = [done EXCEPT ![task.job] = @ \union fresh]
  /\ pc' = "finish" /\ HandlerOver
  /\ UNCHANGED <<vars, task, beat, calls, rows, granted, fate, crashes>>

\* The plan is refused, the guard blocks the call, the provider answers with an
\* error, the disk is full: the transaction is rolled back and run_once records
\* the exception, as it does for an answer that never came.
RaiseStep ==
  /\ pc = "work"
  /\ calls' = IF stage = "wait" THEN Answered ELSE calls
  /\ pc' = "fail" /\ HandlerOver
  /\ UNCHANGED <<vars, task, beat, done, rows, granted, fate, crashes>>

LostAnswerStep ==
  /\ AtWork("wait")
  /\ pc' = "fail" /\ HandlerOver
  /\ UNCHANGED <<vars, task, beat, done, calls, rows, granted, fate, crashes>>

-----------------------------------------------------------------------------
(* Heartbeats, which only come while the handler thread runs.              *)

HeartbeatStep ==
  /\ pc = "work" /\ beat = "on" /\ ~writing
  /\ Heartbeat(task.job, Me, task.no)
  /\ UNCHANGED workerVars

HeartbeatRefused ==
  /\ pc = "work" /\ beat = "on" /\ ~writing
  /\ \A s \in Live : ~HoldsLease(task.job, Me, task.no, s)
  /\ beat' = "ended"
  /\ UNCHANGED <<vars, pc, task, handlerVars, done, calls, rows, granted, fate, crashes>>

\* The write lock outlasts the busy timeout.
HeartbeatBlocked ==
  /\ pc = "work" /\ beat = "on" /\ writing
  /\ beat' = "failed"
  /\ UNCHANGED <<vars, pc, task, handlerVars, done, calls, rows, granted, fate, crashes>>

-----------------------------------------------------------------------------
(* The user, through the API process, whose requests fail while the write  *)
(* lock is taken; the clock; and the end and restart of the process.       *)

EnqueueStep ==
  /\ ~writing
  /\ \E k \in Keys, p \in Priorities, pl \in Plans : Enqueue(k, p, pl)
  /\ UNCHANGED workerVars

CancelStep ==
  /\ ~writing
  /\ \E j \in Jobs : RequestCancel(j)
  /\ UNCHANGED workerVars

\* The retry route reads the job and asks the classifier ...
GrantRetryStep ==
  /\ \E j \in Jobs \ granted :
       /\ Len(attempts[j]) < MaxAttempts
       /\ status[j] = "FAILED" /\ MayRetry(errorCode[j], 1, NoRetryAfter)
       /\ granted' = granted \union {j}
  /\ UNCHANGED <<vars, pc, task, beat, handlerVars, done, calls, rows, fate, crashes>>

\* ... and then carries the retry out in a transaction of its own.  Another request
\* that was granted by the same look at the job may still be on its way.
RetryStep ==
  /\ ~writing
  /\ \E j \in granted :
       /\ RetryFailed(j) \/ (status[j] # "FAILED" /\ UNCHANGED vars)
       /\ granted' \in {granted, granted \ {j}}
  /\ UNCHANGED <<pc, task, beat, handlerVars, done, calls, rows, fate, crashes>>

ClockStep == Tick /\ UNCHANGED workerVars

Crash ==
  /\ pc # "down" /\ crashes < MaxCrashes
  /\ Dies("killed")
  /\ crashes' = crashes + 1

\* Variant: jobs found running at a restart are put back in line.
RestartRequeues ==
  /\ pc = "down"
  /\ pc' = "recover" /\ fate' = "none"
  /\ status' = [j \in Jobs |-> IF status[j] = "RUNNING" THEN "QUEUED" ELSE status[j]]
  /\ UNCHANGED <<rowVars, owner, lease, backoff, cancelAsked, errorCode, attempts, eventLog>>
  /\ UNCHANGED <<task, beat, handlerVars, done, calls, rows, granted, crashes>>

Restart ==
  /\ pc = "down"
  /\ pc' = "recover" /\ fate' = "none"
  /\ UNCHANGED <<vars, task, beat, handlerVars, done, calls, rows, granted, crashes>>

HandlerStep ==
  \/ EnterStep \/ CanceledStep \/ ReuseStep \/ PrepareStep \/ MarkStep \/ SendStep
  \/ AnswerStep \/ CommitStep \/ ReviewStep \/ SummarizeStep \/ ReturnStep \/ RaiseStep \/ LostAnswerStep

RunStep ==
  \/ RecoverStep \/ ClaimStep \/ IdleStep \/ CheckStep
  \/ HandlerStep
  \/ FinishStep \/ EndStep \/ RefusedStep

WorkerNext ==
  \/ RunStep
  \/ HeartbeatStep \/ HeartbeatRefused \/ HeartbeatBlocked
  \/ EnqueueStep \/ CancelStep \/ GrantRetryStep \/ RetryStep
  \/ ClockStep \/ Crash \/ Restart

(***************************************************************************)
(* The loop runs on, a provider request ends by its time-out at the        *)
(* latest, the clock advances, and a studio that stopped is started again. *)
(* Nothing is assumed of heartbeats or of the user.                        *)
(***************************************************************************)
Fairness ==
  /\ WF_allVars(RunStep)
  /\ WF_allVars(ClockStep)
  /\ WF_allVars(Restart)

WorkerSpec == WorkerInit /\ [][WorkerNext]_allVars /\ Fairness

-----------------------------------------------------------------------------
(* Properties.                                                             *)

CallsOf(j) == {i \in DOMAIN calls : calls[i].job = j}

\* The worker, crashing and restarting as it may, only ever moves the queue by
\* operations the queue allows.
QueueSpec == Spec

\* While the worker is busy with a job, the job is live, this worker owns it and
\* the attempt in hand is its only open one: neither the user's cancel nor
\* recovery takes a job from under the thread that is working on it.
WorkerOwnsItsJob ==
  Busy => /\ status[task.job] \in Live
          /\ owner[task.job] = Me
          /\ OpenAttempts(task.job) = {task.no}

\* Every attempt but the last wastes at most the one segment it was at: what was
\* rendered and committed before a crash is not paid for again.
ResumesWhereItStopped ==
  \A j \in Jobs : Kind(j) # "TRANSLATE" =>
    Cardinality(CallsOf(j)) <= NSegments + Cardinality(DOMAIN attempts[j] \ OpenAttempts(j))

\* Once the user has canceled a rendering, at most the one request that had passed
\* its cancel check still leaves.
CancelStopsRequests ==
  \A j \in Jobs : Kind(j) # "TRANSLATE" =>
    Cardinality({i \in CallsOf(j) : calls[i].late}) <= 1

\* A review or a recap that is done again, because its worker was killed between its
\* commit and the completion of the job, records nothing twice
\* (execution_handlers.py:407-413, 535-542).
RecordedOnce == \A j \in Jobs, s \in 1..NSegments : rows[j][s] <= 1

\* A user's cancel does not end the worker process.
CancelNeverKillsWorker == fate # "InvalidJobTransition"

\* Every job comes to an end, whatever crashes, cancels and lost leases it meets.
EveryJobEnds ==
  \A j \in Jobs : status[j] \in {"QUEUED"} \union Live ~> status[j] \in Terminal
=============================================================================
