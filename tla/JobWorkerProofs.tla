--------------------------- MODULE JobWorkerProofs ---------------------------
(***************************************************************************)
(* What TLAPS proves about JobWorker for any jobs, keys, kinds of handler, *)
(* numbers of segments and crashes: the worker only moves the queue by     *)
(* operations of the queue, so that all that is proved of JobQueue holds   *)
(* of it; the job in hand is its own; and a cancel stops the requests.     *)
(***************************************************************************)
EXTENDS JobWorker, JobQueueProofs, FiniteSetTheorems

\* Busy names a job, and a handler that is not at work has nothing open.
TaskOK ==
  /\ pc \in {"recover", "claim", "check", "work", "ack", "fail", "finish", "complete", "down"}
  /\ Busy => task.job \in Jobs
  /\ pc # "work" => stage = "enter"
  /\ granted \subseteq Jobs

Call == [job : Jobs, seg : Nat, answered : BOOLEAN, late : BOOLEAN]

\* A job with a late request is never in line again, its handler does not send another,
\* and, checking for a cancel as it does, it has sent no other.
Stopped == {"CANCEL_REQUESTED", "CANCELED", "BILLING_UNKNOWN"}

LateCalls(j) == {i \in CallsOf(j) : calls[i].late}

AboutToSend(j) == pc = "work" /\ task.job = j /\ stage \in {"call", "marked"}

LateOK(j) ==
  /\ LateCalls(j) # {} => status[j] \in Stopped
  /\ Kind(j) # "TRANSLATE" =>
       /\ AboutToSend(j) => LateCalls(j) = {}
       /\ \A i, k \in LateCalls(j) : i = k

CallsOK ==
  /\ calls \in Seq(Call) /\ seg \in Nat
  /\ \A j \in Jobs : LateOK(j)

RowsOK == rows \in [Jobs -> [1..NSegments -> {0, 1}]]

WorkerInv == IInv /\ TaskOK /\ WorkerOwnsItsJob /\ CallsOK /\ RowsOK

-----------------------------------------------------------------------------
(* The queue.                                                              *)

LEMMA StepMovesQueue ==
  ASSUME TaskOK, [WorkerNext]_allVars
  PROVE  [Next]_vars
<1> USE DEF TaskOK
<1>1. \A j \in Jobs, w \in Workers : WorkerCall(j, w) => Next
  BY DEF Next
<1>2. \A j \in Jobs : RequestCancel(j) \/ RetryFailed(j) => Next
  BY DEF Next, UserCall
<1>3. CASE UNCHANGED allVars
  BY <1>3 DEF allVars
<1>4. CASE RecoverStep
  BY <1>4 DEF RecoverStep, Next
<1>5. CASE ClaimStep
  BY <1>1, <1>5, WorkerAssumption DEF ClaimStep, WorkerCall
<1>6. CASE EndStep
  <2>1. task.job \in Jobs /\ Me \in Workers /\ HandlerError \in Errors
    BY <1>6, WorkerAssumption DEF EndStep, Busy
  <2>2. \A status0 : HoldsLease(task.job, Me, task.no, status0) => task.no \in DOMAIN attempts[task.job]
    BY DEF HoldsLease, IsCurrentAttempt, OpenAttempts
  <2>3. WorkerCall(task.job, Me)
    BY <1>6, <2>1, <2>2 DEF EndStep, WorkerCall, AcknowledgeCancel, Complete, Fail, FailSent,
       FailRetry, FailForGood
  <2> QED
    BY <1>1, <2>1, <2>3
<1>7. CASE MarkStep \/ HeartbeatStep
  <2>1. task.job \in Jobs /\ Me \in Workers
    BY <1>7, WorkerAssumption DEF MarkStep, HeartbeatStep, AtWork, Busy
  <2>2. WorkerCall(task.job, Me)
    BY <1>7 DEF MarkStep, HeartbeatStep, WorkerCall, MarkProviderSent, Heartbeat, HoldsLease,
       IsCurrentAttempt, OpenAttempts
  <2> QED
    BY <1>1, <2>1, <2>2
<1>8. CASE EnqueueStep
  BY <1>8 DEF EnqueueStep, Next
<1>9. CASE CancelStep
  BY <1>2, <1>9 DEF CancelStep
<1>10. CASE RetryStep
  BY <1>2, <1>10 DEF RetryStep
<1>11. CASE ClockStep
  BY <1>11 DEF ClockStep, Next
<1>12. CASE IdleStep \/ CheckStep \/ FinishStep \/ RefusedStep \/ Crash \/ Restart
            \/ HeartbeatRefused \/ HeartbeatBlocked \/ GrantRetryStep
  BY <1>12 DEF IdleStep, CheckStep, FinishStep, RefusedStep, Crash, Dies, Restart,
     HeartbeatRefused, HeartbeatBlocked, GrantRetryStep
<1>13. CASE EnterStep \/ CanceledStep \/ ReuseStep \/ PrepareStep \/ SendStep \/ AnswerStep
            \/ CommitStep \/ ReviewStep \/ SummarizeStep \/ ReturnStep \/ RaiseStep \/ LostAnswerStep
  BY <1>13 DEF EnterStep, CanceledStep, ReuseStep, PrepareStep, SendStep, AnswerStep, CommitStep,
     ReviewStep, SummarizeStep, LocalStep, ReturnStep, RaiseStep, LostAnswerStep
<1> QED
  BY <1>3, <1>4, <1>5, <1>6, <1>7, <1>8, <1>9, <1>10, <1>11, <1>12, <1>13
     DEF WorkerNext, RunStep, HandlerStep

LEMMA StepKeepsTask ==
  ASSUME TaskOK, [WorkerNext]_allVars
  PROVE  TaskOK'
<1> USE DEF TaskOK, Busy
<1>1. CASE UNCHANGED allVars
  BY <1>1 DEF allVars, workerVars, handlerVars
<1>2. CASE RecoverStep \/ ClaimStep \/ IdleStep \/ CheckStep \/ FinishStep
  BY <1>2 DEF RecoverStep, ClaimStep, IdleStep, CheckStep, FinishStep, handlerVars
<1>3. CASE EndStep
  BY <1>3 DEF EndStep, AfterJob, handlerVars
<1>4. CASE RefusedStep \/ Crash \/ Restart
  BY <1>4 DEF RefusedStep, Crash, Dies, HandlerOver, Restart, handlerVars
<1>5. CASE HeartbeatStep \/ HeartbeatRefused \/ HeartbeatBlocked \/ EnqueueStep \/ CancelStep
            \/ GrantRetryStep \/ RetryStep \/ ClockStep
  BY <1>5 DEF HeartbeatStep, HeartbeatRefused, HeartbeatBlocked, EnqueueStep, CancelStep,
     GrantRetryStep, RetryStep, ClockStep, workerVars, handlerVars
<1>6. CASE EnterStep \/ ReuseStep \/ PrepareStep \/ MarkStep \/ SendStep \/ AnswerStep
           \/ CommitStep \/ ReviewStep \/ SummarizeStep
  BY <1>6 DEF EnterStep, ReuseStep, PrepareStep, MarkStep, SendStep, AnswerStep, CommitStep,
     ReviewStep, SummarizeStep, LocalStep, AtWork
<1>7. CASE CanceledStep \/ ReturnStep \/ RaiseStep \/ LostAnswerStep
  BY <1>7 DEF CanceledStep, ReturnStep, RaiseStep, LostAnswerStep, AtWork, HandlerOver
<1> QED
  BY <1>1, <1>2, <1>3, <1>4, <1>5, <1>6, <1>7 DEF WorkerNext, RunStep, HandlerStep

-----------------------------------------------------------------------------
(* The job in hand.                                                        *)

\* What a step of the queue leaves as it is of the job in hand.
Kept(j) ==
  /\ status'[j] \in Live /\ owner'[j] = owner[j]
  /\ OpenAttempts(j)' = OpenAttempts(j)

\* Only its own end takes a job from the worker.
LEMMA OthersKeepJob ==
  ASSUME IInv, NEW j \in Jobs, status[j] \in Live, owner[j] = Me,
         \/ UNCHANGED vars \/ Tick
         \/ \E k \in Keys, p \in Priorities, pl \in Plans : Enqueue(k, p, pl)
         \/ \E i \in Jobs : RequestCancel(i) \/ RetryFailed(i)
         \/ \E n : Heartbeat(j, Me, n) \/ MarkProviderSent(j, Me, n)
  PROVE  Kept(j)
<1> USE DEF Live, Kept, OpenAttempts
<1>0. TypeOK /\ LeaseMatches(j)
  BY DEF IInv, JobOK
<1>1. CASE UNCHANGED vars \/ Tick
  BY <1>1 DEF vars, Tick
<1>2. ASSUME NEW k \in Keys, NEW p \in Priorities, NEW pl \in Plans, Enqueue(k, p, pl)
      PROVE  Kept(j)
  BY <1>0, <1>2 DEF Enqueue, EnqueueKnown, EnqueueNew, vars, TypeOK
<1>3. ASSUME NEW i \in Jobs, RequestCancel(i) \/ RetryFailed(i)
      PROVE  Kept(j)
  BY <1>0, <1>3 DEF RequestCancel, RetryFailed, DropLease, TypeOK
<1>4. ASSUME NEW n, Heartbeat(j, Me, n) PROVE Kept(j)
  BY <1>4 DEF Heartbeat
<1>5. ASSUME NEW n, MarkProviderSent(j, Me, n) PROVE Kept(j)
  <2>1. /\ UNCHANGED <<status, owner>> /\ n \in DOMAIN attempts[j]
        /\ attempts' = [attempts EXCEPT ![j][n].sent = TRUE]
    BY <1>5 DEF MarkProviderSent
  <2>2. \A m \in DOMAIN attempts[j] : attempts[j][m] \in Attempt
    BY <1>0, CurrentIsLast
  <2>3. /\ DOMAIN attempts'[j] = DOMAIN attempts[j]
        /\ \A m \in DOMAIN attempts[j] : attempts'[j][m].outcome = attempts[j][m].outcome
    BY <1>0, <2>1, <2>2 DEF TypeOK, Attempt
  <2> QED
    BY <2>1, <2>3
<1> QED
  BY <1>1, <1>2, <1>3, <1>4, <1>5

LEMMA StepKeepsOwner ==
  ASSUME IInv, TaskOK, WorkerOwnsItsJob, [WorkerNext]_allVars
  PROVE  WorkerOwnsItsJob'
<1> DEFINE j == task.job
<1>a. Busy => j \in Jobs /\ status[j] \in Live /\ owner[j] = Me /\ OpenAttempts(j) = {task.no}
  BY DEF TaskOK, WorkerOwnsItsJob
<1>b. ASSUME Busy, UNCHANGED task, Kept(j) PROVE WorkerOwnsItsJob'
  BY <1>a, <1>b DEF Kept, WorkerOwnsItsJob, OpenAttempts
<1>c. Busy /\ UNCHANGED vars => Kept(j)
  BY <1>a, OthersKeepJob
<1>1. CASE ~Busy'
  BY <1>1 DEF WorkerOwnsItsJob
<1>2. CASE Busy' /\ ClaimStep
  <2>1. PICK i \in Jobs : Claim(i, Me) /\ task' = [job |-> i, no |-> Len(attempts[i]) + 1]
    BY <1>2 DEF ClaimStep
  <2>2. /\ status' = [status EXCEPT ![i] = "RUNNING"] /\ owner' = [owner EXCEPT ![i] = Me]
        /\ attempts' = [attempts EXCEPT ![i] = Append(@, [outcome |-> Open, sent |-> FALSE])]
        /\ status[i] = "QUEUED"
    BY <2>1 DEF Claim, Due
  <2>3. TypeOK /\ LeaseMatches(i)
    BY DEF IInv, JobOK
  <2>4. status'[i] = "RUNNING" /\ owner'[i] = Me
    BY <2>2, <2>3 DEF TypeOK
  <2>5. /\ attempts[i] \in Seq(Attempt) /\ Len(attempts[i]) \in Nat
        /\ \A n \in 1..Len(attempts[i]) : attempts[i][n].outcome # Open
    BY <2>2, <2>3, CurrentIsLast DEF LeaseMatches, Live
  <2>6. attempts'[i] = Append(attempts[i], [outcome |-> Open, sent |-> FALSE])
    BY <2>2, <2>3 DEF TypeOK
  <2>7. /\ DOMAIN attempts'[i] = 1..(Len(attempts[i]) + 1)
        /\ attempts'[i][Len(attempts[i]) + 1].outcome = Open
        /\ \A n \in 1..Len(attempts[i]) : attempts'[i][n] = attempts[i][n]
    BY <2>5, <2>6
  <2>8. OpenAttempts(i)' = {Len(attempts[i]) + 1}
    BY <2>5, <2>7 DEF OpenAttempts
  <2> QED
    BY <2>1, <2>4, <2>8 DEF WorkerOwnsItsJob, Live, OpenAttempts
<1>3. CASE Busy' /\ (UNCHANGED allVars \/ CheckStep \/ FinishStep \/ HeartbeatRefused \/ HeartbeatBlocked
                     \/ GrantRetryStep)
  <2>1. Busy /\ UNCHANGED <<vars, task>>
    BY <1>3 DEF allVars, workerVars, CheckStep, FinishStep, HeartbeatRefused, HeartbeatBlocked,
       GrantRetryStep, Busy
  <2> QED
    BY <1>b, <1>c, <2>1
<1>4. CASE Busy' /\ HandlerStep /\ ~MarkStep
  <2>1. Busy /\ UNCHANGED <<vars, task>>
    BY <1>4 DEF HandlerStep, EnterStep, CanceledStep, ReuseStep, PrepareStep, SendStep, AnswerStep,
       CommitStep, ReviewStep, SummarizeStep, LocalStep, ReturnStep, RaiseStep, LostAnswerStep,
       AtWork, Busy
  <2> QED
    BY <1>b, <1>c, <2>1
<1>5. CASE Busy' /\ (MarkStep \/ HeartbeatStep)
  <2>1. Busy /\ UNCHANGED task
    BY <1>5 DEF MarkStep, HeartbeatStep, AtWork, Busy, workerVars
  <2>2. Kept(j)
    BY <1>5, <1>a, <2>1, OthersKeepJob DEF MarkStep, HeartbeatStep
  <2> QED
    BY <1>b, <2>1, <2>2
<1>6. CASE Busy' /\ (EnqueueStep \/ CancelStep \/ RetryStep \/ ClockStep)
  <2>1. Busy /\ UNCHANGED task
    BY <1>6 DEF EnqueueStep, CancelStep, RetryStep, ClockStep, Busy, workerVars
  <2>2. granted \subseteq Jobs
    BY DEF TaskOK
  <2>3. Kept(j)
    BY <1>6, <1>a, <2>1, <2>2, OthersKeepJob DEF EnqueueStep, CancelStep, RetryStep, ClockStep
  <2> QED
    BY <1>b, <2>1, <2>3
<1>7. CASE RecoverStep \/ IdleStep \/ EndStep \/ RefusedStep \/ Crash \/ Restart
  BY <1>1, <1>7 DEF RecoverStep, IdleStep, EndStep, AfterJob, RefusedStep, Crash, Dies, Restart, Busy
<1> QED
  BY <1>1, <1>2, <1>3, <1>4, <1>5, <1>6, <1>7 DEF WorkerNext, RunStep

-----------------------------------------------------------------------------
(* Requests.                                                               *)

\* A job keeps its key, and once it is stopped it stays so.
LEMMA QueueKeepsStopped ==
  ASSUME IInv, [Next]_vars, NEW j \in Jobs
  PROVE  /\ status[j] \in Stopped => status'[j] \in Stopped
         /\ status[j] # "ABSENT" => key'[j] = key[j]
<1>0. TypeOK
  BY DEF IInv
<1>1. status[j] \in Stopped => status'[j] \in Stopped
  BY NextIsJobSteps DEF JobStep, Same, Created, Claimed, Marked, Canceling, Retried, Ends, EndsAs,
     Stopped, Live
<1>2. CASE UNCHANGED key
  BY <1>1, <1>2
<1>3. ASSUME NEW k \in Keys, NEW p \in Priorities, NEW pl \in Plans, Enqueue(k, p, pl)
      PROVE  status[j] # "ABSENT" => key'[j] = key[j]
  BY <1>0, <1>3 DEF Enqueue, EnqueueKnown, EnqueueNew, TypeOK, vars
<1>4. ASSUME NEW i \in Jobs, NEW w \in Workers, WorkerCall(i, w)
      PROVE  UNCHANGED key
  BY <1>4 DEF WorkerCall, Claim, Heartbeat, MarkProviderSent, AcknowledgeCancel, Complete, Fail,
     FailSent, FailRetry, FailForGood, EndAttempt, rowVars
<1>5. ASSUME NEW i \in Jobs, UserCall(i)
      PROVE  UNCHANGED key
  BY <1>5 DEF UserCall, RequestCancel, RetryFailed, Defer, rowVars
<1>6. RecoverExpired \/ Tick \/ UNCHANGED vars => UNCHANGED key
  BY DEF RecoverExpired, Tick, rowVars, vars
<1> QED
  BY <1>1, <1>2, <1>3, <1>4, <1>5, <1>6 DEF Next

\* A step that sends nothing.
LEMMA LateKept ==
  ASSUME IInv, [Next]_vars, NEW j \in Jobs, LateOK(j), LateCalls(j)' = LateCalls(j),
         AboutToSend(j)' /\ Kind(j) # "TRANSLATE" => AboutToSend(j) \/ LateCalls(j) = {}
  PROVE  LateOK(j)'
<1>1. CASE LateCalls(j) = {}
  BY <1>1 DEF LateOK
<1>2. CASE LateCalls(j) # {}
  <2>1. status[j] \in Stopped /\ status[j] # "ABSENT"
    BY <1>2 DEF LateOK, Stopped
  <2>2. status'[j] \in Stopped /\ Kind(j)' = Kind(j)
    BY <2>1, QueueKeepsStopped DEF Kind
  <2> QED
    BY <1>2, <2>2 DEF LateOK
<1> QED
  BY <1>1, <1>2

\* An answer changes no request but that it is answered.
LEMMA AnsweredKeepsCalls ==
  ASSUME CallsOK, calls' = Answered
  PROVE  /\ calls' \in Seq(Call)
         /\ \A j \in Jobs : LateCalls(j)' = LateCalls(j) /\ CallsOf(j)' = CallsOf(j)
<1>1. calls \in Seq(Call) /\ calls' = [calls EXCEPT ![Len(calls)].answered = TRUE]
  BY DEF CallsOK, Answered
<1>2. \A i \in DOMAIN calls : calls[i] \in Call
  BY <1>1
<1>3. \A c \in Call : LET d == [c EXCEPT !.answered = TRUE]
                      IN  d \in Call /\ d.job = c.job /\ d.late = c.late
  BY DEF Call
<1>4. DOMAIN calls' = DOMAIN calls /\ DOMAIN calls = 1..Len(calls) /\ Len(calls) \in Nat
  BY <1>1
<1>5. \A i \in DOMAIN calls : calls'[i] \in Call /\ calls'[i].job = calls[i].job
                              /\ calls'[i].late = calls[i].late
  BY <1>1, <1>2, <1>3
<1>6. calls' \in Seq(Call)
  <2>1. calls' \in [1..Len(calls) -> Call]
    BY <1>1, <1>4, <1>5
  <2> QED
    BY <1>4, <2>1, SeqDef
<1>7. \A j \in Jobs : LateCalls(j)' = LateCalls(j) /\ CallsOf(j)' = CallsOf(j)
  BY <1>4, <1>5 DEF LateCalls, CallsOf
<1> QED
  BY <1>6, <1>7

LEMMA SendKeepsCalls ==
  ASSUME IInv, TaskOK, CallsOK, SendStep
  PROVE  CallsOK'
<1> DEFINE t == task.job
           late == status[t] = "CANCEL_REQUESTED"
           new == [job |-> t, seg |-> seg, answered |-> FALSE, late |-> late]
<1>1. /\ calls' = Append(calls, new) /\ stage' = "wait" /\ UNCHANGED <<vars, seg>>
      /\ calls \in Seq(Call) /\ seg \in Nat /\ t \in Jobs /\ AboutToSend(t)
  BY DEF SendStep, AtWork, CallsOK, TaskOK, Busy, AboutToSend
<1>2. late \in BOOLEAN
  OBVIOUS
<1> HIDE DEF late
<1>3. new \in Call /\ new.job = t /\ new.late = late
  BY <1>1, <1>2 DEF Call
<1> HIDE DEF new
<1>4. /\ calls' \in Seq(Call) /\ Len(calls) \in Nat /\ DOMAIN calls = 1..Len(calls)
      /\ DOMAIN calls' = 1..(Len(calls) + 1) /\ calls'[Len(calls) + 1] = new
      /\ \A i \in 1..Len(calls) : calls'[i] = calls[i]
  BY <1>1, <1>3
<1>5. ASSUME NEW j \in Jobs PROVE LateOK(j)'
  <2>0. LateOK(j) /\ Kind(j)' = Kind(j) /\ status'[j] = status[j] /\ ~AboutToSend(j)'
    BY <1>1 DEF CallsOK, Kind, vars, AboutToSend
  <2>1. CASE j # t \/ ~late
    <3>1. LateCalls(j)' = LateCalls(j)
      BY <1>3, <1>4, <2>1 DEF LateCalls, CallsOf
    <3> QED
      BY <2>0, <3>1 DEF LateOK
  <2>2. CASE j = t /\ late
    <3>1. status'[j] \in Stopped
      BY <2>0, <2>2 DEF late, Stopped
    <3>2. LateCalls(j) = {} => LateCalls(j)' \subseteq {Len(calls) + 1}
      BY <1>3, <1>4 DEF LateCalls, CallsOf
    <3> QED
      BY <1>1, <2>0, <2>2, <3>1, <3>2 DEF LateOK
  <2> QED
    BY <2>1, <2>2
<1> QED
  BY <1>1, <1>4, <1>5 DEF CallsOK

\* A handler that checks for a cancel begins a segment only while there is none.
LEMMA PrepareKeepsCalls ==
  ASSUME IInv, TaskOK, WorkerOwnsItsJob, CallsOK, PrepareStep
  PROVE  CallsOK'
<1>1. UNCHANGED <<vars, seg, calls, pc, task>> /\ Busy
  BY DEF PrepareStep, AtWork, Busy
<1>2. ASSUME NEW j \in Jobs PROVE LateOK(j)'
  <2>1. LateOK(j) /\ Kind(j)' = Kind(j) /\ status'[j] = status[j] /\ LateCalls(j)' = LateCalls(j)
    BY <1>1 DEF CallsOK, Kind, vars, LateCalls, CallsOf
  <2>2. Kind(j) # "TRANSLATE" /\ AboutToSend(j)' => status[j] = "RUNNING"
    BY <1>1 DEF PrepareStep, MayGoOn, ChecksCancel, AboutToSend, WorkerOwnsItsJob, Live
  <2> QED
    BY <2>1, <2>2 DEF LateOK, Stopped
<1> QED
  BY <1>1, <1>2 DEF CallsOK

LEMMA StepKeepsCalls ==
  ASSUME IInv, TaskOK, WorkerOwnsItsJob, CallsOK, [WorkerNext]_allVars
  PROVE  CallsOK'
<1>a. [Next]_vars /\ NSegments \in Nat /\ calls \in Seq(Call) /\ seg \in Nat /\ \A j \in Jobs : LateOK(j)
  BY StepMovesQueue, WorkerAssumption DEF CallsOK
<1>b. ASSUME calls' \in Seq(Call), seg' \in Nat,
             \A j \in Jobs : LateCalls(j)' = LateCalls(j) /\ (AboutToSend(j)' => AboutToSend(j))
      PROVE  CallsOK'
  BY <1>a, <1>b, LateKept DEF CallsOK
<1>c. UNCHANGED calls => \A j \in Jobs : LateCalls(j)' = LateCalls(j)
  BY DEF LateCalls, CallsOf
<1> DEFINE quiet == \A j \in Jobs : AboutToSend(j)' => AboutToSend(j)
<1>1. CASE UNCHANGED allVars \/ HeartbeatStep \/ HeartbeatRefused \/ HeartbeatBlocked \/ EnqueueStep
           \/ CancelStep \/ GrantRetryStep \/ RetryStep \/ ClockStep
  <2>1. UNCHANGED <<calls, seg, pc, task, stage>>
    BY <1>1 DEF allVars, workerVars, handlerVars, HeartbeatStep, HeartbeatRefused, HeartbeatBlocked,
       EnqueueStep, CancelStep, GrantRetryStep, RetryStep, ClockStep
  <2>2. quiet
    BY <2>1 DEF AboutToSend
  <2> QED
    BY <1>a, <1>b, <1>c, <2>1, <2>2
<1>2. CASE RecoverStep \/ ClaimStep \/ IdleStep \/ CheckStep \/ FinishStep \/ EndStep
           \/ RefusedStep \/ Crash \/ Restart
  <2>1. UNCHANGED calls /\ seg' \in Nat
    BY <1>2, <1>a DEF RecoverStep, ClaimStep, IdleStep, CheckStep, FinishStep, EndStep, AfterJob,
       RefusedStep, Crash, Dies, HandlerOver, Restart, handlerVars
  <2>2. pc' # "work" \/ (CheckStep /\ UNCHANGED stage)
    BY <1>2 DEF RecoverStep, ClaimStep, IdleStep, CheckStep, FinishStep, EndStep, AfterJob,
       RefusedStep, Crash, Dies, Restart, handlerVars
  <2>3. CheckStep => stage = "enter"
    BY DEF CheckStep, TaskOK
  <2>4. quiet
    BY <2>2, <2>3 DEF AboutToSend
  <2> QED
    BY <1>a, <1>b, <1>c, <2>1, <2>4
<1>3. CASE EnterStep \/ ReuseStep \/ MarkStep \/ CommitStep \/ ReviewStep \/ SummarizeStep
  <2>1. /\ UNCHANGED <<calls, pc, task>> /\ seg' \in Nat
        /\ stage' \in {"call", "marked"} => stage \in {"call", "marked"}
    BY <1>3, <1>a DEF EnterStep, ReuseStep, MarkStep, CommitStep, ReviewStep, SummarizeStep,
       LocalStep, AtWork
  <2>2. quiet
    BY <2>1 DEF AboutToSend
  <2> QED
    BY <1>a, <1>b, <1>c, <2>1, <2>2
<1>4. CASE CanceledStep \/ ReturnStep \/ LostAnswerStep
  <2>1. UNCHANGED calls /\ seg' \in Nat /\ pc' # "work"
    BY <1>4 DEF CanceledStep, ReturnStep, LostAnswerStep, HandlerOver
  <2>2. quiet
    BY <2>1 DEF AboutToSend
  <2> QED
    BY <1>a, <1>b, <1>c, <2>1, <2>2
<1>5. CASE AnswerStep \/ RaiseStep
  <2>1. /\ calls' \in {calls, Answered} /\ seg' \in Nat
        /\ pc' = "work" => stage' \in {"next", "store"}
    BY <1>5, <1>a DEF AnswerStep, RaiseStep, HandlerOver
  <2>2. calls' \in Seq(Call) /\ \A j \in Jobs : LateCalls(j)' = LateCalls(j)
    BY <1>a, <1>c, <2>1, AnsweredKeepsCalls
  <2>3. quiet
    BY <2>1 DEF AboutToSend
  <2> QED
    BY <1>b, <2>1, <2>2, <2>3
<1>6. CASE PrepareStep
  BY <1>6, PrepareKeepsCalls
<1>7. CASE SendStep
  BY <1>7, SendKeepsCalls
<1> QED
  BY <1>1, <1>2, <1>3, <1>4, <1>5, <1>6, <1>7 DEF WorkerNext, RunStep, HandlerStep

-----------------------------------------------------------------------------
(* What the local handlers record.                                         *)

LEMMA StepKeepsRows ==
  ASSUME TaskOK, RowsOK, [WorkerNext]_allVars
  PROVE  RowsOK'
<1>1. ASSUME NEW kind, NEW these, LocalStep(kind, these) PROVE RowsOK'
  <2>1. task.job \in Jobs /\ rows' = [rows EXCEPT ![task.job] = Recorded(task.job, these)]
    BY <1>1 DEF LocalStep, AtWork, TaskOK, Busy
  <2>2. Recorded(task.job, these) \in [1..NSegments -> {0, 1}]
    BY <2>1 DEF Recorded, RowsOK
  <2> HIDE DEF Recorded
  <2> QED
    BY <2>1, <2>2 DEF RowsOK
<1>2. CASE ReviewStep \/ SummarizeStep
  BY <1>1, <1>2 DEF ReviewStep, SummarizeStep
<1>3. CASE ~(ReviewStep \/ SummarizeStep)
  <2>1. UNCHANGED rows
    BY <1>3 DEF WorkerNext, RunStep, HandlerStep, allVars, workerVars, handlerVars, RecoverStep,
       ClaimStep, IdleStep, CheckStep, FinishStep, EndStep, AfterJob, RefusedStep, Crash, Dies,
       HandlerOver, Restart, HeartbeatStep, HeartbeatRefused, HeartbeatBlocked, EnqueueStep,
       CancelStep, GrantRetryStep, RetryStep, ClockStep, EnterStep, CanceledStep, ReuseStep,
       PrepareStep, MarkStep, SendStep, AnswerStep, CommitStep, ReturnStep, RaiseStep,
       LostAnswerStep
  <2> QED
    BY <2>1 DEF RowsOK
<1> QED
  BY <1>2, <1>3

-----------------------------------------------------------------------------
(* How many requests a job costs.                                          *)

(***************************************************************************)
(* A request is paid for by the segment it finished or by the attempt that *)
(* wasted it.  A job at work that has not sent the request of its segment  *)
(* has wasted none in this attempt; once it has, that segment is missing   *)
(* from what is done, and stays so if the attempt ends here.  A job that   *)
(* is not there yet may still become one of another kind.                  *)
(***************************************************************************)
Counted(j) == status[j] = "ABSENT" \/ Kind(j) # "TRANSLATE"

BeforeRequest(j) ==
  task.job = j /\ (pc = "check" \/ (pc = "work" /\ stage \notin {"wait", "store"}))

CountOK(j) ==
  /\ done[j] \subseteq 1..NSegments
  /\ Cardinality(CallsOf(j)) <= Cardinality(done[j]) + Len(attempts[j])
  /\ (status[j] \in Live \/ BeforeRequest(j)) =>
       \/ Cardinality(CallsOf(j)) < Cardinality(done[j]) + Len(attempts[j])
       \/ ~BeforeRequest(j) /\ Cardinality(done[j]) < NSegments

\* The segment a request is about is one that is not done.
SegmentOK ==
  /\ seg >= 1
  /\ pc # "work" => fresh = {}
  /\ (pc = "work" /\ Kind(task.job) # "TRANSLATE") =>
       /\ fresh = {}
       /\ stage \in {"call", "marked", "wait", "store"} =>
            (seg <= NSegments /\ seg \notin done[task.job])

CountInv == DOMAIN done = Jobs /\ SegmentOK /\ \A j \in Jobs : Counted(j) => CountOK(j)

LEMMA CountsAreNumbers ==
  ASSUME calls \in Seq(Call), NEW j \in Jobs, done[j] \subseteq 1..NSegments
  PROVE  /\ IsFiniteSet(CallsOf(j)) /\ Cardinality(CallsOf(j)) \in Nat
         /\ IsFiniteSet(done[j]) /\ Cardinality(done[j]) \in Nat
         /\ Cardinality(done[j]) <= NSegments
         /\ \A s \in (1..NSegments) \ done[j] :
              /\ Cardinality(done[j]) < NSegments
              /\ Cardinality(done[j] \union {s}) = Cardinality(done[j]) + 1
<1>0. NSegments \in Nat /\ Len(calls) \in Nat
  BY WorkerAssumption
<1>1. /\ IsFiniteSet(1..NSegments) /\ Cardinality(1..NSegments) = NSegments
      /\ IsFiniteSet(1..Len(calls))
  <2>1. \A n \in Nat : IsFiniteSet(1..n) /\ Cardinality(1..n) = n
    <3> TAKE n \in Nat
    <3>1. IsFiniteSet(1..n) /\ Cardinality(1..n) = IF 1 > n THEN 0 ELSE n - 1 + 1
      BY FS_Interval
    <3> QED
      BY <3>1
  <2> QED
    BY <1>0, <2>1
<1>2. CallsOf(j) \subseteq 1..Len(calls)
  BY DEF CallsOf
<1>3. IsFiniteSet(CallsOf(j)) /\ Cardinality(CallsOf(j)) \in Nat
  BY <1>1, <1>2, FS_Subset, FS_CardinalityType
<1>4. /\ IsFiniteSet(done[j]) /\ Cardinality(done[j]) \in Nat
      /\ Cardinality(done[j]) <= NSegments
  BY <1>1, FS_Subset, FS_CardinalityType
<1>5. ASSUME NEW s \in (1..NSegments) \ done[j]
      PROVE  /\ Cardinality(done[j]) < NSegments
             /\ Cardinality(done[j] \union {s}) = Cardinality(done[j]) + 1
  <2>1. Cardinality(done[j] \union {s}) = Cardinality(done[j]) + 1
    BY <1>4, FS_AddElement
  <2>2. done[j] \union {s} \subseteq 1..NSegments
    OBVIOUS
  <2>3. Cardinality(done[j] \union {s}) <= NSegments
    BY <1>1, <2>2, FS_Subset
  <2> QED
    BY <1>0, <1>4, <2>1, <2>3
<1> QED
  BY <1>3, <1>4, <1>5

\* A step of the queue gives a job one more attempt, or leaves it no more alive.
LEMMA QueueKeepsAttempts ==
  ASSUME IInv, [Next]_vars, NEW j \in Jobs
  PROVE  /\ Len(attempts[j]) \in Nat
         /\ \/ Len(attempts'[j]) = Len(attempts[j]) /\ (status'[j] \in Live => status[j] \in Live)
            \/ status[j] = "QUEUED" /\ Len(attempts'[j]) = Len(attempts[j]) + 1
         /\ Counted(j)' => Counted(j)
<1>1. JobStep(j) /\ TypeOK /\ JobOK(j)
  BY NextIsJobSteps DEF IInv
<1>2. /\ Len(attempts[j]) \in Nat
      /\ \/ attempts'[j] = attempts[j]
         \/ Claimed(j) /\ Len(attempts'[j]) = Len(attempts[j]) + 1
         \/ (Marked(j) \/ Ends(j)) /\ Len(attempts'[j]) = Len(attempts[j])
  BY <1>1, JobStepHistory
<1>3. \/ Claimed(j)
      \/ status'[j] \in Live => status[j] \in Live
  BY <1>1 DEF JobStep, Same, Created, Marked, Canceling, Retried, Ends, EndsAs, Live
<1>4. Claimed(j) => (status[j] = "QUEUED" /\ Len(attempts'[j]) = Len(attempts[j]) + 1)
  <2>1. Claimed(j) => status[j] = "QUEUED"
    BY DEF Claimed
  <2>2. Claimed(j) => attempts'[j] # attempts[j]
    <3> SUFFICES ASSUME Claimed(j) PROVE attempts'[j] # attempts[j]
      OBVIOUS
    <3>1. /\ attempts[j] \in Seq(Attempt)
          /\ attempts'[j] = Append(attempts[j], [outcome |-> Open, sent |-> FALSE])
      BY <1>1 DEF Claimed, TypeOK
    <3>2. [outcome |-> Open, sent |-> FALSE] \in Attempt
      BY DEF Attempt, Open
    <3>3. Len(attempts'[j]) = Len(attempts[j]) + 1
      BY <3>1, <3>2, AppendProperties
    <3> QED
      BY <1>2, <3>3
  <2>3. Claimed(j) => ~Marked(j) /\ ~Ends(j)
    BY DEF Claimed, Marked, Ends, EndsAs, Live
  <2> QED
    BY <1>2, <2>1, <2>2, <2>3
<1>5. Counted(j)' => Counted(j)
  <2>1. status'[j] = "ABSENT" => status[j] = "ABSENT"
    BY <1>1 DEF JobStep, Same, Created, Claimed, Marked, Canceling, Retried, Ends, EndsAs, Live,
       Outcomes
  <2>2. status[j] # "ABSENT" => key'[j] = key[j]
    BY QueueKeepsStopped
  <2> QED
    BY <2>1, <2>2 DEF Counted, Kind
<1> QED
  BY <1>2, <1>3, <1>4, <1>5

\* A step that sends and finishes nothing.
LEMMA CountKept ==
  ASSUME IInv, WorkerOwnsItsJob, [Next]_vars, calls \in Seq(Call), NEW j \in Jobs, CountOK(j),
         CallsOf(j)' = CallsOf(j), done'[j] = done[j],
         BeforeRequest(j)' => (BeforeRequest(j) \/ Len(attempts'[j]) = Len(attempts[j]) + 1)
  PROVE  CountOK(j)'
<1> DEFINE c == Cardinality(CallsOf(j))
           d == Cardinality(done[j])
           n == Len(attempts[j])
<1>1. c \in Nat /\ d \in Nat /\ NSegments \in Nat
  BY CountsAreNumbers, WorkerAssumption DEF CountOK
<1>2. /\ n \in Nat
      /\ \/ Len(attempts'[j]) = n /\ (status'[j] \in Live => status[j] \in Live)
         \/ status[j] = "QUEUED" /\ Len(attempts'[j]) = n + 1
  BY QueueKeepsAttempts
<1>3. BeforeRequest(j) => status[j] \in Live
  BY DEF BeforeRequest, WorkerOwnsItsJob, Busy
<1>4. Cardinality(CallsOf(j))' = c /\ Cardinality(done[j])' = d
  OBVIOUS
<1>5. /\ done[j] \subseteq 1..NSegments /\ c <= d + n
      /\ (status[j] \in Live \/ BeforeRequest(j)) => (c < d + n \/ (~BeforeRequest(j) /\ d < NSegments))
  BY DEF CountOK
<1> HIDE DEF c, d
<1>6. /\ c <= d + Len(attempts'[j])
      /\ (status'[j] \in Live \/ BeforeRequest(j)') =>
           (c < d + Len(attempts'[j]) \/ (~BeforeRequest(j)' /\ d < NSegments))
  BY <1>1, <1>2, <1>3, <1>5
<1> QED
  BY <1>4, <1>5, <1>6 DEF CountOK

\* The request of a segment that is not done yet.
LEMMA SendKeepsCount ==
  ASSUME WorkerInv, CountInv, SendStep
  PROVE  CountInv'
<1> DEFINE t == task.job
<1>1. /\ pc = "work" /\ stage \in {"call", "marked"} /\ stage' = "wait" /\ Len(calls) \in Nat
      /\ UNCHANGED <<vars, pc, task, seg, fresh, done>> /\ t \in Jobs /\ calls \in Seq(Call)
      /\ DOMAIN calls = 1..Len(calls) /\ DOMAIN calls' = 1..(Len(calls) + 1)
      /\ calls'[Len(calls) + 1].job = t /\ \A i \in 1..Len(calls) : calls'[i] = calls[i]
  BY DEF SendStep, AtWork, WorkerInv, CallsOK, TaskOK, Busy
<1>2. SegmentOK'
  BY <1>1 DEF SegmentOK, CountInv, Kind, vars
<1>3. ASSUME NEW j \in Jobs, j # t, Counted(j)' PROVE CountOK(j)'
  <2>1. CallsOf(j)' = CallsOf(j)
    BY <1>1, <1>3 DEF CallsOf
  <2>2. Counted(j)
    BY <1>1, <1>3 DEF Counted, Kind, vars
  <2> QED
    BY <1>1, <1>3, <2>1, <2>2 DEF CountInv, CountOK, BeforeRequest, vars
<1>4. ASSUME Counted(t)' PROVE CountOK(t)'
  <2>1. status[t] \in Live /\ Kind(t) # "TRANSLATE" /\ Counted(t)
    BY <1>1, <1>4 DEF WorkerInv, WorkerOwnsItsJob, Busy, Counted, Kind, vars, Live
  <2>2. CountOK(t) /\ BeforeRequest(t) /\ seg \in (1..NSegments) \ done[t]
    BY <1>1, <2>1, WorkerAssumption
       DEF CountInv, BeforeRequest, SegmentOK, WorkerInv, CallsOK
  <2>3. /\ IsFiniteSet(CallsOf(t)) /\ Cardinality(CallsOf(t)) \in Nat
        /\ Cardinality(done[t]) \in Nat /\ Cardinality(done[t]) < NSegments
    BY <1>1, <2>2, CountsAreNumbers DEF CountOK
  <2>4. Cardinality(CallsOf(t)) < Cardinality(done[t]) + Len(attempts[t])
    BY <2>2 DEF CountOK
  <2>5. CallsOf(t)' = CallsOf(t) \union {Len(calls) + 1} /\ Len(calls) + 1 \notin CallsOf(t)
    BY <1>1 DEF CallsOf
  <2>6. Cardinality(CallsOf(t) \union {Len(calls) + 1}) = Cardinality(CallsOf(t)) + 1
    BY <2>3, <2>5, FS_AddElement
  <2>7. Len(attempts[t]) \in Nat
    BY <1>1, QueueKeepsAttempts DEF WorkerInv
  <2>8. Cardinality(CallsOf(t)') <= Cardinality(done[t]) + Len(attempts[t])
    BY <2>3, <2>4, <2>5, <2>6, <2>7
  <2>9. ~BeforeRequest(t)' /\ UNCHANGED <<status, done, attempts, task>>
    BY <1>1 DEF BeforeRequest, vars
  <2> QED
    BY <2>2, <2>3, <2>8, <2>9 DEF CountOK
<1> QED
  BY <1>1, <1>2, <1>3, <1>4 DEF CountInv

\* A finished segment pays for its request.
LEMMA CommitKeepsCount ==
  ASSUME WorkerInv, CountInv, CommitStep
  PROVE  CountInv'
<1> DEFINE t == task.job
<1>1. /\ pc = "work" /\ stage = "store" /\ stage' = "next" /\ seg' = seg + 1 /\ seg \in Nat
      /\ UNCHANGED <<vars, pc, task, fresh, calls>> /\ t \in Jobs /\ calls \in Seq(Call)
      /\ done' = [done EXCEPT ![t] = @ \union {seg}] /\ DOMAIN done = Jobs
  BY DEF CommitStep, Committed, AtWork, WorkerInv, CallsOK, TaskOK, Busy, CountInv
<1>2. SegmentOK' /\ DOMAIN done' = Jobs
  BY <1>1 DEF SegmentOK, CountInv, Kind, vars
<1>3. ASSUME NEW j \in Jobs, j # t, Counted(j)' PROVE CountOK(j)'
  <2>1. CallsOf(j)' = CallsOf(j) /\ done'[j] = done[j]
    BY <1>1, <1>3 DEF CallsOf
  <2>2. Counted(j)
    BY <1>1, <1>3 DEF Counted, Kind, vars
  <2> QED
    BY <1>1, <1>3, <2>1, <2>2 DEF CountInv, CountOK, BeforeRequest, vars
<1>4. ASSUME Counted(t)' PROVE CountOK(t)'
  <2>1. status[t] \in Live /\ Kind(t) # "TRANSLATE" /\ Counted(t)
    BY <1>1, <1>4 DEF WorkerInv, WorkerOwnsItsJob, Busy, Counted, Kind, vars, Live
  <2>2. CountOK(t) /\ seg \in (1..NSegments) \ done[t]
    BY <1>1, <2>1, WorkerAssumption DEF CountInv, SegmentOK
  <2>3. /\ Cardinality(CallsOf(t)) \in Nat /\ Cardinality(done[t]) \in Nat
        /\ Cardinality(done[t] \union {seg}) = Cardinality(done[t]) + 1
    BY <1>1, <2>2, CountsAreNumbers DEF CountOK
  <2>4. /\ Cardinality(CallsOf(t)) <= Cardinality(done[t]) + Len(attempts[t])
        /\ done[t] \subseteq 1..NSegments
    BY <2>2 DEF CountOK
  <2>5. Len(attempts[t]) \in Nat
    BY <1>1, QueueKeepsAttempts DEF WorkerInv
  <2>6. Cardinality(CallsOf(t)) < Cardinality(done[t] \union {seg}) + Len(attempts[t])
    BY <2>3, <2>4, <2>5
  <2>7. /\ done'[t] = done[t] \union {seg} /\ UNCHANGED <<status, attempts, task>>
        /\ CallsOf(t)' = CallsOf(t)
    BY <1>1 DEF vars, CallsOf
  <2>8. /\ Cardinality(CallsOf(t))' = Cardinality(CallsOf(t))
        /\ Cardinality(done[t])' = Cardinality(done[t] \union {seg})
        /\ Len(attempts[t])' = Len(attempts[t]) /\ (done[t])' \subseteq 1..NSegments
    BY <2>2, <2>4, <2>7
  <2>9. (Cardinality(CallsOf(t)) < Cardinality(done[t]) + Len(attempts[t]))'
    BY <2>6, <2>8
  <2>10. (Cardinality(CallsOf(t)) <= Cardinality(done[t]) + Len(attempts[t]))'
    BY <2>3, <2>5, <2>6, <2>8
  <2> QED
    BY <2>8, <2>9, <2>10 DEF CountOK
<1> QED
  BY <1>1, <1>2, <1>3, <1>4 DEF CountInv

LEMMA StepKeepsCount ==
  ASSUME Forced = {}, WorkerInv, CountInv, [WorkerNext]_allVars
  PROVE  CountInv'
<1>a. /\ IInv /\ TaskOK /\ WorkerOwnsItsJob /\ CallsOK /\ [Next]_vars
      /\ calls \in Seq(Call) /\ seg \in Nat /\ NSegments \in Nat
  BY StepMovesQueue, WorkerAssumption DEF WorkerInv, CallsOK
<1>b. /\ DOMAIN done = Jobs /\ seg >= 1 /\ (pc # "work" => fresh = {})
      /\ (pc = "work" /\ Kind(task.job) # "TRANSLATE") =>
           /\ fresh = {}
           /\ stage \in {"call", "marked", "wait", "store"} =>
                (seg <= NSegments /\ seg \notin done[task.job])
  BY DEF CountInv, SegmentOK
<1>c. Busy => /\ task.job \in Jobs /\ status[task.job] \in Live
              /\ (task' = task => Kind(task.job)' = Kind(task.job))
  <2>1. Busy => task.job \in Jobs /\ status[task.job] \in Live
    BY <1>a DEF TaskOK, WorkerOwnsItsJob
  <2>2. Busy => key'[task.job] = key[task.job]
    BY <1>a, <2>1, QueueKeepsStopped DEF Live
  <2> QED
    BY <2>1, <2>2 DEF Kind
<1>d. ASSUME calls' \in {calls, Answered}, UNCHANGED done, SegmentOK',
             \A j \in Jobs : (Counted(j)' /\ BeforeRequest(j)') =>
               (BeforeRequest(j) \/ Len(attempts'[j]) = Len(attempts[j]) + 1)
      PROVE  CountInv'
  <2>1. \A j \in Jobs : CallsOf(j)' = CallsOf(j)
    BY <1>a, <1>d, AnsweredKeepsCalls DEF CallsOf
  <2>2. ASSUME NEW j \in Jobs, Counted(j)' PROVE CountOK(j)'
    <3>1. Counted(j) /\ CountOK(j)
      BY <1>a, <2>2, QueueKeepsAttempts DEF CountInv
    <3> QED
      BY <1>a, <1>d, <2>1, <2>2, <3>1, CountKept
  <2> QED
    BY <1>b, <1>d, <2>2 DEF CountInv
<1>1. CASE UNCHANGED allVars \/ HeartbeatStep \/ HeartbeatRefused \/ HeartbeatBlocked \/ EnqueueStep
           \/ CancelStep \/ GrantRetryStep \/ RetryStep \/ ClockStep
  <2>1. UNCHANGED <<calls, seg, pc, task, stage, done, fresh>>
    BY <1>1 DEF allVars, workerVars, handlerVars, HeartbeatStep, HeartbeatRefused, HeartbeatBlocked,
       EnqueueStep, CancelStep, GrantRetryStep, RetryStep, ClockStep
  <2>2. pc = "work" => Kind(task.job)' = Kind(task.job)
    BY <1>c, <2>1 DEF Busy
  <2>3. SegmentOK'
    BY <1>b, <2>1, <2>2 DEF SegmentOK
  <2>4. \A j \in Jobs : BeforeRequest(j)' => BeforeRequest(j)
    BY <2>1 DEF BeforeRequest
  <2> QED
    BY <1>d, <2>1, <2>3, <2>4
<1>2. CASE RecoverStep \/ IdleStep \/ FinishStep \/ EndStep \/ RefusedStep \/ Crash \/ Restart
           \/ CanceledStep \/ RaiseStep \/ LostAnswerStep
  <2>1. /\ calls' \in {calls, Answered} /\ UNCHANGED done /\ seg' >= 1 /\ fresh' = {}
        /\ pc' \notin {"check", "work"}
    BY <1>2, <1>b DEF RecoverStep, IdleStep, FinishStep, EndStep, AfterJob, RefusedStep, Crash, Dies,
       HandlerOver, Restart, handlerVars, CanceledStep, RaiseStep, LostAnswerStep, Ending
  <2>2. SegmentOK' /\ \A j \in Jobs : ~BeforeRequest(j)'
    BY <2>1 DEF SegmentOK, BeforeRequest
  <2> QED
    BY <1>d, <2>1, <2>2
<1>3. CASE ClaimStep
  <2>1. PICK i \in Jobs : Claim(i, Me) /\ task' = [job |-> i, no |-> Len(attempts[i]) + 1]
    BY <1>3 DEF ClaimStep
  <2>2. pc = "claim" /\ pc' = "check" /\ UNCHANGED <<seg, stage, fresh, done, calls>>
    BY <1>3 DEF ClaimStep, handlerVars
  <2>3. Len(attempts'[i]) = Len(attempts[i]) + 1
    <3>1. attempts' = [attempts EXCEPT ![i] = Append(@, [outcome |-> Open, sent |-> FALSE])]
      BY <2>1 DEF Claim
    <3>2. attempts[i] \in Seq(Attempt) /\ attempts \in [Jobs -> Seq(Attempt)]
      BY <1>a DEF IInv, TypeOK
    <3>3. [outcome |-> Open, sent |-> FALSE] \in Attempt
      BY DEF Attempt, Open
    <3>4. attempts'[i] = Append(attempts[i], [outcome |-> Open, sent |-> FALSE])
      BY <3>1, <3>2
    <3> QED
      BY <3>2, <3>3, <3>4, AppendProperties
  <2>4. SegmentOK' /\ \A j \in Jobs : BeforeRequest(j)' => j = i
    BY <1>b, <2>1, <2>2 DEF SegmentOK, BeforeRequest
  <2> QED
    BY <1>d, <2>2, <2>3, <2>4
<1>4. CASE CheckStep
  <2>1. pc = "check" /\ stage = "enter" /\ UNCHANGED <<seg, stage, fresh, done, calls, task>>
    BY <1>4, <1>a DEF CheckStep, TaskOK, handlerVars
  <2>2. SegmentOK' /\ \A j \in Jobs : BeforeRequest(j)' => BeforeRequest(j)
    BY <1>b, <2>1 DEF SegmentOK, BeforeRequest
  <2> QED
    BY <1>d, <2>1, <2>2
<1>5. CASE EnterStep \/ ReuseStep \/ MarkStep \/ ReviewStep \/ SummarizeStep \/ PrepareStep
  <2>1. /\ UNCHANGED <<calls, pc, task, fresh, done>> /\ pc = "work" /\ seg' >= 1
        /\ stage \notin {"wait", "store"}
        /\ \/ stage' = "next"
           \/ stage' = "call" /\ seg <= NSegments /\ ~Reusable(task.job, seg) /\ UNCHANGED seg
           \/ stage' = "marked" /\ stage = "call" /\ UNCHANGED seg
    BY <1>5, <1>a, <1>b DEF EnterStep, ReuseStep, MarkStep, ReviewStep, SummarizeStep, PrepareStep,
       LocalStep, AtWork
  <2>2. Kind(task.job)' = Kind(task.job)
    BY <1>c, <2>1 DEF Busy
  <2>3. ~Reusable(task.job, seg) => seg \notin done[task.job]
    BY DEF Reusable
  <2>4. SegmentOK'
    BY <1>b, <2>1, <2>2, <2>3 DEF SegmentOK
  <2>5. \A j \in Jobs : BeforeRequest(j)' => BeforeRequest(j)
    BY <2>1 DEF BeforeRequest
  <2> QED
    BY <1>d, <2>1, <2>4, <2>5
<1>6. CASE SendStep
  BY <1>6, SendKeepsCount
<1>7. CASE CommitStep
  BY <1>7, CommitKeepsCount
<1>8. CASE AnswerStep
  <2>1. /\ calls' = Answered /\ UNCHANGED <<done, pc, task>> /\ pc = "work" /\ stage = "wait"
        /\ IF Kind(task.job) = "TRANSLATE" THEN seg' = seg + 1
           ELSE stage' = "store" /\ UNCHANGED <<seg, fresh>>
    BY <1>8 DEF AnswerStep, AtWork, OneTransaction
  <2>2. Kind(task.job)' = Kind(task.job) /\ status[task.job] \in Live
    BY <1>c, <2>1 DEF Busy
  <2>3. SegmentOK'
    BY <1>a, <1>b, <2>1, <2>2 DEF SegmentOK
  <2>4. ASSUME NEW j \in Jobs, Counted(j)' PROVE ~BeforeRequest(j)'
    <3>1. Counted(j)
      BY <1>a, <2>4, QueueKeepsAttempts
    <3>2. j = task.job => Kind(j) # "TRANSLATE"
      BY <2>2, <3>1 DEF Counted, Live
    <3> QED
      BY <2>1, <3>2 DEF BeforeRequest
  <2> QED
    BY <1>d, <2>1, <2>3, <2>4
<1>9. CASE ReturnStep
  <2>1. /\ pc = "work" /\ pc' = "finish" /\ seg' = 1 /\ fresh' = {} /\ UNCHANGED <<vars, calls>>
        /\ done' = [done EXCEPT ![task.job] = @ \union fresh]
    BY <1>9 DEF ReturnStep, AtWork, HandlerOver
  <2>2. SegmentOK' /\ DOMAIN done' = Jobs /\ \A j \in Jobs : ~BeforeRequest(j)'
    BY <1>b, <2>1 DEF SegmentOK, BeforeRequest
  <2>3. ASSUME NEW j \in Jobs, Counted(j)' PROVE CountOK(j)'
    <3>1. Counted(j) /\ CountOK(j)
      BY <1>a, <2>3, QueueKeepsAttempts DEF CountInv
    <3>2. done'[j] = done[j]
      <4>1. CASE j # task.job
        BY <1>b, <2>1, <4>1
      <4>2. CASE j = task.job
        <5>1. status[j] \in Live
          BY <1>c, <2>1, <4>2 DEF Busy
        <5>2. fresh = {}
          BY <1>b, <2>1, <3>1, <4>2, <5>1 DEF Counted, Live
        <5> QED
          BY <1>b, <2>1, <4>2, <5>2
      <4> QED
        BY <4>1, <4>2
    <3>3. CallsOf(j)' = CallsOf(j)
      BY <2>1 DEF CallsOf
    <3> QED
      BY <1>a, <2>2, <3>1, <3>2, <3>3, CountKept
  <2> QED
    BY <2>2, <2>3 DEF CountInv
<1> QED
  BY <1>1, <1>2, <1>3, <1>4, <1>5, <1>6, <1>7, <1>8, <1>9 DEF WorkerNext, RunStep, HandlerStep

-----------------------------------------------------------------------------
(* The theorems.                                                           *)

LEMMA WorkerStart == WorkerInit => WorkerInv
<1> SUFFICES ASSUME WorkerInit PROVE WorkerInv
  OBVIOUS
<1>1. IInv /\ calls = << >> /\ seg = 1 /\ pc = "recover" /\ stage = "enter" /\ granted = {}
  BY InitEstablishesInv DEF WorkerInit
<1>2. \A j \in Jobs : LateCalls(j) = {}
  BY <1>1 DEF LateCalls, CallsOf
<1> QED
  BY <1>1, <1>2 DEF WorkerInv, TaskOK, Busy, WorkerOwnsItsJob, CallsOK, LateOK, RowsOK, WorkerInit

LEMMA WorkerStep == WorkerInv /\ [WorkerNext]_allVars => WorkerInv' /\ [Next]_vars
BY StepMovesQueue, NextKeepsInv, StepKeepsTask, StepKeepsOwner, StepKeepsCalls, StepKeepsRows
   DEF WorkerInv

THEOREM WorkerInvariant == WorkerSpec => []WorkerInv
BY WorkerStart, WorkerStep, PTL DEF WorkerSpec

\* The worker, crashing and restarting as it may, implements the queue's specification
\* (backend/app/worker.py run_once): every theorem about the queue is one about the worker.
THEOREM WorkerKeepsQueue == WorkerSpec => QueueSpec
<1>1. WorkerInit => Init
  BY DEF WorkerInit
<1> QED
  BY <1>1, WorkerInvariant, WorkerStep, PTL DEF WorkerSpec, QueueSpec, Spec

\* With crashes, lost leases and retries of the same failure granted twice, a request that
\* may have been sent is never followed by another attempt.
THEOREM WorkerNeverResends == WorkerSpec => [](SentNeverResent /\ CancelSticks)
<1>1. WorkerInv => SentNeverResent /\ CancelSticks
  BY DEF WorkerInv, IInv, JobOK, SentNeverResent, CancelSticks
<1> QED
  BY <1>1, WorkerInvariant, PTL

\* Neither the user nor recovery takes the job from under the thread that works on it.
THEOREM JobStaysWithItsWorker == WorkerSpec => []WorkerOwnsItsJob
<1>1. WorkerInv => WorkerOwnsItsJob
  BY DEF WorkerInv
<1> QED
  BY <1>1, WorkerInvariant, PTL

\* Work that is done again, after a crash between its commit and the completion of the
\* job, records nothing twice.
THEOREM NothingRecordedTwice == WorkerSpec => []RecordedOnce
<1>1. ASSUME WorkerInv PROVE RecordedOnce
  <2>1. ASSUME NEW j \in Jobs, NEW s \in 1..NSegments PROVE rows[j][s] <= 1
    <3>1. rows[j][s] \in {0, 1}
      BY <1>1 DEF WorkerInv, RowsOK
    <3> QED
      BY <3>1
  <2> QED
    BY <2>1 DEF RecordedOnce
<1> QED
  BY <1>1, WorkerInvariant, PTL

\* After a cancel, one request at most: the one whose segment had been begun.
THEOREM CancelStops == WorkerSpec => []CancelStopsRequests
<1>1. ASSUME WorkerInv, NEW j \in Jobs, Kind(j) # "TRANSLATE"
      PROVE  Cardinality({i \in CallsOf(j) : calls[i].late}) <= 1
  <2>1. \A i, k \in LateCalls(j) : i = k
    BY <1>1 DEF WorkerInv, CallsOK, LateOK
  <2>2. CASE LateCalls(j) = {}
    <3>1. Cardinality(LateCalls(j)) = 0
      BY <2>2, FS_EmptySet
    <3> QED
      BY <3>1 DEF LateCalls
  <2>3. CASE LateCalls(j) # {}
    <3>1. PICK i \in LateCalls(j) : TRUE
      BY <2>3
    <3>2. LateCalls(j) = {i}
      BY <2>1, <3>1
    <3>3. Cardinality({i}) = 1
      BY FS_Singleton
    <3>4. Cardinality(LateCalls(j)) = 1
      BY <3>2, <3>3
    <3> QED
      BY <3>4 DEF LateCalls
  <2> QED
    BY <2>2, <2>3
<1>2. WorkerInv => CancelStopsRequests
  BY <1>1 DEF CancelStopsRequests
<1> QED
  BY <1>2, WorkerInvariant, PTL
\* Without segments the user forced to be rendered again, what was rendered and committed
\* before a crash, an error or a lost lease is not paid for again.
THEOREM RendersOnlyWhatIsMissing ==
  ASSUME Forced = {}
  PROVE  WorkerSpec => []ResumesWhereItStopped
<1>1. WorkerInit => CountInv
  <2> SUFFICES ASSUME WorkerInit PROVE CountInv
    OBVIOUS
  <2>1. /\ calls = << >> /\ seg = 1 /\ pc = "recover" /\ fresh = {} /\ done = [j \in Jobs |-> {}]
        /\ Init /\ IInv
    BY InitEstablishesInv DEF WorkerInit
  <2>2. ASSUME NEW j \in Jobs PROVE CountOK(j)
    <3>1. CallsOf(j) = {} /\ done[j] = {} /\ status[j] \notin Live /\ ~BeforeRequest(j)
      BY <2>1 DEF CallsOf, BeforeRequest, Init, Live
    <3>2. Cardinality({}) = 0
      BY FS_EmptySet
    <3>3. Len(attempts[j]) \in Nat
      BY <2>1, CurrentIsLast DEF IInv, JobOK
    <3> QED
      BY <3>1, <3>2, <3>3 DEF CountOK
  <2> QED
    BY <2>1, <2>2 DEF CountInv, SegmentOK
<1>2. ASSUME WorkerInv, CountInv PROVE ResumesWhereItStopped
  <2> SUFFICES ASSUME NEW j \in Jobs, Kind(j) # "TRANSLATE"
               PROVE  Cardinality(CallsOf(j)) <=
                        NSegments + Cardinality(DOMAIN attempts[j] \ OpenAttempts(j))
    BY DEF ResumesWhereItStopped
  <2> DEFINE n == Len(attempts[j])
             c == Cardinality(CallsOf(j))
             d == Cardinality(done[j])
             closed == DOMAIN attempts[j] \ OpenAttempts(j)
  <2>1. CountOK(j) /\ TypeOK /\ LeaseMatches(j) /\ calls \in Seq(Call) /\ NSegments \in Nat
    BY <1>2, WorkerAssumption DEF CountInv, Counted, WorkerInv, IInv, JobOK, CallsOK
  <2>2. c \in Nat /\ d \in Nat /\ d <= NSegments
    BY <2>1, CountsAreNumbers DEF CountOK
  <2>3. n \in Nat /\ DOMAIN attempts[j] = 1..n
    BY <2>1, CurrentIsLast
  <2>4. \A m \in Nat : Cardinality(1..m) = m
    <3> TAKE m \in Nat
    <3>1. Cardinality(1..m) = IF 1 > m THEN 0 ELSE m - 1 + 1
      BY FS_Interval
    <3> QED
      BY <3>1
  <2>5. CASE status[j] \in Live
    <3>1. OpenAttempts(j) = {n} /\ n >= 1
      BY <2>1, <2>3, <2>5 DEF LeaseMatches, OpenAttempts
    <3>2. closed = 1..(n - 1) /\ n - 1 \in Nat
      BY <2>3, <3>1
    <3>3. Cardinality(closed) = n - 1
      BY <2>4, <3>2
    <3>4. c <= d + n /\ (c < d + n \/ d < NSegments)
      BY <2>1, <2>5 DEF CountOK
    <3> HIDE DEF c, d, n, closed
    <3>5. c <= NSegments + (n - 1)
      BY <2>1, <2>2, <2>3, <3>4
    <3> QED
      BY <3>3, <3>5 DEF c, closed
  <2>6. CASE status[j] \notin Live
    <3>1. OpenAttempts(j) = {}
      BY <2>1, <2>3, <2>6 DEF LeaseMatches, OpenAttempts
    <3>2. Cardinality(closed) = n
      BY <2>3, <2>4, <3>1
    <3>3. c <= d + n
      BY <2>1 DEF CountOK
    <3> HIDE DEF c, d, n, closed
    <3>4. c <= NSegments + n
      BY <2>1, <2>2, <2>3, <3>3
    <3> QED
      BY <3>2, <3>4 DEF c, closed
  <2> QED
    BY <2>5, <2>6
<1>3. WorkerInv /\ CountInv /\ [WorkerNext]_allVars => CountInv'
  BY StepKeepsCount
<1> QED
  BY <1>1, <1>2, <1>3, WorkerInvariant, PTL DEF WorkerSpec
=============================================================================
