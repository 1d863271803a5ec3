---------------------------- MODULE JobLifecycle ----------------------------
(***************************************************************************)
(* What the queue promises about each job, whatever the calls that reach   *)
(* it: the phases a job may go through, and that a job whose provider      *)
(* request may have been sent is never put back in line.                   *)
(***************************************************************************)
CONSTANT Jobs

VARIABLES
  phase,        \* [Jobs -> phase]
  dispatched    \* [Jobs -> BOOLEAN]: a provider may have been charged for the job

vars == <<phase, dispatched>>

Ended == {"SUCCEEDED", "FAILED", "CANCELED", "BILLING_UNKNOWN"}

Init ==
  /\ phase = [j \in Jobs |-> "ABSENT"]
  /\ dispatched = [j \in Jobs |-> FALSE]

Submit(j) == phase[j] = "ABSENT" /\ phase'[j] = "QUEUED" /\ dispatched'[j] = dispatched[j]

Start(j) ==
  /\ phase[j] = "QUEUED" /\ ~dispatched[j]
  /\ phase'[j] = "RUNNING" /\ ~dispatched'[j]

Dispatch(j) ==
  /\ phase[j] \in {"RUNNING", "CANCEL_REQUESTED"}
  /\ phase'[j] = phase[j] /\ dispatched'[j]

Cancel(j) ==
  /\ \/ phase[j] = "QUEUED" /\ phase'[j] = "CANCELED"
     \/ phase[j] = "RUNNING" /\ phase'[j] = "CANCEL_REQUESTED"
  /\ dispatched'[j] = dispatched[j]

Requeue(j) ==
  /\ phase[j] \in {"RUNNING", "FAILED"} /\ ~dispatched[j]
  /\ phase'[j] = "QUEUED" /\ ~dispatched'[j]

Succeed(j) ==
  /\ phase[j] = "RUNNING" /\ phase'[j] = "SUCCEEDED"
  /\ dispatched'[j] = dispatched[j]

GiveUp(j) ==
  /\ phase[j] = "RUNNING" /\ ~dispatched[j]
  /\ phase'[j] = "FAILED" /\ ~dispatched'[j]

StopForCancel(j) ==
  /\ phase[j] = "CANCEL_REQUESTED" /\ phase'[j] = "CANCELED"
  /\ dispatched'[j] = dispatched[j]

LeaveUnsettled(j) ==
  /\ phase[j] \in {"RUNNING", "CANCEL_REQUESTED"}
  /\ phase'[j] = "BILLING_UNKNOWN" /\ dispatched'[j]

Stay(j) == phase'[j] = phase[j] /\ dispatched'[j] = dispatched[j]

Move(j) ==
  \/ Submit(j) \/ Start(j) \/ Dispatch(j) \/ Cancel(j) \/ Requeue(j) \/ Succeed(j)
  \/ GiveUp(j) \/ StopForCancel(j) \/ LeaveUnsettled(j) \/ Stay(j)

(***************************************************************************)
(* One step may move several jobs: recovery settles every expired lease in *)
(* one transaction.                                                        *)
(***************************************************************************)
Next ==
  /\ DOMAIN phase' = Jobs
  /\ DOMAIN dispatched' = Jobs
  /\ \A j \in Jobs : Move(j)

Spec == Init /\ [][Next]_vars
=============================================================================
