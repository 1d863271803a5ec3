--------------------------- MODULE JobQueueProofs ---------------------------
(***************************************************************************)
(* What TLAPS proves about JobQueue for every set of jobs, keys, workers   *)
(* and error records, and for every choice of its timing constants.        *)
(***************************************************************************)
EXTENDS JobQueue, SequenceTheorems, TLAPS

(***************************************************************************)
(* The inductive invariant.  Everything about one job is in JobOK(j), a    *)
(* predicate of that job's columns and attempts alone.  FeedHasTop says    *)
(* that a feed with a row has a newest one: without it the maximum in      *)
(* NextSequence would not be known to be the number of any row.            *)
(***************************************************************************)
JobOK(j) ==
  /\ LeaseMatches(j)
  /\ SentIsLast(j)
  /\ HistoryFits(j)
  /\ RetryBounded(j)
  /\ CancelKept(j)

FeedHasTop ==
  eventLog # {} => \E r \in eventLog : \A s \in eventLog : s.seq <= r.seq

FeedTyped == eventLog \in SUBSET Marker /\ FeedHasTop

FeedOK == FeedTyped /\ OneMarkerPerJob

IInv ==
  /\ TypeOK
  /\ FeedOK
  /\ \A j \in Jobs : JobOK(j)

-----------------------------------------------------------------------------
(* The feed.                                                               *)

\* The number SQLite gives a new row is larger than every number in the feed.
LEMMA NextSequenceIsNewest ==
  ASSUME FeedTyped
  PROVE  /\ NextSequence(eventLog) \in Nat \ {0}
         /\ \A r \in eventLog : r.seq < NextSequence(eventLog)
<1> DEFINE S == {0} \union {r.seq : r \in eventLog}
<1>1. \A r \in eventLog : r.seq \in Nat \ {0}
  BY DEF FeedTyped, Marker
<1>2. \E m \in S : \A x \in S : m >= x
  <2>1. CASE eventLog = {}
    BY <2>1
  <2>2. CASE eventLog # {}
    <3>1. PICK r \in eventLog : \A s \in eventLog : s.seq <= r.seq
      BY <2>2 DEF FeedTyped, FeedHasTop
    <3>2. r.seq \in S /\ \A x \in S : r.seq >= x
      BY <1>1, <3>1
    <3> QED
      BY <3>2
  <2> QED
    BY <2>1, <2>2
<1>3. Max(S) \in S /\ \A x \in S : Max(S) >= x
  BY <1>2 DEF Max
<1>4. Max(S) \in Nat
  BY <1>1, <1>3
<1> QED
  BY <1>1, <1>3, <1>4 DEF NextSequence

\* A row added with the next number keeps the feed in order.
LEMMA EmitKeepsFeed ==
  ASSUME FeedOK, NEW j \in Jobs, eventLog' = EmitJobEvent(eventLog, j)
  PROVE  FeedOK'
<1> DEFINE new == [seq |-> NextSequence(eventLog), job |-> j]
<1>1. new \in Marker /\ \A r \in eventLog : r.seq < new.seq
  BY NextSequenceIsNewest DEF FeedOK, FeedTyped, Marker
<1>2. CASE \E r \in eventLog : r.job = j
  BY <1>2 DEF EmitJobEvent, FeedOK, FeedTyped, FeedHasTop, OneMarkerPerJob
<1>3. CASE ~ \E r \in eventLog : r.job = j
  <2>1. eventLog' = eventLog \union {new}
    BY <1>3 DEF EmitJobEvent
  <2>2. \A r \in eventLog' : r.seq <= new.seq
    BY <1>1, <2>1 DEF FeedOK, FeedTyped, Marker
  <2>3. OneMarkerPerJob'
    BY <1>3, <2>1 DEF FeedOK, FeedTyped, OneMarkerPerJob
  <2> QED
    BY <1>1, <2>1, <2>2, <2>3 DEF FeedOK, FeedTyped, FeedHasTop
<1> QED
  BY <1>2, <1>3

\* Inserting before deleting leaves the new row as the job's only one.
LEMMA ReplacedLog ==
  ASSUME FeedTyped, NEW j \in Jobs
  PROVE  LET new == [seq |-> NextSequence(eventLog), job |-> j]
         IN  /\ new \in Marker /\ \A r \in eventLog : r.seq \in Nat /\ r.seq < new.seq
             /\ ReplaceJobEvent(eventLog, j) = {r \in eventLog : r.job # j} \union {new}
<1> DEFINE new == [seq |-> NextSequence(eventLog), job |-> j]
           added == eventLog \union {new}
<1>1. new \in Marker /\ \A r \in eventLog : r.seq \in Nat /\ r.seq < new.seq
  BY NextSequenceIsNewest DEF FeedTyped, Marker
<1>2. new.job = j /\ new.seq \in Nat
  BY <1>1 DEF Marker
<1>3. \A s \in added : s.seq <= new.seq
  BY <1>1, <1>2
<1>4. \A r \in eventLog : ~(new.seq <= r.seq)
  BY <1>1, <1>2
<1>5. ReplaceJobEvent(eventLog, j)
        = {r \in added : r.job = j => \A s \in added : s.job = j => s.seq <= r.seq}
  BY DEF ReplaceJobEvent
<1>6. ReplaceJobEvent(eventLog, j) = {r \in eventLog : r.job # j} \union {new}
  <2> HIDE DEF new
  <2> QED
    BY <1>2, <1>3, <1>4, <1>5
<1> QED
  BY <1>1, <1>6

LEMMA ReplaceKeepsFeed ==
  ASSUME FeedOK, NEW j \in Jobs, eventLog' = ReplaceJobEvent(eventLog, j)
  PROVE  /\ FeedOK'
         /\ \A r \in eventLog' \ eventLog : \A s \in eventLog : s.seq < r.seq
<1> DEFINE new == [seq |-> NextSequence(eventLog), job |-> j]
<1>1. /\ new \in Marker /\ \A r \in eventLog : r.seq \in Nat /\ r.seq < new.seq
      /\ eventLog' = {r \in eventLog : r.job # j} \union {new}
  BY ReplacedLog DEF FeedOK
<1>2. \A r \in eventLog' : r.seq <= new.seq
  BY <1>1 DEF Marker
<1>3. OneMarkerPerJob'
  BY <1>1 DEF FeedOK, FeedTyped, OneMarkerPerJob
<1> QED
  BY <1>1, <1>2, <1>3 DEF FeedOK, FeedTyped, FeedHasTop

-----------------------------------------------------------------------------
(* Attempts.                                                               *)

\* Closing the open attempt of a live job changes its outcome and nothing else.
LEMMA ClosedAsFacts ==
  ASSUME TypeOK, NEW j \in Jobs, LeaseMatches(j), status[j] \in Live,
         NEW out \in Outcomes
  PROVE  LET c == ClosedAs(j, out)
             len == Len(attempts[j])
         IN  /\ c \in Seq(Attempt) /\ Len(c) = len /\ len \in Nat \ {0}
             /\ DOMAIN c = 1..len /\ DOMAIN attempts[j] = 1..len
             /\ \A n \in 1..len : n # len => c[n] = attempts[j][n]
             /\ c[len].outcome = out /\ c[len].sent = attempts[j][len].sent
<1> DEFINE c == ClosedAs(j, out)
           len == Len(attempts[j])
<1>1. attempts[j] \in Seq(Attempt)
  BY DEF TypeOK
<1>2. len \in Nat \ {0} /\ DOMAIN attempts[j] = 1..len
  BY <1>1, LenProperties DEF LeaseMatches
<1>3. \A n \in 1..len : attempts[j][n] \in Attempt
  BY <1>1, <1>2, ElementOfSeq
<1>4. \A n \in 1..len : IsCurrentAttempt(j, n) <=> n = len
  BY <1>2 DEF LeaseMatches, IsCurrentAttempt, OpenAttempts
<1>5. c = [n \in 1..len |-> IF n = len THEN [attempts[j][n] EXCEPT !.outcome = out]
                                       ELSE attempts[j][n]]
  BY <1>2, <1>4 DEF ClosedAs
<1>6. \A n \in 1..len : [attempts[j][n] EXCEPT !.outcome = out] \in Attempt
  BY <1>3 DEF Attempt
<1>7. c \in [1..len -> Attempt]
  BY <1>3, <1>5, <1>6
<1>8. c \in Seq(Attempt) /\ Len(c) = len
  <2>1. c \in Seq(Attempt)
    BY <1>2, <1>7, SeqDef
  <2>2. Len(c) \in Nat /\ DOMAIN c = 1..Len(c)
    BY <2>1, LenProperties
  <2>3. DOMAIN c = 1..len
    BY <1>7
  <2> QED
    BY <1>2, <2>1, <2>2, <2>3
<1>9. c[len].outcome = out /\ c[len].sent = attempts[j][len].sent
  BY <1>2, <1>3, <1>5 DEF Attempt
<1> QED
  BY <1>2, <1>5, <1>8, <1>9

-----------------------------------------------------------------------------
(***************************************************************************)
(* What a step may do to one job.  Every action of Next is, for each job,  *)
(* one of these; the invariant, the action properties and the refinement   *)
(* are then proved of these and not of the actions one by one.             *)
(***************************************************************************)
Same(j) ==
  /\ status'[j] = status[j] /\ owner'[j] = owner[j]
  /\ cancelAsked'[j] = cancelAsked[j] /\ attempts'[j] = attempts[j]

Created(j) ==
  /\ status[j] = "ABSENT" /\ status'[j] = "QUEUED" /\ owner'[j] = owner[j]
  /\ cancelAsked'[j] = cancelAsked[j] /\ attempts'[j] = attempts[j]

Claimed(j) ==
  /\ status[j] = "QUEUED" /\ status'[j] = "RUNNING" /\ owner'[j] \in Workers
  /\ cancelAsked'[j] = cancelAsked[j]
  /\ attempts'[j] = Append(attempts[j], [outcome |-> Open, sent |-> FALSE])

Marked(j) ==
  /\ status[j] \in Live /\ status'[j] = status[j] /\ owner'[j] = owner[j]
  /\ cancelAsked'[j] = cancelAsked[j]
  /\ \E n \in OpenAttempts(j) : attempts'[j] = [attempts[j] EXCEPT ![n].sent = TRUE]

Canceling(j) ==
  /\ \/ status[j] = "QUEUED" /\ status'[j] = "CANCELED"
     \/ status[j] \in Live /\ status'[j] = "CANCEL_REQUESTED"
  /\ owner'[j] = owner[j] /\ cancelAsked'[j] /\ attempts'[j] = attempts[j]

Retried(j) ==
  /\ status[j] = "FAILED" /\ status'[j] = "QUEUED" /\ owner'[j] = NoWorker
  /\ ~cancelAsked'[j] /\ attempts'[j] = attempts[j]

\* A sent request leads to BILLING_UNKNOWN, an accepted cancel or a success.
EndsAs(j, out) ==
  /\ status[j] \in Live /\ owner'[j] = NoWorker
  /\ cancelAsked'[j] = cancelAsked[j] /\ attempts'[j] = ClosedAs(j, out)
  /\ \/ status'[j] = out /\ out = "BILLING_UNKNOWN"
     \/ status'[j] = out /\ out = "CANCELED" /\ status[j] = "CANCEL_REQUESTED"
     \/ status'[j] = out /\ out = "SUCCEEDED" /\ status[j] = "RUNNING"
     \/ status'[j] = out /\ out = "FAILED" /\ status[j] = "RUNNING" /\ ~CurrentSent(j)
     \/ /\ status'[j] = "QUEUED" /\ status[j] = "RUNNING" /\ ~CurrentSent(j)
        /\ out \in {"RETRY", "EXPIRED_RETRY"} /\ Len(attempts[j]) <= MaxRetryableAttempt

Ends(j) == \E out \in Outcomes : EndsAs(j, out)

JobStep(j) ==
  \/ Same(j) \/ Created(j) \/ Claimed(j) \/ Marked(j) \/ Canceling(j) \/ Retried(j) \/ Ends(j)

\* The attempt a live job is on is its last one.
LEMMA CurrentIsLast ==
  ASSUME TypeOK, NEW j \in Jobs, LeaseMatches(j)
  PROVE  /\ attempts[j] \in Seq(Attempt) /\ Len(attempts[j]) \in Nat
         /\ DOMAIN attempts[j] = 1..Len(attempts[j])
         /\ \A n \in 1..Len(attempts[j]) : attempts[j][n] \in Attempt
         /\ \A n : IsCurrentAttempt(j, n) <=>
                     status[j] \in Live /\ n = Len(attempts[j])
         /\ status[j] \in Live => (CurrentSent(j) <=> attempts[j][Len(attempts[j])].sent)
<1>1. attempts[j] \in Seq(Attempt)
  BY DEF TypeOK
<1>2. Len(attempts[j]) \in Nat /\ DOMAIN attempts[j] = 1..Len(attempts[j])
  BY <1>1, LenProperties
<1>3. \A n \in 1..Len(attempts[j]) : attempts[j][n] \in Attempt
  BY <1>1, <1>2, ElementOfSeq
<1>4. \A n : IsCurrentAttempt(j, n) <=> status[j] \in Live /\ n = Len(attempts[j])
  BY <1>2 DEF LeaseMatches, IsCurrentAttempt, OpenAttempts
<1>5. status[j] \in Live => (CurrentSent(j) <=> attempts[j][Len(attempts[j])].sent)
  BY <1>2, <1>4 DEF CurrentSent, LeaseMatches
<1> QED
  BY <1>1, <1>2, <1>3, <1>4, <1>5

\* Each kind of step keeps the job's part of the invariant.
LEMMA JobStepKeepsJobOK ==
  ASSUME TypeOK, NEW j \in Jobs, JobOK(j), JobStep(j)
  PROVE  JobOK(j)' /\ attempts'[j] \in Seq(Attempt)
<1> DEFINE len == Len(attempts[j])
<1>0. /\ LeaseMatches(j) /\ attempts[j] \in Seq(Attempt) /\ len \in Nat
      /\ DOMAIN attempts[j] = 1..len
      /\ \A n \in 1..len : attempts[j][n] \in Attempt
  BY CurrentIsLast DEF JobOK
<1>a. owner[j] \in Workers \union {NoWorker} /\ NoWorker \notin Workers
  BY QueueAssumption DEF TypeOK
<1> USE DEF JobOK, LeaseMatches, SentIsLast, HistoryFits, RetryBounded, CancelKept,
            LastOutcome, Live
<1>1. CASE Same(j)
  BY <1>0, <1>1 DEF Same
<1>2. CASE Created(j)
  BY <1>0, <1>2 DEF Created
<1>3. CASE Claimed(j)
  <2> DEFINE new == [outcome |-> Open, sent |-> FALSE]
  <2>1. new \in Attempt /\ ~MaySent(new)
    BY DEF Attempt, Open, MaySent
  <2>2. /\ attempts'[j] \in Seq(Attempt) /\ Len(attempts'[j]) = len + 1
        /\ \A n \in 1..len : attempts'[j][n] = attempts[j][n]
        /\ attempts'[j][len + 1] = new
    BY <1>0, <1>3, <2>1, AppendProperties DEF Claimed
  <2>3. DOMAIN attempts'[j] = 1..(len + 1)
    BY <2>2, LenProperties
  <2>4. new.outcome = Open
    OBVIOUS
  <2> HIDE DEF new
  <2>5. LeaseMatches(j)'
    BY <1>0, <1>a, <1>3, <2>2, <2>3, <2>4 DEF Claimed
  <2>6. SentIsLast(j)'
    BY <1>0, <1>3, <2>1, <2>2, <2>3 DEF Claimed
  <2>7. HistoryFits(j)'
    BY <1>0, <1>3, <2>2 DEF Claimed
  <2>8. RetryBounded(j)'
    <3>1. \A n \in 1..len : n <= len /\ (attempts[j][n].outcome \in {"RETRY", "EXPIRED_RETRY", "FAILED"})
      BY <1>0, <1>3 DEF Claimed
    <3> QED
      BY <1>0, <1>3, <2>2, <2>3, <2>4, <3>1 DEF Claimed, Open
  <2> QED
    BY <1>3, <2>2, <2>5, <2>6, <2>7, <2>8 DEF Claimed
<1>4. CASE Marked(j)
  <2>1. PICK n \in OpenAttempts(j) : attempts'[j] = [attempts[j] EXCEPT ![n].sent = TRUE]
    BY <1>4 DEF Marked
  <2>2. n = len /\ n \in 1..len
    BY <1>0, <2>1 DEF OpenAttempts
  <2>3. /\ DOMAIN attempts'[j] = 1..len
        /\ \A m \in 1..len : m # n => attempts'[j][m] = attempts[j][m]
        /\ attempts'[j][n] = [attempts[j][n] EXCEPT !.sent = TRUE]
    BY <1>0, <2>1, <2>2
  <2>4. \A m \in 1..len : attempts'[j][m] \in Attempt /\ attempts'[j][m].outcome = attempts[j][m].outcome
    <3>1. attempts[j][n] \in Attempt
      BY <1>0, <2>2
    <3>2. attempts'[j][n] \in Attempt /\ attempts'[j][n].outcome = attempts[j][n].outcome
      BY <2>3, <3>1 DEF Attempt
    <3>3. \A m \in 1..len : m = n \/ attempts'[j][m] = attempts[j][m]
      BY <2>3
    <3> QED
      BY <1>0, <3>2, <3>3
  <2>5. attempts'[j] \in [1..len -> Attempt]
    BY <1>0, <2>1, <2>3, <2>4
  <2>6. attempts'[j] \in Seq(Attempt) /\ Len(attempts'[j]) = len
    <3>1. attempts'[j] \in Seq(Attempt)
      BY <1>0, <2>5, SeqDef
    <3> QED
      BY <1>0, <2>3, <3>1, LenProperties
  <2>a. /\ status'[j] = status[j] /\ owner'[j] = owner[j]
        /\ cancelAsked'[j] = cancelAsked[j] /\ status[j] \in Live
    BY <1>4 DEF Marked
  <2>7. LeaseMatches(j)' /\ HistoryFits(j)' /\ RetryBounded(j)' /\ CancelKept(j)'
    BY <1>0, <2>2, <2>3, <2>4, <2>6, <2>a
  <2>b. \A m \in 1..len : m = len \/ attempts'[j][m] = attempts[j][m]
    BY <2>2, <2>3
  <2>8. SentIsLast(j)'
    BY <1>0, <2>3, <2>6, <2>a, <2>b DEF MaySent
  <2> QED
    BY <2>6, <2>7, <2>8
<1>5. CASE Canceling(j)
  BY <1>0, <1>a, <1>5 DEF Canceling
<1>6. CASE Retried(j)
  BY <1>0, <1>a, <1>6 DEF Retried
<1>7. CASE Ends(j)
  <2>1. PICK out \in Outcomes : EndsAs(j, out)
    BY <1>7 DEF Ends
  <2>2. /\ attempts'[j] \in Seq(Attempt) /\ Len(attempts'[j]) = len /\ len \in Nat \ {0}
        /\ DOMAIN attempts'[j] = 1..len
        /\ \A n \in 1..len : n # len => attempts'[j][n] = attempts[j][n]
        /\ attempts'[j][len].outcome = out /\ attempts'[j][len].sent = attempts[j][len].sent
    BY <2>1, ClosedAsFacts DEF EndsAs
  <2>3. CurrentSent(j) <=> attempts[j][len].sent
    BY <2>1, CurrentIsLast DEF EndsAs
  <2>4. out # Open
    BY DEF Outcomes, Open
  <2>5. LeaseMatches(j)'
    BY <1>0, <1>a, <2>1, <2>2, <2>4 DEF EndsAs
  <2>6. SentIsLast(j)'
    BY <1>0, <2>1, <2>2, <2>3 DEF EndsAs, MaySent
  <2>7. HistoryFits(j)'
    BY <2>1, <2>2 DEF EndsAs
  <2>8. RetryBounded(j)'
    BY <1>0, <2>1, <2>2 DEF EndsAs
  <2>9. CancelKept(j)'
    BY <2>1 DEF EndsAs
  <2> QED
    BY <2>2, <2>5, <2>6, <2>7, <2>8, <2>9
<1> QED
  BY <1>1, <1>2, <1>3, <1>4, <1>5, <1>6, <1>7 DEF JobStep

-----------------------------------------------------------------------------
(* Every action of Next is a step of one of those kinds for every job.     *)

\* A delay the classifier grants is a number of time units.
LEMMA GrantedDelay ==
  ASSUME NEW code, NEW n, NEW after \in Int \union {NoRetryAfter}, MayRetry(code, n, after)
  PROVE  RetryDelay(code, n, after) \in Nat /\ n <= MaxRetryableAttempt
<1>1. n \in 1..MaxRetryableAttempt /\ MaxRetryableAttempt \in Nat /\ MaxRetryAfter \in Nat
  BY RetryAssumption DEF MayRetry
<1>2. CASE code \in RateLimitCodes /\ after # NoRetryAfter
  <2>1. after \in Nat
    BY <1>2 DEF MayRetry, Retryable, RateLimitCodes, RetryableCodes, TransientHttpCodes
  <2>2. \A a, b \in Nat : Min({a, b}) \in Nat
    <3> SUFFICES ASSUME NEW a \in Nat, NEW b \in Nat PROVE Min({a, b}) \in Nat
      OBVIOUS
    <3>1. \E x \in {a, b} : \A y \in {a, b} : x =< y
      <4>1. CASE a <= b
        BY <4>1
      <4>2. CASE b <= a
        BY <4>2
      <4> QED
        BY <4>1, <4>2
    <3>2. Min({a, b}) \in {a, b}
      BY <3>1 DEF Min
    <3> QED
      BY <3>2
  <2> QED
    BY <1>1, <1>2, <2>1, <2>2 DEF RetryDelay
<1>3. CASE ~(code \in RateLimitCodes /\ after # NoRetryAfter)
  BY <1>1, <1>3, RetryAssumption DEF RetryDelay
<1> QED
  BY <1>1, <1>2, <1>3

\* The six columns of jobs whose types no lemma above speaks of.
ScalarsOK ==
  /\ status \in [Jobs -> Status]
  /\ key \in [Jobs -> Keys \union {NoKey}]
  /\ plan \in [Jobs -> Plans]
  /\ priority \in [Jobs -> Priorities \union {0}]
  /\ owner \in [Jobs -> Workers \union {NoWorker}]
  /\ lease \in [Jobs -> Int]
  /\ backoff \in [Jobs -> Nat]
  /\ cancelAsked \in [Jobs -> BOOLEAN]
  /\ errorCode \in [Jobs -> ErrorCodes \union {NoError}]
  /\ attempts = [j \in Jobs |-> attempts[j]]

\* Ending one attempt is an Ends step of its job and changes no other job.
LEMMA EndAttemptStep ==
  ASSUME TypeOK, NEW j \in Jobs, NEW out \in Outcomes, NEW st \in Status,
         NEW err \in ErrorCodes \union {NoError}, NEW d \in Nat,
         EndAttempt(j, out, st, err, d),
         status[j] \in Live,
         \/ st = out /\ out = "BILLING_UNKNOWN"
         \/ st = out /\ out = "CANCELED" /\ status[j] = "CANCEL_REQUESTED"
         \/ st = out /\ out = "SUCCEEDED" /\ status[j] = "RUNNING"
         \/ st = out /\ out = "FAILED" /\ status[j] = "RUNNING" /\ ~CurrentSent(j)
         \/ /\ st = "QUEUED" /\ status[j] = "RUNNING" /\ ~CurrentSent(j)
            /\ out \in {"RETRY", "EXPIRED_RETRY"} /\ Len(attempts[j]) <= MaxRetryableAttempt
  PROVE  ScalarsOK' /\ \A i \in Jobs : JobStep(i)
<1> USE DEF EndAttempt, DropLease, rowVars
<1>1. ScalarsOK'
  <2>1. attempts' = [i \in Jobs |-> attempts'[i]]
    BY DEF TypeOK
  <2> QED
    BY <2>1 DEF TypeOK, ScalarsOK
<1>2. /\ status'[j] = st /\ owner'[j] = NoWorker
      /\ cancelAsked' = cancelAsked /\ attempts'[j] = ClosedAs(j, out)
  BY DEF TypeOK
<1>3. EndsAs(j, out)
  BY <1>2 DEF EndsAs
<1>4. \A i \in Jobs : i # j => Same(i)
  BY DEF TypeOK, Same
<1> QED
  BY <1>1, <1>3, <1>4 DEF JobStep, Ends

\* Inserting, claiming, renewing, publishing: the steps that end no attempt.
LEMMA OtherSteps ==
  ASSUME TypeOK, NEW j \in Jobs,
         \/ \E k \in Keys, p \in Priorities, pl \in Plans : Enqueue(k, p, pl)
         \/ \E w \in Workers : Claim(j, w)
         \/ \E w \in Workers, n \in DOMAIN attempts[j] :
              Heartbeat(j, w, n) \/ MarkProviderSent(j, w, n)
         \/ UserCall(j)
         \/ Tick
  PROVE  ScalarsOK' /\ \A i \in Jobs : JobStep(i)
<1> USE DEF rowVars, JobStep
<1>1. ASSUME NEW k \in Keys, NEW p \in Priorities, NEW pl \in Plans, Enqueue(k, p, pl)
      PROVE  ScalarsOK' /\ \A i \in Jobs : JobStep(i)
  <2>1. CASE EnqueueKnown(k, p, pl)
    BY <2>1 DEF EnqueueKnown, vars, TypeOK, ScalarsOK, Same
  <2>2. CASE EnqueueNew(k, p, pl)
    <3>1. PICK m \in Jobs :
            /\ status[m] = "ABSENT"
            /\ status' = [status EXCEPT ![m] = "QUEUED"]
            /\ key' = [key EXCEPT ![m] = k]
            /\ priority' = [priority EXCEPT ![m] = p]
            /\ plan' = [plan EXCEPT ![m] = pl]
      BY <2>2 DEF EnqueueNew
    <3>2. UNCHANGED <<owner, lease, backoff, cancelAsked, errorCode, attempts>>
      BY <2>2 DEF EnqueueNew
    <3>3. ScalarsOK'
      BY <3>1, <3>2 DEF TypeOK, ScalarsOK, Status
    <3>4. Created(m) /\ \A i \in Jobs : i # m => Same(i)
      BY <3>1, <3>2 DEF TypeOK, Created, Same
    <3> QED
      BY <3>3, <3>4
  <2> QED
    BY <1>1, <2>1, <2>2 DEF Enqueue
<1>2. ASSUME NEW w \in Workers, Claim(j, w)
      PROVE  ScalarsOK' /\ \A i \in Jobs : JobStep(i)
  <2>1. ScalarsOK'
    <3>1. attempts' = [i \in Jobs |-> attempts'[i]]
      BY <1>2 DEF Claim, TypeOK
    <3>2. /\ status' \in [Jobs -> Status] /\ owner' \in [Jobs -> Workers \union {NoWorker}]
          /\ lease' \in [Jobs -> Int] /\ backoff' \in [Jobs -> Nat]
      BY <1>2, QueueAssumption DEF Claim, TypeOK, Status, Live
    <3>3. /\ key' \in [Jobs -> Keys \union {NoKey}] /\ plan' \in [Jobs -> Plans]
          /\ priority' \in [Jobs -> Priorities \union {0}] /\ cancelAsked' \in [Jobs -> BOOLEAN]
          /\ errorCode' \in [Jobs -> ErrorCodes \union {NoError}]
      BY <1>2 DEF Claim, TypeOK
    <3> QED
      BY <3>1, <3>2, <3>3 DEF ScalarsOK
  <2>2. Claimed(j) /\ \A i \in Jobs : i # j => Same(i)
    BY <1>2 DEF Claim, Due, TypeOK, Claimed, Same
  <2> QED
    BY <2>1, <2>2
<1>3. ASSUME NEW w \in Workers, NEW n \in DOMAIN attempts[j],
             Heartbeat(j, w, n) \/ MarkProviderSent(j, w, n)
      PROVE  ScalarsOK' /\ \A i \in Jobs : JobStep(i)
  <2>1. CASE Heartbeat(j, w, n)
    <3>1. ScalarsOK'
      BY <2>1, QueueAssumption DEF Heartbeat, TypeOK, ScalarsOK
    <3>2. \A i \in Jobs : Same(i)
      BY <2>1 DEF Heartbeat, Same
    <3> QED
      BY <3>1, <3>2
  <2>2. CASE MarkProviderSent(j, w, n)
    <3>1. ScalarsOK'
      BY <2>2 DEF MarkProviderSent, TypeOK, ScalarsOK
    <3>2. Marked(j) /\ \A i \in Jobs : i # j => Same(i)
      BY <2>2 DEF MarkProviderSent, TypeOK, Marked, Same
    <3> QED
      BY <3>1, <3>2
  <2> QED
    BY <1>3, <2>1, <2>2
<1>4. ASSUME UserCall(j)
      PROVE  ScalarsOK' /\ \A i \in Jobs : JobStep(i)
  <2>1. CASE RequestCancel(j)
    <3>1. ScalarsOK'
      BY <2>1 DEF RequestCancel, TypeOK, ScalarsOK, Status, Live, Terminal
    <3>2. status[j] = "QUEUED" \/ status[j] \in Live
      BY <2>1 DEF RequestCancel, TypeOK, Status
    <3>3. Canceling(j) /\ \A i \in Jobs : i # j => Same(i)
      BY <2>1, <3>2 DEF RequestCancel, TypeOK, Canceling, Same, Live
    <3> QED
      BY <3>1, <3>3
  <2>2. CASE RetryFailed(j)
    <3>1. ScalarsOK'
      BY <2>2 DEF RetryFailed, DropLease, TypeOK, ScalarsOK, Status
    <3>2. Retried(j) /\ \A i \in Jobs : i # j => Same(i)
      BY <2>2 DEF RetryFailed, DropLease, TypeOK, Retried, Same
    <3> QED
      BY <3>1, <3>2
  <2>3. ASSUME NEW n \in DOMAIN RetryDelays, Defer(j, RetryDelays[n])
        PROVE  ScalarsOK' /\ \A i \in Jobs : JobStep(i)
    <3>1. RetryDelays[n] \in Nat
      BY RetryAssumption
    <3> QED
      BY <2>3, <3>1 DEF Defer, TypeOK, ScalarsOK, Same
  <2> QED
    BY <1>4, <2>1, <2>2, <2>3 DEF UserCall
<1>5. ASSUME Tick PROVE ScalarsOK' /\ \A i \in Jobs : JobStep(i)
  BY <1>5 DEF Tick, TypeOK, ScalarsOK, Same
<1> QED
  BY <1>1, <1>2, <1>3, <1>4, <1>5

\* The worker's three ways of ending an attempt.
LEMMA WorkerEnds ==
  ASSUME TypeOK, NEW j \in Jobs, LeaseMatches(j), NEW w \in Workers,
         NEW n \in DOMAIN attempts[j],
         \/ AcknowledgeCancel(j, w, n)
         \/ Complete(j, w, n)
         \/ \E e \in Errors : Fail(j, w, n, e)
  PROVE  ScalarsOK' /\ \A i \in Jobs : JobStep(i)
<1> USE DEF HoldsLease, Live, Outcomes, Status, Terminal
<1>0. \A m : IsCurrentAttempt(j, m) <=> status[j] \in Live /\ m = Len(attempts[j])
  BY CurrentIsLast
<1>1. CASE AcknowledgeCancel(j, w, n)
  BY <1>1, EndAttemptStep DEF AcknowledgeCancel
<1>2. CASE Complete(j, w, n)
  BY <1>2, EndAttemptStep DEF Complete
<1>3. ASSUME NEW e \in Errors, Fail(j, w, n, e)
      PROVE  ScalarsOK' /\ \A i \in Jobs : JobStep(i)
  <2>0. e.code \in ErrorCodes /\ e.retryAfter \in Int \union {NoRetryAfter}
    BY QueueAssumption
  <2>1. CASE FailSent(j, w, n, e)
    BY <2>1, EndAttemptStep DEF FailSent, ErrorCodes, DefinitiveCodes
  <2>2. CASE FailRetry(j, w, n, e)
    <3>1. RetryDelay(e.code, n, e.retryAfter) \in Nat /\ n <= MaxRetryableAttempt
      BY <2>0, <2>2, GrantedDelay DEF FailRetry
    <3>2. status[j] = "RUNNING" /\ n = Len(attempts[j]) /\ ~CurrentSent(j)
      BY <1>0, <2>2 DEF FailRetry, CurrentSent
    <3> QED
      BY <2>0, <2>2, <3>1, <3>2, EndAttemptStep DEF FailRetry
  <2>3. CASE FailForGood(j, w, n, e)
    <3>1. status[j] = "RUNNING" /\ ~CurrentSent(j)
      BY <1>0, <2>3 DEF FailForGood, CurrentSent
    <3> QED
      BY <2>0, <2>3, <3>1, EndAttemptStep DEF FailForGood
  <2> QED
    BY <1>3, <2>1, <2>2, <2>3 DEF Fail
<1> QED
  BY <1>1, <1>2, <1>3

\* Recovery ends the attempt of every expired job the way its state calls for.
LEMMA RecoverySteps ==
  ASSUME TypeOK, \A j \in Jobs : LeaseMatches(j), RecoverExpired
  PROVE  ScalarsOK' /\ \A i \in Jobs : JobStep(i)
<1>1. ASSUME NEW j \in Expired
      PROVE  /\ RecoveryVerdict(j).status \in Status
             /\ RecoveryVerdict(j).error \in ErrorCodes \union {NoError}
             /\ RecoveryVerdict(j).delay \in Nat
             /\ RecoveryVerdict(j).outcome \in Outcomes
             /\ EndsAs(j, RecoveryVerdict(j).outcome)
  <2> USE DEF Status, Live, Terminal, Outcomes
  <2>0. /\ status[j] \in Live /\ j \in Jobs
        /\ status'[j] = RecoveryVerdict(j).status /\ owner'[j] = NoWorker
        /\ cancelAsked'[j] = cancelAsked[j]
        /\ attempts'[j] = ClosedAs(j, RecoveryVerdict(j).outcome)
    BY <1>1 DEF Expired, RecoverExpired
  <2>1. CASE CurrentSent(j)
    <3>1. RecoveryVerdict(j) =
            [status |-> "BILLING_UNKNOWN", outcome |-> "BILLING_UNKNOWN",
             error |-> "BILLING_UNKNOWN", delay |-> 0]
      BY <2>1 DEF RecoveryVerdict
    <3> QED
      BY <2>0, <3>1 DEF EndsAs, ErrorCodes, DefinitiveCodes
  <2>2. CASE ~CurrentSent(j) /\ status[j] = "CANCEL_REQUESTED"
    <3>1. RecoveryVerdict(j) =
            [status |-> "CANCELED", outcome |-> "CANCELED", error |-> NoError, delay |-> 0]
      BY <2>2 DEF RecoveryVerdict
    <3> QED
      BY <2>0, <2>2, <3>1 DEF EndsAs
  <2>3. CASE /\ ~CurrentSent(j) /\ status[j] = "RUNNING"
             /\ MayRetry("DB_BUSY", Len(attempts[j]), NoRetryAfter)
    <3>1. RecoveryVerdict(j) =
            [status |-> "QUEUED", outcome |-> "EXPIRED_RETRY", error |-> "DB_BUSY",
             delay |-> RetryDelay("DB_BUSY", Len(attempts[j]), NoRetryAfter)]
      BY <2>3 DEF RecoveryVerdict
    <3>2. /\ RetryDelay("DB_BUSY", Len(attempts[j]), NoRetryAfter) \in Nat
          /\ Len(attempts[j]) <= MaxRetryableAttempt
      BY <2>3, GrantedDelay
    <3> QED
      BY <2>0, <2>3, <3>1, <3>2 DEF EndsAs, ErrorCodes, RetryableCodes
  <2>4. CASE /\ ~CurrentSent(j) /\ status[j] = "RUNNING"
             /\ ~MayRetry("DB_BUSY", Len(attempts[j]), NoRetryAfter)
    <3>1. RecoveryVerdict(j) =
            [status |-> "FAILED", outcome |-> "FAILED", error |-> "DB_BUSY", delay |-> 0]
      BY <2>4 DEF RecoveryVerdict
    <3> QED
      BY <2>0, <2>4, <3>1 DEF EndsAs, ErrorCodes, RetryableCodes
  <2> QED
    BY <2>0, <2>1, <2>2, <2>3, <2>4
<1>2. \A j \in Jobs \ Expired : Same(j)
  BY DEF RecoverExpired, Same, TypeOK
<1>3. ScalarsOK'
  BY <1>1 DEF RecoverExpired, TypeOK, ScalarsOK, rowVars
<1> QED
  BY <1>1, <1>2, <1>3 DEF JobStep, Ends, Expired

\* What a step may do to the feed: nothing, or publish a newer row for a job.
LEMMA LogSteps ==
  ASSUME [Next]_vars
  PROVE  \/ UNCHANGED eventLog
         \/ \E j \in Jobs : eventLog' = EmitJobEvent(eventLog, j)
         \/ \E j \in Jobs : eventLog' = ReplaceJobEvent(eventLog, j)
<1> USE DEF vars
<1>1. ASSUME NEW k \in Keys, NEW p \in Priorities, NEW pl \in Plans, Enqueue(k, p, pl)
      PROVE  UNCHANGED eventLog
  BY <1>1 DEF Enqueue, EnqueueKnown, EnqueueNew
<1>2. ASSUME NEW j \in Jobs, NEW w \in Workers, WorkerCall(j, w)
      PROVE  UNCHANGED eventLog \/ eventLog' = EmitJobEvent(eventLog, j)
  BY <1>2 DEF WorkerCall, Claim, Heartbeat, MarkProviderSent, AcknowledgeCancel, Complete,
              Fail, FailSent, FailRetry, FailForGood
<1>3. ASSUME NEW j \in Jobs, UserCall(j)
      PROVE  UNCHANGED eventLog \/ eventLog' = ReplaceJobEvent(eventLog, j)
  BY <1>3 DEF UserCall, RequestCancel, RetryFailed, Defer
<1>4. ASSUME RecoverExpired \/ Tick \/ UNCHANGED vars PROVE UNCHANGED eventLog
  BY <1>4 DEF RecoverExpired, Tick
<1> QED
  BY <1>1, <1>2, <1>3, <1>4 DEF Next

LEMMA FeedSteps ==
  ASSUME FeedOK, [Next]_vars
  PROVE  /\ FeedOK'
         /\ \A r \in eventLog' \ eventLog : \A s \in eventLog : s.seq < r.seq
<1>1. CASE UNCHANGED eventLog
  BY <1>1 DEF FeedOK, FeedTyped, FeedHasTop, OneMarkerPerJob
<1>2. ASSUME NEW j \in Jobs, eventLog' = EmitJobEvent(eventLog, j)
      PROVE  \A r \in eventLog' \ eventLog : \A s \in eventLog : s.seq < r.seq
  BY <1>2, NextSequenceIsNewest DEF FeedOK, FeedTyped, EmitJobEvent
<1> QED
  BY <1>1, <1>2, LogSteps, EmitKeepsFeed, ReplaceKeepsFeed

\* Every step is a JobStep for every job, and keeps the plain columns typed.
LEMMA NextIsSteps ==
  ASSUME TypeOK, \A j \in Jobs : JobOK(j), [Next]_vars
  PROVE  ScalarsOK' /\ \A i \in Jobs : JobStep(i)
<1>0. TypeOK /\ \A j \in Jobs : LeaseMatches(j)
  BY DEF JobOK
<1>1. CASE \E k \in Keys, p \in Priorities, pl \in Plans : Enqueue(k, p, pl)
  <2>1. CASE Jobs = {}
    BY <1>0, <1>1, <2>1 DEF Enqueue, EnqueueKnown, EnqueueNew
  <2>2. CASE Jobs # {}
    BY <1>0, <1>1, <2>2, OtherSteps
  <2> QED
    BY <2>1, <2>2
<1>2. ASSUME NEW j \in Jobs, NEW w \in Workers, WorkerCall(j, w)
      PROVE  ScalarsOK' /\ \A i \in Jobs : JobStep(i)
  <2>1. CASE Claim(j, w)
    BY <1>0, <2>1, OtherSteps
  <2>2. ASSUME NEW n \in DOMAIN attempts[j], Heartbeat(j, w, n) \/ MarkProviderSent(j, w, n)
        PROVE  ScalarsOK' /\ \A i \in Jobs : JobStep(i)
    BY <1>0, <2>2, OtherSteps
  <2>3. ASSUME NEW n \in DOMAIN attempts[j],
               \/ AcknowledgeCancel(j, w, n)
               \/ Complete(j, w, n)
               \/ \E e \in Errors : Fail(j, w, n, e)
        PROVE  ScalarsOK' /\ \A i \in Jobs : JobStep(i)
    BY <1>0, <2>3, WorkerEnds
  <2> QED
    BY <1>2, <2>1, <2>2, <2>3 DEF WorkerCall
<1>3. ASSUME NEW j \in Jobs, UserCall(j)
      PROVE  ScalarsOK' /\ \A i \in Jobs : JobStep(i)
  BY <1>0, <1>3, OtherSteps
<1>4. CASE RecoverExpired
  BY <1>0, <1>4, RecoverySteps
<1>5. CASE Tick
  <2>1. ScalarsOK'
    BY <1>0, <1>5 DEF Tick, TypeOK, ScalarsOK, rowVars
  <2>2. \A i \in Jobs : Same(i)
    BY <1>5 DEF Tick, Same
  <2> QED
    BY <2>1, <2>2 DEF JobStep
<1>6. CASE UNCHANGED vars
  BY <1>0, <1>6 DEF vars, TypeOK, ScalarsOK, JobStep, Same
<1> QED
  BY <1>1, <1>2, <1>3, <1>4, <1>5, <1>6 DEF Next

LEMMA NextIsJobSteps ==
  ASSUME IInv, [Next]_vars
  PROVE  ScalarsOK' /\ \A i \in Jobs : JobStep(i)
BY NextIsSteps DEF IInv

-----------------------------------------------------------------------------
(* The theorems.                                                           *)

LEMMA InitEstablishesInv == Init => IInv
<1> SUFFICES ASSUME Init PROVE IInv
  OBVIOUS
<1>1. \A j \in Jobs : attempts[j] = << >> /\ Len(attempts[j]) = 0 /\ DOMAIN attempts[j] = {}
  BY DEF Init
<1>2. TypeOK
  BY QueueAssumption DEF Init, TypeOK, Status
<1>3. FeedOK
  BY DEF Init, FeedOK, FeedTyped, FeedHasTop, OneMarkerPerJob
<1>4. \A j \in Jobs : JobOK(j)
  BY <1>1 DEF Init, JobOK, LeaseMatches, SentIsLast, HistoryFits, RetryBounded, CancelKept, Live
<1> QED
  BY <1>2, <1>3, <1>4 DEF IInv

LEMMA NextKeepsInv == IInv /\ [Next]_vars => IInv'
<1> SUFFICES ASSUME IInv, [Next]_vars PROVE IInv'
  OBVIOUS
<1>1. ScalarsOK' /\ \A j \in Jobs : JobStep(j)
  BY NextIsJobSteps
<1>2. \A j \in Jobs : JobOK(j)' /\ attempts'[j] \in Seq(Attempt)
  BY <1>1, JobStepKeepsJobOK DEF IInv
<1>3. FeedOK'
  BY FeedSteps DEF IInv
<1>4. TypeOK'
  BY <1>1, <1>2, <1>3 DEF ScalarsOK, TypeOK, FeedOK, FeedTyped
<1> QED
  BY <1>2, <1>3, <1>4 DEF IInv

\* The whole invariant holds in every reachable state of the queue.
THEOREM QueueInvariant == Spec => []IInv
<1> QED
  BY InitEstablishesInv, NextKeepsInv, PTL DEF Spec

\* The tables hold values of the declared types, whatever calls arrive.
THEOREM TypeCorrect == Spec => []TypeOK
<1>1. IInv => TypeOK
  BY DEF IInv
<1> QED
  BY <1>1, QueueInvariant, PTL

\* A job is live exactly while it is owned and has one open attempt, its last.
THEOREM NeverZombie == Spec => []NoZombie
<1>1. IInv => NoZombie
  BY DEF IInv, JobOK, NoZombie
<1> QED
  BY <1>1, QueueInvariant, PTL

\* A provider request that may have been sent is never followed by another
\* attempt: no path through retry, recovery or the user pays twice.
THEOREM AtMostOneDispatch == Spec => []SentNeverResent
<1>1. IInv => SentNeverResent
  BY DEF IInv, JobOK, SentNeverResent
<1> QED
  BY <1>1, QueueInvariant, PTL

\* The status column and the attempt history never contradict each other.
THEOREM StatusFollowsHistory == Spec => []StatusMatchesHistory
<1>1. IInv => StatusMatchesHistory
  BY DEF IInv, JobOK, StatusMatchesHistory
<1> QED
  BY <1>1, QueueInvariant, PTL

\* The automatic retries are bounded, and an accepted cancel is never lost.
THEOREM RetriesAndCancels == Spec => [](RetriesBounded /\ CancelSticks)
<1>1. IInv => RetriesBounded /\ CancelSticks
  BY DEF IInv, JobOK, RetriesBounded, CancelSticks
<1> QED
  BY <1>1, QueueInvariant, PTL

\* One marker per job, however often the job is published.
THEOREM FeedKeepsOneMarker == Spec => []OneMarkerPerJob
<1>1. IInv => OneMarkerPerJob
  BY DEF IInv, FeedOK, FeedTyped
<1> QED
  BY <1>1, QueueInvariant, PTL

\* A published marker is newer than any marker a reader can have seen.
THEOREM FeedOnlyAdvances == Spec => FeedAdvances
<1>1. IInv /\ [Next]_vars =>
        [\A r \in eventLog' \ eventLog : \A s \in eventLog : s.seq < r.seq]_vars
  BY FeedSteps DEF IInv
<1> QED
  BY <1>1, QueueInvariant, PTL DEF Spec, FeedAdvances

\* A new row for the job a reader is to be told of, behind every row there was.
LEMMA ReplacePublishes ==
  ASSUME FeedOK, NEW j \in Jobs, eventLog' = ReplaceJobEvent(eventLog, j)
  PROVE  \E r \in eventLog' : r.job = j /\ \A s \in eventLog : s.seq < r.seq
BY ReplacedLog DEF FeedOK

\* No other step than a cancel or a retry by hand sets or clears the mark of a cancel or
\* puts a failed job back.
Acted(j) == cancelAsked'[j] # cancelAsked[j] \/ (status[j] = "FAILED" /\ status'[j] = "QUEUED")

LEMMA OnlyTheUserActs ==
  ASSUME TypeOK, [Next]_vars, NEW j \in Jobs, Acted(j)
  PROVE  eventLog' = ReplaceJobEvent(eventLog, j)
<1> USE DEF Acted
<1>1. ASSUME NEW i \in Jobs, RequestCancel(i) \/ RetryFailed(i)
      PROVE  eventLog' = ReplaceJobEvent(eventLog, j)
  <2>1. eventLog' = ReplaceJobEvent(eventLog, i)
    BY <1>1 DEF RequestCancel, RetryFailed
  <2>2. j = i
    BY <1>1 DEF RequestCancel, RetryFailed, TypeOK
  <2> QED
    BY <2>1, <2>2
<1>2. ASSUME NEW i \in Jobs, NEW d, Defer(i, d) PROVE FALSE
  BY <1>2 DEF Defer
<1>3. ASSUME NEW k \in Keys, NEW p \in Priorities, NEW pl \in Plans, Enqueue(k, p, pl) PROVE FALSE
  BY <1>3 DEF Enqueue, EnqueueKnown, EnqueueNew, TypeOK, vars
<1>4. ASSUME NEW i \in Jobs, NEW w \in Workers, WorkerCall(i, w) PROVE FALSE
  <2>1. cancelAsked' = cancelAsked
    BY <1>4 DEF WorkerCall, Claim, Heartbeat, MarkProviderSent, AcknowledgeCancel, Complete,
       Fail, FailSent, FailRetry, FailForGood, EndAttempt
  <2>2. status[i] # "FAILED"
    BY <1>4 DEF WorkerCall, Claim, Due, Heartbeat, MarkProviderSent, AcknowledgeCancel, Complete,
       Fail, FailSent, FailRetry, FailForGood, HoldsLease, Live
  <2>3. \A m \in Jobs : m # i => status'[m] = status[m]
    BY <1>4 DEF TypeOK, WorkerCall, Claim, Heartbeat, MarkProviderSent, AcknowledgeCancel,
       Complete, Fail, FailSent, FailRetry, FailForGood, EndAttempt
  <2> QED
    BY <2>1, <2>2, <2>3
<1>5. ASSUME RecoverExpired PROVE FALSE
  <2>1. cancelAsked' = cancelAsked /\ (status[j] = "FAILED" => j \notin Expired)
    BY <1>5 DEF RecoverExpired, Expired, Live
  <2>2. j \notin Expired => status'[j] = status[j]
    BY <1>5 DEF RecoverExpired
  <2> QED
    BY <2>1, <2>2
<1>6. ~(Tick \/ UNCHANGED vars)
  BY DEF Tick, vars
<1> QED
  BY <1>1, <1>2, <1>3, <1>4, <1>5, <1>6 DEF Next, UserCall

\* A cancel, and a retry by hand, of a job: each publishes it.
THEOREM UserIsPublished == Spec => UserActionsPublished
<1> DEFINE Published(j) == \E r \in eventLog' : r.job = j /\ \A s \in eventLog : s.seq < r.seq
<1>1. ASSUME IInv, [Next]_vars, NEW j \in Jobs, Acted(j) PROVE Published(j)
  BY <1>1, OnlyTheUserActs, ReplacePublishes DEF IInv
<1>2. IInv /\ [Next]_vars => [\A j \in Jobs : Acted(j) => Published(j)]_vars
  BY <1>1
<1> QED
  BY <1>2, QueueInvariant, PTL DEF Spec, UserActionsPublished, Acted

\* Ended jobs stay ended, apart from a FAILED one put back by the user.
THEOREM EndedIsFinal == Spec => EndedStaysEnded
<1>1. ASSUME IInv, [Next]_vars, NEW j \in Jobs, status[j] \in Terminal
      PROVE  \/ status'[j] = status[j] /\ attempts'[j] = attempts[j]
             \/ status[j] = "FAILED" /\ status'[j] = "QUEUED" /\ attempts'[j] = attempts[j]
  <2>1. JobStep(j)
    BY <1>1, NextIsJobSteps
  <2> QED
    BY <1>1, <2>1 DEF JobStep, Same, Created, Claimed, Marked, Canceling, Retried, Ends, EndsAs,
                      Live, Terminal
<1>2. IInv /\ [Next]_vars =>
        [\A j \in Jobs : status[j] \in Terminal =>
           \/ status'[j] = status[j] /\ attempts'[j] = attempts[j]
           \/ status[j] = "FAILED" /\ status'[j] = "QUEUED" /\ attempts'[j] = attempts[j]]_vars
  BY <1>1
<1> QED
  BY <1>2, QueueInvariant, PTL DEF Spec, EndedStaysEnded

-----------------------------------------------------------------------------
(* The attempt history, and the refinement of JobLifecycle.                *)

\* Attempts a step leaves alone, attempts it appends, and the one it may change.
LEMMA JobStepHistory ==
  ASSUME TypeOK, NEW j \in Jobs, JobOK(j), JobStep(j)
  PROVE  LET len == Len(attempts[j])
         IN  /\ len \in Nat /\ DOMAIN attempts[j] = 1..len
             /\ \A n \in 1..len : attempts[j][n] \in Attempt
             /\ \/ attempts'[j] = attempts[j]
                \/ /\ Claimed(j)
                   /\ Len(attempts'[j]) = len + 1 /\ DOMAIN attempts'[j] = 1..(len + 1)
                   /\ \A n \in 1..len : attempts'[j][n] = attempts[j][n]
                   /\ attempts'[j][len + 1] = [outcome |-> Open, sent |-> FALSE]
                \/ /\ Marked(j) \/ Ends(j)
                   /\ Len(attempts'[j]) = len /\ DOMAIN attempts'[j] = 1..len
                   /\ len > 0 /\ attempts[j][len].outcome = Open
                   /\ \A n \in 1..len : n # len => attempts'[j][n] = attempts[j][n]
<1> DEFINE len == Len(attempts[j])
<1>0. /\ LeaseMatches(j) /\ attempts[j] \in Seq(Attempt) /\ len \in Nat
      /\ DOMAIN attempts[j] = 1..len
      /\ \A n \in 1..len : attempts[j][n] \in Attempt
  BY CurrentIsLast DEF JobOK
<1>1. CASE Claimed(j)
  <2>1. [outcome |-> Open, sent |-> FALSE] \in Attempt
    BY DEF Attempt, Open
  <2>2. /\ attempts'[j] \in Seq(Attempt) /\ Len(attempts'[j]) = len + 1
        /\ \A n \in 1..len : attempts'[j][n] = attempts[j][n]
        /\ attempts'[j][len + 1] = [outcome |-> Open, sent |-> FALSE]
    BY <1>0, <1>1, <2>1, AppendProperties DEF Claimed
  <2>3. DOMAIN attempts'[j] = 1..(len + 1)
    BY <2>2, LenProperties
  <2> QED
    BY <1>0, <1>1, <2>2, <2>3
<1>2. CASE Marked(j)
  <2>1. PICK n \in OpenAttempts(j) : attempts'[j] = [attempts[j] EXCEPT ![n].sent = TRUE]
    BY <1>2 DEF Marked
  <2>2. n = len /\ n \in 1..len /\ attempts[j][len].outcome = Open
    BY <1>0, <2>1 DEF OpenAttempts, LeaseMatches
  <2>3. /\ DOMAIN attempts'[j] = 1..len
        /\ \A m \in 1..len : m # len => attempts'[j][m] = attempts[j][m]
    BY <1>0, <2>1, <2>2
  <2>4. attempts'[j] \in Seq(Attempt)
    BY JobStepKeepsJobOK
  <2>5. Len(attempts'[j]) = len
    BY <1>0, <2>3, <2>4, LenProperties
  <2> QED
    BY <1>0, <1>2, <2>2, <2>3, <2>5
<1>3. CASE Ends(j)
  <2>1. PICK out \in Outcomes : EndsAs(j, out)
    BY <1>3 DEF Ends
  <2>2. /\ Len(attempts'[j]) = len /\ len \in Nat \ {0} /\ DOMAIN attempts'[j] = 1..len
        /\ \A n \in 1..len : n # len => attempts'[j][n] = attempts[j][n]
    BY <1>0, <2>1, ClosedAsFacts DEF EndsAs
  <2>3. attempts[j][len].outcome = Open
    BY <1>0, <2>1, <2>2 DEF EndsAs, LeaseMatches
  <2> QED
    BY <1>0, <1>3, <2>2, <2>3
<1>4. CASE Same(j) \/ Created(j) \/ Canceling(j) \/ Retried(j)
  BY <1>0, <1>4 DEF Same, Created, Canceling, Retried
<1> QED
  BY <1>1, <1>2, <1>3, <1>4 DEF JobStep

\* The attempt history only grows, one attempt at a time, and a closed attempt
\* is never rewritten.
THEOREM HistoryOnlyGrows == Spec => HistoryAppendOnly
<1>1. ASSUME IInv, [Next]_vars, NEW j \in Jobs
      PROVE  /\ Len(attempts'[j]) \in {Len(attempts[j]), Len(attempts[j]) + 1}
             /\ \A n \in DOMAIN attempts[j] :
                  \/ attempts'[j][n] = attempts[j][n]
                  \/ attempts[j][n].outcome = Open /\ Len(attempts'[j]) = Len(attempts[j])
  <2>1. TypeOK /\ JobOK(j) /\ JobStep(j)
    BY <1>1, NextIsJobSteps DEF IInv
  <2> QED
    BY <2>1, JobStepHistory
<1>2. IInv /\ [Next]_vars =>
        [\A j \in Jobs :
           /\ Len(attempts'[j]) \in {Len(attempts[j]), Len(attempts[j]) + 1}
           /\ \A n \in DOMAIN attempts[j] :
                \/ attempts'[j][n] = attempts[j][n]
                \/ attempts[j][n].outcome = Open /\ Len(attempts'[j]) = Len(attempts[j])]_vars
  BY <1>1
<1> QED
  BY <1>2, QueueInvariant, PTL DEF Spec, HistoryAppendOnly

Dispatched(j) == \E n \in DOMAIN attempts[j] : MaySent(attempts[j][n])

\* Each kind of step is a move the lifecycle allows.
LEMMA JobStepIsMove ==
  ASSUME TypeOK, NEW j \in Jobs, JobOK(j), JobStep(j)
  PROVE  Lifecycle!Move(j)
<1> DEFINE len == Len(attempts[j])
<1>a. /\ len \in Nat /\ DOMAIN attempts[j] = 1..len
      /\ \A n \in 1..len : attempts[j][n] \in Attempt
  BY JobStepHistory
<1>b. status[j] \in {"QUEUED", "FAILED"} => ~Dispatched(j)
  BY DEF JobOK, SentIsLast, Dispatched
<1>1. CASE Same(j)
  BY <1>1 DEF Same, Lifecycle!Move, Lifecycle!Stay
<1>2. CASE Created(j)
  BY <1>2 DEF Created, Lifecycle!Move, Lifecycle!Submit
<1>3. CASE Claimed(j)
  <2>1. /\ DOMAIN attempts'[j] = 1..(len + 1)
        /\ \A n \in 1..len : attempts'[j][n] = attempts[j][n]
        /\ attempts'[j][len + 1] = [outcome |-> Open, sent |-> FALSE]
    BY <1>3, JobStepHistory DEF Claimed, Marked, Ends, EndsAs, Live
  <2>2. ~Dispatched(j) /\ ~Dispatched(j)'
    BY <1>a, <1>b, <1>3, <2>1 DEF Claimed, Dispatched, MaySent, Open
  <2> QED
    BY <1>3, <2>2 DEF Claimed, Dispatched, Lifecycle!Move, Lifecycle!Start
<1>4. CASE Marked(j)
  <2>1. PICK n \in OpenAttempts(j) : attempts'[j] = [attempts[j] EXCEPT ![n].sent = TRUE]
    BY <1>4 DEF Marked
  <2>2. n \in DOMAIN attempts'[j] /\ attempts'[j][n] = [attempts[j][n] EXCEPT !.sent = TRUE]
    BY <2>1 DEF OpenAttempts
  <2>3. attempts[j][n] \in Attempt
    BY <1>a DEF OpenAttempts
  <2>4. attempts'[j][n].sent
    BY <2>2, <2>3 DEF Attempt
  <2>5. Dispatched(j)'
    BY <2>2, <2>4 DEF Dispatched, MaySent
  <2> QED
    BY <1>4, <2>5 DEF Marked, Dispatched, Live, Lifecycle!Move, Lifecycle!Dispatch
<1>5. CASE Canceling(j)
  BY <1>5 DEF Canceling, Live, Lifecycle!Move, Lifecycle!Cancel, Lifecycle!Stay
<1>6. CASE Retried(j)
  BY <1>b, <1>6 DEF Retried, Dispatched, Lifecycle!Move, Lifecycle!Requeue
<1>7. CASE Ends(j)
  <2>1. PICK out \in Outcomes : EndsAs(j, out)
    BY <1>7 DEF Ends
  <2>2. /\ DOMAIN attempts'[j] = 1..len /\ len > 0
        /\ \A n \in 1..len : n # len => attempts'[j][n] = attempts[j][n]
        /\ attempts'[j][len].outcome = out /\ attempts'[j][len].sent = attempts[j][len].sent
        /\ attempts[j][len].outcome = Open
        /\ CurrentSent(j) <=> attempts[j][len].sent
    BY <2>1, ClosedAsFacts, CurrentIsLast DEF EndsAs, JobOK, LeaseMatches
  <2>3. \A n \in 1..len : MaySent(attempts[j][n]) => n = len
    BY <1>a DEF JobOK, SentIsLast
  <2>4. Dispatched(j) <=> attempts[j][len].sent
    BY <1>a, <2>2, <2>3 DEF Dispatched, MaySent, Open
  <2>5. Dispatched(j)' <=> attempts[j][len].sent \/ out = "BILLING_UNKNOWN"
    BY <1>a, <2>2, <2>3 DEF Dispatched, MaySent
  <2> QED
    BY <2>1, <2>2, <2>4, <2>5 DEF EndsAs, Live, Dispatched, Lifecycle!Move, Lifecycle!LeaveUnsettled,
       Lifecycle!StopForCancel, Lifecycle!Succeed, Lifecycle!GiveUp, Lifecycle!Requeue
<1> QED
  BY <1>1, <1>2, <1>3, <1>4, <1>5, <1>6, <1>7 DEF JobStep

\* The queue implements the lifecycle it promises.
THEOREM QueueKeepsLifecycle == Spec => LifecycleSpec
<1>1. Init => Lifecycle!Init
  <2> SUFFICES ASSUME Init PROVE Lifecycle!Init
    OBVIOUS
  <2>1. \A j \in Jobs : DOMAIN attempts[j] = {}
    BY DEF Init
  <2> QED
    BY <2>1 DEF Init, Lifecycle!Init
<1>2. IInv /\ [Next]_vars => [Lifecycle!Next]_(Lifecycle!vars)
  <2> SUFFICES ASSUME IInv, [Next]_vars PROVE Lifecycle!Next
    OBVIOUS
  <2>1. ScalarsOK' /\ \A j \in Jobs : Lifecycle!Move(j)
    BY NextIsJobSteps, JobStepIsMove DEF IInv
  <2>2. DOMAIN status' = Jobs
    BY <2>1 DEF ScalarsOK
  <2> QED
    BY <2>1, <2>2 DEF Lifecycle!Next
<1> QED
  BY <1>1, <1>2, QueueInvariant, PTL DEF Spec, LifecycleSpec, Lifecycle!Spec
=============================================================================
