----------------------------- MODULE MCJobQueue -----------------------------
(***************************************************************************)
(* Small instances of JobQueue.                                            *)
(***************************************************************************)
EXTENDS JobQueue, TLC

CONSTANT w2

MCRetryDelays == [n \in 1..MaxRetryableAttempt |-> 1]

Err(c, r, s, a) == [code |-> c, retryable |-> r, sent |-> s, retryAfter |-> a]

\* A transient error, a rate limit with a header, a rejection and a lost answer.
MCErrors == {Err("DB_BUSY", TRUE, FALSE, NoRetryAfter),
             Err("HTTP_429", TRUE, FALSE, 2),
             Err("HTTP_400", FALSE, FALSE, NoRetryAfter),
             Err("PROVIDER_TIMEOUT", TRUE, TRUE, NoRetryAfter)}

\* The instance explores a long history of one job, with every retry the queue
\* grants and retries by hand, and a short one of two jobs that compete for one
\* worker id: claims in priority order, several leases recovered at once, one feed.
LongHistoryOfOne == \A j \in Jobs : j # 1 => status[j] = "ABSENT"

ShortHistoryOfTwo ==
  /\ \E j \in Jobs : priority[j] < 200
  /\ errorCode[2] # "PROVIDER_TIMEOUT"
  /\ \A j \in Jobs : /\ Len(attempts[j]) =< 2
                     /\ owner[j] # w2 /\ plan[j] = NoPlan /\ backoff[j] =< 1
                     /\ errorCode[j] # "HTTP_429"

MCHistory == LongHistoryOfOne \/ ShortHistoryOfTwo

KeySymmetry == Permutations(Keys)
=============================================================================
