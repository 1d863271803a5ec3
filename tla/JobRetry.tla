------------------------------ MODULE JobRetry ------------------------------
(***************************************************************************)
(* The retry classifier shared by the queue (automatic retries, recovery   *)
(* of expired leases) and by the manual-retry route:                       *)
(* backend/app/modules/jobs/retry.py.  It is a pure function of the error  *)
(* code, the number of the attempt that failed and the provider's          *)
(* Retry-After header, if there was one.                                   *)
(***************************************************************************)
EXTENDS Integers, FiniteSetsExt

CONSTANTS
  MaxRetryableAttempt,   \* last attempt that may be retried automatically
  RetryDelays,           \* back-off after attempt n, for n \in 1..MaxRetryableAttempt
  MaxRetryAfter,         \* cap on a delay the provider asks for
  NoRetryAfter           \* the error carries no Retry-After

ASSUME RetryAssumption ==
  /\ MaxRetryableAttempt \in Nat
  /\ RetryDelays \in [1..MaxRetryableAttempt -> Nat]
  /\ MaxRetryAfter \in Nat
  /\ NoRetryAfter \notin Int

(***************************************************************************)
(* The codes the classifier tells apart, one or two of each class.         *)
(***************************************************************************)
RetryableCodes == {"PROVIDER_NETWORK", "PROVIDER_5XX", "PROVIDER_TIMEOUT", "DB_BUSY"}
RateLimitCodes == {"PROVIDER_RATE_LIMIT", "HTTP_429"}
TransientHttpCodes == {"HTTP_408", "HTTP_500", "HTTP_503"}
DefinitiveCodes == {"HTTP_400", "HTTP_403", "WORKER_HANDLER_EXCEPTION",
                    "INPUT_UNSUPPORTED_JOB_KIND", "BILLING_UNKNOWN"}
ErrorCodes == RetryableCodes \union RateLimitCodes \union TransientHttpCodes
                \union DefinitiveCodes

(***************************************************************************)
(* A rate limit waits as long as the provider says.  Without a header only *)
(* a bare HTTP 429 falls back to the shared back-off.                      *)
(***************************************************************************)
Retryable(code, retryAfter) ==
  \/ code \in RetryableCodes \union TransientHttpCodes
  \/ code \in RateLimitCodes /\ retryAfter \in Nat
  \/ code = "HTTP_429" /\ retryAfter = NoRetryAfter

MayRetry(code, attemptNo, retryAfter) ==
  attemptNo \in 1..MaxRetryableAttempt /\ Retryable(code, retryAfter)

RetryDelay(code, attemptNo, retryAfter) ==
  IF code \in RateLimitCodes /\ retryAfter # NoRetryAfter
  THEN Min({retryAfter, MaxRetryAfter})
  ELSE RetryDelays[attemptNo]
=============================================================================
