----------------------------- MODULE MCJobFeed ------------------------------
(***************************************************************************)
(* Small instances of JobFeed.  No retry is granted by the queue itself    *)
(* (MaxRetryableAttempt = 0): RetryDelays is the empty function.           *)
(***************************************************************************)
EXTENDS JobFeed

MCRetryDelays == [n \in 1..MaxRetryableAttempt |-> 1]
=============================================================================
