----------------------------- MODULE MCJobWorker -----------------------------
(***************************************************************************)
(* Small instances of JobWorker.                                           *)
(***************************************************************************)
EXTENDS JobWorker, TLC

CONSTANTS k1, k2, k3, k4, k5

MCRetryDelays == [n \in 1..MaxRetryableAttempt |-> 1]

MCErrors == {HandlerError}

Synthesizing == [k \in Keys |-> "SYNTHESIZE"]
Mixed == [k \in Keys |-> IF k = k1 THEN "TRANSLATE" ELSE "SYNTHESIZE"]
AnyKind == [k \in Keys |-> CASE k = k1 -> "TRANSLATE" [] k = k2 -> "SYNTHESIZE"
                              [] k = k3 -> "CHECKPOINTED"
                              [] k = k4 -> "REVIEW" [] k = k5 -> "SUMMARIZE"]
=============================================================================
