--------------------------- MODULE JobFeedProofs ---------------------------
(***************************************************************************)
(* What TLAPS proves about JobFeed for any jobs, workers and requests, any *)
(* number of consumers, refreshes and failures, and any order in which     *)
(* answers arrive.  A replay inserts markers for the jobs it found without *)
(* one, whatever happened since: a job may then have two, and what is      *)
(* proved here does not rest on there being one.                           *)
(***************************************************************************)
EXTENDS JobFeed, JobQueueProofs, NaturalSets

Present == {j \in Jobs : status[j] # "ABSENT"}

Distinct(these) == \A r, s \in these : r.seq = s.seq => r = s

LogOK == FeedTyped /\ IsFiniteSet(eventLog) /\ Distinct(eventLog) /\ IsFiniteSet(Present)

(***************************************************************************)
(* What is known of the log outside of it: rows that were read, and the    *)
(* events made of them, under way or shown.  A marker published later is   *)
(* newer than all of them, so that what has the number of a marker in the  *)
(* log is of that marker's job, and shows it as it was when the marker was *)
(* there already.                                                          *)
(***************************************************************************)
Behind(e) == \E r \in eventLog : e.seq <= r.seq
Labelled(e) == \A r \in eventLog : r.seq = e.seq => r.job = e.job
ShowsCancel(e) ==
  \A r \in eventLog : (r.seq = e.seq /\ cancelAsked[r.job]) => e.status \notin {"QUEUED", "RUNNING"}

GoodRows == {r \in Marker : Behind(r) /\ Labelled(r)}
GoodEvents == {e \in Events : Behind(e) /\ ShowsCancel(e)}

RequestOK(q) ==
  /\ DOMAIN q = DOMAIN Idle
  /\ q.missing \subseteq Present
  /\ IsFiniteSet(q.rows) /\ Distinct(q.rows) /\ q.rows \subseteq GoodRows
  /\ IsFiniteSet(q.events) /\ Distinct(q.events) /\ q.events \subseteq GoodEvents

FeedInv ==
  /\ TypeOK /\ \A j \in Jobs : JobOK(j)
  /\ LogOK /\ list \in Seq(GoodEvents)
  /\ DOMAIN req = Requests /\ \A s \in Requests : RequestOK(req[s])

-----------------------------------------------------------------------------
(* The log.                                                                *)

LogGrows ==
  /\ LogOK'
  /\ \A r \in eventLog' \ eventLog : \A s \in eventLog : s.seq < r.seq
  /\ \A s \in eventLog : \E r \in eventLog' : s.seq <= r.seq
  /\ \A r \in eventLog' : (r \in eventLog /\ cancelAsked'[r.job]) => cancelAsked[r.job]
  /\ Present \subseteq Present'

LEMMA KnownKept ==
  ASSUME LogOK, LogGrows, NEW e, e.seq \in Nat, Behind(e)
  PROVE  /\ Behind(e)'
         /\ Labelled(e) => Labelled(e)'
         /\ ShowsCancel(e) => ShowsCancel(e)'
<1>1. \A r \in eventLog : r.seq \in Nat
  BY DEF LogOK, FeedTyped, Marker
<1>2. \A r \in eventLog' : r.seq \in Nat
  BY DEF LogGrows, LogOK, FeedTyped, Marker
<1>3. PICK top \in eventLog : e.seq <= top.seq
  BY DEF Behind
<1>4. Behind(e)'
  <2>1. PICK r \in eventLog' : top.seq <= r.seq
    BY <1>3 DEF LogGrows
  <2>2. e.seq <= r.seq
    BY <1>1, <1>2, <1>3, <2>1
  <2> QED
    BY <2>1, <2>2 DEF Behind
<1>5. \A r \in eventLog' : r.seq = e.seq => r \in eventLog
  BY <1>1, <1>2, <1>3 DEF LogGrows
<1> QED
  BY <1>4, <1>5 DEF Labelled, ShowsCancel, LogGrows

LEMMA GoodStays ==
  ASSUME LogOK, LogGrows
  PROVE  GoodRows \subseteq GoodRows' /\ GoodEvents \subseteq GoodEvents'
<1>1. ASSUME NEW r \in GoodRows PROVE r \in GoodRows'
  BY KnownKept DEF GoodRows, Marker
<1>2. ASSUME NEW e \in GoodEvents PROVE e \in GoodEvents'
  BY KnownKept DEF GoodEvents, Events
<1> QED
  BY <1>1, <1>2

\* A row with the next number, in front of or instead of some others.
LEMMA AddedToLog ==
  ASSUME LogOK, NEW kept \in SUBSET eventLog, NEW new \in Marker,
         \A r \in eventLog : r.seq \in Nat /\ r.seq < new.seq,
         eventLog' = kept \union {new}
  PROVE  /\ FeedTyped' /\ IsFiniteSet(eventLog') /\ Distinct(eventLog')
         /\ \A r \in eventLog' \ eventLog : \A s \in eventLog : s.seq < r.seq
         /\ \A s \in eventLog : \E r \in eventLog' : s.seq <= r.seq
<1>1. /\ new \in Marker /\ (\A r \in eventLog : r.seq \in Nat /\ r.seq < new.seq)
      /\ eventLog' = kept \union {new} /\ eventLog \in SUBSET Marker /\ Distinct(eventLog)
  BY DEF LogOK, FeedTyped
<1>2. new.seq \in Nat
  BY <1>1 DEF Marker
<1>3. \A r \in eventLog' : r.seq <= new.seq
  BY <1>1, <1>2
<1>4. FeedTyped'
  BY <1>1, <1>3 DEF FeedTyped, FeedHasTop
<1>5. IsFiniteSet(eventLog')
  <2>1. IsFiniteSet(kept)
    BY FS_Subset DEF LogOK
  <2> QED
    BY <1>1, <2>1, FS_AddElement
<1>6. Distinct(eventLog')
  BY <1>1, <1>2 DEF Distinct
<1> QED
  BY <1>1, <1>2, <1>4, <1>5, <1>6

LEMMA NextGrowsLog ==
  ASSUME TypeOK, \A j \in Jobs : JobOK(j), LogOK, [Next]_vars
  PROVE  TypeOK' /\ (\A j \in Jobs : JobOK(j)') /\ LogGrows
<1>1. ScalarsOK' /\ \A j \in Jobs : JobStep(j)
  BY NextIsSteps
<1>2. \A j \in Jobs : JobOK(j)' /\ attempts'[j] \in Seq(Attempt)
  BY <1>1, JobStepKeepsJobOK
<1> DEFINE Grown == /\ FeedTyped' /\ IsFiniteSet(eventLog') /\ Distinct(eventLog')
                    /\ \A r \in eventLog' \ eventLog : \A s \in eventLog : s.seq < r.seq
                    /\ \A s \in eventLog : \E r \in eventLog' : s.seq <= r.seq
<1>3. Grown
  <2>0. eventLog \in SUBSET Marker
    BY DEF LogOK, FeedTyped
  <2>1. CASE UNCHANGED eventLog
    <3>1. \A s \in eventLog : s.seq <= s.seq
      BY <2>0 DEF Marker
    <3> QED
      BY <2>1, <3>1 DEF LogOK, FeedTyped, FeedHasTop, Distinct
  <2>2. ASSUME NEW j \in Jobs, eventLog' = EmitJobEvent(eventLog, j), eventLog' # eventLog
        PROVE  Grown
    <3>1. PICK new : new = [seq |-> NextSequence(eventLog), job |-> j]
      OBVIOUS
    <3>2. eventLog' = eventLog \union {new}
      BY <2>2, <3>1 DEF EmitJobEvent
    <3>3. /\ new \in Marker /\ new.seq = NextSequence(eventLog)
          /\ \A r \in eventLog : r.seq \in Nat /\ r.seq < NextSequence(eventLog)
      BY <2>0, <3>1, NextSequenceIsNewest DEF LogOK, Marker
    <3>4. eventLog \in SUBSET eventLog /\ \A r \in eventLog : r.seq \in Nat /\ r.seq < new.seq
      BY <3>3
    <3> QED
      BY <3>2, <3>3, <3>4, AddedToLog
  <2>3. ASSUME NEW j \in Jobs, eventLog' = ReplaceJobEvent(eventLog, j)
        PROVE  Grown
    <3>1. PICK new, kept : /\ new = [seq |-> NextSequence(eventLog), job |-> j]
                           /\ kept = {r \in eventLog : r.job # j}
      OBVIOUS
    <3>2. /\ new \in Marker /\ \A r \in eventLog : r.seq \in Nat /\ r.seq < new.seq
          /\ eventLog' = kept \union {new}
      BY <2>3, <3>1, ReplacedLog DEF LogOK
    <3>3. kept \in SUBSET eventLog
      BY <3>1
    <3> QED
      BY <3>2, <3>3, AddedToLog
  <2> QED
    BY <2>1, <2>2, <2>3, LogSteps
<1>4. ASSUME NEW r \in eventLog', r \in eventLog, cancelAsked'[r.job]
      PROVE  cancelAsked[r.job]
  <2> SUFFICES ASSUME ~cancelAsked[r.job] PROVE FALSE
    OBVIOUS
  <2>1. r.job \in Jobs /\ r.seq \in Nat
    BY <1>4 DEF LogOK, FeedTyped, Marker
  <2>2. eventLog' = ReplaceJobEvent(eventLog, r.job)
    BY <1>4, <2>1, OnlyTheUserActs DEF Acted
  <2>3. r.seq < NextSequence(eventLog) /\ NextSequence(eventLog) \in Nat
    BY <1>4, NextSequenceIsNewest DEF LogOK
  <2>4. r = [seq |-> NextSequence(eventLog), job |-> r.job]
    BY <1>4, <2>1, <2>2, ReplacedLog DEF LogOK
  <2> QED
    BY <2>1, <2>3, <2>4
<1>5. Present \subseteq Present'
  BY <1>1 DEF Present, JobStep, Same, Created, Claimed, Marked, Canceling, Retried, Ends, EndsAs,
     Live, Outcomes
<1>6. IsFiniteSet(Present')
  <2>1. IsFiniteSet(Present)
    BY DEF LogOK
  <2>2. \A S : IsFiniteSet(S) => \A T \in SUBSET S : IsFiniteSet(T)
    BY FS_Subset
  <2>3. CASE \A i \in Jobs : status[i] = "ABSENT" => status'[i] = "ABSENT"
    BY <2>1, <2>2, <2>3 DEF Present
  <2>4. ASSUME NEW k \in Keys, NEW p \in Priorities, NEW pl \in Plans, Enqueue(k, p, pl)
        PROVE  IsFiniteSet(Present')
    <3>1. CASE UNCHANGED vars
      BY <2>1, <3>1 DEF Present, vars
    <3>2. ASSUME NEW j \in Jobs, status' = [status EXCEPT ![j] = "QUEUED"]
          PROVE  IsFiniteSet(Present')
      <4>1. Present' \subseteq Present \union {j}
        BY <3>2 DEF Present, TypeOK
      <4>2. IsFiniteSet(Present \union {j})
        BY <2>1, FS_AddElement
      <4> QED
        BY <2>2, <4>1, <4>2
    <3> QED
      BY <2>4, <3>1, <3>2 DEF Enqueue, EnqueueKnown, EnqueueNew
  <2>5. ASSUME NEW j \in Jobs, NEW w \in Workers, WorkerCall(j, w), NEW i \in Jobs,
               status[i] = "ABSENT"
        PROVE  status'[i] = "ABSENT"
    <3>1. status[j] # "ABSENT"
      BY <2>5 DEF WorkerCall, Claim, Due, Heartbeat, MarkProviderSent, AcknowledgeCancel, Complete,
         Fail, FailSent, FailRetry, FailForGood, HoldsLease, Live
    <3>2. \A m \in Jobs : m # j => status'[m] = status[m]
      BY <2>5 DEF WorkerCall, Claim, Heartbeat, MarkProviderSent, AcknowledgeCancel, Complete,
         Fail, FailSent, FailRetry, FailForGood, EndAttempt, TypeOK
    <3> QED
      BY <2>5, <3>1, <3>2
  <2>6. ASSUME NEW j \in Jobs, UserCall(j), NEW i \in Jobs, status[i] = "ABSENT"
        PROVE  status'[i] = "ABSENT"
    BY <2>6 DEF UserCall, RequestCancel, RetryFailed, Defer, TypeOK
  <2>7. ASSUME RecoverExpired \/ Tick \/ UNCHANGED vars, NEW i \in Jobs, status[i] = "ABSENT"
        PROVE  status'[i] = "ABSENT"
    BY <2>7 DEF RecoverExpired, Expired, Tick, Live, vars
  <2> QED
    BY <2>3, <2>4, <2>5, <2>6, <2>7 DEF Next
<1>7. TypeOK'
  BY <1>1, <1>2, <1>3 DEF ScalarsOK, TypeOK, FeedTyped
<1> QED
  BY <1>2, <1>3, <1>4, <1>5, <1>6, <1>7 DEF LogGrows, LogOK
\* Jobs that are inserted together are numbered in their order, behind every row there was.
LEMMA BackfillGrowsLog ==
  ASSUME LogOK, NEW missing \in SUBSET Present, eventLog' = Backfill(eventLog, missing),
         UNCHANGED <<status, cancelAsked>>
  PROVE  LogGrows
<1> DEFINE next == NextSequence(eventLog)
           before(j) == {i \in missing : i < j}
           rank(j) == Cardinality(before(j))
           row(j) == [seq |-> next + rank(j), job |-> j]
           added == {row(j) : j \in missing}
<1>1. /\ next \in Nat \ {0} /\ \A r \in eventLog : r.seq \in Nat /\ r.seq < next
      /\ eventLog \in SUBSET Marker /\ FeedHasTop /\ Distinct(eventLog) /\ IsFiniteSet(eventLog)
  BY NextSequenceIsNewest DEF LogOK, FeedTyped, Marker
<1>2. IsFiniteSet(missing) /\ missing \in SUBSET Nat /\ missing \in SUBSET Jobs
  BY FS_Subset, QueueAssumption DEF LogOK, Present
<1>3. ASSUME NEW j \in missing
      PROVE  IsFiniteSet(before(j)) /\ rank(j) \in Nat
  <2>1. before(j) \in SUBSET missing
    OBVIOUS
  <2> QED
    BY <1>2, <2>1, FS_Subset, FS_CardinalityType
<1>4. ASSUME NEW i \in missing, NEW j \in missing, i < j PROVE rank(i) < rank(j)
  <2>0. /\ i \in Nat /\ j \in Nat /\ ~(i < i)
        /\ \A k \in missing : k \in Nat /\ (k < i => k < j)
    BY <1>2, <1>4
  <2>1. before(i) \union {i} \in SUBSET before(j) /\ i \notin before(i)
    BY <1>4, <2>0
  <2>2. Cardinality(before(i) \union {i}) = rank(i) + 1
    BY <1>3, <2>1, FS_AddElement
  <2>3. Cardinality(before(i) \union {i}) <= rank(j)
    BY <1>3, <2>1, FS_Subset
  <2>4. rank(i) \in Nat /\ rank(j) \in Nat
    BY <1>3
  <2> HIDE DEF rank
  <2> QED
    BY <2>2, <2>3, <2>4
<1>a. \A j \in missing : rank(j) \in Nat
  BY <1>3
<1> HIDE DEF next, rank
<1>5. eventLog' = eventLog \union added
  BY DEF Backfill, next, rank
<1>6. \A j \in missing : /\ row(j) \in Marker /\ row(j).seq = next + rank(j) /\ row(j).job = j
                         /\ row(j).seq \in Nat /\ row(j).seq >= next
  BY <1>1, <1>2, <1>a DEF Marker
<1>7. \A i, j \in missing : row(i).seq = row(j).seq => i = j
  <2> TAKE i, j \in missing
  <2>1. i \in Nat /\ j \in Nat /\ rank(i) \in Nat /\ rank(j) \in Nat
    BY <1>2, <1>3
  <2>2. rank(i) = rank(j) => i = j
    BY <1>4, <2>1
  <2> QED
    BY <1>1, <2>1, <2>2
<1> HIDE DEF row
<1>8. /\ \A r \in added : r \in Marker /\ r.seq \in Nat /\ r.seq >= next
      /\ \A r \in added : \A s \in eventLog : s.seq < r.seq
  <2>1. \A r \in added : r \in Marker /\ r.seq \in Nat /\ r.seq >= next
    BY <1>6
  <2> QED
    BY <1>1, <2>1
<1>9. Distinct(eventLog')
  <2>1. \A r, s \in added : r.seq = s.seq => r = s
    BY <1>7
  <2>2. \A r \in added : \A s \in eventLog : r.seq # s.seq
    BY <1>1, <1>8
  <2> QED
    BY <1>1, <1>5, <2>1, <2>2 DEF Distinct
<1>10. IsFiniteSet(eventLog')
  <2> DEFINE f == [j \in missing |-> row(j)]
  <2>1. f \in Surjection(missing, added)
    BY DEF Surjection
  <2>2. IsFiniteSet(added)
    BY <1>2, <2>1, FS_Surjection
  <2> QED
    BY <1>1, <1>5, <2>2, FS_Union
<1>11. FeedHasTop'
  <2>1. CASE missing = {}
    BY <1>1, <1>5, <2>1 DEF FeedHasTop
  <2>2. CASE missing # {}
    <3>1. PICK m \in missing : \A j \in missing : j <= m
      BY <1>2, <2>2, FiniteHasMax
    <3>2. \A j \in missing : row(j).seq <= row(m).seq
      <4> TAKE j \in missing
      <4>1. j = m \/ j < m
        BY <1>2, <3>1
      <4>2. rank(j) \in Nat /\ rank(m) \in Nat /\ (j = m \/ rank(j) < rank(m))
        BY <1>3, <1>4, <4>1
      <4> QED
        BY <1>1, <1>6, <4>2
    <3>3. \A s \in eventLog' : s.seq <= row(m).seq
      BY <1>1, <1>5, <1>6, <3>2
    <3> QED
      BY <1>5, <3>3 DEF FeedHasTop
  <2> QED
    BY <2>1, <2>2
<1>12. LogOK'
  BY <1>1, <1>5, <1>8, <1>9, <1>10, <1>11 DEF LogOK, FeedTyped, Present
<1>13. \A s \in eventLog : \E r \in eventLog' : s.seq <= r.seq
  BY <1>1, <1>5
<1> QED
  BY <1>5, <1>8, <1>12, <1>13 DEF LogGrows, Present
-----------------------------------------------------------------------------
(* The list.                                                               *)

LEMMA LongerSeq ==
  ASSUME NEW S, NEW T, S \subseteq T
  PROVE  Seq(S) \subseteq Seq(T)
<1>1. ASSUME NEW s \in Seq(S) PROVE s \in Seq(T)
  <2>1. Len(s) \in Nat /\ s \in [1..Len(s) -> S]
    BY LenProperties
  <2>2. s \in [1..Len(s) -> T]
    BY <2>1
  <2> QED
    BY <2>1, <2>2, SeqDef
<1> QED
  BY <1>1

\* Every place in the order of some events is taken by one of them.
LEMMA OrderIsOfEvents ==
  ASSUME NEW events \in SUBSET Events, IsFiniteSet(events), Distinct(events)
  PROVE  /\ InFeedOrder(events) \in Seq(events)
         /\ \A e \in events : \E k \in 1..Len(InFeedOrder(events)) : InFeedOrder(events)[k] = e
<1> DEFINE n == Cardinality(events)
           earlier(e) == {d \in events : d.seq < e.seq}
           f == [e \in events |-> Cardinality(earlier(e)) + 1]
<1>1. /\ n \in Nat /\ IsFiniteSet(1..n) /\ Cardinality(1..n) = n
      /\ \A e \in events : e.seq \in Nat
  <2>1. \A m \in Nat : IsFiniteSet(1..m) /\ Cardinality(1..m) = m
    <3> TAKE m \in Nat
    <3>1. IsFiniteSet(1..m) /\ Cardinality(1..m) = IF 1 > m THEN 0 ELSE m - 1 + 1
      BY FS_Interval
    <3> QED
      BY <3>1
  <2>2. n \in Nat
    BY FS_CardinalityType
  <2> QED
    BY <2>1, <2>2 DEF Events
<1>2. ASSUME NEW e \in events
      PROVE  IsFiniteSet(earlier(e)) /\ Cardinality(earlier(e)) \in Nat /\ Cardinality(earlier(e)) < n
  <2>1. earlier(e) \in SUBSET (events \ {e})
    BY <1>1
  <2>2. IsFiniteSet(events \ {e}) /\ Cardinality(events \ {e}) = n - 1
    BY FS_RemoveElement
  <2>3. IsFiniteSet(earlier(e)) /\ Cardinality(earlier(e)) <= Cardinality(events \ {e})
    BY <2>1, <2>2, FS_Subset
  <2>4. Cardinality(earlier(e)) \in Nat
    BY <2>3, FS_CardinalityType
  <2> HIDE DEF n, earlier
  <2> QED
    BY <1>1, <2>2, <2>3, <2>4
<1>3. ASSUME NEW d \in events, NEW e \in events, d.seq < e.seq
      PROVE  Cardinality(earlier(d)) < Cardinality(earlier(e))
  <2>1. earlier(d) \union {d} \in SUBSET earlier(e) /\ d \notin earlier(d)
    BY <1>1, <1>3
  <2>2. Cardinality(earlier(d) \union {d}) = Cardinality(earlier(d)) + 1
    BY <1>2, <2>1, FS_AddElement
  <2>3. Cardinality(earlier(d) \union {d}) <= Cardinality(earlier(e))
    BY <1>2, <2>1, FS_Subset
  <2>4. Cardinality(earlier(d)) \in Nat /\ Cardinality(earlier(e)) \in Nat
    BY <1>2
  <2> HIDE DEF earlier
  <2> QED
    BY <2>2, <2>3, <2>4
<1>a. \A e \in events : Cardinality(earlier(e)) \in Nat /\ Cardinality(earlier(e)) < n
  BY <1>2
<1>b. \A d, e \in events : d.seq < e.seq => Cardinality(earlier(d)) < Cardinality(earlier(e))
  BY <1>3
<1> HIDE DEF n, earlier
<1>4. f \in Injection(events, 1..n)
  <2>1. f \in [events -> 1..n]
    BY <1>1, <1>a
  <2>2. ASSUME NEW d \in events, NEW e \in events, f[d] = f[e] PROVE d = e
    <3>1. Cardinality(earlier(d)) = Cardinality(earlier(e))
      BY <1>a, <2>2
    <3>2. d.seq = e.seq
      BY <1>1, <1>a, <1>b, <3>1
    <3> QED
      BY <3>2 DEF Distinct
  <2> HIDE DEF f
  <2> QED
    BY <2>1, <2>2 DEF Injection, IsInjective
<1>5. f \in Surjection(events, 1..n)
  BY <1>1, <1>4, FS_Injection DEF n
<1>6. ASSUME NEW k \in 1..n PROVE \E e \in events : Cardinality(earlier(e)) = k - 1
  <2>1. PICK e \in events : f[e] = k
    BY <1>5 DEF Surjection
  <2> QED
    BY <1>a, <2>1
<1>7. InFeedOrder(events) = [k \in 1..n |-> CHOOSE e \in events : Cardinality(earlier(e)) = k - 1]
  BY DEF InFeedOrder, n, earlier
<1>8. InFeedOrder(events) \in [1..n -> events]
  BY <1>6, <1>7
<1>9. InFeedOrder(events) \in Seq(events) /\ Len(InFeedOrder(events)) = n
  BY <1>1, <1>8, SeqDef
<1>10. ASSUME NEW e \in events PROVE \E k \in 1..n : InFeedOrder(events)[k] = e
  <2>1. f[e] \in 1..n /\ Cardinality(earlier(e)) = f[e] - 1
    BY <1>1, <1>4, <1>a DEF Injection
  <2>2. PICK k \in 1..n : k = f[e] /\ Cardinality(earlier(e)) = k - 1
    BY <2>1
  <2>3. \A d \in events : Cardinality(earlier(d)) = k - 1 => d = e
    <3> SUFFICES ASSUME NEW d \in events, Cardinality(earlier(d)) = k - 1 PROVE d = e
      OBVIOUS
    <3>1. d.seq = e.seq
      BY <1>1, <1>a, <1>b, <2>2
    <3> QED
      BY <3>1 DEF Distinct
  <2>4. InFeedOrder(events)[k] = CHOOSE d \in events : Cardinality(earlier(d)) = k - 1
    BY <1>7, <2>2
  <2>5. InFeedOrder(events)[k] = e
    BY <2>2, <2>3, <2>4
  <2> QED
    BY <2>5
<1> QED
  BY <1>9, <1>10

\* What is taken in was shown before or is one of the events.
LEMMA TakenFacts ==
  ASSUME NEW S \in SUBSET Events, NEW shown \in Seq(S), NEW seen, NEW events \in SUBSET S,
         IsFiniteSet(events), Distinct(events)
  PROVE  Taken(shown, seen, events) \in Seq(S)
<1> DEFINE new == {e \in events : e.seq > seen}
           ord == InFeedOrder(new)
           all == shown \o ord
           a == Max({1, Len(all) - MaxEvents + 1})
<1>1. ord \in Seq(new)
  <2>1. new \in SUBSET Events /\ IsFiniteSet(new) /\ Distinct(new)
    BY FS_Subset DEF Distinct
  <2> HIDE DEF new
  <2> QED
    BY <2>1, OrderIsOfEvents
<1>2. ord \in Seq(S)
  <2>1. new \subseteq S
    OBVIOUS
  <2> HIDE DEF new, ord
  <2> QED
    BY <1>1, <2>1, LongerSeq
<1> HIDE DEF ord, new
<1>3. Len(shown) \in Nat /\ Len(ord) \in Nat
  BY <1>2, LenProperties
<1>4. all \in Seq(S) /\ Len(all) = Len(shown) + Len(ord)
  BY <1>2, ConcatProperties
<1>5. \A k \in 1..Len(all) : all[k] \in S
  BY <1>4, ElementOfSeq
<1>6. Len(all) \in Nat
  BY <1>3, <1>4
<1> HIDE DEF all
<1>7. a \in Nat /\ a >= 1 /\ a <= Len(all) + 1
  <2>1. MaxEvents \in Nat \ {0}
    BY FeedAssumption
  <2> DEFINE b == Len(all) - MaxEvents + 1
  <2>2. b \in Int /\ b <= Len(all) + 1
    BY <1>6, <2>1
  <2>3. a \in {1, b} /\ a >= 1 /\ a >= b
    <3>1. \E x \in {1, b} : \A y \in {1, b} : x >= y
      <4> HIDE DEF b
      <4> QED
        BY <2>2
    <3>2. \A T : (\E x \in T : \A y \in T : x >= y) => Max(T) \in T /\ \A y \in T : Max(T) >= y
      BY DEF Max
    <3>3. a = Max({1, b})
      OBVIOUS
    <3> HIDE DEF a, b
    <3> QED
      BY <3>1, <3>2, <3>3
  <2> QED
    BY <1>6, <2>2, <2>3
<1>8. Taken(shown, seen, events) = SubSeq(all, a, Len(all))
  BY DEF Taken, all, ord, new
<1> HIDE DEF a
<1>9. SubSeq(all, a, Len(all)) \in Seq(S)
  BY <1>5, <1>6, <1>7, SubSeqProperties
<1> QED
  BY <1>8, <1>9

-----------------------------------------------------------------------------
(* The steps.                                                              *)

\* What is known stays as it is while the log grows.
LEMMA GrownKeepsKnown ==
  ASSUME FeedInv, LogGrows
  PROVE  /\ list \in Seq(GoodEvents')
         /\ \A s \in Requests :
              /\ DOMAIN req[s] = DOMAIN Idle
              /\ req[s].missing \subseteq Present'
              /\ IsFiniteSet(req[s].rows) /\ Distinct(req[s].rows) /\ req[s].rows \subseteq GoodRows'
              /\ IsFiniteSet(req[s].events) /\ Distinct(req[s].events)
              /\ req[s].events \subseteq GoodEvents'
<1>1. GoodRows \subseteq GoodRows' /\ GoodEvents \subseteq GoodEvents'
  BY GoodStays DEF FeedInv
<1>2. list \in Seq(GoodEvents')
  BY <1>1, LongerSeq DEF FeedInv
<1> QED
  BY <1>1, <1>2 DEF FeedInv, RequestOK, LogGrows

\* A step of the browser.
LEMMA LogStays ==
  ASSUME FeedInv, UNCHANGED vars
  PROVE  TypeOK' /\ (\A j \in Jobs : JobOK(j)') /\ LogGrows
BY NextGrowsLog DEF FeedInv

LEMMA ReadRowsAreGood ==
  ASSUME LogOK
  PROVE  eventLog \subseteq GoodRows
<1> SUFFICES ASSUME NEW r \in eventLog PROVE r \in GoodRows
  OBVIOUS
<1>1. r \in Marker /\ r.seq <= r.seq
  BY DEF LogOK, FeedTyped, Marker
<1> QED
  BY <1>1 DEF LogOK, Distinct, GoodRows, Behind, Labelled

LEMMA ReadEventsAreGood ==
  ASSUME TypeOK, \A j \in Jobs : JobOK(j), LogOK, NEW rows \in SUBSET GoodRows, IsFiniteSet(rows),
         Distinct(rows)
  PROVE  LET events == {EventOf(r) : r \in rows}
         IN  IsFiniteSet(events) /\ Distinct(events) /\ events \subseteq GoodEvents
<1> DEFINE events == {EventOf(r) : r \in rows}
<1>1. ASSUME NEW r \in rows PROVE EventOf(r) \in GoodEvents /\ EventOf(r).seq = r.seq
  <2>1. r \in Marker /\ Behind(r) /\ Labelled(r)
    BY DEF GoodRows
  <2> DEFINE e == EventOf(r)
  <2>2. e.seq = r.seq /\ e.job = r.job /\ e.status = status[r.job]
    BY DEF EventOf
  <2>3. e \in Events
    BY <2>1 DEF EventOf, Events, Marker, TypeOK
  <2> HIDE DEF e
  <2>4. ShowsCancel(e)
    <3> SUFFICES ASSUME NEW m \in eventLog, m.seq = e.seq, cancelAsked[m.job]
                 PROVE  e.status \notin {"QUEUED", "RUNNING"}
      BY DEF ShowsCancel
    <3>1. m.job = r.job /\ m.job \in Jobs
      BY <2>1, <2>2 DEF Labelled, Marker
    <3>2. CancelKept(m.job)
      BY <3>1 DEF JobOK
    <3> QED
      BY <2>2, <3>1, <3>2 DEF CancelKept
  <2>5. Behind(e)
    BY <2>1, <2>2 DEF Behind
  <2> QED
    BY <2>2, <2>3, <2>4, <2>5 DEF GoodEvents, e
<1>2. IsFiniteSet(events)
  <2> DEFINE f == [r \in rows |-> EventOf(r)]
  <2>1. f \in Surjection(rows, events)
    BY DEF Surjection
  <2> QED
    BY <2>1, FS_Surjection
<1>3. Distinct(events)
  BY <1>1 DEF Distinct
<1> QED
  BY <1>1, <1>2, <1>3

\* A request that carries nothing.
Empty(q) == DOMAIN q = DOMAIN Idle /\ q.missing = {} /\ q.rows = {} /\ q.events = {}

LEMMA NothingIsEmpty ==
  /\ Empty(Idle)
  /\ \A for, after : Empty(Sent(for, after))
  /\ \A for, at, after : Empty([Idle EXCEPT !.for = for, !.at = at, !.after = after])
BY DEF Empty, Sent, Idle

LEMMA FieldsOfRequest ==
  \A q : DOMAIN q = DOMAIN Idle =>
    /\ \A a, m : LET p == [q EXCEPT !.missing = m, !.at = a]
                 IN  DOMAIN p = DOMAIN Idle /\ p.missing = m /\ p.rows = q.rows /\ p.events = q.events
    /\ \A a, m : LET p == [q EXCEPT !.at = a, !.missing = m]
                 IN  DOMAIN p = DOMAIN Idle /\ p.missing = m /\ p.rows = q.rows /\ p.events = q.events
    /\ \A a, r : LET p == [q EXCEPT !.at = a, !.rows = r]
                 IN  DOMAIN p = DOMAIN Idle /\ p.missing = q.missing /\ p.rows = r /\ p.events = q.events
    /\ \A a, r, e : LET p == [q EXCEPT !.at = a, !.rows = r, !.events = e]
                    IN  DOMAIN p = DOMAIN Idle /\ p.missing = q.missing /\ p.rows = r /\ p.events = e
    /\ \A e, a : LET p == [q EXCEPT !.events = e, !.after = a]
                 IN  DOMAIN p = DOMAIN Idle /\ p.missing = q.missing /\ p.rows = q.rows /\ p.events = e
BY DEF Idle

LEMMA RestOfInv ==
  ASSUME FeedInv, TypeOK', \A j \in Jobs : JobOK(j)', LogGrows, list' \in Seq(GoodEvents'),
         DOMAIN req' = Requests,
         \A s \in Requests : req'[s] = req[s] \/ Empty(req'[s]) \/ RequestOK(req[s])'
  PROVE  FeedInv'
<1>1. ASSUME NEW s \in Requests PROVE RequestOK(req[s])'
  <2>1. CASE req'[s] = req[s]
    BY <2>1, GrownKeepsKnown DEF RequestOK
  <2>2. CASE Empty(req'[s])
    BY <2>2, FS_EmptySet DEF Empty, RequestOK, Distinct
  <2> QED
    BY <2>1, <2>2
<1> QED
  BY <1>1 DEF FeedInv, LogGrows

LEMMA ServeKeepsInv ==
  ASSUME FeedInv, NEW s \in Requests, Serve(s)
  PROVE  FeedInv'
<1>0. /\ TypeOK /\ (\A j \in Jobs : JobOK(j)) /\ LogOK /\ list \in Seq(GoodEvents)
      /\ DOMAIN req = Requests /\ RequestOK(req[s])
  BY DEF FeedInv
<1> DEFINE q == req[s]
<1>1. CASE SyncFeed(s)
  <2>1. /\ UNCHANGED vars /\ UNCHANGED list /\ DOMAIN req' = Requests
        /\ \A t \in Requests : t # s => req'[t] = req[t]
        /\ req'[s] = [q EXCEPT !.missing = Unmarked, !.at = IF Unmarked = {} THEN "markers" ELSE "insert"]
    BY <1>0, <1>1 DEF SyncFeed, storeVars
  <2>2. TypeOK' /\ (\A j \in Jobs : JobOK(j)') /\ LogGrows
    BY <2>1, LogStays
  <2>3. Unmarked \subseteq Present /\ Present = Present'
    BY <2>1 DEF Unmarked, Present, vars
  <2>4. /\ DOMAIN req'[s] = DOMAIN Idle /\ req'[s].missing = Unmarked
        /\ req'[s].rows = q.rows /\ req'[s].events = q.events
    BY <1>0, <2>1, FieldsOfRequest DEF RequestOK
  <2>5. RequestOK(req[s])'
    BY <2>2, <2>3, <2>4, GrownKeepsKnown DEF RequestOK
  <2> QED
    BY <2>1, <2>2, <2>5, GrownKeepsKnown, RestOfInv
<1>2. CASE InsertMissing(s)
  <2>1. /\ eventLog' = Backfill(eventLog, q.missing) /\ UNCHANGED list /\ DOMAIN req' = Requests
        /\ UNCHANGED <<status, rowVars, owner, lease, backoff, cancelAsked, errorCode, attempts>>
        /\ \A t \in Requests : t # s => req'[t] = req[t]
        /\ req'[s] = [q EXCEPT !.at = "markers", !.missing = {}]
    BY <1>0, <1>2 DEF InsertMissing, storeVars
  <2>2. LogGrows
    BY <1>0, <2>1, BackfillGrowsLog DEF RequestOK
  <2>3. TypeOK'
    BY <1>0, <2>1, <2>2 DEF TypeOK, LogGrows, LogOK, FeedTyped, rowVars
  <2>4. \A j \in Jobs : JobOK(j)'
    BY <1>0, <2>1 DEF JobOK, LeaseMatches, SentIsLast, HistoryFits, RetryBounded, CancelKept, LastOutcome
  <2>5. /\ DOMAIN req'[s] = DOMAIN Idle /\ req'[s].missing = {}
        /\ req'[s].rows = q.rows /\ req'[s].events = q.events
    BY <1>0, <2>1, FieldsOfRequest DEF RequestOK
  <2>6. RequestOK(req[s])'
    BY <2>2, <2>5, GrownKeepsKnown DEF RequestOK
  <2> QED
    BY <2>1, <2>2, <2>3, <2>4, <2>6, GrownKeepsKnown, RestOfInv
<1>3. CASE ReadMarkers(s)
  <2> DEFINE read == {r \in eventLog : r.seq > q.after}
  <2>1. /\ UNCHANGED vars /\ UNCHANGED list /\ DOMAIN req' = Requests
        /\ \A t \in Requests : t # s => req'[t] = req[t]
        /\ req'[s] = [q EXCEPT !.at = "rows", !.rows = read]
    BY <1>0, <1>3 DEF ReadMarkers, storeVars
  <2>2. TypeOK' /\ (\A j \in Jobs : JobOK(j)') /\ LogGrows
    BY <2>1, LogStays
  <2>3. IsFiniteSet(read) /\ Distinct(read) /\ read \subseteq GoodRows /\ GoodRows \subseteq GoodRows'
    <3>1. IsFiniteSet(read)
      BY <1>0, FS_Subset DEF LogOK
    <3>2. read \subseteq GoodRows
      BY <1>0, ReadRowsAreGood
    <3> QED
      BY <1>0, <2>2, <3>1, <3>2, GoodStays DEF LogOK, Distinct
  <2> HIDE DEF read
  <2>4. /\ DOMAIN req'[s] = DOMAIN Idle /\ req'[s].missing = q.missing
        /\ req'[s].rows = read /\ req'[s].events = q.events
    BY <1>0, <2>1, FieldsOfRequest DEF RequestOK
  <2>5. RequestOK(req[s])'
    BY <2>2, <2>3, <2>4, GrownKeepsKnown DEF RequestOK
  <2> QED
    BY <2>1, <2>2, <2>5, GrownKeepsKnown, RestOfInv
<1>4. CASE ReadRows(s)
  <2> DEFINE events == {EventOf(r) : r \in q.rows}
  <2>1. /\ UNCHANGED vars /\ UNCHANGED list /\ DOMAIN req' = Requests
        /\ \A t \in Requests : t # s => req'[t] = req[t]
        /\ req'[s] = [q EXCEPT !.at = "reply", !.rows = {}, !.events = events]
    BY <1>0, <1>4 DEF ReadRows, storeVars
  <2>2. TypeOK' /\ (\A j \in Jobs : JobOK(j)') /\ LogGrows
    BY <2>1, LogStays
  <2>3. /\ IsFiniteSet(events) /\ Distinct(events) /\ events \subseteq GoodEvents
        /\ GoodEvents \subseteq GoodEvents'
    BY <1>0, <2>2, ReadEventsAreGood, GoodStays DEF RequestOK
  <2> HIDE DEF events
  <2>4. /\ DOMAIN req'[s] = DOMAIN Idle /\ req'[s].missing = q.missing
        /\ req'[s].rows = {} /\ req'[s].events = events
    BY <1>0, <2>1, FieldsOfRequest DEF RequestOK
  <2>5. RequestOK(req[s])'
    BY <2>2, <2>3, <2>4, GrownKeepsKnown, FS_EmptySet DEF RequestOK, Distinct
  <2> QED
    BY <2>1, <2>2, <2>5, GrownKeepsKnown, RestOfInv
<1> QED
  BY <1>1, <1>2, <1>3, <1>4 DEF Serve

\* What the store takes in, of an answer or of a stream.
LEMMA TakenIsGood ==
  ASSUME FeedInv, UNCHANGED vars, NEW s \in Requests, NEW shown \in {list, << >>}, NEW seen,
         NEW some \in SUBSET req[s].events
  PROVE  Taken(shown, seen, some) \in Seq(GoodEvents')
<1>1. /\ GoodEvents \subseteq Events /\ list \in Seq(GoodEvents)
      /\ IsFiniteSet(req[s].events) /\ Distinct(req[s].events) /\ req[s].events \subseteq GoodEvents
  BY DEF FeedInv, RequestOK, GoodEvents
<1>2. IsFiniteSet(some) /\ Distinct(some) /\ some \subseteq GoodEvents
  BY <1>1, FS_Subset DEF Distinct
<1>3. shown \in Seq(GoodEvents)
  <2>1. \A S : << >> \in Seq(S)
    OBVIOUS
  <2> QED
    BY <1>1, <2>1
<1>4. Taken(shown, seen, some) \in Seq(GoodEvents)
  BY <1>1, <1>2, <1>3, TakenFacts
<1>5. GoodEvents \subseteq GoodEvents'
  BY LogStays, GoodStays DEF FeedInv
<1> QED
  BY <1>4, <1>5, LongerSeq

LEMMA StoreKeepsInv ==
  ASSUME FeedInv, NEW s \in Requests,
         StoreStep(s) \/ NativeReconnect(s) \/ FetchFailed(s) \/ StreamFailed(s)
  PROVE  FeedInv'
<1>0. UNCHANGED vars /\ DOMAIN req = Requests /\ RequestOK(req[s])
  BY DEF FeedInv, StoreStep, Connect, Refresh, Deliver, EndOfReplay, StreamEnded, NativeReconnect,
     FetchFailed, StreamFailed, storeVars
<1>1. /\ TypeOK' /\ (\A j \in Jobs : JobOK(j)') /\ LogGrows
      /\ list \in Seq(GoodEvents')
  BY <1>0, LogStays, GrownKeepsKnown
<1>2. CASE Deliver(s)
  <2>1. PICK e \in req[s].events :
          /\ list' = Taken(list, cursor, {e})
          /\ req' = [req EXCEPT ![s].events = @ \ {e}, ![s].after = e.seq]
    BY <1>2 DEF Deliver
  <2>2. list' \in Seq(GoodEvents')
    <3>1. {e} \in SUBSET req[s].events
      OBVIOUS
    <3> QED
      BY <1>0, <2>1, <3>1, TakenIsGood
  <2>3. /\ DOMAIN req' = Requests /\ \A t \in Requests : t # s => req'[t] = req[t]
        /\ req'[s] = [req[s] EXCEPT !.events = @ \ {e}, !.after = e.seq]
    BY <1>0, <2>1
  <2>4. /\ DOMAIN req'[s] = DOMAIN Idle /\ req'[s].missing = req[s].missing
        /\ req'[s].rows = req[s].rows /\ req'[s].events = req[s].events \ {e}
    BY <1>0, <2>3, FieldsOfRequest DEF RequestOK
  <2>5. RequestOK(req[s])'
    <3>1. IsFiniteSet(req[s].events \ {e})
      BY <1>0, FS_Subset DEF RequestOK
    <3> QED
      BY <1>1, <2>4, <3>1, GrownKeepsKnown DEF RequestOK, Distinct
  <2> QED
    BY <1>1, <2>2, <2>3, <2>5, RestOfInv
<1>3. CASE Connect(s) \/ Refresh(s)
  <2>1. list' \in {Taken(list, cursor, req[s].events), Taken(<< >>, 0, req[s].events)}
    BY <1>3 DEF Connect, Refresh
  <2>2. list' \in Seq(GoodEvents')
    <3>1. \A shown \in {list, << >>} : \A seen : Taken(shown, seen, req[s].events) \in Seq(GoodEvents')
      BY <1>0, TakenIsGood
    <3> QED
      BY <2>1, <3>1
  <2>3. req' \in {[req EXCEPT ![s] = Sent("stream", cursor')], [req EXCEPT ![s] = Idle]}
    BY <1>3 DEF Connect, Refresh
  <2>4. PICK q : req' = [req EXCEPT ![s] = q] /\ Empty(q)
    BY <2>3, NothingIsEmpty
  <2>5. DOMAIN req' = Requests /\ \A t \in Requests : req'[t] = req[t] \/ Empty(req'[t])
    BY <1>0, <2>4
  <2> QED
    BY <1>1, <2>2, <2>5, RestOfInv
<1>4. CASE EndOfReplay(s) \/ NativeReconnect(s) \/ FetchFailed(s) \/ StreamFailed(s)
  <2>1. UNCHANGED list /\ \E q : Empty(q) /\ req' = [req EXCEPT ![s] = q]
    BY <1>4, NothingIsEmpty DEF EndOfReplay, NativeReconnect, FetchFailed, StreamFailed, StreamEnded,
       storeVars
  <2>2. DOMAIN req' = Requests /\ \A t \in Requests : req'[t] = req[t] \/ Empty(req'[t])
    BY <1>0, <2>1
  <2> QED
    BY <1>1, <2>1, <2>2, RestOfInv
<1> QED
  BY <1>2, <1>3, <1>4 DEF StoreStep

LEMMA FeedStep ==
  ASSUME FeedInv, [FeedNext]_feedAndQueue
  PROVE  FeedInv'
<1>0. DOMAIN req = Requests
  BY DEF FeedInv
<1>1. CASE Next /\ UNCHANGED feedVars
  <2>1. TypeOK' /\ (\A j \in Jobs : JobOK(j)') /\ LogGrows
    BY <1>1, NextGrowsLog DEF FeedInv
  <2> QED
    BY <1>0, <1>1, <2>1, GrownKeepsKnown, RestOfInv DEF feedVars, storeVars
<1>2. CASE UNCHANGED feedAndQueue
  <2>1. TypeOK' /\ (\A j \in Jobs : JobOK(j)') /\ LogGrows
    BY <1>2, LogStays DEF feedAndQueue
  <2> QED
    BY <1>0, <1>2, <2>1, GrownKeepsKnown, RestOfInv DEF feedAndQueue, feedVars, storeVars
<1>3. CASE Subscribe \/ Unsubscribe \/ AskRefresh \/ ReconnectNow
  <2>1. UNCHANGED vars /\ list' \in {list, << >>}
    BY <1>3 DEF Subscribe, Unsubscribe, AskRefresh, ReconnectNow, storeVars
  <2>2. TypeOK' /\ (\A j \in Jobs : JobOK(j)') /\ LogGrows
    BY <2>1, LogStays
  <2>3. list' \in Seq(GoodEvents')
    <3>1. \A S : << >> \in Seq(S)
      OBVIOUS
    <3> QED
      BY <2>1, <2>2, <3>1, GrownKeepsKnown
  <2>4. DOMAIN req' = Requests /\ \A t \in Requests : req'[t] = req[t] \/ Empty(req'[t])
    <3>1. CASE UNCHANGED req
      BY <1>0, <3>1
    <3>2. ASSUME NEW t \in Requests, NEW for, req' = [req EXCEPT ![t] = Sent(for, 0)]
          PROVE  DOMAIN req' = Requests /\ \A u \in Requests : req'[u] = req[u] \/ Empty(req'[u])
      BY <1>0, <3>2, NothingIsEmpty
    <3>3. ASSUME NEW T, req' = [t \in Requests |-> IF t \in T THEN Idle ELSE req[t]]
          PROVE  DOMAIN req' = Requests /\ \A u \in Requests : req'[u] = req[u] \/ Empty(req'[u])
      BY <3>3, NothingIsEmpty
    <3>4. ASSUME NEW t \in Requests,
                 req' = [u \in Requests |-> IF u = t THEN Sent("connect", 0)
                                            ELSE IF u = stream THEN Idle ELSE req[u]]
          PROVE  DOMAIN req' = Requests /\ \A u \in Requests : req'[u] = req[u] \/ Empty(req'[u])
      BY <3>4, NothingIsEmpty
    <3>5. CASE Subscribe \/ AskRefresh
      BY <3>1, <3>2, <3>5 DEF Subscribe, AskRefresh, Fetch
    <3>6. CASE Unsubscribe
      <4>1. UNCHANGED req \/ req' = [u \in Requests |-> IF u = stream THEN Idle ELSE req[u]]
        BY <3>6 DEF Unsubscribe
      <4>2. req' = [u \in Requests |-> IF u = stream THEN Idle ELSE req[u]]
            => req' = [u \in Requests |-> IF u \in {stream} THEN Idle ELSE req[u]]
        OBVIOUS
      <4> QED
        BY <3>1, <3>3, <4>1, <4>2
    <3>7. CASE ReconnectNow
      BY <3>4, <3>7 DEF ReconnectNow
    <3> QED
      BY <1>3, <3>5, <3>6, <3>7
  <2> QED
    BY <2>2, <2>3, <2>4, RestOfInv
<1> QED
  BY <1>1, <1>2, <1>3, ServeKeepsInv, StoreKeepsInv DEF FeedNext

-----------------------------------------------------------------------------
(* The cursor and the list.                                                *)
(*                                                                         *)
(* Where requests overlap, an older answer may move the cursor or take the *)
(* list away under a stream.  As long as one request at a time is under    *)
(* way ("never multiplies listeners or connections", jobStore.ts:5-6), the *)
(* list follows the cursor: a replay has every marker up to the last one   *)
(* it read, and a stream goes on no later than the cursor.                 *)

OneConnection == \A s, t \in Requests : req[s].for # "none" /\ req[t].for # "none" => s = t

\* What was read is newer than after, and no marker in between is missing.
Covers(read, after) ==
  /\ \A e \in read : after < e.seq
  /\ \A r \in eventLog :
       (after < r.seq /\ \E e \in read : r.seq <= e.seq)
         => \E e \in read : e.seq = r.seq /\ e.job = r.job

Follows(q) ==
  /\ q.for \in {"none", "connect", "refresh", "stream"} /\ q.after \in Nat
  /\ q.for \in {"connect", "refresh"} => q.after = 0
  /\ q.at = "rows" => Covers(q.rows, q.after)
  /\ q.at = "reply" => Covers(q.events, q.after)

IsTheStream(s) == req[s].for = "stream" => s = stream /\ req[s].after <= cursor

FollowInv ==
  /\ cursor \in Nat /\ (cursor = 0 \/ \E r \in eventLog : cursor <= r.seq)
  /\ \A s \in Requests : Follows(req[s]) /\ IsTheStream(s)
  /\ CursorHidesNoJob

\* A marker published later is newer than all that was read.
LEMMA CoversStays ==
  ASSUME LogOK, LogGrows, NEW read, NEW after \in Nat,
         \A e \in read : e.seq \in Nat /\ Behind(e), Covers(read, after)
  PROVE  Covers(read, after)'
<1>1. \A r \in eventLog : r.seq \in Nat
  BY DEF LogOK, FeedTyped, Marker
<1>2. \A r \in eventLog' : r.seq \in Nat
  BY DEF LogGrows, LogOK, FeedTyped, Marker
<1>3. SUFFICES ASSUME NEW r \in eventLog', after < r.seq, NEW e \in read, r.seq <= e.seq
               PROVE  \E d \in read : d.seq = r.seq /\ d.job = r.job
  BY DEF Covers
<1>4. PICK top \in eventLog : e.seq <= top.seq
  BY <1>3 DEF Behind
<1>5. r \in eventLog
  BY <1>1, <1>2, <1>3, <1>4 DEF LogGrows
<1> QED
  BY <1>3, <1>5 DEF Covers

LEMMA FollowsStays ==
  ASSUME FeedInv, LogGrows, NEW s \in Requests, Follows(req[s]), req'[s] = req[s]
  PROVE  Follows(req[s])'
<1>1. /\ \A r \in req[s].rows : r.seq \in Nat /\ Behind(r)
      /\ \A e \in req[s].events : e.seq \in Nat /\ Behind(e)
  BY DEF FeedInv, RequestOK, GoodRows, GoodEvents, Marker, Events
<1>2. PICK q : q = req[s] /\ q = req'[s]
  OBVIOUS
<1>3. /\ Covers(q.rows, q.after) /\ q.after \in Nat => Covers(q.rows, q.after)'
      /\ Covers(q.events, q.after) /\ q.after \in Nat => Covers(q.events, q.after)'
  BY <1>1, <1>2, CoversStays DEF FeedInv
<1> QED
  BY <1>2, <1>3 DEF Follows

LEMMA CursorStaysBehind ==
  ASSUME LogOK, LogGrows, cursor \in Nat, cursor = 0 \/ \E r \in eventLog : cursor <= r.seq
  PROVE  cursor = 0 \/ \E r \in eventLog' : cursor <= r.seq
<1>1. \A r \in eventLog : r.seq \in Nat
  BY DEF LogOK, FeedTyped, Marker
<1>2. \A r \in eventLog' : r.seq \in Nat
  BY DEF LogGrows, LogOK, FeedTyped, Marker
<1>3. ASSUME NEW r \in eventLog, cursor <= r.seq PROVE \E m \in eventLog' : cursor <= m.seq
  <2>1. PICK m \in eventLog' : r.seq <= m.seq
    BY DEF LogGrows
  <2> QED
    BY <1>1, <1>2, <1>3, <2>1
<1> QED
  BY <1>3

\* What is in the log up to the cursor was there before, and shown.
LEMMA ShownStays ==
  ASSUME LogOK, LogGrows, FollowInv, UNCHANGED <<list, cursor>>
  PROVE  CursorHidesNoJob'
<1>1. \A r \in eventLog : r.seq \in Nat /\ r.seq > 0
  BY DEF LogOK, FeedTyped, Marker
<1>2. \A r \in eventLog' : r.seq \in Nat /\ r.seq > 0
  BY DEF LogGrows, LogOK, FeedTyped, Marker
<1>3. ASSUME NEW r \in eventLog', r.seq <= cursor PROVE r \in eventLog
  <2>1. PICK top \in eventLog : cursor <= top.seq
    BY <1>2, <1>3 DEF FollowInv
  <2> QED
    BY <1>1, <1>2, <1>3, <2>1 DEF LogGrows, FollowInv
<1> QED
  BY <1>3 DEF FollowInv, CursorHidesNoJob

\* As long as nothing is cut off, all that was shown stays and all that is new is shown.
LEMMA TakenShows ==
  ASSUME NEW S \in SUBSET Events, NEW shown \in Seq(S), NEW seen, NEW events \in SUBSET S,
         IsFiniteSet(events), Distinct(events), Len(Taken(shown, seen, events)) < MaxEvents
  PROVE  /\ Len(shown) < MaxEvents
         /\ \A n \in DOMAIN shown :
              \E m \in DOMAIN Taken(shown, seen, events) : Taken(shown, seen, events)[m] = shown[n]
         /\ \A e \in events : e.seq > seen =>
              \E m \in DOMAIN Taken(shown, seen, events) : Taken(shown, seen, events)[m] = e
<1> DEFINE new == {e \in events : e.seq > seen}
           ord == InFeedOrder(new)
           all == shown \o ord
           a == Max({1, Len(all) - MaxEvents + 1})
<1>1. ord \in Seq(new) /\ \A e \in new : \E k \in 1..Len(ord) : ord[k] = e
  <2>1. new \in SUBSET Events /\ IsFiniteSet(new) /\ Distinct(new)
    BY FS_Subset DEF Distinct
  <2> HIDE DEF new
  <2> QED
    BY <2>1, OrderIsOfEvents
<1>2. ord \in Seq(S)
  <2>1. new \subseteq S
    OBVIOUS
  <2> HIDE DEF new, ord
  <2> QED
    BY <1>1, <2>1, LongerSeq
<1>a. \A e \in events : e.seq > seen => e \in new
  OBVIOUS
<1> HIDE DEF ord, new
<1>3. Len(shown) \in Nat /\ Len(ord) \in Nat
  BY <1>2, LenProperties
<1>4. /\ all \in Seq(S) /\ Len(all) = Len(shown) + Len(ord)
      /\ \A k \in 1..Len(shown) : all[k] = shown[k]
      /\ \A k \in 1..Len(ord) : all[k + Len(shown)] = ord[k]
  <2>1. \A k \in 1..(Len(shown) + Len(ord)) :
           all[k] = IF k <= Len(shown) THEN shown[k] ELSE ord[k - Len(shown)]
    BY <1>2, ConcatProperties
  <2>2. all \in Seq(S) /\ Len(all) = Len(shown) + Len(ord)
    BY <1>2, ConcatProperties
  <2> HIDE DEF all
  <2>3. ASSUME NEW k \in 1..Len(shown) PROVE all[k] = shown[k]
    BY <1>3, <2>1
  <2>4. ASSUME NEW k \in 1..Len(ord) PROVE all[k + Len(shown)] = ord[k]
    <3>1. PICK i : i = k + Len(shown)
      OBVIOUS
    <3>2. i \in 1..(Len(shown) + Len(ord)) /\ ~(i <= Len(shown)) /\ i - Len(shown) = k
      BY <1>3, <3>1
    <3> QED
      BY <2>1, <3>1, <3>2
  <2> QED
    BY <2>2, <2>3, <2>4
<1>5. Taken(shown, seen, events) = SubSeq(all, a, Len(all))
  BY DEF Taken, all, ord, new
<1>6. Len(all) \in Nat /\ \A k \in 1..Len(all) : all[k] \in S
  BY <1>3, <1>4, ElementOfSeq
<1> HIDE DEF all
<1>7. a = 1
  <2>1. MaxEvents \in Nat \ {0}
    BY FeedAssumption
  <2> DEFINE b == Len(all) - MaxEvents + 1
  <2>2. b \in Int /\ b <= Len(all) + 1 /\ Len(all) - b + 1 = MaxEvents
    BY <1>6, <2>1
  <2>3. a \in {1, b} /\ a >= 1 /\ a >= b
    <3>1. \E x \in {1, b} : \A y \in {1, b} : x >= y
      <4> HIDE DEF b
      <4> QED
        BY <2>2
    <3>2. \A T : (\E x \in T : \A y \in T : x >= y) => Max(T) \in T /\ \A y \in T : Max(T) >= y
      BY DEF Max
    <3>3. a = Max({1, b})
      OBVIOUS
    <3> HIDE DEF a, b
    <3> QED
      BY <3>1, <3>2, <3>3
  <2> HIDE DEF a, b
  <2>4. a \in Nat /\ a >= 1 /\ a <= Len(all) + 1
    BY <1>6, <2>2, <2>3
  <2>5. Len(SubSeq(all, a, Len(all))) = Len(all) - a + 1
    <3>1. Len(SubSeq(all, a, Len(all))) = IF a <= Len(all) THEN Len(all) - a + 1 ELSE 0
      BY <1>6, <2>4, SubSeqProperties
    <3> QED
      BY <1>6, <2>4, <3>1
  <2> QED
    BY <1>5, <1>6, <2>1, <2>2, <2>3, <2>4, <2>5
<1> HIDE DEF a
<1> DEFINE T == SubSeq(all, 1, Len(all))
<1>8. T \in Seq(S) /\ Len(T) = Len(all) /\ \A k \in 1..Len(all) : T[k] = all[k]
  <2>1. /\ T \in Seq(S) /\ Len(T) = IF 1 <= Len(all) THEN Len(all) - 1 + 1 ELSE 0
        /\ \A k \in 1..(Len(all) - 1 + 1) : T[k] = all[1 + k - 1]
    BY <1>6, SubSeqProperties
  <2> HIDE DEF T
  <2> QED
    BY <1>6, <2>1
<1>9. T = Taken(shown, seen, events)
  BY <1>5, <1>7
<1> HIDE DEF T
<1>10. DOMAIN T = 1..Len(all) /\ DOMAIN shown = 1..Len(shown)
  BY <1>8, LenProperties
<1>11. ASSUME NEW n \in DOMAIN shown PROVE \E m \in DOMAIN T : T[m] = shown[n]
  BY <1>3, <1>4, <1>8, <1>10
<1>12. ASSUME NEW e \in events, e.seq > seen PROVE \E m \in DOMAIN T : T[m] = e
  <2>1. PICK k \in 1..Len(ord) : ord[k] = e
    BY <1>1, <1>a, <1>12
  <2>2. k + Len(shown) \in 1..Len(all) /\ all[k + Len(shown)] = e
    BY <1>3, <1>4, <2>1
  <2> QED
    BY <1>8, <1>10, <2>2
<1>13. Len(shown) < MaxEvents
  <2>1. MaxEvents \in Nat /\ Len(T) < MaxEvents
    BY <1>9, FeedAssumption
  <2> QED
    BY <1>3, <1>4, <1>8, <2>1
<1> QED
  BY <1>9, <1>11, <1>12, <1>13

LEMMA CursorMoves ==
  ASSUME NEW seen \in Nat, NEW events, IsFiniteSet(events), \A e \in events : e.seq \in Nat
  PROVE  /\ CursorAfter(seen, events) \in Nat /\ CursorAfter(seen, events) >= seen
         /\ \A e \in events : CursorAfter(seen, events) >= e.seq
         /\ \/ CursorAfter(seen, events) = seen
            \/ \E e \in events : CursorAfter(seen, events) = e.seq
<1> DEFINE T == {seen} \union {e.seq : e \in events}
<1>1. T \in SUBSET Nat /\ T # {}
  OBVIOUS
<1>2. IsFiniteSet(T)
  <2> DEFINE f == [e \in events |-> e.seq]
  <2>1. f \in Surjection(events, {e.seq : e \in events})
    BY DEF Surjection
  <2>2. IsFiniteSet({e.seq : e \in events})
    BY <2>1, FS_Surjection
  <2> QED
    BY <2>2, FS_AddElement, FS_Union, FS_Singleton
<1>3. PICK top \in T : \A x \in T : x <= top
  BY <1>1, <1>2, FiniteHasMax
<1>4. Max(T) \in T /\ \A x \in T : Max(T) >= x
  <2>1. \A x \in T : top >= x
    BY <1>1, <1>3
  <2> HIDE DEF T
  <2> QED
    BY <2>1 DEF Max
<1>5. CursorAfter(seen, events) = Max(T)
  BY DEF CursorAfter
<1>6. seen \in T /\ \A e \in events : e.seq \in T
  OBVIOUS
<1>7. PICK m : m = Max(T)
  OBVIOUS
<1>8. m \in Nat /\ (m = seen \/ \E e \in events : m = e.seq) /\ \A x \in T : m >= x
  BY <1>1, <1>4, <1>7
<1> HIDE DEF T
<1> QED
  BY <1>5, <1>6, <1>7, <1>8

\* Some events, taken in after what was shown up to seen, leave no marker out.
Reached(seen) == seen = 0 \/ \E r \in eventLog : seen <= r.seq
ShownUpTo(shown, seen) ==
  Len(shown) < MaxEvents =>
    \A r \in eventLog : r.seq <= seen => \E n \in DOMAIN shown : shown[n].job = r.job
GoesOn(seen, some) ==
  \A r \in eventLog : (seen < r.seq /\ \E e \in some : r.seq <= e.seq)
    => \E e \in some : e.seq = r.seq /\ e.job = r.job

LEMMA TakenInOrder ==
  ASSUME FeedInv, UNCHANGED vars, NEW s \in Requests, NEW some, some \subseteq req[s].events,
         NEW shown, shown \in Seq(GoodEvents), NEW seen, seen \in Nat,
         Reached(seen), ShownUpTo(shown, seen), GoesOn(seen, some),
         list' = Taken(shown, seen, some), cursor' = CursorAfter(seen, some)
  PROVE  /\ cursor' \in Nat /\ cursor' >= seen /\ \A e \in some : cursor' >= e.seq
         /\ (cursor' = 0 \/ \E r \in eventLog' : cursor' <= r.seq)
         /\ CursorHidesNoJob'
<1>0. /\ LogOK /\ eventLog' = eventLog /\ \A r \in eventLog : r.seq \in Nat
      /\ IsFiniteSet(req[s].events) /\ Distinct(req[s].events) /\ req[s].events \subseteq GoodEvents
      /\ GoodEvents \subseteq Events
  BY DEF FeedInv, LogOK, FeedTyped, Marker, RequestOK, GoodEvents, vars
<1>1. /\ IsFiniteSet(some) /\ Distinct(some) /\ some \subseteq GoodEvents
      /\ \A e \in some : e.seq \in Nat /\ Behind(e)
  BY <1>0, FS_Subset DEF Distinct, GoodEvents, Events
<1>2. /\ cursor' \in Nat /\ cursor' >= seen /\ \A e \in some : cursor' >= e.seq
      /\ (cursor' = seen \/ \E e \in some : cursor' = e.seq)
  BY <1>1, CursorMoves
<1>3. cursor' = 0 \/ \E r \in eventLog' : cursor' <= r.seq
  BY <1>0, <1>1, <1>2 DEF Behind, Reached
<1>4. ASSUME Len(list') < MaxEvents, NEW r \in eventLog, r.seq <= cursor'
      PROVE  \E n \in DOMAIN list' : list'[n].job = r.job
  <2>1. /\ \A n \in DOMAIN shown : \E m \in DOMAIN list' : list'[m] = shown[n]
        /\ \A e \in some : e.seq > seen => \E m \in DOMAIN list' : list'[m] = e
    BY <1>0, <1>1, <1>4, TakenShows
  <2>2. CASE r.seq <= seen
    <3>1. Len(shown) < MaxEvents
      BY <1>0, <1>1, <1>4, TakenShows
    <3>2. PICK n \in DOMAIN shown : shown[n].job = r.job
      BY <1>4, <2>2, <3>1 DEF ShownUpTo
    <3> QED
      BY <2>1, <3>2
  <2>3. CASE seen < r.seq
    <3>1. \E e \in some : r.seq <= e.seq
      BY <1>0, <1>2, <1>4, <2>3
    <3>2. PICK e \in some : e.seq = r.seq /\ e.job = r.job
      BY <1>4, <2>3, <3>1 DEF GoesOn
    <3> QED
      BY <2>1, <2>3, <3>2
  <2> QED
    BY <1>0, <2>2, <2>3
<1> QED
  BY <1>0, <1>2, <1>3, <1>4 DEF CursorHidesNoJob

\* What a request becomes that is sent, ends, or goes on by one event.
LEMMA SentFollows ==
  /\ Follows(Idle)
  /\ \A for \in {"connect", "refresh"} : Follows(Sent(for, 0))
  /\ \A after \in Nat : Follows(Sent("stream", after))
  /\ \A after \in Nat : Follows([Idle EXCEPT !.for = "stream", !.at = "ended", !.after = after])
BY DEF Follows, Sent, Idle

LEMMA FieldsOfSent ==
  /\ Idle.for = "none" /\ Idle.after = 0
  /\ \A for, after : Sent(for, after).for = for /\ Sent(for, after).after = after
  /\ \A after : LET q == [Idle EXCEPT !.for = "stream", !.at = "ended", !.after = after]
                IN  q.for = "stream" /\ q.after = after
BY DEF Sent, Idle

LEMMA OtherFields ==
  \A q : DOMAIN q = DOMAIN Idle =>
    /\ \A a, m : LET p == [q EXCEPT !.missing = m, !.at = a]
                 IN  p.at = a /\ p.for = q.for /\ p.after = q.after
    /\ \A a, m : LET p == [q EXCEPT !.at = a, !.missing = m]
                 IN  p.at = a /\ p.for = q.for /\ p.after = q.after
    /\ \A a, r : LET p == [q EXCEPT !.at = a, !.rows = r]
                 IN  p.at = a /\ p.for = q.for /\ p.after = q.after
    /\ \A a, r, e : LET p == [q EXCEPT !.at = a, !.rows = r, !.events = e]
                    IN  p.at = a /\ p.for = q.for /\ p.after = q.after
    /\ \A e, a : LET p == [q EXCEPT !.events = e, !.after = a]
                 IN  p.at = q.at /\ p.for = q.for /\ p.after = a
BY DEF Idle

\* What a statement of the server makes of request q.
Served(q, p) ==
  /\ p.for = q.for /\ p.after = q.after
  /\ \/ p.at \in {"insert", "markers"}
     \/ p.at = "rows" /\ p.rows = {r \in eventLog : r.seq > q.after}
     \/ q.at = "rows" /\ p.at = "reply" /\ p.events = {EventOf(r) : r \in q.rows}
  /\ p.at \in {"rows", "reply"} => UNCHANGED vars

LEMMA ServedRequest ==
  ASSUME FeedInv, NEW s \in Requests, Serve(s)
  PROVE  Served(req[s], req'[s]) /\ \A t \in Requests : t # s => req'[t] = req[t]
<1>a. DOMAIN req = Requests /\ RequestOK(req[s])
  BY DEF FeedInv
<1>b. PICK q : q = req[s]
  OBVIOUS
<1>c. DOMAIN q = DOMAIN Idle
  BY <1>b, <1>a DEF RequestOK
<1>1. CASE SyncFeed(s)
  <2>0. PICK a, m : m = Unmarked /\ a = IF m = {} THEN "markers" ELSE "insert"
    OBVIOUS
  <2>1. PICK p : p = [q EXCEPT !.missing = m, !.at = a] /\ req' = [req EXCEPT ![s] = p]
    BY <1>1, <1>b, <2>0 DEF SyncFeed
  <2>2. a \in {"insert", "markers"}
    BY <2>0
  <2>3. p.at = a /\ p.for = q.for /\ p.after = q.after
    BY <1>c, <2>1, OtherFields
  <2>4. req'[s] = p /\ \A t \in Requests : t # s => req'[t] = req[t]
    BY <1>a, <2>1
  <2> QED
    BY <1>b, <2>2, <2>3, <2>4 DEF Served
<1>2. CASE InsertMissing(s)
  <2>1. PICK p : p = [q EXCEPT !.at = "markers", !.missing = {}]
    OBVIOUS
  <2>2. p.at = "markers" /\ p.for = q.for /\ p.after = q.after
    BY <1>c, <2>1, OtherFields
  <2>3. /\ req'[s] = p
        /\ \A t \in Requests : t # s => req'[t] = req[t]
    BY <1>b, <1>a, <1>2, <2>1 DEF InsertMissing
  <2> QED
    BY <1>b, <2>2, <2>3 DEF Served
<1>3. CASE ReadMarkers(s)
  <2>1. PICK p, rows : p = [q EXCEPT !.at = "rows", !.rows = rows]
                       /\ rows = {r \in eventLog : r.seq > q.after}
    OBVIOUS
  <2>2. p.at = "rows" /\ p.rows = rows /\ p.for = q.for /\ p.after = q.after
    BY <1>c, <2>1, OtherFields, FieldsOfRequest
  <2>3. /\ req'[s] = p /\ UNCHANGED vars
        /\ \A t \in Requests : t # s => req'[t] = req[t]
    BY <1>b, <1>a, <1>3, <2>1 DEF ReadMarkers
  <2> QED
    BY <1>b, <2>1, <2>2, <2>3 DEF Served
<1>4. CASE ReadRows(s)
  <2>1. PICK p, events : p = [q EXCEPT !.at = "reply", !.rows = {}, !.events = events]
                         /\ events = {EventOf(r) : r \in q.rows}
    OBVIOUS
  <2>2. p.at = "reply" /\ p.events = events /\ p.for = q.for /\ p.after = q.after
    BY <1>c, <2>1, OtherFields, FieldsOfRequest
  <2>3. /\ req'[s] = p /\ UNCHANGED vars /\ q.at = "rows"
        /\ \A t \in Requests : t # s => req'[t] = req[t]
    BY <1>b, <1>a, <1>4, <2>1 DEF ReadRows
  <2> QED
    BY <1>b, <2>1, <2>2, <2>3 DEF Served
<1> QED
  BY <1>1, <1>2, <1>3, <1>4 DEF Serve

LEMMA ServeFollows ==
  ASSUME FeedInv, FollowInv, NEW s \in Requests, Serve(s), LogGrows
  PROVE  FollowInv'
<1>0. /\ DOMAIN req = Requests /\ RequestOK(req[s]) /\ LogOK
      /\ UNCHANGED storeVars /\ Follows(req[s]) /\ IsTheStream(s)
  BY DEF FeedInv, FollowInv, Serve, SyncFeed, InsertMissing, ReadMarkers, ReadRows
<1>1. PICK q, p : /\ q = req[s] /\ p = req'[s] /\ Served(q, p)
                  /\ \A t \in Requests : t # s => req'[t] = req[t]
  BY ServedRequest
<1>2. Follows(p)'
  <2>1. /\ p.for \in {"none", "connect", "refresh", "stream"} /\ p.after \in Nat
        /\ p.for \in {"connect", "refresh"} => p.after = 0
    BY <1>0, <1>1 DEF Follows, Served
  <2>2. ASSUME p.at = "rows" PROVE Covers(p.rows, p.after)'
    <3>1. eventLog' = eventLog /\ p.rows = {r \in eventLog : r.seq > p.after}
      BY <1>1, <2>2 DEF vars, Served
    <3>2. \A r \in eventLog : r.seq \in Nat
      BY <1>0 DEF LogOK, FeedTyped, Marker
    <3> QED
      BY <2>1, <3>1, <3>2 DEF Covers
  <2>3. ASSUME p.at = "reply" PROVE Covers(p.events, p.after)'
    <3>1. eventLog' = eventLog /\ Covers(q.rows, p.after) /\ p.events = {EventOf(r) : r \in q.rows}
      BY <1>0, <1>1, <2>3 DEF vars, Follows, Served
    <3>2. \A r : EventOf(r).seq = r.seq /\ EventOf(r).job = r.job
      BY DEF EventOf
    <3>3. PICK events : events = p.events /\ events = {EventOf(r) : r \in q.rows}
      BY <3>1
    <3>4. /\ \A e \in events : \E r \in q.rows : r.seq = e.seq
          /\ \A r \in q.rows : \E e \in events : e.seq = r.seq /\ e.job = r.job
      BY <3>2, <3>3
    <3>6. \A e \in events : p.after < e.seq
      BY <3>1, <3>4 DEF Covers
    <3>5. Covers(events, p.after)
      <4> SUFFICES ASSUME NEW r \in eventLog, p.after < r.seq, NEW e \in events, r.seq <= e.seq
                   PROVE  \E d \in events : d.seq = r.seq /\ d.job = r.job
        BY <3>6 DEF Covers
      <4>1. \E d \in q.rows : r.seq <= d.seq
        BY <3>4
      <4>2. PICK d \in q.rows : d.seq = r.seq /\ d.job = r.job
        BY <3>1, <4>1 DEF Covers
      <4> QED
        BY <3>4, <4>2
    <3> QED
      BY <3>1, <3>3, <3>5 DEF Covers
  <2> QED
    BY <2>1, <2>2, <2>3 DEF Follows
<1>3. ASSUME NEW t \in Requests PROVE (Follows(req[t]) /\ IsTheStream(t))'
  <2>1. CASE t = s
    <3>1. Follows(req[s])'
      BY <1>1, <1>2
    <3>2. p.for = q.for /\ p.after = q.after /\ UNCHANGED <<stream, cursor>>
      BY <1>0, <1>1 DEF Served, storeVars
    <3>3. IsTheStream(s)'
      BY <1>0, <1>1, <3>2 DEF IsTheStream
    <3> QED
      BY <2>1, <3>1, <3>3
  <2>2. CASE t # s
    <3>1. req'[t] = req[t] /\ Follows(req[t]) /\ IsTheStream(t)
      BY <1>0, <1>1, <2>2 DEF FollowInv
    <3>2. Follows(req[t])'
      BY <3>1, FollowsStays
    <3> QED
      BY <3>1, <3>2, <1>0 DEF IsTheStream, storeVars
  <2> QED
    BY <2>1, <2>2
<1> QED
  BY <1>0, <1>3, CursorStaysBehind, ShownStays DEF FollowInv, storeVars

\* A step of the browser: each request stays as it is, or is one that follows.
LEMMA BrowserFollows ==
  ASSUME FeedInv, FollowInv, UNCHANGED vars, cursor' \in Nat,
         cursor' = 0 \/ \E r \in eventLog' : cursor' <= r.seq,
         CursorHidesNoJob',
         \A t \in Requests :
           /\ req'[t] = req[t] \/ Follows(req'[t])
           /\ req'[t].for = "stream" => t = stream' /\ req'[t].after <= cursor'
  PROVE  FollowInv'
<1>1. LogGrows /\ eventLog' = eventLog
  BY LogStays DEF vars
<1>2. ASSUME NEW t \in Requests PROVE Follows(req[t])'
  <2>1. CASE req'[t] = req[t]
    BY <1>1, <2>1, FollowsStays DEF FollowInv
  <2>2. CASE Follows(req'[t])
    <3>1. PICK p : p = req'[t]
      OBVIOUS
    <3>2. Follows(p)'
      BY <1>1, <2>2, <3>1 DEF Follows, Covers
    <3> QED
      BY <3>1, <3>2
  <2> QED
    BY <2>1, <2>2
<1> QED
  BY <1>2 DEF FollowInv, IsTheStream

\* What was there stays there, though the list is empty or as it was.
LEMMA StoreFollows ==
  ASSUME FeedInv, FollowInv, OneConnection, NEW s \in Requests,
         StoreStep(s) \/ NativeReconnect(s) \/ FetchFailed(s) \/ StreamFailed(s)
  PROVE  FollowInv'
<1>0. /\ UNCHANGED vars /\ DOMAIN req = Requests /\ cursor \in Nat /\ list \in Seq(GoodEvents)
      /\ Follows(req[s]) /\ IsTheStream(s) /\ CursorHidesNoJob
      /\ (cursor = 0 \/ \E r \in eventLog : cursor <= r.seq)
      /\ \A r \in eventLog : r.seq \in Nat /\ r.seq > 0
      /\ DOMAIN req[s] = DOMAIN Idle /\ \A e \in req[s].events : e.seq \in Nat
      /\ Reached(cursor) /\ ShownUpTo(list, cursor)
  BY DEF FeedInv, FollowInv, CursorHidesNoJob, Reached, ShownUpTo, StoreStep, Connect, Refresh, Deliver, EndOfReplay, StreamEnded,
     NativeReconnect, FetchFailed, StreamFailed, storeVars, LogOK, FeedTyped, Marker, RequestOK,
     GoodEvents, Events
<1>1. ASSUME req[s].for # "none", NEW t \in Requests, t # s
      PROVE  req[t].for # "stream"
  BY <1>1 DEF OneConnection
<1>a. ASSUME req[s].for # "none", NEW p, req' = [req EXCEPT ![s] = p], Follows(p),
             p.for = "stream" => s = stream' /\ p.after <= cursor',
             cursor' \in Nat, cursor' = 0 \/ \E r \in eventLog' : cursor' <= r.seq,
             CursorHidesNoJob'
      PROVE  FollowInv'
  <2>1. ASSUME NEW t \in Requests
        PROVE  /\ req'[t] = req[t] \/ Follows(req'[t])
               /\ req'[t].for = "stream" => t = stream' /\ req'[t].after <= cursor'
    <3>1. CASE t = s
      <4>1. req'[t] = p
        BY <1>0, <1>a, <3>1
      <4> QED
        BY <1>a, <3>1, <4>1
    <3>2. CASE t # s
      <4>1. req'[t] = req[t] /\ req[t].for # "stream"
        BY <1>0, <1>1, <1>a, <3>2
      <4> QED
        BY <4>1
    <3> QED
      BY <3>1, <3>2
  <2> QED
    BY <1>0, <1>a, <2>1, BrowserFollows
<1>2. /\ (cursor = 0 \/ \E r \in eventLog' : cursor <= r.seq)
      /\ UNCHANGED <<list, cursor>> => CursorHidesNoJob'
  BY <1>0, LogStays, CursorStaysBehind, ShownStays DEF FeedInv
<1>3. CASE Connect(s)
  <2>1. /\ req[s].for = "connect" /\ req[s].after = 0 /\ Covers(req[s].events, 0)
        /\ list' = Taken(list, cursor, req[s].events)
        /\ cursor' = CursorAfter(cursor, req[s].events)
        /\ stream' = s /\ req' = [req EXCEPT ![s] = Sent("stream", cursor')]
    BY <1>0, <1>3 DEF Connect, Follows
  <2>2. GoesOn(cursor, req[s].events)
    BY <1>0, <2>1 DEF Covers, GoesOn
  <2>3. /\ cursor' \in Nat /\ (cursor' = 0 \/ \E r \in eventLog' : cursor' <= r.seq)
        /\ CursorHidesNoJob'
    BY <1>0, <2>1, <2>2, TakenInOrder
  <2>4. PICK p : p = Sent("stream", cursor')
    OBVIOUS
  <2>5. p.for = "stream" /\ p.after = cursor' /\ Follows(p) /\ p.after <= cursor'
    <3>1. PICK c \in Nat : c = cursor' /\ p = Sent("stream", c)
      BY <2>3, <2>4
    <3>2. p.for = "stream" /\ p.after = c /\ Follows(p)
      BY <3>1, SentFollows, FieldsOfSent
    <3>3. c <= c
      OBVIOUS
    <3> QED
      BY <3>1, <3>2, <3>3
  <2>6. req' = [req EXCEPT ![s] = p]
    BY <2>1, <2>4
  <2> QED
    BY <1>a, <2>1, <2>3, <2>5, <2>6
<1>4. CASE Refresh(s)
  <2>1. /\ req[s].for = "refresh" /\ req[s].after = 0 /\ Covers(req[s].events, 0)
        /\ list' = Taken(<< >>, 0, req[s].events) /\ cursor' = CursorAfter(0, req[s].events)
        /\ req' = [req EXCEPT ![s] = Idle]
    BY <1>0, <1>4 DEF Refresh, Follows
  <2>2. GoesOn(0, req[s].events)
    BY <2>1 DEF Covers, GoesOn
  <2>3. /\ cursor' \in Nat /\ (cursor' = 0 \/ \E r \in eventLog' : cursor' <= r.seq)
        /\ CursorHidesNoJob'
    <3>1. << >> \in Seq(GoodEvents) /\ 0 \in Nat /\ Reached(0)
      BY DEF Reached
    <3>2. ShownUpTo(<< >>, 0)
      BY <1>0 DEF ShownUpTo
    <3> QED
      BY <1>0, <2>1, <2>2, <3>1, <3>2, TakenInOrder
  <2> QED
    BY <1>a, <2>1, <2>3, SentFollows, FieldsOfSent
<1>5. CASE Deliver(s)
  <2>1. PICK e \in req[s].events :
          /\ \A d \in req[s].events : e.seq <= d.seq
          /\ list' = Taken(list, cursor, {e}) /\ cursor' = CursorAfter(cursor, {e})
          /\ req' = [req EXCEPT ![s].events = @ \ {e}, ![s].after = e.seq]
    BY <1>5 DEF Deliver
  <2>2. /\ req[s].for = "stream" /\ req[s].at = "reply" /\ stream' = stream /\ s = stream
        /\ req[s].after <= cursor /\ req[s].after \in Nat /\ Covers(req[s].events, req[s].after)
    BY <1>0, <1>5 DEF Deliver, Follows, IsTheStream
  <2>3. ASSUME NEW r \in eventLog, req[s].after < r.seq, r.seq <= e.seq
        PROVE  e.seq = r.seq /\ e.job = r.job
    <3>1. PICK d \in req[s].events : d.seq = r.seq /\ d.job = r.job
      BY <2>2, <2>3 DEF Covers
    <3>2. d.seq = e.seq
      BY <1>0, <2>1, <2>3, <3>1
    <3>3. d = e
      BY <3>2 DEF FeedInv, RequestOK, Distinct
    <3> QED
      BY <3>1, <3>3
  <2>4. /\ cursor' \in Nat /\ (cursor' = 0 \/ \E r \in eventLog' : cursor' <= r.seq)
        /\ cursor' >= e.seq /\ CursorHidesNoJob'
    <3>1. PICK some : some = {e} /\ some \subseteq req[s].events
      OBVIOUS
    <3>2. GoesOn(cursor, some)
      BY <1>0, <2>2, <2>3, <3>1 DEF GoesOn
    <3>3. /\ cursor' \in Nat /\ (cursor' = 0 \/ \E r \in eventLog' : cursor' <= r.seq)
          /\ CursorHidesNoJob' /\ \A d \in some : cursor' >= d.seq
      BY <1>0, <2>1, <3>1, <3>2, TakenInOrder
    <3> QED
      BY <3>1, <3>3
  <2>5. PICK p : /\ p = [req[s] EXCEPT !.events = @ \ {e}, !.after = e.seq]
                 /\ req' = [req EXCEPT ![s] = p]
    BY <1>0, <2>1
  <2>6. p.at = "reply" /\ p.for = "stream" /\ p.after = e.seq /\ p.events = req[s].events \ {e}
    <3>1. PICK more : more = req[s].events \ {e}
      OBVIOUS
    <3>2. p = [req[s] EXCEPT !.events = more, !.after = e.seq]
      BY <2>5, <3>1
    <3> QED
      BY <1>0, <2>2, <3>1, <3>2, OtherFields, FieldsOfRequest
  <2>7. Covers(p.events, p.after)
    <3>1. req[s].after < e.seq /\ e.seq \in Nat
      BY <1>0, <2>2 DEF Covers
    <3>2. ASSUME NEW d \in p.events PROVE p.after < d.seq
      <4>1. d \in req[s].events /\ d # e /\ d.seq \in Nat /\ e.seq <= d.seq
        BY <1>0, <2>1, <2>6
      <4>2. d.seq # e.seq
        BY <4>1 DEF FeedInv, RequestOK, Distinct
      <4> QED
        BY <2>6, <3>1, <4>1, <4>2
    <3>3. ASSUME NEW r \in eventLog, p.after < r.seq, NEW d \in p.events, r.seq <= d.seq
          PROVE  \E c \in p.events : c.seq = r.seq /\ c.job = r.job
      <4>1. e.seq < r.seq /\ r.seq \in Nat /\ req[s].after < r.seq /\ d \in req[s].events
        BY <1>0, <2>2, <2>6, <3>1, <3>3
      <4>2. PICK c \in req[s].events : c.seq = r.seq /\ c.job = r.job
        BY <2>2, <3>3, <4>1 DEF Covers
      <4>3. c # e
        BY <3>1, <4>1, <4>2
      <4> QED
        BY <2>6, <4>2, <4>3
    <3> QED
      BY <3>2, <3>3 DEF Covers
  <2>8. Follows(p)
    BY <1>0, <2>6, <2>7 DEF Follows
  <2> QED
    BY <1>a, <2>2, <2>4, <2>5, <2>6, <2>8
<1>6. CASE EndOfReplay(s) \/ StreamFailed(s) \/ NativeReconnect(s)
  <2>1. req[s].for = "stream" /\ UNCHANGED <<list, cursor, stream>>
    BY <1>6 DEF EndOfReplay, StreamFailed, NativeReconnect, StreamEnded, storeVars
  <2>2. s = stream /\ req[s].after <= cursor /\ req[s].after \in Nat
    BY <1>0, <2>1 DEF IsTheStream, Follows
  <2>3. PICK after : after = req[s].after
    OBVIOUS
  <2>4. PICK p : /\ \/ p = [Idle EXCEPT !.for = "stream", !.at = "ended", !.after = after]
                    \/ p = Sent("stream", after)
                 /\ req' = [req EXCEPT ![s] = p]
    BY <1>6, <2>3 DEF EndOfReplay, StreamFailed, NativeReconnect, StreamEnded
  <2>5. p.for = "stream" /\ p.after = after /\ Follows(p)
    <3>1. after \in Nat
      BY <2>2, <2>3
    <3>2. CASE p = Sent("stream", after)
      BY <3>1, <3>2, SentFollows, FieldsOfSent
    <3>3. CASE p = [Idle EXCEPT !.for = "stream", !.at = "ended", !.after = after]
      <4>1. p.for = "stream" /\ p.after = after
        BY Zenon, <3>3, FieldsOfSent
      <4>2. Follows(p)
        BY Zenon, <3>1, <3>3, SentFollows
      <4> QED
        BY <4>1, <4>2
    <3> QED
      BY <2>4, <3>2, <3>3
  <2> QED
    BY <1>0, <1>2, <1>a, <2>1, <2>2, <2>3, <2>4, <2>5
<1>7. CASE FetchFailed(s)
  <2>1. PICK p : /\ p = Idle \/ (p = Sent("stream", cursor) /\ stream' = s)
                 /\ req' = [req EXCEPT ![s] = p]
    BY <1>7 DEF FetchFailed
  <2>2. Follows(p) /\ (p.for = "stream" => stream' = s /\ p.after <= cursor)
    <3>1. cursor <= cursor
      BY <1>0
    <3>2. CASE p = Idle
      BY <3>2, SentFollows, FieldsOfSent
    <3>3. CASE p = Sent("stream", cursor) /\ stream' = s
      <4>1. Follows(p) /\ p.after = cursor
        BY <1>0, <3>3, SentFollows, FieldsOfSent
      <4> QED
        BY <3>1, <3>3, <4>1
    <3> QED
      BY <2>1, <3>2, <3>3
  <2>3. req[s].for # "none" /\ UNCHANGED <<list, cursor>>
    BY <1>7 DEF FetchFailed
  <2> QED
    BY <1>0, <1>2, <1>a, <2>1, <2>2, <2>3
<1> QED
  BY <1>3, <1>4, <1>5, <1>6, <1>7 DEF StoreStep

LEMMA FollowStep ==
  ASSUME FeedInv, FollowInv, OneConnection, [FeedNext]_feedAndQueue
  PROVE  FollowInv'
<1>0. DOMAIN req = Requests /\ LogOK /\ cursor \in Nat
  BY DEF FeedInv, FollowInv
<1>1. ASSUME UNCHANGED feedVars, [Next]_vars PROVE FollowInv'
  <2>1. LogGrows
    BY <1>1, NextGrowsLog DEF FeedInv
  <2>2. UNCHANGED <<list, cursor, stream, req>>
    BY <1>1 DEF feedVars, storeVars
  <2>3. \A t \in Requests : Follows(req[t])' /\ IsTheStream(t)'
    BY <2>1, <2>2, FollowsStays DEF FollowInv, IsTheStream
  <2> QED
    BY <1>0, <2>1, <2>2, <2>3, CursorStaysBehind, ShownStays DEF FollowInv
<1>2. /\ Follows(Idle) /\ Idle.for # "stream"
      /\ \A for \in {"connect", "refresh"} : Follows(Sent(for, 0)) /\ Sent(for, 0).for # "stream"
  BY SentFollows, FieldsOfSent
<1>3. ASSUME UNCHANGED vars, cursor' \in {cursor, 0}, CursorHidesNoJob',
             \A t \in Requests :
               \/ req'[t] = req[t] /\ ((cursor' = cursor /\ stream' = stream) \/ t # stream)
               \/ (Follows(req'[t]) /\ req'[t].for # "stream")
      PROVE  FollowInv'
  <2>1. ASSUME NEW t \in Requests
        PROVE  /\ req'[t] = req[t] \/ Follows(req'[t])
               /\ req'[t].for = "stream" => t = stream' /\ req'[t].after <= cursor'
    BY <1>3 DEF FollowInv, IsTheStream
  <2>2. cursor' = 0 \/ \E r \in eventLog' : cursor' <= r.seq
    BY <1>3 DEF FollowInv, vars
  <2> QED
    BY <1>0, <1>3, <2>1, <2>2, BrowserFollows
<1>4. ASSUME UNCHANGED vars, UNCHANGED <<list, cursor>> PROVE CursorHidesNoJob'
  BY <1>0, <1>4, LogStays, ShownStays DEF FeedInv
<1>5. CASE Subscribe \/ AskRefresh
  <2>1. /\ UNCHANGED vars /\ UNCHANGED <<list, cursor, stream>>
        /\ \/ UNCHANGED req
           \/ \E s \in Requests, for \in {"connect", "refresh"} :
                req' = [req EXCEPT ![s] = Sent(for, 0)]
    BY <1>5 DEF Subscribe, AskRefresh, Fetch, storeVars
  <2>2. ASSUME NEW t \in Requests
        PROVE  req'[t] = req[t] \/ (Follows(req'[t]) /\ req'[t].for # "stream")
    BY <1>0, <1>2, <2>1
  <2> QED
    BY <1>3, <1>4, <2>1, <2>2
<1>6. CASE ReconnectNow
  <2>1. PICK s \in Requests :
          /\ UNCHANGED vars /\ UNCHANGED <<list, cursor>>
          /\ req' = [t \in Requests |-> IF t = s THEN Sent("connect", 0)
                                        ELSE IF t = stream THEN Idle ELSE req[t]]
    BY <1>6 DEF ReconnectNow
  <2>2. ASSUME NEW t \in Requests
        PROVE  (req'[t] = req[t] /\ t # stream) \/ (Follows(req'[t]) /\ req'[t].for # "stream")
    BY <1>2, <2>1
  <2> QED
    BY <1>3, <1>4, <2>1, <2>2
<1>7. CASE Unsubscribe
  <2>1. CASE UNCHANGED <<list, cursor, stream, req>>
    BY <1>3, <1>4, <1>7, <2>1 DEF Unsubscribe
  <2>2. CASE /\ cursor' = 0
             /\ req' = [s \in Requests |-> IF s = stream THEN Idle ELSE req[s]]
    <3>1. CursorHidesNoJob'
      <4>1. \A r \in eventLog' : r.seq \in Nat /\ r.seq > 0
        BY <1>0, <1>7 DEF Unsubscribe, vars, LogOK, FeedTyped, Marker
      <4> QED
        BY <2>2, <4>1 DEF CursorHidesNoJob
    <3>2. ASSUME NEW t \in Requests
          PROVE  (req'[t] = req[t] /\ t # stream) \/ (Follows(req'[t]) /\ req'[t].for # "stream")
      BY <1>2, <2>2
    <3> QED
      BY <1>3, <1>7, <2>2, <3>1, <3>2 DEF Unsubscribe
  <2> QED
    BY <1>7, <2>1, <2>2 DEF Unsubscribe
<1>8. ASSUME NEW s \in Requests, Serve(s) PROVE FollowInv'
  <2>1. LogGrows
    <3>1. CASE InsertMissing(s)
      BY <3>1, BackfillGrowsLog DEF FeedInv, RequestOK, InsertMissing, rowVars
    <3>2. CASE UNCHANGED vars
      BY <3>2, LogStays
    <3> QED
      BY <1>8, <3>1, <3>2 DEF Serve, SyncFeed, ReadMarkers, ReadRows
  <2> QED
    BY <1>8, <2>1, ServeFollows
<1> QED
  BY <1>1, <1>5, <1>6, <1>7, <1>8, StoreFollows DEF FeedNext, feedAndQueue, feedVars, storeVars

-----------------------------------------------------------------------------
(* The theorems.                                                           *)

THEOREM FeedInvariant == FeedSpec => []FeedInv
<1>1. ASSUME FeedInit PROVE FeedInv
  <2>1. /\ IInv /\ eventLog = {} /\ list = << >> /\ req = [s \in Requests |-> Idle]
        /\ \A j \in Jobs : status[j] = "ABSENT"
    BY <1>1, InitEstablishesInv DEF FeedInit, Init
  <2>2. LogOK
    <3>1. Present = {} /\ IsFiniteSet({})
      BY <2>1, FS_EmptySet DEF Present
    <3> QED
      BY <2>1, <3>1 DEF LogOK, FeedTyped, FeedHasTop, Distinct
  <2>3. \A S : << >> \in Seq(S)
    OBVIOUS
  <2>4. RequestOK(Idle)
    BY FS_EmptySet DEF RequestOK, Distinct, Idle
  <2> QED
    BY <2>1, <2>2, <2>3, <2>4 DEF FeedInv, IInv
<1> QED
  BY <1>1, FeedStep, PTL DEF FeedSpec

\* Whatever order snapshots, streams and refreshes arrive in, and whatever marker a replay
\* put in twice: under the marker a cancel published no consumer is shown the job as it
\* was before (backend/app/api/events.py, jobStore.ts).
THEOREM CanceledIsShown == FeedSpec => []CancelMarkerShowsCancel
<1>1. ASSUME FeedInv PROVE CancelMarkerShowsCancel
  <2>1. ASSUME NEW n \in DOMAIN list, NEW r \in eventLog, r.seq = list[n].seq, cancelAsked[r.job]
        PROVE  list[n].status \notin {"QUEUED", "RUNNING"}
    <3>1. list[n] \in GoodEvents
      BY <1>1, <2>1, ElementOfSeq, LenProperties DEF FeedInv
    <3> QED
      BY <2>1, <3>1 DEF GoodEvents, ShowsCancel
  <2> QED
    BY <2>1 DEF CancelMarkerShowsCancel
<1> QED
  BY <1>1, FeedInvariant, PTL

\* As long as the store keeps to one connection at a time, no job is hidden behind its cursor:
\* each marker up to it is in the list, so that the next stream may go on from there, whatever
\* is published, canceled or backfilled in between, whichever requests fail, and however often
\* the browser reconnects by itself (jobStore.ts:5-12).  What it takes to hide a job, then, is
\* requests that overlap, as those of a refresh and of a stream do.
THEOREM OneConnectionHidesNoJob == FeedSpec /\ []OneConnection => []CursorHidesNoJob
<1>1. ASSUME FeedInit PROVE FollowInv
  <2>1. eventLog = {} /\ cursor = 0 /\ \A s \in Requests : req[s] = Idle
    BY <1>1 DEF FeedInit, Init
  <2> QED
    BY <2>1, SentFollows, FieldsOfSent DEF FollowInv, IsTheStream, CursorHidesNoJob
<1>2. ASSUME FollowInv PROVE CursorHidesNoJob
  BY <1>2 DEF FollowInv
<1>3. ASSUME FeedInv, OneConnection, FollowInv, [FeedNext]_feedAndQueue PROVE FollowInv'
  BY <1>3, FollowStep
<1> QED
  BY <1>1, <1>2, <1>3, FeedInvariant, PTL DEF FeedSpec

-----------------------------------------------------------------------------
(* One visit without a refresh has one connection.                         *)

Spent == [mounts : Nat, refreshes : Nat, failures : Nat]

VisitInv ==
  /\ spent \in Spent /\ spent.mounts <= 1 /\ spent.refreshes = 0
  /\ spent.mounts = 0 => ~started /\ ~timer /\ \A s \in Requests : req[s].for = "none"
  /\ OneConnection
  /\ timer => \A s \in Requests : req[s].for # "none" => s = stream
  /\ \A s \in Requests : req[s].for = "stream" => s = stream

LEMMA Spends ==
  ASSUME spent \in Spent, NEW what \in {"mounts", "refreshes", "failures"}, NEW bound,
         Spend(what, bound)
  PROVE  /\ spent[what] < bound /\ spent' \in Spent
         /\ what = "mounts" => spent'.mounts = spent.mounts + 1
         /\ what # "mounts" => spent'.mounts = spent.mounts
         /\ what # "refreshes" => spent'.refreshes = spent.refreshes
BY DEF Spend, Spent

\* What one request becomes leaves one connection, for the others are not there.
LEMMA OneRequestMoves ==
  ASSUME FeedInv, VisitInv, NEW s \in Requests, req[s].for # "none",
         \A t \in Requests : t # s => req'[t] = req[t],
         req'[s].for = "stream" => stream' = s,
         timer' => stream' = s
  PROVE  /\ OneConnection'
         /\ timer' => \A t \in Requests : req'[t].for # "none" => t = stream'
         /\ \A t \in Requests : req'[t].for = "stream" => t = stream'
<1>1. \A t \in Requests : t # s => req[t].for = "none"
  BY DEF VisitInv, OneConnection
<1>2. \A t \in Requests : t # s => req'[t].for = "none"
  BY <1>1
<1>3. \A t \in Requests : req'[t].for # "none" => t = s
  BY <1>2
<1>4. OneConnection'
  BY <1>3 DEF OneConnection
<1> QED
  BY <1>3, <1>4

LEMMA VisitStep ==
  ASSUME MaxMounts <= 1, MaxRefreshes = 0, FeedInv, VisitInv, [FeedNext]_feedAndQueue
  PROVE  VisitInv'
<1>0. /\ DOMAIN req = Requests /\ MaxMounts \in Nat /\ spent \in Spent
      /\ spent.mounts \in Nat /\ spent.refreshes = 0 /\ spent.mounts <= 1
  BY FeedAssumption DEF FeedInv, VisitInv, Spent
<1>1. ASSUME UNCHANGED feedVars PROVE VisitInv'
  BY <1>1 DEF VisitInv, OneConnection, feedVars, storeVars
<1>2. CASE Subscribe
  <2>1. /\ spent.mounts = 0 /\ ~started /\ ~timer /\ spent' \in Spent /\ spent'.mounts = 1
        /\ spent'.refreshes = 0 /\ \A t \in Requests : req[t].for = "none"
    <3>1. Spend("mounts", MaxMounts)
      BY <1>2 DEF Subscribe
    <3>2. spent.mounts < MaxMounts /\ spent' \in Spent /\ spent'.mounts = spent.mounts + 1
          /\ spent'.refreshes = spent.refreshes
      BY <1>0, <3>1, Spends
    <3> QED
      BY <1>0, <3>2 DEF VisitInv
  <2>2. PICK s \in Requests : req' = [req EXCEPT ![s] = Sent("connect", 0)]
    BY <1>2, <2>1 DEF Subscribe, Fetch
  <2>3. \A t \in Requests : /\ req'[t].for # "none" => t = s
                            /\ req'[t].for # "stream"
    BY <1>0, <2>1, <2>2, FieldsOfSent
  <2>4. timer' = timer
    BY <1>2 DEF Subscribe
  <2> QED
    BY <2>1, <2>3, <2>4 DEF VisitInv, OneConnection
<1>3. CASE Unsubscribe
  <2>1. UNCHANGED spent
    BY <1>3 DEF Unsubscribe
  <2>2. CASE UNCHANGED <<started, list, cursor, stream, timer, req>>
    BY <2>1, <2>2 DEF VisitInv, OneConnection
  <2>3. CASE /\ started' = FALSE /\ stream' = 0 /\ timer' = FALSE
             /\ req' = [s \in Requests |-> IF s = stream THEN Idle ELSE req[s]]
    <3>1. \A t \in Requests : /\ req'[t].for # "none" => req[t].for # "none"
                              /\ req'[t].for # "stream"
      BY <2>3, FieldsOfSent DEF VisitInv
    <3> QED
      BY <2>1, <2>3, <3>1 DEF VisitInv, OneConnection
  <2> QED
    BY <1>3, <2>2, <2>3 DEF Unsubscribe
<1>4. CASE AskRefresh
  <2>1. Spend("refreshes", MaxRefreshes)
    BY <1>4 DEF AskRefresh
  <2>2. spent["refreshes"] < 0
    BY <1>0, <2>1, Spends
  <2> QED
    BY <1>0, <2>2
<1>5. CASE ReconnectNow
  <2>1. PICK s \in Requests :
          /\ timer /\ UNCHANGED <<started, spent>> /\ timer' = FALSE /\ stream' = 0
          /\ s = stream \/ req[s] = Idle
          /\ req' = [t \in Requests |-> IF t = s THEN Sent("connect", 0)
                                        ELSE IF t = stream THEN Idle ELSE req[t]]
    BY <1>5 DEF ReconnectNow
  <2>2. \A t \in Requests : /\ req'[t].for # "none" => t = s
                            /\ req'[t].for # "stream"
    BY <2>1, FieldsOfSent DEF VisitInv
  <2>3. spent.mounts # 0
    BY <2>1 DEF VisitInv
  <2> QED
    BY <2>1, <2>2, <2>3 DEF VisitInv, OneConnection
<1>6. ASSUME NEW s \in Requests, Serve(s) PROVE VisitInv'
  <2>1. \A t \in Requests : req'[t].for = req[t].for
    <3>1. Served(req[s], req'[s]) /\ \A t \in Requests : t # s => req'[t] = req[t]
      BY <1>6, ServedRequest
    <3>2. req'[s].for = req[s].for
      BY <3>1 DEF Served
    <3> QED
      BY <3>1, <3>2
  <2>2. UNCHANGED <<started, stream, timer, spent>>
    BY <1>6 DEF Serve, SyncFeed, InsertMissing, ReadMarkers, ReadRows, storeVars
  <2> QED
    BY <2>1, <2>2 DEF VisitInv, OneConnection
<1>7. ASSUME NEW s \in Requests, StoreStep(s) \/ NativeReconnect(s) \/ FetchFailed(s) \/ StreamFailed(s)
      PROVE  VisitInv'
  <2>1. /\ req[s].for # "none" /\ spent.mounts # 0
        /\ req[s].for = "stream" => s = stream
        /\ timer => s = stream
    BY <1>7 DEF VisitInv, StoreStep, Connect, Refresh, Deliver, EndOfReplay, NativeReconnect,
       FetchFailed, StreamFailed
  <2>2. /\ spent' \in Spent /\ spent'.mounts = spent.mounts /\ spent'.refreshes = 0
    <3>1. CASE UNCHANGED spent
      BY <1>0, <3>1
    <3>2. CASE Spend("failures", MaxFailures)
      BY <1>0, <3>2, Spends
    <3> QED
      BY <1>7, <3>1, <3>2 DEF StoreStep, Connect, Refresh, Deliver, EndOfReplay, NativeReconnect,
         FetchFailed, StreamFailed, storeVars
  <2>3. PICK p : req' = [req EXCEPT ![s] = p] /\ (p.for = "stream" => stream' = s)
    <3>1. CASE Connect(s) \/ Refresh(s)
      BY <3>1, FieldsOfSent DEF Connect, Refresh
    <3>2. CASE Deliver(s)
      BY <2>1, <3>2 DEF Deliver
    <3>3. CASE EndOfReplay(s) \/ NativeReconnect(s) \/ StreamFailed(s)
      BY <2>1, <3>3 DEF EndOfReplay, NativeReconnect, StreamFailed, StreamEnded, storeVars
    <3>4. CASE FetchFailed(s)
      BY <3>4, FieldsOfSent DEF FetchFailed
    <3> QED
      BY <1>7, <3>1, <3>2, <3>3, <3>4 DEF StoreStep
  <2>4. timer' => stream' = s
    BY <1>7, <2>1 DEF StoreStep, Connect, Refresh, Deliver, EndOfReplay, NativeReconnect,
       FetchFailed, StreamFailed, StreamEnded, storeVars
  <2>5. /\ OneConnection'
        /\ timer' => \A t \in Requests : req'[t].for # "none" => t = stream'
        /\ \A t \in Requests : req'[t].for = "stream" => t = stream'
    BY <1>0, <2>1, <2>3, <2>4, OneRequestMoves
  <2> QED
    BY <1>0, <2>1, <2>2, <2>5 DEF VisitInv
<1> QED
  BY <1>1, <1>2, <1>3, <1>4, <1>5, <1>6, <1>7 DEF FeedNext, feedAndQueue

\* A consumer that is mounted once and never refreshes has one connection at a time, however
\* often that fails or ends, so that no job is ever hidden from it.
THEOREM OneVisitHidesNoJob ==
  ASSUME MaxMounts <= 1, MaxRefreshes = 0
  PROVE  FeedSpec => [](OneConnection /\ CursorHidesNoJob)
<1>1. ASSUME FeedInit PROVE VisitInv /\ FollowInv
  <2>1. /\ spent = [mounts |-> 0, refreshes |-> 0, failures |-> 0] /\ ~started /\ ~timer
        /\ eventLog = {} /\ cursor = 0 /\ \A s \in Requests : req[s] = Idle
    BY <1>1 DEF FeedInit, Init
  <2>2. VisitInv
    BY <2>1, FieldsOfSent DEF VisitInv, Spent, OneConnection
  <2> QED
    BY <2>1, <2>2, SentFollows, FieldsOfSent DEF FollowInv, IsTheStream, CursorHidesNoJob
<1>2. ASSUME FeedInv, VisitInv, FollowInv, [FeedNext]_feedAndQueue PROVE VisitInv' /\ FollowInv'
  BY <1>2, VisitStep, FollowStep DEF VisitInv
<1>3. ASSUME VisitInv, FollowInv PROVE OneConnection /\ CursorHidesNoJob
  BY <1>3 DEF VisitInv, FollowInv
<1> QED
  BY <1>1, <1>2, <1>3, FeedInvariant, PTL DEF FeedSpec
=============================================================================
