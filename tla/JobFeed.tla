------------------------------ MODULE JobFeed -------------------------------
(***************************************************************************)
(* The event feed of the queue and its reader in the browser: the replay   *)
(* of backend/app/api/events.py, which the snapshot and the stream of      *)
(* server-sent events share, and JobEventStore of                          *)
(* frontend/src/features/jobs/jobStore.ts.                                 *)
(*                                                                         *)
(* An event is not stored: the log holds one marker per job, and an event  *)
(* shows the status the job has when the replay reads it.  A replay is     *)
(* served statement by statement, since SQLite opens a transaction for     *)
(* writes only.  A stream replays once and ends; the store then waits,     *)
(* takes a snapshot and opens the next stream behind its cursor.  A        *)
(* browser also reconnects by itself a stream that nobody closed.          *)
(* Callbacks of the store are atomic; requests take any time and answers   *)
(* arrive in any order.                                                    *)
(***************************************************************************)
EXTENDS JobQueue

CONSTANTS
  Requests,       \* request slots of the browser: bounds fetches and streams under way
  MaxEvents,      \* MAX_EVENTS, the longest list the store keeps
  MaxListeners,   \* bound on mounted consumers at a time
  MaxMounts,      \* bound on how often a consumer is mounted
  MaxRefreshes,   \* bound on refreshes of the user interface
  MaxFailures     \* bound on requests that fail

ASSUME FeedAssumption ==
  /\ Requests \subseteq Nat \ {0} /\ Requests # {}
  /\ MaxEvents \in Nat \ {0}
  /\ MaxListeners \in Nat
  /\ MaxMounts \in Nat /\ MaxRefreshes \in Nat /\ MaxFailures \in Nat

VARIABLES
  started,     \* JobEventStore.started
  listeners,   \* number of subscribed consumers
  list,        \* the events the store shows
  cursor,      \* the last sequence taken in, 0 for null
  stream,      \* the slot of this.stream, 0 for null
  timer,       \* reconnectHandle is set
  req,         \* [Requests -> request, see Idle]
  spent        \* how much of each bound is used up

storeVars == <<started, listeners, list, cursor, stream, timer>>
feedVars == <<storeVars, req, spent>>
feedAndQueue == <<vars, feedVars>>

(***************************************************************************)
(* A request is a fetch of the snapshot, after which start and reconnect   *)
(* open a stream ("connect") and refresh does not ("refresh"), or a        *)
(* stream.  Its events are those still to be handed to the store.          *)
(***************************************************************************)
Idle == [for |-> "none", at |-> "free", after |-> 0, missing |-> {}, rows |-> {}, events |-> {}]

Sent(for, after) == [Idle EXCEPT !.for = for, !.at = "sync", !.after = after]

Events == [seq : Nat \ {0}, job : Jobs, status : Status]

FeedInit ==
  /\ Init
  /\ started = FALSE /\ listeners = 0 /\ list = << >> /\ cursor = 0
  /\ stream = 0 /\ timer = FALSE
  /\ req = [s \in Requests |-> Idle]
  /\ spent = [mounts |-> 0, refreshes |-> 0, failures |-> 0]

Spend(what, bound) == spent[what] < bound /\ spent' = [spent EXCEPT ![what] = @ + 1]

-----------------------------------------------------------------------------
(* The server: _events(after), one statement or transaction at a time.     *)

Unmarked == {j \in Jobs : status[j] # "ABSENT" /\ \A r \in eventLog : r.job # j}

\* Jobs without a marker, found and checked again without a transaction.
SyncFeed(s) ==
  /\ req[s].at = "sync"
  /\ req' = [req EXCEPT ![s].missing = Unmarked,
                        ![s].at = IF Unmarked = {} THEN "markers" ELSE "insert"]
  /\ UNCHANGED <<vars, storeVars, spent>>

\* They are inserted, oldest job first, whatever happened since: no unique
\* constraint is left that could arbitrate.
Backfill(log, missing) ==
  log \union {[seq |-> NextSequence(log) + Cardinality({i \in missing : i < j}), job |-> j] :
                j \in missing}

InsertMissing(s) ==
  /\ req[s].at = "insert"
  /\ eventLog' = Backfill(eventLog, req[s].missing)
  /\ req' = [req EXCEPT ![s].at = "markers", ![s].missing = {}]
  /\ UNCHANGED <<status, rowVars, owner, lease, backoff, cancelAsked, errorCode, attempts>>
  /\ UNCHANGED <<storeVars, spent>>

ReadMarkers(s) ==
  /\ req[s].at = "markers"
  /\ req' = [req EXCEPT ![s].at = "rows", ![s].rows = {r \in eventLog : r.seq > req[s].after}]
  /\ UNCHANGED <<vars, storeVars, spent>>

EventOf(r) == [seq |-> r.seq, job |-> r.job, status |-> status[r.job]]

ReadRows(s) ==
  /\ req[s].at = "rows"
  /\ req' = [req EXCEPT ![s].at = "reply", ![s].rows = {},
                        ![s].events = {EventOf(r) : r \in req[s].rows}]
  /\ UNCHANGED <<vars, storeVars, spent>>

Serve(s) == SyncFeed(s) \/ InsertMissing(s) \/ ReadMarkers(s) \/ ReadRows(s)

-----------------------------------------------------------------------------
(* The store.                                                              *)

InFeedOrder(events) ==
  [n \in 1..Cardinality(events) |->
     CHOOSE e \in events : Cardinality({d \in events : d.seq < e.seq}) = n - 1]

\* append, without the events that are not newer than the cursor.
Taken(shown, seen, events) ==
  LET all == shown \o InFeedOrder({e \in events : e.seq > seen})
  IN  SubSeq(all, Max({1, Len(all) - MaxEvents + 1}), Len(all))

CursorAfter(seen, events) == Max({seen} \union {e.seq : e \in events})

\* Every connection starts with a snapshot; start and the reconnect timer take it.
Fetch(s, for) == req[s] = Idle /\ req' = [req EXCEPT ![s] = Sent(for, 0)]

Subscribe ==
  /\ listeners < MaxListeners /\ Spend("mounts", MaxMounts)
  /\ listeners' = listeners + 1
  /\ started' = TRUE
  /\ IF started THEN UNCHANGED req ELSE \E s \in Requests : Fetch(s, "connect")
  /\ UNCHANGED <<vars, list, cursor, stream, timer>>

\* stop, when the last consumer leaves.  A fetch under way is not called off.
Unsubscribe ==
  /\ listeners > 0
  /\ listeners' = listeners - 1
  /\ IF listeners > 1
     THEN UNCHANGED <<started, list, cursor, stream, timer, req>>
     ELSE /\ started' = FALSE /\ list' = << >> /\ cursor' = 0
          /\ stream' = 0 /\ timer' = FALSE
          /\ req' = [s \in Requests |-> IF s = stream THEN Idle ELSE req[s]]
  /\ UNCHANGED <<vars, spent>>

\* refreshSnapshot and then openStream, whoever is subscribed by now.
Connect(s) ==
  /\ req[s].for = "connect" /\ req[s].at = "reply"
  /\ list' = Taken(list, cursor, req[s].events)
  /\ cursor' = CursorAfter(cursor, req[s].events)
  /\ stream' = s
  /\ req' = [req EXCEPT ![s] = Sent("stream", cursor')]
  /\ UNCHANGED <<vars, started, listeners, timer, spent>>

\* refresh, asked for after every action of the user: it replaces the list.
AskRefresh ==
  /\ listeners > 0 /\ Spend("refreshes", MaxRefreshes)
  /\ \E s \in Requests : Fetch(s, "refresh")
  /\ UNCHANGED <<vars, storeVars>>

Refresh(s) ==
  /\ req[s].for = "refresh" /\ req[s].at = "reply"
  /\ list' = Taken(<< >>, 0, req[s].events)
  /\ cursor' = CursorAfter(0, req[s].events)
  /\ req' = [req EXCEPT ![s] = Idle]
  /\ UNCHANGED <<vars, started, listeners, stream, timer, spent>>

\* Variant: the cursor moves to the end of the replay with its first event.
DeliverAhead(s) ==
  /\ req[s].for = "stream" /\ req[s].at = "reply"
  /\ \E e \in req[s].events :
       /\ \A d \in req[s].events : e.seq <= d.seq
       /\ list' = Taken(list, cursor, {e})
       /\ cursor' = CursorAfter(cursor, req[s].events)
       /\ req' = [req EXCEPT ![s].events = @ \ {e}, ![s].after = e.seq]
  /\ UNCHANGED <<vars, started, listeners, stream, timer, spent>>

Deliver(s) ==
  /\ req[s].for = "stream" /\ req[s].at = "reply"
  /\ \E e \in req[s].events :
       /\ \A d \in req[s].events : e.seq <= d.seq
       /\ list' = Taken(list, cursor, {e})
       /\ cursor' = CursorAfter(cursor, {e})
       /\ req' = [req EXCEPT ![s].events = @ \ {e}, ![s].after = e.seq]
  /\ UNCHANGED <<vars, started, listeners, stream, timer, spent>>

\* Variant: the end of a stream schedules nothing.
StreamEndedForGood(s) ==
  /\ req' = [req EXCEPT ![s] = [Idle EXCEPT !.for = "stream", !.at = "ended", !.after = req[s].after]]
  /\ UNCHANGED <<vars, started, listeners, list, cursor, stream, timer>>

\* onerror, which is also how a replay that is complete ends.
StreamEnded(s) ==
  /\ req' = [req EXCEPT ![s] = [Idle EXCEPT !.for = "stream", !.at = "ended", !.after = req[s].after]]
  /\ timer' = (timer \/ started)
  /\ UNCHANGED <<vars, started, listeners, list, cursor, stream>>

EndOfReplay(s) ==
  /\ req[s].for = "stream" /\ req[s].at = "reply" /\ req[s].events = {}
  /\ StreamEnded(s)
  /\ UNCHANGED spent

\* The browser's own reconnection, behind the last event of this stream.
NativeReconnect(s) ==
  /\ req[s].for = "stream" /\ req[s].at = "ended"
  /\ req' = [req EXCEPT ![s] = Sent("stream", req[s].after)]
  /\ UNCHANGED <<vars, storeVars, spent>>

\* The current stream is closed and the next connection begun.
ReconnectNow ==
  /\ timer
  /\ timer' = FALSE /\ stream' = 0
  /\ \E s \in Requests :
       /\ s = stream \/ req[s] = Idle
       /\ req' = [t \in Requests |-> IF t = s THEN Sent("connect", 0)
                                     ELSE IF t = stream THEN Idle ELSE req[t]]
  /\ UNCHANGED <<vars, started, listeners, list, cursor, spent>>

\* A fetch that fails: start and reconnect open the stream all the same.
FetchFailed(s) ==
  /\ req[s].for \in {"connect", "refresh"} /\ Spend("failures", MaxFailures)
  /\ IF req[s].for = "refresh"
     THEN req' = [req EXCEPT ![s] = Idle] /\ UNCHANGED stream
     ELSE req' = [req EXCEPT ![s] = Sent("stream", cursor)] /\ stream' = s
  /\ UNCHANGED <<vars, started, listeners, list, cursor, timer>>

StreamFailed(s) ==
  /\ req[s].for = "stream" /\ req[s].at # "ended" /\ Spend("failures", MaxFailures)
  /\ StreamEnded(s)

-----------------------------------------------------------------------------
StoreStep(s) == Connect(s) \/ Refresh(s) \/ Deliver(s) \/ EndOfReplay(s)

FeedNext ==
  \/ Next /\ UNCHANGED feedVars
  \/ Subscribe \/ Unsubscribe \/ AskRefresh \/ ReconnectNow
  \/ \E s \in Requests :
       Serve(s) \/ StoreStep(s) \/ NativeReconnect(s) \/ FetchFailed(s) \/ StreamFailed(s)

(***************************************************************************)
(* The server answers, the browser runs callbacks and timers.  Nothing is  *)
(* assumed of the user, of the worker or of the browser's reconnection.    *)
(***************************************************************************)
FeedFairness ==
  /\ \A s \in Requests : WF_feedAndQueue(Serve(s)) /\ WF_feedAndQueue(StoreStep(s))
  /\ WF_feedAndQueue(ReconnectNow)

FeedSpec == FeedInit /\ [][FeedNext]_feedAndQueue /\ FeedFairness

-----------------------------------------------------------------------------
(* Properties.                                                             *)

\* The cursor never runs ahead of the list: a job whose marker the next stream will
\* not replay is in the list already, so that "a gap in the stream therefore cannot
\* silently drop a job" (jobStore.ts:11-12).  An answer to refresh moves the cursor
\* back under a stream that is open, which then moves it past what it left out.
CursorHidesNoJob ==
  Len(list) < MaxEvents =>
    \A r \in eventLog : r.seq <= cursor => \E n \in DOMAIN list : list[n].job = r.job

\* An event shown under the marker a cancel published shows the canceled job, not
\* the status it had before, although markers and jobs are read one after another.
CancelMarkerShowsCancel ==
  \A n \in DOMAIN list, r \in eventLog :
    r.seq = list[n].seq /\ cancelAsked[r.job] => list[n].status \notin {"QUEUED", "RUNNING"}

ShownCanceled(j) ==
  \E n \in DOMAIN list : list[n].job = j /\ list[n].status \notin {"QUEUED", "RUNNING"}

\* While anybody is looking, a cancel comes to be shown, even when the refresh that
\* follows it fails or an older snapshot arrives last.
CancelComesToBeShown ==
  \A j \in Jobs : cancelAsked[j] /\ started ~> ShownCanceled(j) \/ ~started
=============================================================================
