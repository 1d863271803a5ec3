---------------------------- MODULE DraftReader -----------------------------
(***************************************************************************)
(* The read-only view of a job's draft: draft_service.py and draft_stream.py *)
(* rebuild it from the latest run with the stored draft laid over it,      *)
(* api/drafts.py serves it as a snapshot and as a stream of frames, and    *)
(* frontend/src/features/jobs/useJobDraftStream.ts asks for both at once   *)
(* and applies whatever comes first.                                       *)
(*                                                                         *)
(* A request reads the run and the draft in two statements without a       *)
(* transaction, and the stream reads both twice, once for its frames and   *)
(* once for its closing snapshot.  The worker never commits a RUNNING run, *)
(* so that a stream always ends with a terminal event.                     *)
(***************************************************************************)
EXTENDS DraftStore

CONSTANTS
  MaxFrames,     \* max_frames of draft_frames
  MaxChars,      \* MAX_CHARS of a snapshot
  Closed,        \* the event source is closed
  MaxRequests    \* bound on snapshots and connections of the page

ASSUME ReaderAssumption == {MaxFrames, MaxChars} \subseteq Nat \ {0} /\ MaxRequests \in Nat

VARIABLES
  view,        \* text and offset on the page
  snap,        \* the snapshot in flight, or Idle
  feed,        \* the event source: connecting, delivering, or Closed
  requests,    \* how much of MaxRequests is used up
  settled,     \* history: has a snapshot been applied since the page opened
  calm         \* history: has nothing been committed since the page opened

readerVars == <<view, snap, feed, requests, settled, calm>>
allDraftVars == <<storeVars, readerVars>>

-----------------------------------------------------------------------------
(* What the server makes of a run and a draft.                           *)

\* The texts of the segments, the draft's where it has one.
Overlay(run, row) ==
  [s \in Segments |-> IF ContentOf(row)[s] = NoText THEN run[s] ELSE ContentOf(row)[s]]

LastOf(seq, k) == IF Len(seq) <= k THEN seq ELSE SubSeq(seq, Len(seq) - k + 1, Len(seq))

\* The offset counts all of the text, the text is cut from the front.
Snapshot(texts) ==
  LET full == FlattenSeq(texts)
  IN  [offset |-> Len(full), text |-> LastOf(full, MaxChars)]

Frames(texts) ==
  LastOf([s \in 1..Len(texts) |->
            [offset |-> Len(FlattenSeq(SubSeq(texts, 1, s))), text |-> texts[s]]],
         MaxFrames)

Event(kind, body) == [kind |-> kind, offset |-> body.offset, text |-> body.text]

Closing(snapshot) == <<Event("terminal", snapshot)>>

\* build_stream_events: a gap first when the cursor is inside of a frame.  Offsets
\* never fall from frame to frame: those behind the cursor are the last ones.
StreamEvents(frames, snapshot, cursor) ==
  LET boundaries == {frames[i].offset : i \in DOMAIN frames}
      fresh == LastOf(frames, Cardinality({i \in DOMAIN frames : frames[i].offset > cursor}))
  IN  (IF cursor # 0 /\ cursor \notin boundaries /\ cursor < snapshot.offset
       THEN <<Event("gap", snapshot)>> ELSE <<>>)
      \o [i \in DOMAIN fresh |-> Event("draft", fresh[i])]
      \o Closing(snapshot)

-----------------------------------------------------------------------------
NoTexts == <<>>     \* no run: no frames, an empty snapshot

LatestRun == IF runs = <<>> THEN NoTexts ELSE Last(runs)

\* A read of the draft after a read of the run.
TextsOf(run) == IF run = NoTexts THEN NoTexts ELSE Overlay(run, draft)

OpenView ==
  /\ feed = Idle /\ snap = Idle
  /\ view' = [text |-> <<>>, offset |-> 0]
  /\ snap' = [phase |-> "sent", run |-> NoTexts, body |-> Snapshot(NoTexts)]
  /\ feed' = [phase |-> "sent", run |-> NoTexts, frames |-> <<>>, events |-> <<>>]
  /\ settled' = FALSE /\ calm' = TRUE
  /\ UNCHANGED <<storeVars, requests>>

\* GET /api/jobs/{id}/draft
SnapRead ==
  /\ snap # Idle
  /\ \/ /\ snap.phase = "sent"
        /\ snap' = [snap EXCEPT !.phase = "run", !.run = LatestRun]
     \/ /\ snap.phase = "run"
        /\ snap' = [phase |-> "ok", run |-> NoTexts, body |-> Snapshot(TextsOf(snap.run))]
  /\ UNCHANGED <<storeVars, view, feed, requests, settled, calm>>

SnapArrives ==
  /\ snap # Idle /\ snap.phase = "ok"
  /\ view' = snap.body
  /\ snap' = Idle
  /\ settled' = TRUE
  /\ UNCHANGED <<storeVars, feed, requests, calm>>

SnapFails ==
  /\ snap # Idle
  /\ snap' = Idle
  /\ UNCHANGED <<storeVars, view, feed, requests, settled, calm>>

\* The user asks for a snapshot again.  The server does not use the offset.
Resync ==
  /\ feed # Idle /\ snap = Idle /\ requests < MaxRequests
  /\ snap' = [phase |-> "sent", run |-> NoTexts, body |-> Snapshot(NoTexts)]
  /\ requests' = requests + 1
  /\ UNCHANGED <<storeVars, view, feed, settled, calm>>

\* GET /api/jobs/{id}/draft/stream: afterOffset is 0 in the URL of the page and
\* wins over the Last-Event-ID of a reconnect.
StreamRead ==
  /\ feed \notin {Idle, Closed}
  /\ \/ /\ feed.phase = "sent"
        /\ feed' = [feed EXCEPT !.phase = "run", !.run = LatestRun]
     \/ /\ feed.phase = "run"
        /\ feed' = [feed EXCEPT !.phase = "frames", !.run = NoTexts,
                                !.frames = Frames(TextsOf(feed.run))]
     \/ /\ feed.phase = "frames"
        /\ feed' = [feed EXCEPT !.phase = "rerun", !.run = LatestRun]
     \/ /\ feed.phase = "rerun"
        /\ feed' = [phase |-> "open", run |-> NoTexts, frames |-> <<>>,
                    events |-> StreamEvents(feed.frames, Snapshot(TextsOf(feed.run)), 0)]
  /\ UNCHANGED <<storeVars, view, snap, requests, settled, calm>>

ReplayedBehind(frame) == frame.offset < view.offset
Replayed(frame) == frame.offset <= view.offset

\* A frame behind the offset is a replay; a gap replaces what is shown.
EventArrives ==
  /\ feed \notin {Idle, Closed} /\ feed.phase = "open"
  /\ LET event == Head(feed.events)
     IN  /\ view' = CASE event.kind = "draft" ->
                           IF Replayed(event) THEN view
                           ELSE [text |-> view.text \o event.text, offset |-> event.offset]
                      [] event.kind = "gap" -> [text |-> event.text, offset |-> event.offset]
                      [] event.kind = "terminal" -> view
         /\ feed' = IF event.kind = "terminal" THEN Closed
                    ELSE [feed EXCEPT !.events = Tail(@)]
  /\ UNCHANGED <<storeVars, snap, requests, settled, calm>>

\* The connection breaks and the browser connects again by itself.
Reconnect ==
  /\ feed \notin {Idle, Closed} /\ requests < MaxRequests
  /\ feed' = [phase |-> "sent", run |-> NoTexts, frames |-> <<>>, events |-> <<>>]
  /\ requests' = requests + 1
  /\ UNCHANGED <<storeVars, view, snap, settled, calm>>

-----------------------------------------------------------------------------
ReaderInit ==
  /\ StoreInit
  /\ view = [text |-> <<>>, offset |-> 0]
  /\ snap = Idle /\ feed = Idle
  /\ requests = 0 /\ settled = FALSE /\ calm = TRUE

StoreStep ==
  /\ StoreNext
  /\ calm' = (calm /\ draft' = draft /\ runs' = runs)
  /\ UNCHANGED <<view, snap, feed, requests, settled>>

ReaderNext ==
  \/ StoreStep \/ OpenView \/ SnapRead \/ SnapArrives \/ SnapFails \/ Resync
  \/ StreamRead \/ EventArrives \/ Reconnect

ReaderSpec == ReaderInit /\ [][ReaderNext]_allDraftVars

-----------------------------------------------------------------------------
(* Properties.                                                           *)

\* Snapshot and stream race to the page, in any order and with any replay; when
\* the last has come, the page shows the draft of the server as it is, unless
\* somebody has written since the page opened (useJobDraftStream.ts:46-55).
SettledViewIsServerText ==
  calm /\ settled /\ snap = Idle /\ feed = Closed =>
     view = Snapshot(TextsOf(LatestRun))
=============================================================================
