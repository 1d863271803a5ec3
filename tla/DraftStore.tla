----------------------------- MODULE DraftStore -----------------------------
(***************************************************************************)
(* The workspace draft of one chapter and base revision                    *)
(* (backend/app/modules/translation/drafts.py and api/drafts.py) between   *)
(* the two kinds of writers it has: editors that save it with the revision *)
(* they last saw (frontend/src/features/translation/useChapterDraft.ts),   *)
(* and the worker, which appends what the provider streams inside the      *)
(* transaction of its translation run (draft_sink.py, workflow.py).        *)
(*                                                                         *)
(* A save reads the row outside of any transaction and writes it in one    *)
(* that begins with the write: the two steps SaveCheck and SaveWrite.      *)
(* Interleaved = FALSE closes that window, to show what the protocol       *)
(* promises without it.  The worker's transaction holds the one write lock *)
(* from the insert of its run to its commit.                               *)
(*                                                                         *)
(* A text is a sequence of characters; a content gives each segment a text *)
(* or NoText when the JSON object has no such key.                         *)
(***************************************************************************)
EXTENDS Naturals, Sequences, FiniteSets, SequencesExt

CONSTANTS
  N,             \* segments of the base revision
  Editors,       \* pages with the translation editor
  Callers,       \* other users of the API: they look, they save, they look again
  Letters,       \* characters
  Typed,         \* of each segment: the texts a user may type into it
  Streams,       \* what a provider may stream: for each segment, its deltas
  MaxDraft,      \* MAX_DRAFT_BYTES, in characters
  Interleaved,   \* may another writer commit between check and write of a save
  NoText,
  NoAttempt,
  Idle,          \* no request of this kind is out
  NoConflict,
  MaxRuns,       \* bound on committed runs
  MaxRevision    \* bound on the revisions saves may reach

Segments == 1..N

ASSUME DraftAssumption ==
  /\ N \in Nat \ {0} /\ MaxDraft \in Nat /\ MaxRuns \in Nat /\ MaxRevision \in Nat
  /\ Interleaved \in BOOLEAN
  /\ Typed \in [Segments -> SUBSET Seq(Letters)]
  /\ Streams \subseteq [Segments -> Seq(Seq(Letters))]

VARIABLES
  draft,      \* the workspace_drafts row: revision and content, or NoDraft
  runs,       \* committed translation runs, oldest first: the text of each segment
  attempt,    \* the worker's open transaction, or NoAttempt
  text,       \* of each editor: what its text areas hold
  known,      \* of each editor and caller: the revision and content it holds
  conflict,   \* of each editor: the conflict it shows
  put,        \* of each editor and caller: its save in flight
  get,        \* of each editor: its load or reload in flight
  open        \* editors whose page is open

server == <<draft, runs, attempt>>
page == <<text, known, conflict, open>>
storeVars == <<server, page, put, get>>

-----------------------------------------------------------------------------
(* The row.                                                              *)

\* No row: no revision a row may have, and no content.
NoDraft == [revision |-> 0]

Blank(t) == IF t = NoText THEN <<>> ELSE t
Empty == [s \in Segments |-> NoText]
ContentOf(row) == IF row = NoDraft THEN Empty ELSE row.content
RevisionOf(row) == IF row = NoDraft THEN 0 ELSE row.revision

Fits(content) ==
  FoldFunction(LAMBDA t, sum : Len(Blank(t)) + sum, 0, content) <= MaxDraft

Written(row, content) == [revision |-> RevisionOf(row) + 1, content |-> content]

\* The row after one delta at an offset of a segment: behind the stored length
\* it is a duplicate, ahead of it a gap, too large an error; none of them writes.
Appended(row, s, delta, offset) ==
  LET old     == Blank(ContentOf(row)[s])
      content == [ContentOf(row) EXCEPT ![s] = old \o delta]
  IN  IF offset # Len(old) \/ delta = <<>> \/ ~Fits(content)
      THEN row
      ELSE Written(row, content)

-----------------------------------------------------------------------------
(* The worker: one translation run in one transaction.  A segment is served
   from the cache of segments, which streams nothing, or translated delta by
   delta; each delta is offered to the draft at its offset in the segment. *)

Clients == Editors \cup Callers

NoSaveChecked == \A e \in Clients : put[e] # Idle => put[e].phase # "checked"

StartRun ==
  /\ attempt = NoAttempt
  /\ Len(runs) < MaxRuns
  /\ ~Interleaved => NoSaveChecked
  /\ \E stream \in Streams :
        attempt' = [stream |-> stream, segment |-> 1, next |-> 1,
                    text |-> [s \in Segments |-> <<>>], draft |-> draft]
  /\ UNCHANGED <<draft, runs, page, put, get>>

Delta ==
  /\ attempt # NoAttempt
  /\ attempt.segment \in Segments
  /\ LET s      == attempt.segment
         deltas == attempt.stream[s]
         offset == Len(attempt.text[s])
     IN  IF attempt.next <= Len(deltas)
         THEN attempt' = [attempt EXCEPT
                 !.next = @ + 1,
                 !.text[s] = @ \o deltas[attempt.next],
                 !.draft = Appended(@, s, deltas[attempt.next], offset)]
         ELSE attempt' = [attempt EXCEPT !.segment = s + 1, !.next = 1]
  /\ UNCHANGED <<draft, runs, page, put, get>>

CacheHit ==
  /\ attempt # NoAttempt
  /\ attempt.segment \in Segments
  /\ attempt.next = 1
  /\ attempt' = [attempt EXCEPT
        !.text[attempt.segment] = FlattenSeq(attempt.stream[attempt.segment]),
        !.segment = @ + 1]
  /\ UNCHANGED <<draft, runs, page, put, get>>

CommitRun ==
  /\ attempt # NoAttempt
  /\ attempt.segment = N + 1
  /\ runs' = Append(runs, attempt.text)
  /\ draft' = attempt.draft
  /\ attempt' = NoAttempt
  /\ UNCHANGED <<page, put, get>>

\* The provider fails, the job is canceled or the worker dies: all is undone.
AbortRun ==
  /\ attempt # NoAttempt
  /\ attempt' = NoAttempt
  /\ UNCHANGED <<draft, runs, page, put, get>>

-----------------------------------------------------------------------------
(* PUT /api/chapters/{id}/draft                                          *)

\* Once the server has answered, the page remembers what it tried to save.
Answer(e, answer, row) ==
  put' = [put EXCEPT ![e] = [phase |-> answer, row |-> row,
             content |-> IF answer \in {"conflict", "read"} THEN @.content ELSE Empty]]

MatchesOrNull(basis) == basis = NoDraft \/ RevisionOf(basis) = RevisionOf(draft)
Matches(basis) == RevisionOf(basis) = RevisionOf(draft)

SaveCheck(e) ==
  /\ put[e] # Idle /\ put[e].phase = "sent"
  /\ ~Interleaved => NoSaveChecked /\ attempt = NoAttempt
  /\ IF ~Fits(put[e].content) THEN Answer(e, "error", NoDraft)
     ELSE IF ~Matches(put[e].basis) THEN Answer(e, "conflict", NoDraft)
     ELSE put' = [put EXCEPT ![e] =
                    [@ EXCEPT !.phase = "checked", !.row = draft]]
  /\ UNCHANGED <<server, page, get>>

\* The write needs the lock.  Two saves that both create the row end with the
\* second refused by the unique constraint; an update names the row only by id.
SaveWrite(e) ==
  /\ put[e] # Idle /\ put[e].phase = "checked"
  /\ attempt = NoAttempt
  /\ \/ /\ put[e].row = NoDraft => draft = NoDraft
        /\ RevisionOf(put[e].row) < MaxRevision
        /\ draft' = Written(put[e].row, put[e].content)
        /\ \/ Answer(e, "ok", draft')
           \/ Answer(e, "error", NoDraft)            \* the answer is lost
     \/ /\ put[e].row = NoDraft /\ draft # NoDraft
        /\ Answer(e, "error", NoDraft)
        /\ UNCHANGED draft
  /\ UNCHANGED <<runs, attempt, page, get>>

\* The request never arrives, or the lock is not free within busy_timeout.
SaveFails(e) ==
  /\ put[e] # Idle
  /\ \/ put[e].phase = "sent"
     \/ put[e].phase = "checked" /\ attempt # NoAttempt
  /\ Answer(e, "error", NoDraft)
  /\ UNCHANGED <<server, page, get>>

-----------------------------------------------------------------------------
(* A caller of the API.                                                  *)

Look(c) ==
  /\ put[c] = Idle /\ known[c] # draft
  /\ known' = [known EXCEPT ![c] = draft]
  /\ UNCHANGED <<server, text, conflict, open, put, get>>

\* The expectation of a save is the revision of its basis.
SendSave(e, content, basis) ==
  put' = [put EXCEPT ![e] = [phase |-> "sent", content |-> content,
                             basis |-> basis, row |-> NoDraft]]

Call(c) ==
  /\ put[c] = Idle
  /\ \E s \in Segments : \E t \in Typed[s] :
       SendSave(c, [ContentOf(known[c]) EXCEPT ![s] = t], known[c])
  /\ UNCHANGED <<server, page, get>>

CallAnswered(c) ==
  /\ put[c] # Idle /\ put[c].phase \in {"ok", "conflict", "error"}
  /\ put' = [put EXCEPT ![c] = Idle]
  /\ UNCHANGED <<server, page, get>>

-----------------------------------------------------------------------------
(* The editor: useChapterDraft and the text areas it restores into.      *)

Restored(e, content) ==
  [text EXCEPT ![e] = [s \in Segments |-> IF content[s] = NoText THEN @[s] ELSE content[s]]]

\* The page shows the latest run and reads the draft.
OpenPage(e) ==
  /\ e \notin open /\ runs # <<>>
  /\ open' = open \cup {e}
  /\ text' = [text EXCEPT ![e] = Last(runs)]
  /\ get' = [get EXCEPT ![e] = [phase |-> "sent", asked |-> FALSE, row |-> NoDraft]]
  /\ UNCHANGED <<server, known, conflict, put>>

Type(e) ==
  /\ e \in open
  /\ \E s \in Segments : \E t \in Typed[s] : text' = [text EXCEPT ![e][s] = t]
  /\ UNCHANGED <<server, known, conflict, open, put, get>>

Save(e) ==
  /\ e \in open /\ put[e] = Idle
  /\ SendSave(e, text[e], known[e])
  /\ UNCHANGED <<server, page, get>>

Overwrite(e) ==
  /\ conflict[e] # NoConflict
  /\ put[e] = Idle
  /\ SendSave(e, conflict[e].local, conflict[e].server)
  /\ conflict' = [conflict EXCEPT ![e] = NoConflict]
  /\ UNCHANGED <<server, text, known, open, get>>

UseServerContent(e) ==
  /\ conflict[e] # NoConflict
  /\ text' = Restored(e, ContentOf(conflict[e].server))
  /\ known' = [known EXCEPT ![e] = conflict[e].server]
  /\ conflict' = [conflict EXCEPT ![e] = NoConflict]
  /\ UNCHANGED <<server, open, put, get>>

Reload(e) ==
  /\ e \in open /\ get[e] = Idle
  /\ conflict' = [conflict EXCEPT ![e] = NoConflict]
  /\ get' = [get EXCEPT ![e] = [phase |-> "sent", asked |-> TRUE, row |-> NoDraft]]
  /\ UNCHANGED <<server, text, known, open, put>>

\* GET /api/chapters/{id}/draft
ServeDraft(e) ==
  /\ get[e] # Idle /\ get[e].phase = "sent"
  /\ get' = [get EXCEPT ![e] = [@ EXCEPT !.phase = "ok", !.row = draft]]
  /\ UNCHANGED <<server, page, put>>

Adopt(e) ==
  /\ get[e] # Idle /\ get[e].phase = "ok"
  /\ known' = [known EXCEPT ![e] = get[e].row]
  /\ text' = Restored(e, ContentOf(get[e].row))
  /\ get' = [get EXCEPT ![e] = Idle]
  /\ UNCHANGED <<server, conflict, open, put>>

ReadFails(e) ==
  /\ get[e] # Idle
  /\ get' = [get EXCEPT ![e] = Idle]
  /\ UNCHANGED <<server, page, put>>

SameContent(left, right) == \A s \in Segments : Blank(left[s]) = Blank(right[s])

\* A refused save has read the row: the text it tried to save may be there, by
\* an earlier attempt whose answer was lost.
Succeeds(e) ==
  \/ put[e].phase = "ok"
  \/ put[e].phase = "read" /\ SameContent(ContentOf(put[e].row), put[e].content)

SaveAnswered(e) ==
  /\ put[e] # Idle /\ put[e].phase \in {"ok", "read", "error"}
  /\ IF Succeeds(e)
     THEN /\ known' = [known EXCEPT ![e] = IF put[e].row = NoDraft THEN @ ELSE put[e].row]
          /\ conflict' = [conflict EXCEPT ![e] = NoConflict]
     ELSE /\ conflict' = [conflict EXCEPT ![e] =
                IF put[e].phase = "error" THEN @
                ELSE [server |-> put[e].row, local |-> put[e].content]]
          /\ UNCHANGED known
  /\ put' = [put EXCEPT ![e] = Idle]
  /\ UNCHANGED <<server, text, open, get>>

\* After a refusal the hook reads the row; a read that fails counts as no row.
ReadRefused(e) ==
  /\ put[e] # Idle /\ put[e].phase = "conflict"
  /\ \E row \in {draft, NoDraft} : Answer(e, "read", row)
  /\ UNCHANGED <<server, page, get>>

-----------------------------------------------------------------------------
StoreInit ==
  /\ draft = NoDraft /\ runs = <<>> /\ attempt = NoAttempt
  /\ open = {}
  /\ text = [e \in Editors |-> Empty]
  /\ known = [e \in Clients |-> NoDraft]
  /\ conflict = [e \in Editors |-> NoConflict]
  /\ put = [e \in Clients |-> Idle]
  /\ get = [e \in Editors |-> Idle]

StoreNext ==
  \/ StartRun \/ Delta \/ CacheHit \/ CommitRun \/ AbortRun
  \/ \E e \in Clients : SaveCheck(e) \/ SaveWrite(e) \/ SaveFails(e)
  \/ \E c \in Callers : Look(c) \/ Call(c) \/ CallAnswered(c)
  \/ \E e \in Editors :
       \/ OpenPage(e) \/ Type(e) \/ Save(e) \/ Overwrite(e) \/ UseServerContent(e)
       \/ Reload(e) \/ ServeDraft(e) \/ Adopt(e) \/ ReadFails(e)
       \/ ReadRefused(e) \/ SaveAnswered(e)

StoreSpec == StoreInit /\ [][StoreNext]_storeVars

-----------------------------------------------------------------------------
(* Properties.                                                           *)

IsContent(c) == DOMAIN c = Segments /\ \A s \in Segments : Len(Blank(c[s])) \in Nat
IsRow(row) == row = NoDraft \/ (row.revision \in Nat \ {0} /\ IsContent(row.content))

\* A save replaces only the draft its editor was shown, as it was loaded or saved
\* or as the other side of a conflict; what anybody wrote since is never lost
\* unseen.  drafts.py:9 promises it: on a stale expectation nothing is written.
NothingUnseenLost ==
  [][\A e \in Clients : SaveWrite(e) /\ draft' # draft => draft = put[e].basis]_storeVars

=============================================================================
