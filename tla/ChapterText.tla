---------------------------- MODULE ChapterText ----------------------------
(***************************************************************************)
(* A chapter from its import to its approved translation: the source       *)
(* revisions (backend/app/modules/projects/workflow.py), the translation   *)
(* runs made from them (translation/workflow.py), the edits and repairs    *)
(* that supersede a run with the next one (workflow.py, repair.py), the    *)
(* changes of the knowledge they are made with (glossary.py,               *)
(* projects/invalidation.py) and the approval the audio waits for.         *)
(*                                                                         *)
(* A request reads and writes the database within milliseconds and is one  *)
(* step here.  A page may be arbitrarily old: it names any run it once saw *)
(* with the hash that run still has.                                       *)
(***************************************************************************)
EXTENDS Naturals, Sequences, FiniteSets

CONSTANTS
  N,            \* segments of the chapter
  Sources,      \* source texts it is imported from
  Answers,      \* what a provider may answer: a text for each segment
  Edits,        \* what a person may put in its place
  Repairs,      \* what a repair may propose
  Flagged,      \* of each revision of the knowledge: texts with a MAJOR or CRITICAL issue
  Requested,    \* states a caller of the transition route asks for
  MaxContext,   \* bound on revisions of the knowledge (glossary, style, memory)
  MaxRuns,      \* bound on translation runs
  None,
  NoCacheKey         \* a segment without cache key

Segments == 1..N
Texts == {answer[i] : answer \in Answers, i \in Segments} \cup Edits \cup Repairs

ASSUME TextAssumption ==
  /\ N \in Nat \ {0} /\ MaxContext \in Nat /\ MaxRuns \in Nat
  /\ Sources # {} /\ Answers # {} /\ \A answer \in Answers : DOMAIN answer = Segments
  /\ Flagged \in [0..MaxContext -> SUBSET Texts]
  /\ None \notin Nat /\ NoCacheKey \notin Nat /\ None \notin Sources

VARIABLES
  chapter,   \* the chapters row: state, active source, pointers to what is approved
  runs,      \* translation_runs with their segments, oldest first
  context,   \* the revision of the knowledge a translation is made with
  proposal   \* the repair a preview left in the memory of the server, or None

textVars == <<chapter, runs, context, proposal>>

-----------------------------------------------------------------------------
(* The state machine of a chapter.                                       *)

States == {"NORMALIZED", "TRANSLATING", "TRANSLATION_REVIEW", "TRANSLATION_APPROVED",
           "VOICE_CONFIGURED", "TTS_QUEUED", "SYNTHESIZING", "AUDIO_REVIEW",
           "READY_TO_EXPORT", "EXPORTED", "FAILED"}

\* The table of transitions; a state may always be requested again.  IMPORTED
\* is left in the transaction that creates the chapter.
Successor ==
  [TRANSLATING |-> "NORMALIZED", TRANSLATION_REVIEW |-> "TRANSLATING",
   TRANSLATION_APPROVED |-> "TRANSLATION_REVIEW", VOICE_CONFIGURED |-> "TRANSLATION_APPROVED",
   TTS_QUEUED |-> "VOICE_CONFIGURED", SYNTHESIZING |-> "TTS_QUEUED",
   AUDIO_REVIEW |-> "SYNTHESIZING", READY_TO_EXPORT |-> "AUDIO_REVIEW",
   EXPORTED |-> "READY_TO_EXPORT"]

Allowed(from, to) ==
  \/ from = to
  \/ to = "FAILED" /\ from # "EXPORTED"
  \/ to \in DOMAIN Successor /\ Successor[to] = from

NewChapter(s) ==
  [state |-> "NORMALIZED", source |-> s, run |-> None, plan |-> None, master |-> None,
   export |-> None]

\* What the approval of a text carried: every pointer to it and to what was made of it.
Cleared(c) == [c EXCEPT !.run = None, !.plan = None, !.master = None, !.export = None]

-----------------------------------------------------------------------------
(* Runs.                                                                 *)

Latest(these) == CHOOSE r \in these : \A q \in these : q <= r

Review == {r \in DOMAIN runs : runs[r].status = "REVIEW"}

\* The newest run in review, the only one that may be approved or repaired.
LatestReview == Latest(Review)

Blocked(cells) == \E i \in Segments : cells[i].text \in Flagged[context]

\* A new run gets the issues of the rules as of now.
IssuesOf(cells) == IF Blocked(cells) THEN "open" ELSE "none"

NewRun(source, cells, base) ==
  [source |-> source, cells |-> cells, status |-> "REVIEW", base |-> base,
   blockers |-> IssuesOf(cells)]

TranslationSegment(text, hit) == [text |-> text, key |-> context, edited |-> FALSE, hit |-> hit]

MatchingEdits(source, i) ==
  {r \in DOMAIN runs : runs[r].source = source /\ runs[r].cells[i].key = context}

\* The runs whose cell may answer for a segment from the cache: text a provider
\* gave for this very source segment under the present knowledge, never text a
\* person wrote.
Matching(source, i) ==
  {r \in DOMAIN runs : /\ runs[r].source = source /\ runs[r].cells[i].key = context
                       /\ ~runs[r].cells[i].edited /\ ~runs[r].cells[i].hit}

Superseded(history, r) == [history EXCEPT ![r].status = "SUPERSEDED"]

-----------------------------------------------------------------------------
(* Operations.                                                           *)

\* Import a text as the source: a text seen before is the revision it made then.
Import(s) ==
  /\ chapter' = [IF chapter.source = s THEN chapter ELSE Cleared(chapter)
                   EXCEPT !.source = s, !.state = "NORMALIZED"]
  /\ UNCHANGED <<runs, context, proposal>>

\* The transition route moves the state and nothing else.
RequestTransition(to) ==
  /\ Allowed(chapter.state, to)
  /\ chapter' = [chapter EXCEPT !.state = to]
  /\ UNCHANGED <<runs, context, proposal>>

\* A segment comes from the cache, or the provider answers.
TranslateSegment(i, answer) ==
  LET cached == Matching(chapter.source, i)
  IN  IF cached = {} THEN TranslationSegment(answer, FALSE)
                     ELSE TranslationSegment(runs[Latest(cached)].cells[i].text, TRUE)

\* A translation run.  The pointers to what was approved before stay.
Translate ==
  /\ Len(runs) < MaxRuns
  /\ \E answer \in Answers :
       runs' = Append(runs, NewRun(chapter.source,
                                   [i \in Segments |-> TranslateSegment(i, answer[i])], None))
  /\ chapter' = [chapter EXCEPT !.state = "TRANSLATION_REVIEW"]
  /\ UNCHANGED <<context, proposal>>

Follow(base, cells) ==
  /\ Len(runs) < MaxRuns
  /\ runs' = Append(Superseded(runs, base), NewRun(runs[base].source, cells, base))
  /\ chapter' = [Cleared(chapter) EXCEPT !.state = "TRANSLATION_REVIEW"]

Revise(base, i, t) ==
  /\ Follow(base, [j \in Segments |->
                     [runs[base].cells[j] EXCEPT
                        !.hit = FALSE, !.edited = @ \/ j = i, !.text = IF j = i THEN t ELSE @]])
  /\ UNCHANGED <<context, proposal>>

Approvable(r) ==
  \/ runs[r].status = "APPROVED" /\ chapter.run = r
  \/ runs[r].status = "REVIEW" /\ r = LatestReview

\* Approve a run; force dismisses its open issues.  A run that replaces another
\* approved one takes everything downstream with it.
ApproveOver(r, force) ==
  /\ Approvable(r)
  /\ runs[r].blockers = "open" => force
  /\ Allowed(chapter.state, "TRANSLATION_APPROVED")
  /\ runs' = [runs EXCEPT ![r].status = "APPROVED",
                          ![r].blockers = IF @ = "open" THEN "dismissed" ELSE @]
  /\ chapter' = [chapter EXCEPT !.run = r, !.state = "TRANSLATION_APPROVED"]
  /\ UNCHANGED <<context, proposal>>

Approve(r, force) ==
  /\ Approvable(r)
  /\ runs[r].blockers = "open" => force
  /\ Allowed(chapter.state, "TRANSLATION_APPROVED")
  /\ runs' = [runs EXCEPT ![r].status = "APPROVED",
                          ![r].blockers = IF @ = "open" THEN "dismissed" ELSE @]
  /\ chapter' = [IF chapter.run \in {None, r} THEN chapter ELSE Cleared(chapter)
                   EXCEPT !.run = r, !.state = "TRANSLATION_APPROVED"]
  /\ UNCHANGED <<context, proposal>>

\* A repair is previewed on the newest run in review and kept in memory ...
Propose(i, t) ==
  /\ Review # {}
  /\ proposal' = [base |-> LatestReview, segment |-> i, text |-> t]
  /\ UNCHANGED <<chapter, runs, context>>

AcceptRepairOf(base, i, t) ==
  Follow(base, [runs[base].cells EXCEPT ![i].text = t, ![i].key = NoCacheKey, ![i].hit = FALSE])

\* ... and applied only as long as that run is still the newest one in review.
AcceptRepair ==
  /\ proposal # None
  /\ proposal.base \in Review
  /\ proposal.base = LatestReview
  /\ AcceptRepairOf(proposal.base, proposal.segment, proposal.text)
  /\ proposal' = None
  /\ UNCHANGED context

\* The server restarts: a preview is gone.
ForgetProposal ==
  /\ proposal # None
  /\ proposal' = None
  /\ UNCHANGED <<chapter, runs, context>>

\* A term of the glossary that occurs in the chapter changes: its translations
\* and all that was made of them no longer count.  The state stays.
InvalidatedRuns ==
  [r \in DOMAIN runs |->
     [runs[r] EXCEPT !.status = IF @ \in {"REVIEW", "APPROVED"} THEN "SUPERSEDED" ELSE @]]

ChangeTermKeepingPointers ==
  /\ context < MaxContext
  /\ context' = context + 1
  /\ runs' = InvalidatedRuns
  /\ UNCHANGED <<chapter, proposal>>

ChangeTerm ==
  /\ context < MaxContext
  /\ context' = context + 1
  /\ runs' = InvalidatedRuns
  /\ chapter' = Cleared(chapter)
  /\ UNCHANGED proposal

\* A term that does not occur here, the style guide or the story memory changes:
\* later translations are made with it, what exists stays as it is.
ChangeContext ==
  /\ context < MaxContext
  /\ context' = context + 1
  /\ UNCHANGED <<chapter, runs, proposal>>

-----------------------------------------------------------------------------
(* Specification of this part.                                           *)

TextInit ==
  /\ \E s \in Sources : chapter = NewChapter(s)
  /\ runs = <<>>
  /\ context = 0
  /\ proposal = None

\* Requests that leave the audio as it is, but for the pointers to it.
TextRequests ==
  \/ \E s \in Sources : Import(s)
  \/ \E to \in Requested : RequestTransition(to)
  \/ Translate
  \/ \E r \in DOMAIN runs, i \in Segments, t \in Edits : Revise(r, i, t)
  \/ \E r \in DOMAIN runs, force \in BOOLEAN : Approve(r, force)
  \/ \E i \in Segments, t \in Repairs : Propose(i, t)
  \/ AcceptRepair
  \/ ForgetProposal
  \/ ChangeContext

TextNext == TextRequests \/ ChangeTerm

TextSpec == TextInit /\ [][TextNext]_textVars

-----------------------------------------------------------------------------
(* What the text must keep.                                              *)

\* What is approved for a chapter was approved, was not superseded since, and has
\* no issue open that nobody dismissed, through any order of edits, repairs,
\* imports and changes of the glossary (translation/workflow.py, repair.py and
\* projects/invalidation.py each clear the pointer in code of their own).
ApprovalStands ==
  chapter.run # None =>
    runs[chapter.run].status = "APPROVED" /\ runs[chapter.run].blockers # "open"

\* The cache of segments gives back what a provider answered for that segment
\* under that knowledge, through any chain of edits, repairs and retranslations
\* (translation/workflow.py: _cached_segment).
CachedTextIsProviderText ==
  \A r, q \in DOMAIN runs, i \in Segments :
     LET one == runs[r].cells[i]
         two == runs[q].cells[i]
     IN  /\ runs[r].source = runs[q].source
         /\ one.key # NoCacheKey /\ one.key = two.key
         /\ ~one.edited /\ ~two.edited
         => one.text = two.text

=============================================================================
