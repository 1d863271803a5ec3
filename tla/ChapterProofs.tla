--------------------------- MODULE ChapterProofs ---------------------------
(***************************************************************************)
(* What TLAPS proves about ChapterText and ChapterAudio for chapters of    *)
(* any length, any number of runs, plans, renders, jobs and exports, any   *)
(* change of the knowledge and any interleaving of the requests, and about *)
(* Mastering for any segments, pauses and limits of a part.                *)
(*                                                                         *)
(* Of the text: what is approved stays approved until its pointer goes,    *)
(* and the cache of segments gives back what a provider answered.  Of the  *)
(* audio: the plan of a chapter reads its approved text, a bundle is of    *)
(* one piece, and a bundle the review calls fresh speaks what is approved. *)
(* Of the master: a part is rebuilt only where audio in it is new, and the *)
(* subtitles are along the voice.                                          *)
(***************************************************************************)
EXTENDS ChapterAudio, Mastering, NaturalSets, SequenceTheorems, TLAPS

Names == Nat \cup {None}
CellKeys == Nat \cup {NoCacheKey}
Cell == [text : Texts, key : CellKeys, edited : BOOLEAN, hit : BOOLEAN]

TranslationRun ==
  [source : Sources, cells : [Segments -> Cell], status : {"REVIEW", "APPROVED", "SUPERSEDED"},
   base : Names, blockers : {"none", "open", "dismissed"}]

ChapterRow ==
  [state : States \cup Requested, source : Sources, run : Names, plan : Names, master : Names,
   export : Names]

TextTypeOK ==
  /\ chapter \in ChapterRow
  /\ runs \in Seq(TranslationRun)
  /\ context \in Nat
  /\ proposal \in [base : Nat, segment : Segments, text : Repairs] \cup {None}

ApprovedIsThere == chapter.run # None => chapter.run \in DOMAIN runs

\* The cell of run q is what a provider answered for the segment of cell i of run r.
AnswersFor(q, r, i) ==
  /\ runs[q].source = runs[r].source
  /\ runs[q].cells[i].key = runs[r].cells[i].key
  /\ ~runs[q].cells[i].edited /\ ~runs[q].cells[i].hit

\* A segment that came from the cache still has the run it came from.
HitsHaveOrigin ==
  \A r \in DOMAIN runs, i \in Segments :
    runs[r].cells[i].hit => \E q \in DOMAIN runs : AnswersFor(q, r, i)

TextInv ==
  /\ TextTypeOK
  /\ ApprovedIsThere /\ ApprovalStands
  /\ HitsHaveOrigin /\ CachedTextIsProviderText

-----------------------------------------------------------------------------
(* The newest of some rows.                                               *)

LEMMA LatestIsOne ==
  ASSUME NEW n \in Nat, NEW these \in SUBSET (1..n), these # {}
  PROVE  Latest(these) \in these
<1> DEFINE S == {k \in Nat : \A some \in SUBSET (1..k) :
                              some # {} => \E r \in some : \A q \in some : q <= r}
<1>1. 0 \in S
  <2>1. \A some \in SUBSET (1..0) : some = {}
    OBVIOUS
  <2> QED
    BY <2>1
<1>2. ASSUME NEW k \in Nat, k \in S PROVE k + 1 \in S
  <2> SUFFICES ASSUME NEW some \in SUBSET (1..k + 1), some # {}
               PROVE  \E r \in some : \A q \in some : q <= r
    OBVIOUS
  <2>1. CASE k + 1 \in some
    BY <2>1
  <2>2. CASE k + 1 \notin some
    BY <1>2, <2>2
  <2> QED
    BY <2>1, <2>2
<1>3. S = Nat
  <2> HIDE DEF S
  <2>1. S \in SUBSET Nat
    BY DEF S
  <2> QED
    BY <1>1, <1>2, <2>1, SetInduction
<1>4. \E r \in these : \A q \in these : q <= r
  BY <1>3
<1> QED
  BY <1>4 DEF Latest

-----------------------------------------------------------------------------
(* Runs.                                                                   *)

LEMMA RunsAreTyped ==
  ASSUME TextTypeOK
  PROVE  /\ Len(runs) \in Nat /\ DOMAIN runs = 1..Len(runs)
         /\ \A r \in DOMAIN runs :
              /\ runs[r] \in TranslationRun /\ runs[r].cells \in [Segments -> Cell]
              /\ \A i \in Segments : runs[r].cells[i] \in Cell
<1>1. Len(runs) \in Nat /\ DOMAIN runs = 1..Len(runs)
  BY LenProperties DEF TextTypeOK
<1>2. \A r \in DOMAIN runs : runs[r] \in TranslationRun
  BY <1>1, ElementOfSeq DEF TextTypeOK
<1>3. \A r \in DOMAIN runs : runs[r].cells \in [Segments -> Cell]
  BY <1>2 DEF TranslationRun, Names
<1> QED
  BY <1>1, <1>2, <1>3

\* The steps that leave every source and every cell as it is.
CellsStay ==
  /\ runs' \in Seq(TranslationRun) /\ DOMAIN runs' = DOMAIN runs
  /\ \A r \in DOMAIN runs : runs'[r].source = runs[r].source /\ runs'[r].cells = runs[r].cells

LEMMA CellsStayKeepsCache ==
  ASSUME TextInv, CellsStay
  PROVE  HitsHaveOrigin' /\ CachedTextIsProviderText'
<1>1. HitsHaveOrigin'
  <2>1. HitsHaveOrigin /\ CellsStay
    BY DEF TextInv
  <2>2. ASSUME NEW r \in DOMAIN runs, NEW i \in Segments, runs'[r].cells[i].hit
        PROVE  \E q \in DOMAIN runs : AnswersFor(q, r, i)'
    <3>1. runs[r].cells[i].hit
      BY <2>1, <2>2 DEF CellsStay
    <3>2. PICK q \in DOMAIN runs : AnswersFor(q, r, i)
      BY <2>1, <3>1 DEF HitsHaveOrigin
    <3>3. AnswersFor(q, r, i)'
      BY <2>1, <3>2 DEF AnswersFor, CellsStay
    <3> QED
      BY <3>3
  <2> QED
    BY <2>1, <2>2 DEF HitsHaveOrigin, CellsStay
<1>2. CachedTextIsProviderText'
  BY DEF TextInv, CachedTextIsProviderText, CellsStay
<1> QED
  BY <1>1, <1>2

-----------------------------------------------------------------------------
(* A new run.                                                              *)

\* What its cell of segment i may be: worth nothing to the cache, ...
Worthless(cell) == ~cell.hit /\ (cell.edited \/ cell.key = NoCacheKey)

\* ... the copy of a cell there was, taken along or answered from the cache, ...
CopyOf(cell, q, i) ==
  /\ cell.key = runs[q].cells[i].key /\ cell.text = runs[q].cells[i].text
  /\ cell.edited = runs[q].cells[i].edited
  /\ cell.hit => runs[q].cells[i].hit \/ ~runs[q].cells[i].edited

Copied(cell, source, i) ==
  \E q \in DOMAIN runs : runs[q].source = source /\ CopyOf(cell, q, i)

\* ... or a provider's answer where none was to be had.
FirstAnswer(cell, source, i) ==
  /\ ~cell.hit
  /\ \A q \in DOMAIN runs :
       runs[q].source = source /\ runs[q].cells[i].key = cell.key => runs[q].cells[i].edited

CellFits(cell, source, i) ==
  Worthless(cell) \/ Copied(cell, source, i) \/ FirstAnswer(cell, source, i)

\* A run is added, and of the others only the status changes.
Appended(run) ==
  /\ runs' \in Seq(TranslationRun) /\ Len(runs') = Len(runs) + 1
  /\ \A r \in DOMAIN runs : runs'[r].source = runs[r].source /\ runs'[r].cells = runs[r].cells
  /\ runs'[Len(runs) + 1] = run

LEMMA AppendedKeepsCache ==
  ASSUME TextInv, NEW run \in TranslationRun, Appended(run),
         \A i \in Segments : CellFits(run.cells[i], run.source, i)
  PROVE  HitsHaveOrigin' /\ CachedTextIsProviderText'
<1> DEFINE n == Len(runs) + 1
<1>1. /\ Len(runs) \in Nat /\ DOMAIN runs = 1..Len(runs)
      /\ DOMAIN runs' = DOMAIN runs \cup {n} /\ n \notin DOMAIN runs
  <2>1. Len(runs) \in Nat /\ DOMAIN runs = 1..Len(runs)
    BY RunsAreTyped DEF TextInv
  <2>2. DOMAIN runs' = 1..n
    BY LenProperties DEF Appended
  <2> QED
    BY <2>1, <2>2
<1>2. /\ \A r \in DOMAIN runs : runs'[r].source = runs[r].source /\ runs'[r].cells = runs[r].cells
      /\ runs'[n].source = run.source /\ runs'[n].cells = run.cells
  BY DEF Appended
<1> HIDE DEF n
<1>3. ASSUME NEW i \in Segments, Copied(run.cells[i], run.source, i)
      PROVE  \E q \in DOMAIN runs : runs[q].source = run.source /\ CopyOf(run.cells[i], q, i)
  BY <1>3 DEF Copied
<1>4. HitsHaveOrigin'
  <2> SUFFICES ASSUME NEW r \in DOMAIN runs', NEW i \in Segments, runs'[r].cells[i].hit
               PROVE  \E q \in DOMAIN runs' : AnswersFor(q, r, i)'
    BY DEF HitsHaveOrigin
  <2>1. CASE r \in DOMAIN runs
    <3>1. PICK q \in DOMAIN runs : AnswersFor(q, r, i)
      BY <1>2, <2>1 DEF TextInv, HitsHaveOrigin
    <3> QED
      BY <1>1, <1>2, <2>1, <3>1 DEF AnswersFor
  <2>2. CASE r = n
    <3>1. run.cells[i].hit /\ ~Worthless(run.cells[i]) /\ ~FirstAnswer(run.cells[i], run.source, i)
      BY <1>2, <2>2 DEF Worthless, FirstAnswer
    <3>2. PICK q \in DOMAIN runs : runs[q].source = run.source /\ CopyOf(run.cells[i], q, i)
      BY <1>3, <3>1 DEF CellFits
    <3>3. CASE runs[q].cells[i].hit
      <4>1. PICK o \in DOMAIN runs : AnswersFor(o, q, i)
        BY <3>3 DEF TextInv, HitsHaveOrigin
      <4> QED
        BY <1>1, <1>2, <2>2, <3>2, <4>1 DEF AnswersFor, CopyOf
    <3>4. CASE ~runs[q].cells[i].hit
      BY <1>1, <1>2, <2>2, <3>1, <3>2, <3>4 DEF AnswersFor, CopyOf
    <3> QED
      BY <3>3, <3>4
  <2> QED
    BY <1>1, <2>1, <2>2
<1>5. ASSUME NEW q \in DOMAIN runs, NEW i \in Segments, runs[q].source = run.source,
             run.cells[i].key # NoCacheKey, run.cells[i].key = runs[q].cells[i].key,
             ~run.cells[i].edited, ~runs[q].cells[i].edited
      PROVE  run.cells[i].text = runs[q].cells[i].text
  <2>1. ~Worthless(run.cells[i]) /\ ~FirstAnswer(run.cells[i], run.source, i)
    BY <1>5 DEF Worthless, FirstAnswer
  <2>2. PICK o \in DOMAIN runs : runs[o].source = run.source /\ CopyOf(run.cells[i], o, i)
    BY <1>3, <2>1 DEF CellFits
  <2>3. /\ run.cells[i].key = runs[o].cells[i].key /\ run.cells[i].text = runs[o].cells[i].text
        /\ ~runs[o].cells[i].edited
    BY <1>5, <2>2 DEF CopyOf
  <2>4. runs[o].source = runs[q].source /\ runs[o].cells[i].key = runs[q].cells[i].key
        /\ runs[o].cells[i].key # NoCacheKey
    BY <1>5, <2>2, <2>3
  <2>5. runs[o].cells[i].text = runs[q].cells[i].text
    <3>1. CachedTextIsProviderText
      BY DEF TextInv
    <3>2. o \in DOMAIN runs /\ q \in DOMAIN runs /\ i \in Segments /\ ~runs[q].cells[i].edited
      BY <1>5, <2>2
    <3> QED
      BY <2>3, <2>4, <3>1, <3>2, Zenon DEF CachedTextIsProviderText
  <2> QED
    BY <2>3, <2>5
<1>6. CachedTextIsProviderText'
  <2> SUFFICES ASSUME NEW r \in DOMAIN runs', NEW q \in DOMAIN runs', NEW i \in Segments,
                      runs'[r].source = runs'[q].source, runs'[r].cells[i].key # NoCacheKey,
                      runs'[r].cells[i].key = runs'[q].cells[i].key,
                      ~runs'[r].cells[i].edited, ~runs'[q].cells[i].edited
               PROVE  runs'[r].cells[i].text = runs'[q].cells[i].text
    BY DEF CachedTextIsProviderText
  <2>1. CASE r = n
    BY <1>1, <1>2, <1>5, <2>1
  <2>2. CASE q = n
    BY <1>1, <1>2, <1>5, <2>2
  <2>3. CASE r \in DOMAIN runs /\ q \in DOMAIN runs
    <3>1. runs'[r].source = runs[r].source /\ runs'[r].cells = runs[r].cells
      BY <1>2, <2>3
    <3>2. runs'[q].source = runs[q].source /\ runs'[q].cells = runs[q].cells
      BY <1>2, <2>3
    <3> QED
      BY <2>3, <3>1, <3>2 DEF TextInv, CachedTextIsProviderText
  <2> QED
    BY <1>1, <2>1, <2>2, <2>3
<1> QED
  BY <1>4, <1>6

\* The run that revise and repair make supersedes its base and takes the approval with it.

LEMMA FollowKeepsInv ==
  ASSUME TextInv, NEW base \in DOMAIN runs, NEW cells \in [Segments -> Cell], Follow(base, cells),
         context' \in Nat, proposal' \in [base : Nat, segment : Segments, text : Repairs] \cup {None},
         \A i \in Segments : CellFits(cells[i], runs[base].source, i)
  PROVE  TextInv'
<1> DEFINE run == NewRun(runs[base].source, cells, base)
           old == Superseded(runs, base)
<1>a. /\ Len(runs) \in Nat /\ DOMAIN runs = 1..Len(runs) /\ runs \in Seq(TranslationRun)
      /\ \A r \in DOMAIN runs : runs[r] \in TranslationRun
  BY RunsAreTyped DEF TextInv, TextTypeOK
<1>b. run \in TranslationRun
  BY <1>a DEF NewRun, IssuesOf, TranslationRun, Names
<1>c. /\ old \in Seq(TranslationRun) /\ Len(old) = Len(runs)
      /\ \A r \in DOMAIN runs : old[r].source = runs[r].source /\ old[r].cells = runs[r].cells
  <2>1. [runs[base] EXCEPT !.status = "SUPERSEDED"] \in TranslationRun
    BY <1>a DEF TranslationRun, Names
  <2>2. old \in Seq(TranslationRun) /\ Len(old) = Len(runs)
    BY <1>a, <2>1, ExceptSeq DEF Superseded
  <2> QED
    BY <1>a, <2>2 DEF Superseded, TranslationRun, Names
<1> HIDE DEF run, old
<1>1. Appended(run)
  <2>1. runs' = Append(old, run)
    BY DEF Follow, run, old
  <2>2. /\ runs' \in Seq(TranslationRun) /\ Len(runs') = Len(runs) + 1
        /\ \A r \in 1..Len(runs) : runs'[r] = old[r]
        /\ runs'[Len(runs) + 1] = run
    BY <1>a, <1>b, <1>c, <2>1, AppendProperties
  <2> QED
    BY <1>a, <1>c, <2>2 DEF Appended
<1>2. HitsHaveOrigin' /\ CachedTextIsProviderText'
  <2>1. run.cells = cells /\ run.source = runs[base].source
    BY DEF run, NewRun
  <2> QED
    BY <1>b, <1>1, <2>1, AppendedKeepsCache
<1>3. chapter' \in ChapterRow /\ chapter'.run = None
  BY DEF Follow, Cleared, ChapterRow, Names, TextInv, TextTypeOK, States
<1> QED
  BY <1>1, <1>2, <1>3 DEF TextInv, TextTypeOK, Appended, ApprovedIsThere, ApprovalStands

LEMMA TranslateKeepsInv ==
  ASSUME TextInv, Translate
  PROVE  TextInv'
<1>a. /\ Len(runs) \in Nat /\ DOMAIN runs = 1..Len(runs) /\ runs \in Seq(TranslationRun)
      /\ \A r \in DOMAIN runs : /\ runs[r] \in TranslationRun
                                /\ \A i \in Segments : runs[r].cells[i] \in Cell
  BY RunsAreTyped DEF TextInv, TextTypeOK
<1>b. chapter.source \in Sources /\ context \in Nat
  BY DEF TextInv, TextTypeOK, ChapterRow, Names
<1>1. PICK answer \in Answers :
        runs' = Append(runs, NewRun(chapter.source,
                                    [i \in Segments |-> TranslateSegment(i, answer[i])], None))
  BY DEF Translate
<1> DEFINE cells == [i \in Segments |-> TranslateSegment(i, answer[i])]
           run == NewRun(chapter.source, cells, None)
<1>2. ASSUME NEW i \in Segments
      PROVE  cells[i] \in Cell /\ CellFits(cells[i], chapter.source, i)
  <2> DEFINE cached == Matching(chapter.source, i)
  <2>a. answer[i] \in Texts /\ context \in CellKeys
    BY <1>b DEF Texts, CellKeys
  <2>1. CASE cached = {}
    <3>1. cells[i] = [text |-> answer[i], key |-> context, edited |-> FALSE, hit |-> FALSE]
      BY <2>1 DEF TranslateSegment, TranslationSegment
    <3>2. ASSUME NEW q \in DOMAIN runs, runs[q].source = chapter.source,
                 runs[q].cells[i].key = context, ~runs[q].cells[i].edited
          PROVE  FALSE
      <4>1. ~runs[q].cells[i].hit => q \in cached
        BY <3>2 DEF Matching
      <4>2. PICK o \in DOMAIN runs : runs[q].cells[i].hit => AnswersFor(o, q, i)
        BY <3>2 DEF TextInv, HitsHaveOrigin
      <4>3. runs[q].cells[i].hit => o \in cached
        BY <3>2, <4>2 DEF Matching, AnswersFor
      <4> QED
        BY <2>1, <4>1, <4>3
    <3> HIDE DEF cells, cached
    <3>3. cells[i] \in Cell
      BY <2>a, <3>1 DEF Cell
    <3>4. cells[i].key = context /\ ~cells[i].hit
      BY <3>1
    <3> QED
      BY <3>2, <3>3, <3>4 DEF CellFits, FirstAnswer
  <2>2. CASE cached # {}
    <3>1. PICK q \in cached : q = Latest(cached)
      <4>1. cached \in SUBSET (1..Len(runs))
        BY <1>a DEF Matching
      <4> QED
        BY <1>a, <2>2, <4>1, LatestIsOne
    <3>2. cells[i] = [text |-> runs[q].cells[i].text, key |-> context, edited |-> FALSE, hit |-> TRUE]
      BY <2>2, <3>1 DEF TranslateSegment, TranslationSegment
    <3>3. q \in DOMAIN runs /\ runs[q].source = chapter.source /\ runs[q].cells[i].key = context
          /\ ~runs[q].cells[i].edited
      BY DEF Matching
    <3>4. runs[q].cells[i] \in Cell
      BY <1>a, <3>3
    <3> HIDE DEF cells, cached
    <3>5. cells[i] \in Cell
      BY <2>a, <3>2, <3>4 DEF Cell
    <3>6. /\ cells[i].text = runs[q].cells[i].text /\ cells[i].key = context
          /\ cells[i].edited = FALSE
      BY <3>2
    <3>7. runs[q].cells[i].edited = FALSE
      BY <3>3, <3>4 DEF Cell
    <3>8. CopyOf(cells[i], q, i)
      BY <3>3, <3>6, <3>7 DEF CopyOf
    <3> QED
      BY <3>3, <3>5, <3>8 DEF CellFits, Copied
  <2> QED
    BY <2>1, <2>2
<1>3. cells \in [Segments -> Cell]
  BY <1>2
<1> HIDE DEF cells
<1>4. run \in TranslationRun /\ run.cells = cells /\ run.source = chapter.source
  BY <1>b, <1>3 DEF NewRun, IssuesOf, TranslationRun, Names
<1>5. runs' = Append(runs, run)
  BY <1>1 DEF cells
<1> HIDE DEF run
<1>6. Appended(run)
  BY <1>a, <1>4, <1>5, AppendProperties DEF Appended
<1>7. HitsHaveOrigin' /\ CachedTextIsProviderText'
  BY <1>2, <1>4, <1>6, AppendedKeepsCache
<1>8. chapter' \in ChapterRow /\ chapter'.run = chapter.run
  BY DEF Translate, ChapterRow, Names, TextInv, TextTypeOK, States
<1>9. ApprovedIsThere' /\ ApprovalStands'
  <2>1. \A r \in DOMAIN runs : r \in DOMAIN runs' /\ runs'[r] = runs[r]
    BY <1>a, <1>5, <1>4, AppendProperties, LenProperties
  <2> QED
    BY <1>8, <2>1 DEF TextInv, ApprovedIsThere, ApprovalStands
<1> QED
  BY <1>6, <1>7, <1>8, <1>9 DEF TextInv, TextTypeOK, Appended, Translate

-----------------------------------------------------------------------------
(* The other requests.                                                   *)

LEMMA ReviseKeepsInv ==
  ASSUME TextInv, NEW base \in DOMAIN runs, NEW i \in Segments, NEW t \in Edits, Revise(base, i, t)
  PROVE  TextInv'
<1> DEFINE cells == [j \in Segments |->
                       [runs[base].cells[j] EXCEPT
                          !.hit = FALSE, !.edited = @ \/ j = i, !.text = IF j = i THEN t ELSE @]]
<1>1. ASSUME NEW j \in Segments
      PROVE  cells[j] \in Cell /\ CellFits(cells[j], runs[base].source, j)
  <2> DEFINE cell == runs[base].cells[j]
  <2>1. cell \in Cell /\ t \in Texts
    BY RunsAreTyped DEF TextInv, Texts
  <2>2. CASE j = i
    <3>1. cells[j] = [text |-> t, key |-> cell.key, edited |-> TRUE, hit |-> FALSE]
      BY <2>1, <2>2 DEF Cell
    <3> HIDE DEF cells
    <3>2. cells[j] \in Cell
      BY <2>1, <3>1 DEF Cell
    <3> QED
      BY <3>1, <3>2 DEF CellFits, Worthless
  <2>3. CASE j # i
    <3>1. cells[j] = [text |-> cell.text, key |-> cell.key, edited |-> cell.edited, hit |-> FALSE]
      BY <2>1, <2>3 DEF Cell
    <3> HIDE DEF cells
    <3>2. cells[j] \in Cell
      BY <2>1, <3>1 DEF Cell
    <3>3. CopyOf(cells[j], base, j)
      BY <3>1 DEF CopyOf
    <3> QED
      BY <3>2, <3>3 DEF CellFits, Copied
  <2> QED
    BY <2>2, <2>3
<1>2. cells \in [Segments -> Cell]
  BY <1>1
<1>3. Follow(base, cells) /\ UNCHANGED <<context, proposal>>
  BY DEF Revise
<1> HIDE DEF cells
<1> QED
  BY <1>1, <1>2, <1>3, FollowKeepsInv DEF TextInv, TextTypeOK

LEMMA AcceptRepairKeepsInv ==
  ASSUME TextInv, AcceptRepair
  PROVE  TextInv'
<1> DEFINE base == proposal.base
           i == proposal.segment
           t == proposal.text
           cells == [runs[base].cells EXCEPT ![i].text = t, ![i].key = NoCacheKey, ![i].hit = FALSE]
<1>1. base \in DOMAIN runs /\ i \in Segments /\ t \in Texts
  BY DEF AcceptRepair, Review, TextInv, TextTypeOK, Texts
<1>2. ASSUME NEW j \in Segments
      PROVE  cells[j] \in Cell /\ CellFits(cells[j], runs[base].source, j)
  <2> DEFINE cell == runs[base].cells[j]
  <2>1. cell \in Cell /\ runs[base].cells \in [Segments -> Cell]
    BY <1>1, RunsAreTyped DEF TextInv
  <2>2. CASE j = i
    <3>1. cells[j] = [text |-> t, key |-> NoCacheKey, edited |-> cell.edited, hit |-> FALSE]
      BY <1>1, <2>1, <2>2 DEF Cell
    <3> HIDE DEF cells, t
    <3>2. cells[j] \in Cell
      BY <1>1, <2>1, <3>1 DEF Cell, CellKeys
    <3> QED
      BY <3>1, <3>2 DEF CellFits, Worthless
  <2>3. CASE j # i
    <3>1. cells[j] = cell
      BY <2>1, <2>3
    <3> HIDE DEF cells
    <3>2. CopyOf(cells[j], base, j)
      BY <2>1, <3>1 DEF CopyOf, Cell
    <3> QED
      BY <1>1, <2>1, <3>1, <3>2 DEF CellFits, Copied
  <2> QED
    BY <2>2, <2>3
<1>3. cells \in [Segments -> Cell]
  BY <1>1, <1>2, RunsAreTyped DEF TextInv
<1>4. Follow(base, cells) /\ proposal' = None /\ UNCHANGED context
  BY DEF AcceptRepair, AcceptRepairOf
<1> HIDE DEF cells, base
<1> QED
  BY <1>1, <1>2, <1>3, <1>4, FollowKeepsInv DEF TextInv, TextTypeOK

LEMMA ApproveKeepsInv ==
  ASSUME TextInv, NEW r \in DOMAIN runs, NEW force \in BOOLEAN, Approve(r, force)
  PROVE  TextInv'
<1> DEFINE approved == [runs[r] EXCEPT !.status = "APPROVED",
                                       !.blockers = IF @ = "open" THEN "dismissed" ELSE @]
<1>a. /\ Len(runs) \in Nat /\ DOMAIN runs = 1..Len(runs) /\ runs \in Seq(TranslationRun)
      /\ runs[r] \in TranslationRun
  BY RunsAreTyped DEF TextInv, TextTypeOK
<1>1. /\ approved \in TranslationRun /\ approved.status = "APPROVED" /\ approved.blockers # "open"
      /\ approved.source = runs[r].source /\ approved.cells = runs[r].cells
  BY <1>a DEF TranslationRun, Names
<1>2. runs' = [runs EXCEPT ![r] = approved]
  BY <1>a DEF Approve
<1> HIDE DEF approved
<1>3. CellsStay /\ runs'[r] = approved
  BY <1>a, <1>1, <1>2, ExceptSeq DEF CellsStay
<1>4. chapter' \in ChapterRow /\ chapter'.run = r
  <2>1. chapter \in ChapterRow
    BY DEF TextInv, TextTypeOK
  <2>2. Cleared(chapter) \in ChapterRow
    BY <2>1 DEF Cleared, ChapterRow, Names
  <2>3. \A c \in ChapterRow : LET d == [c EXCEPT !.run = r, !.state = "TRANSLATION_APPROVED"]
                             IN  d \in ChapterRow /\ d.run = r
    <3>1. r \in Nat
      BY <1>a
    <3> QED
      BY <3>1 DEF ChapterRow, Names, States
  <2> HIDE DEF approved
  <2>4. PICK c \in ChapterRow : chapter' = [c EXCEPT !.run = r, !.state = "TRANSLATION_APPROVED"]
    <3>1. CASE chapter.run \in {None, r}
      BY <2>1, <3>1 DEF Approve
    <3>2. CASE chapter.run \notin {None, r}
      BY <2>2, <3>2 DEF Approve
    <3> QED
      BY <3>1, <3>2
  <2> QED
    BY <2>3, <2>4
<1>5. ApprovedIsThere' /\ ApprovalStands'
  BY <1>1, <1>3, <1>4 DEF ApprovedIsThere, ApprovalStands, CellsStay
<1> QED
  BY <1>3, <1>4, <1>5, CellsStayKeepsCache DEF TextInv, TextTypeOK, CellsStay, Approve

LEMMA ChangeTermKeepsInv ==
  ASSUME TextInv, ChangeTerm
  PROVE  TextInv'
<1> DEFINE left(r) == [runs[r] EXCEPT !.status = IF @ \in {"REVIEW", "APPROVED"} THEN "SUPERSEDED" ELSE @]
<1>a. /\ Len(runs) \in Nat /\ DOMAIN runs = 1..Len(runs)
      /\ \A r \in DOMAIN runs : runs[r] \in TranslationRun
  BY RunsAreTyped DEF TextInv
<1>1. \A r \in DOMAIN runs : /\ left(r) \in TranslationRun
                             /\ left(r).source = runs[r].source /\ left(r).cells = runs[r].cells
  BY <1>a DEF TranslationRun, Names
<1>2. runs' = [r \in 1..Len(runs) |-> left(r)]
  BY <1>a DEF ChangeTerm, InvalidatedRuns
<1> HIDE DEF left
<1>3. CellsStay
  <2>1. runs' \in [1..Len(runs) -> TranslationRun]
    BY <1>a, <1>1, <1>2
  <2>2. runs' \in Seq(TranslationRun)
    BY <1>a, <2>1, SeqDef
  <2> QED
    BY <1>a, <1>1, <1>2, <2>2 DEF CellsStay
<1>4. chapter' \in ChapterRow /\ chapter'.run = None
  BY DEF ChangeTerm, Cleared, ChapterRow, Names, TextInv, TextTypeOK, States
<1>5. context' \in Nat
  BY DEF ChangeTerm, TextInv, TextTypeOK
<1> QED
  BY <1>3, <1>4, <1>5, CellsStayKeepsCache
     DEF TextInv, TextTypeOK, CellsStay, ApprovedIsThere, ApprovalStands, ChangeTerm

\* Requests that leave the runs alone, and the approval or its absence.
LEMMA RunsStayKeepsInv ==
  ASSUME TextInv, UNCHANGED runs, chapter' \in ChapterRow, chapter'.run \in {None, chapter.run},
         context' \in Nat, proposal' \in [base : Nat, segment : Segments, text : Repairs] \cup {None}
  PROVE  TextInv'
<1>1. CellsStay
  BY DEF CellsStay, TextInv, TextTypeOK
<1> QED
  BY <1>1, CellsStayKeepsCache DEF TextInv, TextTypeOK, ApprovedIsThere, ApprovalStands

LEMMA TextNextKeepsInv == TextInv /\ [TextNext]_textVars => TextInv'
<1> SUFFICES ASSUME TextInv, [TextNext]_textVars PROVE TextInv'
  OBVIOUS
<1>a. /\ chapter \in ChapterRow /\ context \in Nat
      /\ proposal \in [base : Nat, segment : Segments, text : Repairs] \cup {None}
  BY DEF TextInv, TextTypeOK
<1>1. ASSUME NEW s \in Sources, Import(s) PROVE TextInv'
  <2>1. chapter' \in ChapterRow /\ chapter'.run \in {None, chapter.run}
    <3>1. Cleared(chapter) \in ChapterRow /\ Cleared(chapter).run = None
      BY <1>a DEF Cleared, ChapterRow, Names
    <3>2. \A c \in ChapterRow : LET d == [c EXCEPT !.source = s, !.state = "NORMALIZED"]
                               IN  d \in ChapterRow /\ d.run = c.run
      BY DEF ChapterRow, Names, States
    <3> QED
      BY <1>a, <1>1, <3>1, <3>2 DEF Import
  <2> QED
    BY <1>a, <1>1, <2>1, RunsStayKeepsInv DEF Import
<1>2. ASSUME NEW to \in Requested, RequestTransition(to) PROVE TextInv'
  <2>1. chapter' \in ChapterRow /\ chapter'.run = chapter.run
    BY <1>a, <1>2 DEF RequestTransition, ChapterRow, Names
  <2> QED
    BY <1>a, <1>2, <2>1, RunsStayKeepsInv DEF RequestTransition
<1>3. ASSUME NEW i \in Segments, NEW t \in Repairs, Propose(i, t) PROVE TextInv'
  <2>1. LatestReview \in Nat
    <3>1. Review \in SUBSET (1..Len(runs)) /\ Review # {} /\ Len(runs) \in Nat
      BY <1>3, RunsAreTyped DEF Propose, Review, TextInv
    <3>2. LatestReview \in Review
      BY <3>1, LatestIsOne DEF LatestReview
    <3> QED
      BY <3>1, <3>2
  <2> QED
    BY <1>a, <1>3, <2>1, RunsStayKeepsInv DEF Propose
<1>4. CASE ForgetProposal \/ ChangeContext \/ UNCHANGED textVars
  <2>1. context' \in Nat
    BY <1>a, <1>4 DEF ForgetProposal, ChangeContext, textVars
  <2> QED
    BY <1>a, <1>4, <2>1, RunsStayKeepsInv DEF ForgetProposal, ChangeContext, textVars
<1> QED
  BY <1>1, <1>2, <1>3, <1>4, TranslateKeepsInv, ReviseKeepsInv, ApproveKeepsInv, AcceptRepairKeepsInv,
     ChangeTermKeepsInv DEF TextNext, TextRequests

LEMMA TextStarts == TextInit => TextInv
<1> SUFFICES ASSUME TextInit PROVE TextInv
  OBVIOUS
<1>1. runs \in Seq(TranslationRun) /\ DOMAIN runs = {}
  BY DEF TextInit
<1>2. chapter \in ChapterRow /\ chapter.run = None
  BY DEF TextInit, NewChapter, ChapterRow, Names, States
<1> QED
  BY <1>1, <1>2 DEF TextInit, TextInv, TextTypeOK, ApprovedIsThere, ApprovalStands,
     HitsHaveOrigin, CachedTextIsProviderText

LEMMA TextInvariant == TextSpec => []TextInv
  BY TextStarts, TextNextKeepsInv, PTL DEF TextSpec

\* The run a chapter names as approved is approved and has no open issue, whatever was
\* edited, repaired, imported or changed in the glossary since.
THEOREM ApprovedTextStands == TextSpec => []ApprovalStands
<1>1. TextInv => ApprovalStands
  BY DEF TextInv
<1> QED
  BY <1>1, TextInvariant, PTL

\* Two segments of one source under one cache key, which nobody edited, have one text: the
\* cache gives back what the provider answered.
THEOREM CacheGivesProviderText == TextSpec => []CachedTextIsProviderText
<1>1. TextInv => CachedTextIsProviderText
  BY DEF TextInv
<1> QED
  BY <1>1, TextInvariant, PTL

-----------------------------------------------------------------------------
(* The audio: the types of its rows and the invariant.                     *)

Keys == [text : Texts, voice : Presets]

PlanRow == [run : Nat, cast : SUBSET Presets, voice : [Segments -> Presets]]
ClipRow == [key : Keys, spoken : Texts, fault : BOOLEAN, ready : BOOLEAN]
MasterRow == [run : Nat, plan : Nat, clips : [Segments -> Nat], fault : BOOLEAN, ready : BOOLEAN]
BundleRow ==
  [kind : Kinds, run : Nat, source : Sources, master : Nat, srt : Names, rights : BOOLEAN,
   ready : BOOLEAN]

RenderRequest == [plan : Nat, run : Nat, state : States \cup Requested, forced : SUBSET Segments]
ApproveRequest == [master : Nat, state : States \cup Requested, had : Names]
ExportRequest ==
  [kind : Kinds, run : Nat, source : Sources, master : Nat, srt : Names, rights : BOOLEAN]
RenderJob ==
  [run : Nat, plan : Nat, source : Sources, forced : SUBSET Segments,
   phase : {"queued", "segment", "provider"}, used : Seq(Nat), advance : BOOLEAN,
   replaces : SUBSET Nat]

AudioTypeOK ==
  /\ plans \in Seq(PlanRow) /\ clips \in Seq(ClipRow) /\ masters \in Seq(MasterRow)
  /\ bundles \in Seq(BundleRow)
  /\ srt \in Names /\ issue \in BOOLEAN /\ rights \in BOOLEAN
  /\ rendering \in RenderRequest \cup {Idle} /\ approving \in ApproveRequest \cup {Idle}
  /\ exporting \in ExportRequest \cup {Idle} /\ job \in RenderJob \cup {Idle}

ReadsRun(p, r) == p \in DOMAIN plans /\ plans[p].run = r

PlanReadsRun(p) == plans[p].run \in DOMAIN runs /\ runs[plans[p].run].blockers # "open"

\* A plan was made of a run without an open issue, and that of the chapter is of its run.
PlansReadRuns ==
  /\ \A p \in DOMAIN plans : PlanReadsRun(p)
  /\ chapter.plan # None => ReadsRun(chapter.plan, chapter.run)

ClipsSpeakTheirKey == \A c \in DOMAIN clips : clips[c].spoken = clips[c].key.text

Serves(used, p) ==
  \A i \in Segments : used[i] \in DOMAIN clips /\ clips[used[i]].key = CacheKey(p, i)

MadeOfItsPlan(m) ==
  ReadsRun(masters[m].plan, masters[m].run) /\ Serves(masters[m].clips, masters[m].plan)

\* A master is made of audio of its plan; one is READY, and the subtitles are of that.
MastersFit ==
  /\ \A m \in DOMAIN masters : MadeOfItsPlan(m)
  /\ \A m, n \in DOMAIN masters : masters[m].ready /\ masters[n].ready => m = n
  /\ srt # None => srt \in DOMAIN masters /\ masters[srt].ready

OfOnePiece(b) ==
  /\ b.master \in DOMAIN masters /\ masters[b.master].run = b.run
  /\ b.kind = "publication" => b.srt = b.master /\ b.rights

\* What a request read still exists when it commits: rows are added, never taken away.
RequestsFit ==
  /\ rendering # Idle => ReadsRun(rendering.plan, rendering.run)
  /\ approving # Idle => approving.master \in DOMAIN masters
  /\ chapter.master # None => chapter.master \in DOMAIN masters
  /\ exporting # Idle => OfOnePiece(exporting)
  /\ job # Idle => job.plan \in DOMAIN plans /\ (job.phase = "provider" => Len(job.used) < N)

BundlesFit == \A b \in DOMAIN bundles : OfOnePiece(bundles[b])

AudioInv ==
  /\ AudioTypeOK
  /\ PlansReadRuns /\ ClipsSpeakTheirKey /\ MastersFit /\ RequestsFit /\ BundlesFit

-----------------------------------------------------------------------------
(* Rows.                                                                 *)

LEMMA RowsAreTyped ==
  ASSUME AudioTypeOK
  PROVE  /\ DOMAIN plans = 1..Len(plans) /\ Len(plans) \in Nat
         /\ DOMAIN clips = 1..Len(clips) /\ Len(clips) \in Nat
         /\ DOMAIN masters = 1..Len(masters) /\ Len(masters) \in Nat
         /\ DOMAIN bundles = 1..Len(bundles) /\ Len(bundles) \in Nat
         /\ \A p \in DOMAIN plans : plans[p] \in PlanRow
         /\ \A c \in DOMAIN clips : clips[c] \in ClipRow
         /\ \A m \in DOMAIN masters : masters[m] \in MasterRow
         /\ \A b \in DOMAIN bundles : bundles[b] \in BundleRow
<1>1. /\ DOMAIN plans = 1..Len(plans) /\ Len(plans) \in Nat
      /\ DOMAIN clips = 1..Len(clips) /\ Len(clips) \in Nat
      /\ DOMAIN masters = 1..Len(masters) /\ Len(masters) \in Nat
      /\ DOMAIN bundles = 1..Len(bundles) /\ Len(bundles) \in Nat
  BY LenProperties DEF AudioTypeOK
<1> QED
  BY <1>1, ElementOfSeq DEF AudioTypeOK

\* Adding a row leaves the others.
LEMMA AppendedRow ==
  ASSUME NEW S, NEW s \in Seq(S), NEW e \in S
  PROVE  /\ Append(s, e) \in Seq(S) /\ Len(Append(s, e)) = Len(s) + 1 /\ Len(s) + 1 \in Nat
         /\ DOMAIN Append(s, e) = DOMAIN s \cup {Len(s) + 1} /\ Len(s) + 1 \notin DOMAIN s
         /\ \A i \in DOMAIN s : Append(s, e)[i] = s[i]
         /\ Append(s, e)[Len(s) + 1] = e
<1>1. /\ Append(s, e) \in Seq(S) /\ Len(Append(s, e)) = Len(s) + 1
      /\ \A i \in 1..Len(s) : Append(s, e)[i] = s[i]
      /\ Append(s, e)[Len(s) + 1] = e
  BY AppendProperties
<1>2. DOMAIN s = 1..Len(s) /\ Len(s) \in Nat /\ DOMAIN Append(s, e) = 1..(Len(s) + 1)
  BY <1>1, LenProperties
<1> QED
  BY <1>1, <1>2

LEMMA AppendedStays ==
  ASSUME NEW S, NEW s \in Seq(S), NEW e
  PROVE  DOMAIN s \subseteq DOMAIN Append(s, e) /\ \A i \in DOMAIN s : Append(s, e)[i] = s[i]
<1>1. s \in Seq(S \cup {e})
  BY SeqMonotonic
<1> QED
  BY <1>1, AppendedRow

\* Taking audio out of use changes no more than its status.
LEMMA RetiredRows ==
  ASSUME NEW made \in Seq(ClipRow), NEW these
  PROVE  /\ Retired(made, these) \in Seq(ClipRow)
         /\ DOMAIN Retired(made, these) = DOMAIN made /\ Len(Retired(made, these)) = Len(made)
         /\ \A c \in DOMAIN made : /\ Retired(made, these)[c].key = made[c].key
                                   /\ Retired(made, these)[c].spoken = made[c].spoken
<1> DEFINE left(c) == [made[c] EXCEPT !.ready = @ /\ c \notin these]
<1>1. DOMAIN made = 1..Len(made) /\ Len(made) \in Nat /\ \A c \in DOMAIN made : made[c] \in ClipRow
  BY LenProperties, ElementOfSeq
<1>2. \A c \in DOMAIN made : /\ left(c) \in ClipRow /\ left(c).key = made[c].key
                             /\ left(c).spoken = made[c].spoken
  BY <1>1 DEF ClipRow
<1> HIDE DEF left
<1>3. Retired(made, these) = [c \in 1..Len(made) |-> left(c)]
  BY <1>1 DEF Retired, left
<1>4. Retired(made, these) \in [1..Len(made) -> ClipRow]
  BY <1>1, <1>2, <1>3
<1>5. Retired(made, these) \in Seq(ClipRow)
  BY <1>1, <1>4, SeqDef
<1>6. DOMAIN Retired(made, these) = DOMAIN made /\ Len(Retired(made, these)) = Len(made)
  BY <1>1, <1>3, <1>5, LenProperties
<1> QED
  BY <1>1, <1>2, <1>3, <1>5, <1>6

\* No master is READY any more, or no export.
Off(row) == [row EXCEPT !.ready = FALSE]

LEMMA WithdrawnRows ==
  ASSUME NEW S, NEW rows \in Seq(S), \A row \in S : Off(row) \in S
  PROVE  /\ Withdrawn(rows) \in Seq(S) /\ DOMAIN Withdrawn(rows) = DOMAIN rows
         /\ \A r \in DOMAIN rows : Withdrawn(rows)[r] = Off(rows[r])
<1>1. DOMAIN rows = 1..Len(rows) /\ Len(rows) \in Nat /\ \A r \in DOMAIN rows : rows[r] \in S
  BY LenProperties, ElementOfSeq
<1>2. Withdrawn(rows) \in [1..Len(rows) -> S]
  BY <1>1 DEF Withdrawn, Off
<1>3. Withdrawn(rows) \in Seq(S)
  BY <1>1, <1>2, SeqDef
<1> QED
  BY <1>1, <1>3 DEF Withdrawn, Off

LEMMA WithdrawnMasters ==
  ASSUME masters \in Seq(MasterRow)
  PROVE  /\ Withdrawn(masters) \in Seq(MasterRow) /\ DOMAIN Withdrawn(masters) = DOMAIN masters
         /\ \A m \in DOMAIN masters :
              /\ Withdrawn(masters)[m].run = masters[m].run
              /\ Withdrawn(masters)[m].plan = masters[m].plan
              /\ Withdrawn(masters)[m].clips = masters[m].clips
              /\ Withdrawn(masters)[m].ready = FALSE
<1>1. \A row \in MasterRow : LET left == Off(row)
                             IN  /\ left \in MasterRow /\ left.run = row.run /\ left.plan = row.plan
                                 /\ left.clips = row.clips /\ left.ready = FALSE
  BY DEF MasterRow, Off
<1>2. \A m \in DOMAIN masters : masters[m] \in MasterRow
  BY ElementOfSeq, LenProperties
<1> QED
  BY <1>1, <1>2, WithdrawnRows

LEMMA WithdrawnBundles ==
  ASSUME bundles \in Seq(BundleRow)
  PROVE  /\ Withdrawn(bundles) \in Seq(BundleRow) /\ DOMAIN Withdrawn(bundles) = DOMAIN bundles
         /\ \A b \in DOMAIN bundles :
              /\ Withdrawn(bundles)[b].kind = bundles[b].kind
              /\ Withdrawn(bundles)[b].run = bundles[b].run
              /\ Withdrawn(bundles)[b].master = bundles[b].master
              /\ Withdrawn(bundles)[b].srt = bundles[b].srt
              /\ Withdrawn(bundles)[b].rights = bundles[b].rights
<1>1. \A row \in BundleRow : LET left == Off(row)
                             IN  /\ left \in BundleRow /\ left.kind = row.kind /\ left.run = row.run
                                 /\ left.master = row.master /\ left.srt = row.srt
                                 /\ left.rights = row.rights
  BY DEF BundleRow, Off
<1>2. \A b \in DOMAIN bundles : bundles[b] \in BundleRow
  BY ElementOfSeq, LenProperties
<1> QED
  BY <1>1, <1>2, WithdrawnRows

-----------------------------------------------------------------------------
(* What may happen to the rows: some are added, and of what is there only the *)
(* status changes.                                                         *)

RunsGrow ==
  /\ DOMAIN runs \subseteq DOMAIN runs'
  /\ \A r \in DOMAIN runs : /\ runs'[r].cells = runs[r].cells
                            /\ runs[r].blockers # "open" => runs'[r].blockers # "open"

PlansGrow == DOMAIN plans \subseteq DOMAIN plans' /\ \A p \in DOMAIN plans : plans'[p] = plans[p]

ClipsGrow ==
  /\ DOMAIN clips \subseteq DOMAIN clips'
  /\ \A c \in DOMAIN clips : clips'[c].key = clips[c].key /\ clips'[c].spoken = clips[c].spoken

MastersGrow ==
  /\ DOMAIN masters \subseteq DOMAIN masters'
  /\ \A m \in DOMAIN masters : /\ masters'[m].run = masters[m].run /\ masters'[m].plan = masters[m].plan
                               /\ masters'[m].clips = masters[m].clips

Grow == RunsGrow /\ PlansGrow /\ ClipsGrow /\ MastersGrow

\* What fitted before still does.
LEMMA GrowingKeepsFits ==
  ASSUME TextInv, AudioInv, Grow
  PROVE  /\ \A p \in DOMAIN plans : PlanReadsRun(p)'
         /\ \A p, r : ReadsRun(p, r) => ReadsRun(p, r)'
         /\ \A p \in DOMAIN plans, i \in Segments : CacheKey(p, i)' = CacheKey(p, i)
         /\ \A m \in DOMAIN masters : MadeOfItsPlan(m)'
         /\ \A b : OfOnePiece(b) => OfOnePiece(b)'
<1>1. \A p \in DOMAIN plans : PlanReadsRun(p)'
  BY DEF AudioInv, PlansReadRuns, PlanReadsRun, Grow, RunsGrow, PlansGrow
<1>2. \A p, r : ReadsRun(p, r) => ReadsRun(p, r)'
  BY DEF ReadsRun, Grow, PlansGrow
<1>3. \A p \in DOMAIN plans, i \in Segments : CacheKey(p, i)' = CacheKey(p, i)
  BY DEF AudioInv, PlansReadRuns, PlanReadsRun, CacheKey, Narration, Grow, RunsGrow, PlansGrow
<1>4. ASSUME NEW m \in DOMAIN masters PROVE MadeOfItsPlan(m)'
  <2>1. ReadsRun(masters[m].plan, masters[m].run) /\ Serves(masters[m].clips, masters[m].plan)
    BY DEF AudioInv, MastersFit, MadeOfItsPlan
  <2>2. ReadsRun(masters[m].plan, masters[m].run)'
    BY <1>2, <2>1 DEF Grow, MastersGrow, ReadsRun, PlansGrow
  <2>3. \A i \in Segments : CacheKey(masters[m].plan, i)' = CacheKey(masters[m].plan, i)
    <3>1. masters[m].plan \in DOMAIN plans /\ masters'[m].plan = masters[m].plan
      BY <2>1 DEF ReadsRun, Grow, MastersGrow
    <3>2. \A i \in Segments :
            /\ CacheKey(masters[m].plan, i) =
                 [text |-> runs[plans[masters[m].plan].run].cells[i].text,
                  voice |-> plans[masters[m].plan].voice[i]]
            /\ CacheKey(masters[m].plan, i)' =
                 [text |-> runs'[plans'[masters'[m].plan].run].cells[i].text,
                  voice |-> plans'[masters'[m].plan].voice[i]]
      BY DEF CacheKey, Narration
    <3>3. PICK p, r : p = masters[m].plan /\ r = plans[p].run
      OBVIOUS
    <3>4. p \in DOMAIN plans /\ plans'[p] = plans[p]
      BY <3>1, <3>3 DEF Grow, PlansGrow
    <3>5. r \in DOMAIN runs /\ runs'[r].cells = runs[r].cells
      BY <3>3, <3>4 DEF AudioInv, PlansReadRuns, PlanReadsRun, Grow, RunsGrow
    <3> QED
      BY <3>1, <3>2, <3>3, <3>4, <3>5
  <2>4. Serves(masters[m].clips, masters[m].plan)'
    BY <2>1, <2>3 DEF Serves, Grow, ClipsGrow, MastersGrow
  <2> QED
    BY <2>2, <2>4 DEF MadeOfItsPlan
<1>5. \A b : OfOnePiece(b) => OfOnePiece(b)'
  BY DEF OfOnePiece, Grow, MastersGrow
<1> QED
  BY <1>1, <1>2, <1>3, <1>4, <1>5

\* A request on the text adds runs and takes pointers away.
PointersFollow ==
  /\ chapter'.plan \in {None, chapter.plan} /\ chapter'.master \in {None, chapter.master}
  /\ chapter'.plan # None => chapter.run = None \/ chapter'.run = chapter.run

LEMMA TextRequestsGrow ==
  ASSUME TextInv, TextRequests \/ ChangeTerm
  PROVE  RunsGrow /\ PointersFollow
<1>a. /\ chapter \in ChapterRow /\ Len(runs) \in Nat /\ DOMAIN runs = 1..Len(runs)
      /\ runs \in Seq(TranslationRun) /\ \A r \in DOMAIN runs : runs[r] \in TranslationRun
  BY RunsAreTyped DEF TextInv, TextTypeOK
<1>b. /\ Cleared(chapter) \in ChapterRow /\ Cleared(chapter).run = None
      /\ Cleared(chapter).plan = None /\ Cleared(chapter).master = None
  BY <1>a DEF Cleared, ChapterRow, Names
<1>c. ASSUME UNCHANGED runs PROVE RunsGrow
  BY <1>c DEF RunsGrow
<1>1. ASSUME NEW s \in Sources, Import(s) PROVE RunsGrow /\ PointersFollow
  <2>1. \A c \in ChapterRow : LET d == [c EXCEPT !.source = s, !.state = "NORMALIZED"]
                             IN  d.run = c.run /\ d.plan = c.plan /\ d.master = c.master
    BY DEF ChapterRow
  <2> QED
    BY <1>a, <1>b, <1>c, <1>1, <2>1 DEF Import, PointersFollow
<1>2. ASSUME NEW to \in Requested, RequestTransition(to) PROVE RunsGrow /\ PointersFollow
  BY <1>a, <1>c, <1>2 DEF RequestTransition, PointersFollow, ChapterRow
<1>3. ASSUME Translate PROVE RunsGrow /\ PointersFollow
  <2>1. PICK run : runs' = Append(runs, run)
    BY <1>3 DEF Translate
  <2>2. DOMAIN runs \subseteq DOMAIN runs' /\ \A r \in DOMAIN runs : runs'[r] = runs[r]
    BY <1>a, <2>1, AppendedStays
  <2>3. PointersFollow
    BY <1>a, <1>3 DEF Translate, PointersFollow, ChapterRow
  <2> QED
    BY <2>2, <2>3 DEF RunsGrow
<1>4. ASSUME NEW base \in DOMAIN runs, NEW cells, Follow(base, cells)
      PROVE  RunsGrow /\ PointersFollow
  <2> DEFINE old == Superseded(runs, base)
  <2>1. /\ old \in Seq(TranslationRun) /\ DOMAIN old = DOMAIN runs
        /\ \A r \in DOMAIN runs : old[r].cells = runs[r].cells /\ old[r].blockers = runs[r].blockers
    <3>1. [runs[base] EXCEPT !.status = "SUPERSEDED"] \in TranslationRun
      BY <1>a DEF TranslationRun
    <3>2. old \in Seq(TranslationRun)
      BY <1>a, <3>1, ExceptSeq DEF Superseded
    <3> QED
      BY <1>a, <3>2 DEF Superseded, TranslationRun
  <2>2. PICK run : runs' = Append(old, run)
    BY <1>4 DEF Follow
  <2> HIDE DEF old
  <2>3. DOMAIN old \subseteq DOMAIN runs' /\ \A r \in DOMAIN old : runs'[r] = old[r]
    BY <2>1, <2>2, AppendedStays
  <2>4. PointersFollow
    BY <1>b, <1>4 DEF Follow, PointersFollow, ChapterRow
  <2> QED
    BY <2>1, <2>3, <2>4 DEF RunsGrow
<1>5. ASSUME NEW r \in DOMAIN runs, NEW i \in Segments, NEW t \in Edits, Revise(r, i, t)
      PROVE  RunsGrow /\ PointersFollow
  BY <1>4, <1>5 DEF Revise
<1>6. ASSUME AcceptRepair PROVE RunsGrow /\ PointersFollow
  BY <1>4, <1>6 DEF AcceptRepair, AcceptRepairOf, Review
<1>7. ASSUME NEW r \in DOMAIN runs, NEW force \in BOOLEAN, Approve(r, force)
      PROVE  RunsGrow /\ PointersFollow
  <2>1. RunsGrow
    <3> DEFINE approved == [runs[r] EXCEPT !.status = "APPROVED",
                                           !.blockers = IF @ = "open" THEN "dismissed" ELSE @]
    <3>1. approved.cells = runs[r].cells /\ approved.blockers # "open"
      BY <1>a DEF TranslationRun
    <3>2. runs' = [runs EXCEPT ![r] = approved]
      BY <1>a, <1>7 DEF Approve
    <3> HIDE DEF approved
    <3> QED
      BY <3>1, <3>2 DEF RunsGrow
  <2>2. \A c \in ChapterRow : LET d == [c EXCEPT !.run = r, !.state = "TRANSLATION_APPROVED"]
                             IN  d.run = r /\ d.plan = c.plan /\ d.master = c.master
    BY DEF ChapterRow
  <2>3. CASE chapter.run \in {None, r}
    BY <1>a, <1>7, <2>1, <2>2, <2>3 DEF Approve, PointersFollow
  <2>4. CASE chapter.run \notin {None, r}
    BY <1>b, <1>7, <2>1, <2>2, <2>4 DEF Approve, PointersFollow
  <2> QED
    BY <2>3, <2>4
<1>8. ASSUME ChangeTerm PROVE RunsGrow /\ PointersFollow
  <2> DEFINE left(r) == [runs[r] EXCEPT !.status = IF @ \in {"REVIEW", "APPROVED"} THEN "SUPERSEDED" ELSE @]
  <2>1. \A r \in DOMAIN runs : left(r).cells = runs[r].cells /\ left(r).blockers = runs[r].blockers
    BY <1>a DEF TranslationRun
  <2>2. runs' = [r \in DOMAIN runs |-> left(r)]
    BY <1>8 DEF ChangeTerm, InvalidatedRuns
  <2> HIDE DEF left
  <2> QED
    BY <1>b, <1>8, <2>1, <2>2 DEF ChangeTerm, RunsGrow, PointersFollow
<1>9. ASSUME UNCHANGED <<chapter, runs>> PROVE RunsGrow /\ PointersFollow
  BY <1>9 DEF RunsGrow, PointersFollow
<1> QED
  BY <1>1, <1>2, <1>3, <1>5, <1>6, <1>7, <1>8, <1>9
     DEF TextRequests, Propose, ForgetProposal, ChangeContext

-----------------------------------------------------------------------------
(* A pass over the segments.                                             *)

\* What made has, clips had, and audio speaks the text of its key.
GrownFrom(made) ==
  /\ made \in Seq(ClipRow) /\ DOMAIN clips \subseteq DOMAIN made
  /\ \A c \in DOMAIN clips : made[c].key = clips[c].key /\ made[c].spoken = clips[c].spoken
  /\ \A c \in DOMAIN made : made[c].spoken = made[c].key.text

\* A pass that has served the first i segments.
ServedUpTo(w, p, i) ==
  /\ w = [made |-> w.made, used |-> w.used]
  /\ GrownFrom(w.made) /\ w.used \in Seq(Nat) /\ Len(w.used) = i
  /\ \A j \in 1..i : w.used[j] \in DOMAIN w.made /\ w.made[w.used[j]].key = CacheKey(p, j)

LEMMA KeyOfPlan ==
  ASSUME TextInv, AudioInv, NEW p \in DOMAIN plans, NEW i \in Segments
  PROVE  /\ CacheKey(p, i) \in Keys /\ CacheKey(p, i).text = Narration(p, i)
         /\ CacheKey(p, i).voice = plans[p].voice[i] /\ Narration(p, i) \in Texts
<1>1. plans[p] \in PlanRow /\ plans[p].run \in DOMAIN runs
  BY RowsAreTyped DEF AudioInv, PlansReadRuns, PlanReadsRun
<1>2. runs[plans[p].run].cells[i] \in Cell
  BY <1>1, RunsAreTyped DEF TextInv
<1>3. Narration(p, i) \in Texts /\ plans[p].voice[i] \in Presets
  BY <1>1, <1>2 DEF Narration, Cell, PlanRow
<1> QED
  BY <1>3 DEF CacheKey, Keys

LEMMA NewClip ==
  ASSUME TextInv, AudioInv, NEW p \in DOMAIN plans, NEW i \in Segments, NEW fault \in BOOLEAN
  PROVE  /\ Clip(p, i, fault) \in ClipRow /\ Clip(p, i, fault).key = CacheKey(p, i)
         /\ Clip(p, i, fault).spoken = CacheKey(p, i).text
  BY KeyOfPlan DEF Clip, ClipRow

LEMMA RetiredGrown ==
  ASSUME NEW made, GrownFrom(made), NEW these
  PROVE  GrownFrom(Retired(made, these))
  BY RetiredRows DEF GrownFrom

LEMMA AppendedGrown ==
  ASSUME NEW made, GrownFrom(made), NEW clip \in ClipRow, clip.spoken = clip.key.text
  PROVE  GrownFrom(Append(made, clip))
<1>1. made \in Seq(ClipRow)
  BY DEF GrownFrom
<1> QED
  BY <1>1, AppendedRow DEF GrownFrom

LEMMA ServeNextServes ==
  ASSUME TextInv, AudioInv, NEW p \in DOMAIN plans, NEW i \in Nat, i + 1 \in Segments,
         NEW forced, NEW fault \in BOOLEAN, NEW w, ServedUpTo(w, p, i)
  PROVE  ServedUpTo(ServeNext(w, p, i + 1, forced, fault), p, i + 1)
<1> DEFINE key == CacheKey(p, i + 1)
           found == Cached(w.made, key)
           next == ServeNext(w, p, i + 1, forced, fault)
<1>a. /\ w.made \in Seq(ClipRow) /\ DOMAIN w.made = 1..Len(w.made) /\ Len(w.made) \in Nat
      /\ w.used \in Seq(Nat) /\ DOMAIN w.used = 1..i
  BY LenProperties DEF ServedUpTo, GrownFrom
<1>1. CASE found # {} /\ i + 1 \notin forced
  <2>1. next = [made |-> w.made, used |-> Append(w.used, Latest(found))]
    BY <1>1 DEF ServeNext, ServedUpTo
  <2>2. Latest(found) \in found
    <3>1. found \in SUBSET (1..Len(w.made))
      BY <1>a DEF Cached
    <3> HIDE DEF found
    <3> QED
      BY <1>a, <1>1, <3>1, LatestIsOne
  <2>3. Latest(found) \in DOMAIN w.made /\ Latest(found) \in Nat /\ w.made[Latest(found)].key = key
    BY <1>a, <2>2 DEF Cached
  <2> DEFINE used == Append(w.used, Latest(found))
  <2> HIDE DEF found, key
  <2>4. /\ used \in Seq(Nat) /\ Len(used) = i + 1 /\ used[i + 1] = Latest(found)
        /\ \A j \in 1..i : used[j] = w.used[j]
    <3>1. Len(w.used) = i
      BY DEF ServedUpTo
    <3> QED
      BY <1>a, <2>3, <3>1, AppendedRow
  <2> HIDE DEF used, next
  <2>5. next.made = w.made /\ next.used = used /\ next = [made |-> next.made, used |-> next.used]
    BY <2>1 DEF used
  <2>6. \A j \in 1..(i + 1) : used[j] \in DOMAIN w.made /\ w.made[used[j]].key = CacheKey(p, j)
    <3> SUFFICES ASSUME NEW j \in 1..(i + 1)
                 PROVE  used[j] \in DOMAIN w.made /\ w.made[used[j]].key = CacheKey(p, j)
      OBVIOUS
    <3>1. CASE j = i + 1
      BY <2>3, <2>4, <3>1 DEF key
    <3>2. CASE j # i + 1
      <4>1. j \in 1..i
        BY <3>2
      <4> QED
        BY <2>4, <4>1 DEF ServedUpTo
    <3> QED
      BY <3>1, <3>2
  <2> QED
    BY <2>4, <2>5, <2>6 DEF ServedUpTo, next
<1>2. CASE found = {} \/ i + 1 \in forced
  <2> DEFINE staying == Retired(w.made, found)
             clip == Clip(p, i + 1, fault)
             made == Append(staying, clip)
             used == Append(w.used, Len(w.made) + 1)
  <2>1. next = [made |-> made, used |-> used]
    BY <1>2 DEF ServeNext, Synthesized
  <2>2. /\ staying \in Seq(ClipRow) /\ Len(staying) = Len(w.made) /\ DOMAIN staying = DOMAIN w.made
        /\ \A c \in DOMAIN w.made : staying[c].key = w.made[c].key
    BY <1>a, RetiredRows
  <2>3. clip \in ClipRow /\ clip.key = key /\ clip.spoken = clip.key.text
    BY NewClip
  <2>4. GrownFrom(made)
    <3>1. GrownFrom(staying)
      BY RetiredGrown DEF ServedUpTo
    <3> HIDE DEF staying, clip
    <3> QED
      BY <2>3, <3>1, AppendedGrown
  <2> HIDE DEF staying, clip, key
  <2>5. /\ DOMAIN made = DOMAIN w.made \cup {Len(w.made) + 1} /\ made[Len(w.made) + 1].key = key
        /\ \A c \in DOMAIN w.made : made[c].key = w.made[c].key
    BY <2>2, <2>3, AppendedRow
  <2>6. /\ used \in Seq(Nat) /\ Len(used) = i + 1 /\ used[i + 1] = Len(w.made) + 1
        /\ \A j \in 1..i : used[j] = w.used[j]
    <3>1. Len(w.used) = i /\ Len(w.made) + 1 \in Nat
      BY <1>a DEF ServedUpTo
    <3> QED
      BY <1>a, <3>1, AppendedRow
  <2> HIDE DEF made, used, next
  <2>7. next.made = made /\ next.used = used /\ next = [made |-> next.made, used |-> next.used]
    BY <2>1
  <2>8. ASSUME NEW j \in 1..(i + 1)
        PROVE  used[j] \in DOMAIN made /\ made[used[j]].key = CacheKey(p, j)
    <3>1. CASE j = i + 1
      BY <2>5, <2>6, <3>1 DEF key
    <3>2. CASE j \in 1..i
      <4>1. used[j] = w.used[j] /\ w.used[j] \in DOMAIN w.made /\ w.made[w.used[j]].key = CacheKey(p, j)
        BY <2>6, <3>2 DEF ServedUpTo
      <4> QED
        BY <2>5, <4>1
    <3> QED
      BY <3>1, <3>2
  <2> QED
    BY <2>4, <2>6, <2>7, <2>8 DEF ServedUpTo, next
<1> QED
  BY <1>1, <1>2

\* By induction over the segments: the recursive function of a pass is defined, and a
\* whole pass serves every segment with audio of its key.
THEOREM PassServes ==
  ASSUME TextInv, AudioInv, NEW p \in DOMAIN plans, NEW forced, NEW fault \in BOOLEAN
  PROVE  ServedUpTo(Pass(clips, p, forced, fault), p, N)
<1> DEFINE First == [made |-> clips, used |-> <<>>]
           Walk(f, n) == /\ DOMAIN f = 0..n /\ f[0] = First
                         /\ \A i \in 1..n : f[i] = ServeNext(f[i - 1], p, i, forced, fault)
           S == {n \in Nat : n <= N => \E f : Walk(f, n) /\ \A i \in 0..n : ServedUpTo(f[i], p, i)}
<1>a. N \in Nat
  BY TextAssumption
<1>1. 0 \in S
  <2> DEFINE f == [i \in 0..0 |-> First]
  <2>1. ServedUpTo(First, p, 0)
    <3>1. clips \in Seq(ClipRow) /\ \A c \in DOMAIN clips : clips[c].spoken = clips[c].key.text
      BY DEF AudioInv, AudioTypeOK, ClipsSpeakTheirKey
    <3> QED
      BY <3>1 DEF ServedUpTo, GrownFrom
  <2> HIDE DEF First
  <2>2. Walk(f, 0) /\ \A i \in 0..0 : ServedUpTo(f[i], p, i)
    BY <2>1
  <2> QED
    BY <2>2
<1>2. ASSUME NEW n \in Nat, n \in S PROVE n + 1 \in S
  <2> SUFFICES ASSUME n + 1 <= N
               PROVE  \E f : Walk(f, n + 1) /\ \A i \in 0..(n + 1) : ServedUpTo(f[i], p, i)
    OBVIOUS
  <2>1. PICK f : Walk(f, n) /\ \A i \in 0..n : ServedUpTo(f[i], p, i)
    BY <1>a, <1>2
  <2> DEFINE g == [i \in 0..(n + 1) |-> IF i = n + 1 THEN ServeNext(f[n], p, n + 1, forced, fault)
                                                    ELSE f[i]]
  <2> HIDE DEF First
  <2>2. Walk(g, n + 1)
    BY <2>1
  <2>3. ServedUpTo(g[n + 1], p, n + 1)
    <3>1. n + 1 \in Segments
      BY <1>a DEF Segments
    <3> QED
      BY <2>1, <3>1, ServeNextServes
  <2>4. \A i \in 0..(n + 1) : ServedUpTo(g[i], p, i)
    BY <2>1, <2>3
  <2> QED
    BY <2>2, <2>4
<1>3. N \in S
  <2> HIDE DEF S
  <2>1. S \in SUBSET Nat
    BY DEF S
  <2> QED
    BY <1>a, <1>1, <1>2, <2>1, SetInduction
<1>4. PICK g : Walk(g, N) /\ \A i \in 0..N : ServedUpTo(g[i], p, i)
  <2> HIDE DEF Walk
  <2>1. N <= N
    BY <1>a
  <2> QED
    BY <1>3, <2>1
<1> DEFINE Equation(f) == f = [i \in 0..N |-> IF i = 0 THEN First
                                              ELSE ServeNext(f[i - 1], p, i, forced, fault)]
           served == CHOOSE f : Equation(f)
<1> HIDE DEF S
<1>5. Equation(served)
  <2>1. \E f : Equation(f)
    <3> DEFINE f == [i \in 0..N |-> g[i]]
    <3> HIDE DEF First
    <3>1. \A i \in 0..N : g[i] = IF i = 0 THEN First ELSE ServeNext(f[i - 1], p, i, forced, fault)
      BY <1>a, <1>4
    <3>2. Equation(f)
      BY <3>1
    <3> QED
      BY <3>2
  <2> HIDE DEF Equation
  <2> QED
    BY <2>1
<1>6. Pass(clips, p, forced, fault) = served[N]
  BY DEF Pass
<1>7. \A n \in Nat : n <= N => served[n] = g[n]
  <2> DEFINE T == {n \in Nat : n <= N => served[n] = g[n]}
  <2> HIDE DEF served, First
  <2>1. 0 \in T
    BY <1>a, <1>4, <1>5
  <2>2. ASSUME NEW n \in Nat, n \in T PROVE n + 1 \in T
    BY <1>a, <1>4, <1>5, <2>2
  <2>3. T = Nat
    <3> HIDE DEF T
    <3>1. T \in SUBSET Nat
      BY DEF T
    <3> QED
      BY <2>1, <2>2, <3>1, SetInduction
  <2> QED
    BY <2>3
<1> QED
  BY <1>a, <1>4, <1>6, <1>7

-----------------------------------------------------------------------------
(* The steps.                                                            *)

\* All there is grows, and what is new fits.
LEMMA GrowingKeepsInv ==
  ASSUME TextInv, AudioInv, AudioTypeOK', Grow,
         \A p \in DOMAIN plans' \ DOMAIN plans : PlanReadsRun(p)',
         (chapter.plan # None => ReadsRun(chapter.plan, chapter.run))',
         \A c \in DOMAIN clips' \ DOMAIN clips : clips'[c].spoken = clips'[c].key.text,
         \A m \in DOMAIN masters' \ DOMAIN masters : MadeOfItsPlan(m)',
         (\A m, n \in DOMAIN masters : masters[m].ready /\ masters[n].ready => m = n)',
         (srt # None => srt \in DOMAIN masters /\ masters[srt].ready)',
         RequestsFit', BundlesFit'
  PROVE  AudioInv'
<1>1. PlansReadRuns'
  BY GrowingKeepsFits DEF PlansReadRuns
<1>2. ClipsSpeakTheirKey'
  BY DEF AudioInv, ClipsSpeakTheirKey, Grow, ClipsGrow
<1>3. MastersFit'
  BY GrowingKeepsFits DEF MastersFit
<1> QED
  BY <1>1, <1>2, <1>3 DEF AudioInv

\* Plans, audio and masters stay as they are, and the pointer to the plan with its run.
LEMMA RowsStayKeepsInv ==
  ASSUME TextInv, AudioInv, AudioTypeOK', UNCHANGED <<runs, plans, clips, masters, srt>>,
         chapter'.run = chapter.run, chapter'.plan = chapter.plan, RequestsFit', BundlesFit'
  PROVE  AudioInv'
<1>1. PlansReadRuns'
  BY DEF AudioInv, PlansReadRuns, PlanReadsRun, ReadsRun
<1>2. ClipsSpeakTheirKey'
  BY DEF AudioInv, ClipsSpeakTheirKey
<1>3. MastersFit'
  BY DEF AudioInv, MastersFit, MadeOfItsPlan, ReadsRun, Serves, CacheKey, Narration
<1> QED
  BY <1>1, <1>2, <1>3 DEF AudioInv

LEMMA RowsStayGrow == ASSUME UNCHANGED <<runs, plans, clips, masters>> PROVE Grow
  BY DEF Grow, RunsGrow, PlansGrow, ClipsGrow, MastersGrow

\* What the requests read and the bundles hold fits still, while none of them moves.
LEMMA RequestsKeepFitting ==
  ASSUME TextInv, AudioInv, Grow, UNCHANGED <<rendering, approving, exporting, job>>,
         chapter'.master \in {None, chapter.master}
  PROVE  RequestsFit'
<1>1. rendering' # Idle => ReadsRun(rendering.plan, rendering.run)'
  BY GrowingKeepsFits DEF AudioInv, RequestsFit, ReadsRun
<1>2. exporting' # Idle => OfOnePiece(exporting)'
  BY DEF AudioInv, RequestsFit, OfOnePiece, Grow, MastersGrow
<1> QED
  BY <1>1, <1>2 DEF AudioInv, RequestsFit, Grow, PlansGrow, MastersGrow

LEMMA BundlesKeepFitting ==
  ASSUME TextInv, AudioInv, Grow, UNCHANGED bundles
  PROVE  BundlesFit'
  BY DEF AudioInv, BundlesFit, OfOnePiece, Grow, MastersGrow

LEMMA TextRequestKeepsInv ==
  ASSUME TextInv, AudioInv, TextRequests, UNCHANGED audioVars
  PROVE  AudioInv'
<1>1. RunsGrow /\ PointersFollow
  BY TextRequestsGrow
<1>2. Grow
  BY <1>1 DEF Grow, PlansGrow, ClipsGrow, MastersGrow, audioVars
<1>3. AudioTypeOK'
  BY DEF AudioInv, AudioTypeOK, audioVars, requests
<1>4. (chapter.plan # None => ReadsRun(chapter.plan, chapter.run))'
  <2>1. SUFFICES ASSUME chapter'.plan # None PROVE ReadsRun(chapter.plan, chapter.run)'
    OBVIOUS
  <2>2. chapter'.plan = chapter.plan /\ ReadsRun(chapter.plan, chapter.run)
    BY <1>1, <2>1 DEF PointersFollow, AudioInv, PlansReadRuns
  <2>3. chapter.run \in DOMAIN runs /\ DOMAIN runs = 1..Len(runs) /\ Len(runs) \in Nat
    BY <2>2, RunsAreTyped DEF AudioInv, PlansReadRuns, PlanReadsRun, ReadsRun, TextInv
  <2>4. chapter.run # None
    BY <2>3, TextAssumption
  <2> QED
    BY <1>1, <2>1, <2>2, <2>4 DEF PointersFollow, ReadsRun, audioVars
<1>5. RequestsFit' /\ BundlesFit'
  BY <1>1, <1>2, RequestsKeepFitting, BundlesKeepFitting DEF PointersFollow, audioVars, requests
<1>6. UNCHANGED <<plans, clips, masters, srt>>
  BY DEF audioVars
<1> QED
  BY <1>2, <1>3, <1>4, <1>5, <1>6, GrowingKeepsInv DEF AudioInv, MastersFit

LEMMA InvalidateTermKeepsInv ==
  ASSUME TextInv, AudioInv, InvalidateTerm
  PROVE  AudioInv'
<1>a. /\ ChangeTerm /\ clips' = Retired(clips, DOMAIN clips) /\ srt' = None
      /\ masters' = Withdrawn(masters) /\ bundles' = Withdrawn(bundles)
      /\ UNCHANGED <<plans, issue, rights, rendering, approving, exporting, job>>
  BY DEF InvalidateTerm, requests
<1>1. RunsGrow /\ PointersFollow /\ chapter'.plan = None
  <2>1. chapter \in ChapterRow
    BY DEF TextInv, TextTypeOK
  <2>2. chapter'.plan = None
    BY <1>a, <2>1 DEF ChangeTerm, Cleared, ChapterRow
  <2> QED
    BY <1>a, <2>2, TextRequestsGrow
<1>2. /\ clips' \in Seq(ClipRow) /\ DOMAIN clips' = DOMAIN clips /\ ClipsGrow
  BY <1>a, RetiredRows DEF AudioInv, AudioTypeOK, ClipsGrow
<1>3. /\ masters' \in Seq(MasterRow) /\ DOMAIN masters' = DOMAIN masters /\ MastersGrow
      /\ \A m \in DOMAIN masters' : masters'[m].ready = FALSE
  <2>1. masters \in Seq(MasterRow)
    BY DEF AudioInv, AudioTypeOK
  <2> QED
    BY <1>a, <2>1, WithdrawnMasters DEF MastersGrow
<1>4. /\ bundles' \in Seq(BundleRow) /\ DOMAIN bundles' = DOMAIN bundles
      /\ \A b \in DOMAIN bundles :
           /\ bundles'[b].kind = bundles[b].kind /\ bundles'[b].run = bundles[b].run
           /\ bundles'[b].master = bundles[b].master /\ bundles'[b].srt = bundles[b].srt
           /\ bundles'[b].rights = bundles[b].rights
  BY <1>a, WithdrawnBundles DEF AudioInv, AudioTypeOK
<1>5. Grow
  BY <1>a, <1>1, <1>2, <1>3 DEF Grow, PlansGrow
<1>6. AudioTypeOK'
  BY <1>a, <1>2, <1>3, <1>4 DEF AudioInv, AudioTypeOK, Names
<1>7. RequestsFit'
  BY <1>a, <1>1, <1>5, RequestsKeepFitting DEF PointersFollow
<1>8. BundlesFit'
  BY <1>4, <1>5 DEF AudioInv, BundlesFit, OfOnePiece, Grow, MastersGrow
<1> QED
  BY <1>a, <1>1, <1>2, <1>3, <1>5, <1>6, <1>7, <1>8, GrowingKeepsInv DEF AudioInv

\* A new plan of the approved run, which the chapter takes up.
LEMMA PlanAddedKeepsInv ==
  ASSUME TextInv, AudioInv, NEW plan \in PlanRow, plans' = Append(plans, plan),
         plan.run = chapter.run, chapter.run # None,
         chapter' \in ChapterRow, chapter'.run = chapter.run, chapter'.master = chapter.master,
         chapter'.plan = Len(plans) + 1,
         UNCHANGED <<runs, clips, masters, srt, issue, rights, bundles, requests, job>>
  PROVE  AudioInv'
<1>0. PICK n : n = Len(plans) + 1
  OBVIOUS
<1>1. /\ plans' \in Seq(PlanRow) /\ DOMAIN plans' = DOMAIN plans \cup {n}
      /\ \A p \in DOMAIN plans : plans'[p] = plans[p]
      /\ plans'[n] = plan
  BY <1>0, AppendedRow DEF AudioInv, AudioTypeOK
<1>2. Grow
  BY <1>1 DEF Grow, RunsGrow, PlansGrow, ClipsGrow, MastersGrow
<1>3. PlanReadsRun(n)' /\ ReadsRun(n, chapter.run)'
  <2>1. chapter.run \in DOMAIN runs /\ runs[chapter.run].blockers # "open"
    BY DEF TextInv, ApprovedIsThere, ApprovalStands
  <2> QED
    BY <1>1, <2>1 DEF PlanReadsRun, ReadsRun
<1>4. AudioTypeOK'
  BY <1>1 DEF AudioInv, AudioTypeOK, requests
<1>5. RequestsFit' /\ BundlesFit'
  BY <1>2, RequestsKeepFitting, BundlesKeepFitting DEF requests
<1>6. (chapter.plan # None => ReadsRun(chapter.plan, chapter.run))'
  BY <1>0, <1>3 DEF ReadsRun
<1>7. \A p \in DOMAIN plans' \ DOMAIN plans : PlanReadsRun(p)'
  BY <1>1, <1>3
<1>8. /\ (\A m, k \in DOMAIN masters : masters[m].ready /\ masters[k].ready => m = k)'
      /\ (srt # None => srt \in DOMAIN masters /\ masters[srt].ready)'
  BY DEF AudioInv, MastersFit
<1> QED
  BY <1>2, <1>4, <1>5, <1>6, <1>7, <1>8, GrowingKeepsInv

LEMMA ConfigureKeepsInv ==
  ASSUME TextInv, AudioInv, NEW cast \in SUBSET Presets, NEW narrator \in cast,
         Configure(cast, narrator)
  PROVE  TextInv' /\ AudioInv'
<1>1. chapter \in ChapterRow /\ Len(plans) \in Nat
  BY RowsAreTyped DEF TextInv, TextTypeOK, AudioInv
<1>2. chapter.run # None /\ chapter.run \in Nat
  BY <1>1 DEF Configure, ApprovedRun, ChapterRow, Names
<1>3. VoicePlan(cast, narrator) \in PlanRow /\ VoicePlan(cast, narrator).run = chapter.run
  BY <1>2 DEF VoicePlan, PlanRow
<1>4. /\ chapter' \in ChapterRow /\ chapter'.run = chapter.run
      /\ chapter'.master = chapter.master /\ chapter'.plan = Len(plans) + 1
  <2>1. "VOICE_CONFIGURED" \in States
    BY DEF States
  <2>2. \A c \in ChapterRow, n \in Nat :
          LET d == [c EXCEPT !.plan = n, !.state = "VOICE_CONFIGURED"]
          IN  d \in ChapterRow /\ d.run = c.run /\ d.master = c.master /\ d.plan = n
    BY <2>1 DEF ChapterRow, Names
  <2>3. Len(plans) + 1 \in Nat
    BY <1>1
  <2>4. chapter' = [chapter EXCEPT !.plan = Len(plans) + 1, !.state = "VOICE_CONFIGURED"]
    BY DEF Configure
  <2> QED
    BY <1>1, <2>2, <2>3, <2>4
<1>5. AudioInv'
  BY <1>2, <1>3, <1>4, PlanAddedKeepsInv DEF Configure
<1> QED
  BY <1>4, <1>5, RunsStayKeepsInv DEF Configure, TextInv, TextTypeOK

LEMMA AssignRoleKeepsInv ==
  ASSUME TextInv, AudioInv, NEW i \in Segments, NEW voice \in Presets, AssignRole(i, voice)
  PROVE  TextInv' /\ AudioInv'
<1> DEFINE old == plans[chapter.plan]
           plan == [old EXCEPT !.voice[i] = voice]
<1>1. chapter \in ChapterRow /\ Len(plans) \in Nat
  BY RowsAreTyped DEF TextInv, TextTypeOK, AudioInv
<1>2. chapter.run # None /\ chapter.plan # None
  BY DEF AssignRole, ApprovedRun
<1>3. old \in PlanRow /\ old.run = chapter.run
  BY <1>2, RowsAreTyped DEF AudioInv, PlansReadRuns, ReadsRun
<1>4. plan \in PlanRow /\ plan.run = chapter.run
  BY <1>3 DEF PlanRow
<1>5. plans' = Append(plans, plan)
  BY DEF AssignRole
<1>6. /\ chapter' \in ChapterRow /\ chapter'.run = chapter.run
      /\ chapter'.master = chapter.master /\ chapter'.plan = Len(plans) + 1
  BY <1>1 DEF AssignRole, ChapterRow, Names
<1> HIDE DEF plan
<1>7. AudioInv'
  BY <1>2, <1>4, <1>5, <1>6, PlanAddedKeepsInv DEF AssignRole
<1> QED
  BY <1>6, <1>7, RunsStayKeepsInv DEF AssignRole, TextInv, TextTypeOK

\* The chapter moves on, and what was approved for it stays.
LEMMA TextInvOfApproved ==
  ASSUME TextInv, UNCHANGED <<runs, context, proposal>>, chapter' \in ChapterRow,
         chapter'.run = chapter.run
  PROVE  TextInv'
  BY RunsStayKeepsInv DEF TextInv, TextTypeOK

\* A request that has read, or gives up: no row is touched.
LEMMA ReadKeepsInv ==
  ASSUME TextInv, AudioInv,
         UNCHANGED <<textVars, plans, clips, masters, srt, issue, rights, bundles>>,
         rendering' \in RenderRequest \cup {Idle}, approving' \in ApproveRequest \cup {Idle},
         exporting' \in ExportRequest \cup {Idle}, job' \in RenderJob \cup {Idle},
         rendering' # Idle => ReadsRun(rendering'.plan, rendering'.run),
         approving' # Idle => approving'.master \in DOMAIN masters,
         exporting' # Idle => OfOnePiece(exporting'),
         job' # Idle => job'.plan \in DOMAIN plans /\ (job'.phase = "provider" => Len(job'.used) < N)
  PROVE  TextInv' /\ AudioInv'
<1>1. TextInv'
  BY TextInvOfApproved DEF textVars, TextInv, TextTypeOK
<1>2. AudioTypeOK'
  BY DEF AudioInv, AudioTypeOK
<1>3. RequestsFit' /\ BundlesFit'
  BY DEF AudioInv, RequestsFit, BundlesFit, OfOnePiece, ReadsRun, textVars
<1> QED
  BY <1>1, <1>2, <1>3, RowsStayKeepsInv DEF textVars

LEMMA RenderReadKeepsInv ==
  ASSUME TextInv, AudioInv, NEW forced \in Forced, RenderRead(forced)
  PROVE  TextInv' /\ AudioInv'
<1>1. ReadsRun(chapter.plan, chapter.run) /\ chapter \in ChapterRow /\ forced \in SUBSET Segments
  BY AudioAssumption DEF RenderRead, Renderable, AudioInv, PlansReadRuns, TextInv, TextTypeOK
<1>2. chapter.plan \in Nat /\ chapter.run \in Nat
  BY <1>1 DEF RenderRead, Renderable, ApprovedRun, ChapterRow, Names
<1>3. rendering' \in RenderRequest /\ ReadsRun(rendering'.plan, rendering'.run)
  BY <1>1, <1>2 DEF RenderRead, RenderRequest, ChapterRow
<1>4. UNCHANGED <<textVars, plans, clips, masters, srt, issue, rights, bundles, approving, exporting,
                  job>>
  BY DEF RenderRead
<1> QED
  BY <1>3, <1>4, ReadKeepsInv DEF AudioInv, AudioTypeOK, RequestsFit

LEMMA ApproveAudioReadKeepsInv ==
  ASSUME TextInv, AudioInv, NEW m \in DOMAIN masters, ApproveAudioRead(m)
  PROVE  TextInv' /\ AudioInv'
<1>1. m \in Nat /\ chapter \in ChapterRow
  BY RowsAreTyped DEF AudioInv, TextInv, TextTypeOK
<1>2. approving' \in ApproveRequest /\ approving'.master \in DOMAIN masters
  BY <1>1 DEF ApproveAudioRead, ApproveRequest, ChapterRow
<1>3. UNCHANGED <<textVars, plans, clips, masters, srt, issue, rights, bundles, rendering, exporting,
                  job>>
  BY DEF ApproveAudioRead
<1> QED
  BY <1>2, <1>3, ReadKeepsInv DEF AudioInv, AudioTypeOK, RequestsFit

\* What an export reads is of one piece: its master is READY, and so is that of the
\* subtitles, and there is only one.
LEMMA ExportReadKeepsInv ==
  ASSUME TextInv, AudioInv, NEW kind \in Kinds, ExportRead(kind)
  PROVE  TextInv' /\ AudioInv'
<1>1. /\ chapter \in ChapterRow /\ chapter.master \in DOMAIN masters
      /\ srt \in Names /\ rights \in BOOLEAN
  BY DEF ExportRead, AudioInv, AudioTypeOK, RequestsFit, TextInv, TextTypeOK
<1>2. chapter.master \in Nat /\ chapter.run \in Nat
  BY <1>1, RowsAreTyped DEF ExportRead, ApprovedRun, ChapterRow, Names, AudioInv
<1>3. exporting' \in ExportRequest
  BY <1>1, <1>2 DEF ExportRead, ExportRequest, ChapterRow
<1>4. kind = "publication" => srt = chapter.master /\ rights
  BY <1>1 DEF ExportRead, MayBeBuilt, AudioInv, MastersFit
<1>5. OfOnePiece(exporting')
  BY <1>1, <1>4 DEF ExportRead, OfOnePiece
<1>6. UNCHANGED <<textVars, plans, clips, masters, srt, issue, rights, bundles, rendering, approving,
                  job>>
  BY DEF ExportRead
<1> QED
  BY <1>3, <1>5, <1>6, ReadKeepsInv DEF AudioInv, AudioTypeOK, RequestsFit

LEMMA GivingUpKeepsInv ==
  ASSUME TextInv, AudioInv, RenderFails \/ ApproveAudioRefused \/ ExportFails \/ JobCanceled
  PROVE  TextInv' /\ AudioInv'
<1>1. /\ UNCHANGED <<textVars, plans, clips, masters, srt, issue, rights, bundles>>
      /\ rendering' \in {Idle, rendering} /\ approving' \in {Idle, approving}
      /\ exporting' \in {Idle, exporting} /\ job' \in {Idle, job}
  BY DEF RenderFails, ApproveAudioRefused, ExportFails, JobCanceled, requests
<1> QED
  BY <1>1, ReadKeepsInv DEF AudioInv, AudioTypeOK, RequestsFit

\* The steps of the job that store no audio.
LEMMA JobStepKeepsInv ==
  ASSUME TextInv, AudioInv,
         \/ \E forced \in Forced : EnqueueRender(forced)
         \/ JobStarts \/ JobReuses \/ JobInterrupted
  PROVE  TextInv' /\ AudioInv'
<1>1. UNCHANGED <<textVars, plans, clips, masters, srt, issue, rights, bundles, requests>>
  BY DEF EnqueueRender, JobStarts, JobReuses, JobInterrupted
<1>2. ASSUME NEW forced \in Forced, EnqueueRender(forced)
      PROVE  job' \in RenderJob /\ job'.plan \in DOMAIN plans /\ job'.phase # "provider"
  <2>1. chapter \in ChapterRow /\ chapter.plan \in DOMAIN plans
    BY <1>2 DEF EnqueueRender, AudioInv, PlansReadRuns, ReadsRun, TextInv, TextTypeOK
  <2>2. chapter.plan \in Nat /\ chapter.run \in Nat /\ forced \in SUBSET Segments /\ <<>> \in Seq(Nat)
    BY <1>2, <2>1, AudioAssumption DEF EnqueueRender, ChapterRow, Names
  <2> QED
    BY <1>2, <2>1, <2>2 DEF EnqueueRender, RenderJob, ChapterRow
<1>3. ASSUME job # Idle, JobStarts \/ JobReuses \/ JobInterrupted
      PROVE  \/ job' = Idle
             \/ job' \in RenderJob /\ job'.plan = job.plan /\ job'.phase # "provider"
  <2>1. job \in RenderJob
    BY <1>3 DEF AudioInv, AudioTypeOK
  <2>2. CASE JobStarts
    <3>1. \A flag \in BOOLEAN : [job EXCEPT !.phase = "segment", !.advance = flag] \in RenderJob
      BY <2>1 DEF RenderJob
    <3>2. (Advanced(chapter.state) # chapter.state) \in BOOLEAN
      OBVIOUS
    <3> QED
      BY <2>1, <2>2, <3>1, <3>2 DEF JobStarts, RenderJob
  <2>3. CASE JobReuses
    <3> DEFINE found == Cached(clips, CacheKey(job.plan, Upcoming))
    <3>1. found \in SUBSET (1..Len(clips)) /\ Len(clips) \in Nat
      BY RowsAreTyped DEF AudioInv, Cached
    <3>2. found # {} /\ job' = [job EXCEPT !.used = Append(@, Latest(found))] /\ job.phase = "segment"
      BY <2>3 DEF JobReuses
    <3> HIDE DEF found
    <3>3. Latest(found) \in Nat
      BY <3>1, <3>2, LatestIsOne
    <3>4. Append(job.used, Latest(found)) \in Seq(Nat)
      BY <2>1, <3>3, AppendedRow DEF RenderJob
    <3> QED
      BY <2>1, <3>2, <3>4 DEF RenderJob
  <2>4. CASE JobInterrupted
    <3>1. <<>> \in Seq(Nat)
      OBVIOUS
    <3> QED
      BY <2>1, <2>4, <3>1 DEF JobInterrupted, RenderJob
  <2> QED
    BY <1>3, <2>2, <2>3, <2>4
<1>4. /\ job' \in RenderJob \cup {Idle}
      /\ job' # Idle => job'.plan \in DOMAIN plans /\ job'.phase # "provider"
  BY <1>2, <1>3 DEF AudioInv, RequestsFit, JobStarts, JobReuses, JobInterrupted
<1> QED
  BY <1>1, <1>4, ReadKeepsInv DEF AudioInv, AudioTypeOK, RequestsFit, requests

\* Steps that move the chapter or its approved master and leave every row as it is.
LEMMA ChapterMovesKeepsInv ==
  ASSUME TextInv, AudioInv, UNCHANGED <<runs, context, proposal, plans, clips, masters, srt, bundles>>,
         chapter' \in ChapterRow, chapter'.run = chapter.run, chapter'.plan = chapter.plan,
         AudioTypeOK', RequestsFit'
  PROVE  TextInv' /\ AudioInv'
<1>1. BundlesFit'
  BY BundlesKeepFitting, RowsStayGrow
<1> QED
  BY <1>1, TextInvOfApproved, RowsStayKeepsInv

LEMMA ApproveAudioCommitKeepsInv ==
  ASSUME TextInv, AudioInv, ApproveAudioCommit
  PROVE  TextInv' /\ AudioInv'
<1>1. chapter \in ChapterRow /\ approving \in ApproveRequest /\ approving.master \in DOMAIN masters
  BY DEF ApproveAudioCommit, AudioInv, AudioTypeOK, RequestsFit, TextInv, TextTypeOK
<1>2. PICK master \in {chapter.master, approving.master}, state \in {chapter.state, "READY_TO_EXPORT"} :
        chapter' = [chapter EXCEPT !.master = master, !.state = state]
  BY <1>1 DEF ApproveAudioCommit
<1>3. master \in Names /\ state \in States \cup Requested
  BY <1>1 DEF ChapterRow, ApproveRequest, Names, States
<1>4. /\ chapter' \in ChapterRow /\ chapter'.run = chapter.run /\ chapter'.plan = chapter.plan
      /\ chapter'.master = master
  BY <1>1, <1>2, <1>3 DEF ChapterRow
<1>5. AudioTypeOK'
  BY DEF ApproveAudioCommit, AudioInv, AudioTypeOK
<1>6. RequestsFit'
  <2>1. master # None => master \in DOMAIN masters
    BY <1>1 DEF AudioInv, RequestsFit
  <2> QED
    BY <1>4, <2>1 DEF ApproveAudioCommit, AudioInv, RequestsFit, ReadsRun, OfOnePiece
<1> QED
  BY <1>4, <1>5, <1>6, ChapterMovesKeepsInv DEF ApproveAudioCommit

LEMMA RightsChangeKeepsInv ==
  ASSUME TextInv, AudioInv, RightsChange
  PROVE  TextInv' /\ AudioInv'
<1>1. AudioTypeOK'
  BY DEF RightsChange, AudioInv, AudioTypeOK, requests
<1>2. RequestsFit'
  BY RequestsKeepFitting, RowsStayGrow DEF RightsChange, textVars, requests
<1> QED
  BY <1>1, <1>2, ChapterMovesKeepsInv DEF RightsChange, textVars, TextInv, TextTypeOK

LEMMA ExportCommitKeepsInv ==
  ASSUME TextInv, AudioInv, ExportCommit
  PROVE  TextInv' /\ AudioInv'
<1>a. /\ exporting # Idle /\ exporting \in ExportRequest /\ OfOnePiece(exporting)
      /\ chapter \in ChapterRow /\ bundles \in Seq(BundleRow) /\ Len(bundles) \in Nat
  BY RowsAreTyped DEF ExportCommit, AudioInv, AudioTypeOK, RequestsFit, TextInv, TextTypeOK
<1>1. /\ Bundle \in BundleRow /\ Bundle.kind = exporting.kind /\ Bundle.run = exporting.run
      /\ Bundle.master = exporting.master /\ Bundle.srt = exporting.srt
      /\ Bundle.rights = exporting.rights
  BY <1>a DEF Bundle, BundleRow, ExportRequest
<1>2. bundles' = Append(bundles, Bundle)
  BY DEF ExportCommit
<1>3. /\ bundles' \in Seq(BundleRow) /\ DOMAIN bundles' = DOMAIN bundles \cup {Len(bundles) + 1}
      /\ \A b \in DOMAIN bundles : bundles'[b] = bundles[b]
      /\ bundles'[Len(bundles) + 1] = Bundle
  BY <1>a, <1>1, <1>2, AppendedRow
<1>4. /\ chapter' \in ChapterRow /\ chapter'.run = chapter.run /\ chapter'.plan = chapter.plan
      /\ chapter'.master = chapter.master
  BY <1>a DEF ExportCommit, ChapterRow, Names
<1>5. AudioTypeOK'
  BY <1>3 DEF ExportCommit, AudioInv, AudioTypeOK
<1>6. RequestsFit'
  BY <1>4 DEF ExportCommit, AudioInv, RequestsFit, ReadsRun, OfOnePiece
<1>7. BundlesFit'
  <2>1. OfOnePiece(Bundle)
    BY <1>a, <1>1 DEF OfOnePiece
  <2> QED
    BY <1>3, <2>1 DEF BundlesFit, AudioInv, OfOnePiece, ExportCommit
<1> QED
  BY <1>4, <1>5, <1>6, <1>7, TextInvOfApproved, RowsStayKeepsInv DEF ExportCommit

\* Audio is added or taken out of use, and nothing else that a row says.
LEMMA ClipsChangeKeepsInv ==
  ASSUME TextInv, AudioInv, GrownFrom(clips'), RequestsFit',
         UNCHANGED <<runs, context, proposal, plans, masters, srt, issue, rights, bundles, requests>>,
         chapter' \in ChapterRow, chapter'.run = chapter.run, chapter'.plan = chapter.plan,
         job' \in RenderJob \cup {Idle}
  PROVE  TextInv' /\ AudioInv'
<1>1. Grow
  BY DEF Grow, RunsGrow, PlansGrow, ClipsGrow, MastersGrow, GrownFrom
<1>2. AudioTypeOK'
  BY DEF AudioInv, AudioTypeOK, GrownFrom, requests
<1>3. BundlesFit'
  BY <1>1, BundlesKeepFitting
<1>4. (chapter.plan # None => ReadsRun(chapter.plan, chapter.run))'
  BY DEF AudioInv, PlansReadRuns, ReadsRun
<1>5. /\ (\A m, n \in DOMAIN masters : masters[m].ready /\ masters[n].ready => m = n)'
      /\ (srt # None => srt \in DOMAIN masters /\ masters[srt].ready)'
  BY DEF AudioInv, MastersFit
<1>6. \A c \in DOMAIN clips' : clips'[c].spoken = clips'[c].key.text
  BY DEF GrownFrom
<1> QED
  BY <1>1, <1>2, <1>3, <1>4, <1>5, <1>6, TextInvOfApproved, GrowingKeepsInv

LEMMA ClipsAreGrown == ASSUME AudioInv PROVE GrownFrom(clips)
  BY DEF AudioInv, AudioTypeOK, ClipsSpeakTheirKey, GrownFrom

LEMMA FlushedIsRow ==
  ASSUME TextInv
  PROVE  /\ Flushed \in ChapterRow /\ Flushed.run = chapter.run /\ Flushed.plan = chapter.plan
         /\ Flushed.master = chapter.master
  BY DEF Flushed, TextInv, TextTypeOK, ChapterRow, States

LEMMA JobCallsKeepsInv ==
  ASSUME TextInv, AudioInv, JobCalls
  PROVE  TextInv' /\ AudioInv'
<1>a. job \in RenderJob /\ job.plan \in DOMAIN plans /\ Len(job.used) < N
  BY DEF JobCalls, AudioInv, AudioTypeOK, RequestsFit
<1>1. Cached(clips, CacheKey(job.plan, Upcoming)) \in SUBSET Nat
  BY RowsAreTyped DEF AudioInv, Cached
<1>2. job' \in RenderJob /\ job'.plan = job.plan /\ job'.used = job.used
  BY <1>a, <1>1 DEF JobCalls, RenderJob
<1>3. RequestsFit'
  BY <1>a, <1>2, FlushedIsRow DEF JobCalls, AudioInv, RequestsFit, ReadsRun, OfOnePiece, requests
<1>4. AudioTypeOK'
  BY <1>2 DEF JobCalls, AudioInv, AudioTypeOK, requests
<1> QED
  BY <1>3, <1>4, FlushedIsRow, ChapterMovesKeepsInv DEF JobCalls

LEMMA JobStoresKeepsInv ==
  ASSUME TextInv, AudioInv, JobStores
  PROVE  TextInv' /\ AudioInv'
<1>a. /\ job \in RenderJob /\ job.plan \in DOMAIN plans /\ Len(job.used) < N /\ Len(job.used) \in Nat
      /\ Len(clips) \in Nat
  BY RowsAreTyped, LenProperties DEF JobStores, AudioInv, AudioTypeOK, RequestsFit, RenderJob
<1>1. Upcoming \in Segments
  BY <1>a, TextAssumption DEF Upcoming, Segments
<1>2. PICK fault \in Faults :
        clips' = Append(Retired(clips, job.replaces), Clip(job.plan, Upcoming, fault.clip))
  BY DEF JobStores
<1>3. fault.clip \in BOOLEAN
  BY AudioAssumption
<1>4. GrownFrom(clips')
  <2>1. GrownFrom(Retired(clips, job.replaces))
    BY ClipsAreGrown, RetiredGrown
  <2>2. /\ Clip(job.plan, Upcoming, fault.clip) \in ClipRow
        /\ Clip(job.plan, Upcoming, fault.clip).spoken = Clip(job.plan, Upcoming, fault.clip).key.text
    BY <1>a, <1>1, <1>3, NewClip
  <2> QED
    BY <1>2, <2>1, <2>2, AppendedGrown
<1>5. job' \in RenderJob /\ job'.plan = job.plan /\ job'.phase = "segment"
  <2>1. Append(job.used, Len(clips) + 1) \in Seq(Nat)
    BY <1>a, AppendedRow DEF RenderJob
  <2> QED
    BY <1>a, <2>1 DEF JobStores, RenderJob
<1>6. RequestsFit'
  BY <1>a, <1>5 DEF JobStores, AudioInv, RequestsFit, ReadsRun, OfOnePiece, requests, textVars
<1> QED
  BY <1>4, <1>5, <1>6, ClipsChangeKeepsInv DEF JobStores, textVars, TextInv, TextTypeOK

LEMMA JobEndsKeepsInv ==
  ASSUME TextInv, AudioInv, JobEnds
  PROVE  TextInv' /\ AudioInv'
<1>1. GrownFrom(clips')
  BY ClipsAreGrown, RetiredGrown DEF JobEnds
<1>2. RequestsFit'
  BY FlushedIsRow DEF JobEnds, AudioInv, RequestsFit, ReadsRun, OfOnePiece, requests
<1> QED
  BY <1>1, <1>2, FlushedIsRow, ClipsChangeKeepsInv DEF JobEnds

\* What a render writes beside its master.
LEMMA RenderWritesKeepsInv ==
  ASSUME TextInv, AudioInv, rendering # Idle, NEW forced, NEW fault \in BOOLEAN, NEW sweep,
         sweep = Pass(clips, rendering.plan, forced, fault), NEW n, NEW fresh,
         RenderWrites(n, fresh, sweep),
         masters' \in Seq(MasterRow), MastersGrow, n \in DOMAIN masters', masters'[n].ready,
         \A m \in DOMAIN masters' : masters'[m].ready => m = n,
         \A m \in DOMAIN masters' \ DOMAIN masters :
            /\ masters'[m].plan = rendering.plan /\ masters'[m].run = rendering.run
            /\ masters'[m].clips = sweep.used
  PROVE  TextInv' /\ AudioInv'
<1> DEFINE p == rendering.plan
<1>a. /\ p \in DOMAIN plans /\ plans[p].run = rendering.run /\ chapter \in ChapterRow
      /\ UNCHANGED <<runs, context, proposal, plans, rights, bundles, approving, exporting, job>>
  BY DEF AudioInv, RequestsFit, ReadsRun, TextInv, TextTypeOK, RenderWrites
<1>b. ServedUpTo(sweep, p, N)
  <2> HIDE DEF p
  <2>1. sweep = Pass(clips, p, forced, fault)
    BY DEF p
  <2> QED
    BY <1>a, <2>1, PassServes
<1>1. /\ clips' = Retired(sweep.made, Unserving(sweep)) /\ srt' = n /\ rendering' = Idle
      /\ issue' = Found(sweep, masters'[n], fresh)
  BY DEF RenderWrites
<1>2. GrownFrom(clips')
  BY <1>b, <1>1, RetiredGrown DEF ServedUpTo
<1>3. Grow
  BY <1>a, <1>2 DEF Grow, RunsGrow, PlansGrow, ClipsGrow, GrownFrom
<1>4. /\ chapter' \in ChapterRow /\ chapter'.run = chapter.run /\ chapter'.plan = chapter.plan
      /\ chapter'.master = chapter.master
  <2>1. PICK state \in {chapter.state, "AUDIO_REVIEW"} : chapter' = [chapter EXCEPT !.state = state]
    BY <1>a DEF RenderWrites
  <2>2. state \in States \cup Requested
    BY <1>a, <2>1 DEF ChapterRow, States
  <2> QED
    BY <1>a, <2>1, <2>2 DEF ChapterRow
<1>5. AudioTypeOK'
  <2>1. issue' \in BOOLEAN
    BY <1>1 DEF Found
  <2>2. srt' \in Names
    <3>1. DOMAIN masters' = 1..Len(masters')
      BY LenProperties
    <3> QED
      BY <1>1, <3>1 DEF Names
  <2> QED
    BY <1>a, <1>1, <1>2, <2>1, <2>2 DEF AudioInv, AudioTypeOK, GrownFrom
<1>6. ASSUME NEW m \in DOMAIN masters' \ DOMAIN masters PROVE MadeOfItsPlan(m)'
  <2>1. masters'[m].plan = p /\ masters'[m].run = rendering.run /\ masters'[m].clips = sweep.used
    OBVIOUS
  <2>2. \A i \in Segments :
          sweep.used[i] \in DOMAIN sweep.made /\ sweep.made[sweep.used[i]].key = CacheKey(p, i)
    BY <1>b DEF ServedUpTo, Segments
  <2>3. sweep.made \in Seq(ClipRow)
    BY <1>b DEF ServedUpTo, GrownFrom
  <2>4. /\ DOMAIN clips' = DOMAIN sweep.made
        /\ \A c \in DOMAIN sweep.made : clips'[c].key = sweep.made[c].key
    BY <1>1, <2>3, RetiredRows
  <2>5. ReadsRun(masters[m].plan, masters[m].run)'
    BY <1>a, <2>1 DEF ReadsRun
  <2>6. \A i \in Segments : CacheKey(masters[m].plan, i)' = CacheKey(p, i)
    BY <1>a, <2>1 DEF CacheKey, Narration
  <2>7. Serves(masters[m].clips, masters[m].plan)'
    BY <2>1, <2>2, <2>4, <2>6 DEF Serves
  <2> QED
    BY <2>5, <2>7 DEF MadeOfItsPlan
<1>7. /\ (\A m, k \in DOMAIN masters : masters[m].ready /\ masters[k].ready => m = k)'
      /\ (srt # None => srt \in DOMAIN masters /\ masters[srt].ready)'
  BY <1>1
<1>8. RequestsFit'
  BY <1>a, <1>1, <1>4 DEF AudioInv, RequestsFit, OfOnePiece, MastersGrow
<1>9. BundlesFit'
  BY <1>a, <1>3, BundlesKeepFitting
<1>10. /\ \A q \in DOMAIN plans' \ DOMAIN plans : PlanReadsRun(q)'
       /\ (chapter.plan # None => ReadsRun(chapter.plan, chapter.run))'
       /\ \A c \in DOMAIN clips' \ DOMAIN clips : clips'[c].spoken = clips'[c].key.text
  BY <1>a, <1>2, <1>4 DEF AudioInv, PlansReadRuns, ReadsRun, GrownFrom
<1> QED
  BY <1>a, <1>3, <1>4, <1>5, <1>6, <1>7, <1>8, <1>9, <1>10, TextInvOfApproved, GrowingKeepsInv

LEMMA RenderCommitKeepsInv ==
  ASSUME TextInv, AudioInv, RenderCommit
  PROVE  TextInv' /\ AudioInv'
<1>1. rendering # Idle
  BY DEF RenderCommit
<1>2. PICK fault \in Faults :
        LET sweep == Pass(clips, rendering.plan, rendering.forced, fault.clip)
            same == IF rendering.forced = {} THEN SameMaster(sweep) ELSE {}
        IN  IF same # {}
            THEN UNCHANGED masters /\ RenderWrites(Latest(same), FALSE, sweep)
            ELSE /\ masters' = Append(Withdrawn(masters), FinalMaster(sweep, fault.master))
                 /\ RenderWrites(Len(masters) + 1, TRUE, sweep)
  BY DEF RenderCommit
<1> DEFINE sweep == Pass(clips, rendering.plan, rendering.forced, fault.clip)
           same == IF rendering.forced = {} THEN SameMaster(sweep) ELSE {}
<1>3. fault.clip \in BOOLEAN /\ fault.master \in BOOLEAN
  BY AudioAssumption
<1>4. /\ masters \in Seq(MasterRow) /\ DOMAIN masters = 1..Len(masters) /\ Len(masters) \in Nat
      /\ rendering \in RenderRequest /\ rendering.plan \in DOMAIN plans
  BY <1>1, RowsAreTyped DEF AudioInv, AudioTypeOK, RequestsFit, ReadsRun
<1>5. CASE same # {}
  <2>1. UNCHANGED masters /\ RenderWrites(Latest(same), FALSE, sweep)
    BY <1>2, <1>5
  <2>2. same \in SUBSET (1..Len(masters)) /\ \A m \in same : masters[m].ready
    BY <1>4 DEF SameMaster
  <2> HIDE DEF sweep, same
  <2>3. Latest(same) \in same
    BY <1>4, <1>5, <2>2, LatestIsOne
  <2> DEFINE n == Latest(same)
  <2>4. n \in DOMAIN masters /\ masters[n].ready
    BY <1>4, <2>2, <2>3
  <2>5. \A m \in DOMAIN masters : masters[m].ready => m = n
    BY <2>4 DEF AudioInv, MastersFit
  <2>6. MastersGrow
    BY <2>1 DEF MastersGrow
  <2> HIDE DEF n
  <2> QED
    BY <1>1, <1>3, <1>4, <2>1, <2>4, <2>5, <2>6, RenderWritesKeepsInv DEF sweep, n
<1>6. CASE same = {}
  <2> DEFINE old == Withdrawn(masters)
             master == FinalMaster(sweep, fault.master)
             n == Len(masters) + 1
  <2>1. masters' = Append(old, master) /\ RenderWrites(n, TRUE, sweep)
    BY <1>2, <1>6
  <2>2. ServedUpTo(sweep, rendering.plan, N)
    <3>1. PICK p : p = rendering.plan
      OBVIOUS
    <3> QED
      BY <1>3, <1>4, <3>1, PassServes
  <2> HIDE DEF sweep, same
  <2>3. /\ master \in MasterRow /\ master.plan = rendering.plan /\ master.run = rendering.run
        /\ master.clips = sweep.used /\ master.ready
    <3>1. sweep.used \in [Segments -> Nat]
      <4>1. sweep.used \in Seq(Nat) /\ Len(sweep.used) = N
        BY <2>2 DEF ServedUpTo
      <4> QED
        BY <4>1, LenProperties, ElementOfSeq DEF Segments
    <3> QED
      BY <1>3, <1>4, <3>1 DEF FinalMaster, MasterRow, RenderRequest
  <2>4. /\ old \in Seq(MasterRow) /\ DOMAIN old = DOMAIN masters /\ Len(old) = Len(masters)
        /\ \A m \in DOMAIN masters : /\ old[m].run = masters[m].run /\ old[m].plan = masters[m].plan
                                     /\ old[m].clips = masters[m].clips /\ old[m].ready = FALSE
    <3>1. Withdrawn(masters) \in Seq(MasterRow) /\ DOMAIN Withdrawn(masters) = DOMAIN masters
      BY <1>4, WithdrawnMasters
    <3>2. Len(Withdrawn(masters)) = Len(masters)
      BY <1>4, <3>1, LenProperties
    <3> QED
      BY <1>4, <3>1, <3>2, WithdrawnMasters
  <2> HIDE DEF old, master
  <2>5. /\ masters' \in Seq(MasterRow) /\ DOMAIN masters' = DOMAIN masters \cup {n}
        /\ n \notin DOMAIN masters /\ masters'[n] = master
        /\ \A m \in DOMAIN masters : masters'[m] = old[m]
    BY <2>1, <2>3, <2>4, AppendedRow
  <2> HIDE DEF n
  <2>6. MastersGrow
    BY <2>4, <2>5 DEF MastersGrow
  <2>7. /\ n \in DOMAIN masters' /\ masters'[n].ready
        /\ \A m \in DOMAIN masters' : masters'[m].ready => m = n
        /\ \A m \in DOMAIN masters' \ DOMAIN masters :
             /\ masters'[m].plan = rendering.plan /\ masters'[m].run = rendering.run
             /\ masters'[m].clips = sweep.used
    BY <2>3, <2>4, <2>5
  <2>8. sweep = Pass(clips, rendering.plan, rendering.forced, fault.clip)
    BY DEF sweep
  <2> QED
    <3>1. RenderWrites(n, TRUE, sweep) /\ masters' \in Seq(MasterRow)
      BY <2>1, <2>5
    <3> QED
      BY <1>1, <1>3, <2>6, <2>7, <2>8, <3>1, RenderWritesKeepsInv
<1> QED
  BY <1>5, <1>6

-----------------------------------------------------------------------------
(* The invariant, and what it says of plans and bundles.                 *)

LEMMA AudioStarts == AudioInit => TextInv /\ AudioInv
<1> SUFFICES ASSUME AudioInit PROVE TextInv /\ AudioInv
  OBVIOUS
<1>1. TextInv
  BY TextStarts DEF AudioInit
<1>2. chapter.plan = None /\ chapter.master = None
  BY DEF AudioInit, TextInit, NewChapter
<1>3. /\ plans = <<>> /\ clips = <<>> /\ masters = <<>> /\ bundles = <<>> /\ srt = None
      /\ issue = FALSE /\ rights \in BOOLEAN
      /\ rendering = Idle /\ approving = Idle /\ exporting = Idle /\ job = Idle
  BY DEF AudioInit
<1>4. AudioTypeOK
  <2>1. \A S : <<>> \in Seq(S)
    OBVIOUS
  <2> QED
    BY <1>3, <2>1 DEF AudioTypeOK, Names
<1>5. DOMAIN <<>> = {}
  OBVIOUS
<1>6. PlansReadRuns /\ ClipsSpeakTheirKey /\ MastersFit /\ RequestsFit /\ BundlesFit
  BY <1>2, <1>3, <1>5 DEF PlansReadRuns, ClipsSpeakTheirKey, MastersFit, RequestsFit, BundlesFit
<1> QED
  BY <1>1, <1>4, <1>6 DEF AudioInv

LEMMA AudioNextKeepsInv == TextInv /\ AudioInv /\ [AudioNext]_chapterVars => TextInv' /\ AudioInv'
<1> SUFFICES ASSUME TextInv, AudioInv, [AudioNext]_chapterVars PROVE TextInv' /\ AudioInv'
  OBVIOUS
<1>1. CASE UNCHANGED chapterVars
  BY <1>1, ReadKeepsInv DEF chapterVars, audioVars, requests, AudioInv, AudioTypeOK, RequestsFit
<1>2. CASE Reads
  BY <1>2, RenderReadKeepsInv, ApproveAudioReadKeepsInv, ExportReadKeepsInv, GivingUpKeepsInv DEF Reads
<1>3. CASE JobSteps
  BY <1>3, JobStepKeepsInv, JobCallsKeepsInv, JobStoresKeepsInv, JobEndsKeepsInv, GivingUpKeepsInv
     DEF JobSteps
<1>4. CASE Writes
  <2>1. CASE TextRequests /\ UNCHANGED audioVars
    BY <2>1, TextNextKeepsInv, TextRequestKeepsInv DEF TextNext
  <2>2. CASE InvalidateTerm
    BY <2>2, TextNextKeepsInv, InvalidateTermKeepsInv DEF TextNext, InvalidateTerm
  <2>3. ASSUME NEW preset \in Presets, ConfigureSingle(preset) PROVE TextInv' /\ AudioInv'
    BY <2>3, ConfigureKeepsInv DEF ConfigureSingle
  <2>4. ASSUME NEW cast \in Casts, NEW narrator \in cast, CreateMulti(cast, narrator)
        PROVE  TextInv' /\ AudioInv'
    BY <2>4, AudioAssumption, ConfigureKeepsInv DEF CreateMulti
  <2>5. ASSUME NEW i \in Segments, NEW voice \in Presets, AssignRole(i, voice)
        PROVE  TextInv' /\ AudioInv'
    BY <2>5, AssignRoleKeepsInv
  <2> QED
    BY <1>4, <2>1, <2>2, <2>3, <2>4, <2>5, RenderCommitKeepsInv, ApproveAudioCommitKeepsInv,
       ExportCommitKeepsInv, RightsChangeKeepsInv, JobStepKeepsInv DEF Writes
<1> QED
  BY <1>1, <1>2, <1>3, <1>4 DEF AudioNext

LEMMA AudioInvariant == ChapterSpec => [](TextInv /\ AudioInv)
  BY AudioStarts, AudioNextKeepsInv, PTL DEF ChapterSpec

\* A voice plan reads the run that is approved, and was made of text without open issues.
THEOREM PlanOfApprovedText == ChapterSpec => []PlanReadsApprovedRun
<1>1. TextInv /\ AudioInv => PlanReadsApprovedRun
  BY DEF AudioInv, PlansReadRuns, PlanReadsRun, ReadsRun, PlanReadsApprovedRun
<1> QED
  BY <1>1, AudioInvariant, PTL

\* The audio of a master speaks the text of its run in the voices of its plan.
LEMMA MasterSpeaksItsRun ==
  ASSUME TextInv, AudioInv, NEW m \in DOMAIN masters
  PROVE  /\ SpokenBy(m) = TextOf(masters[m].run)
         /\ \A i \in Segments : clips[masters[m].clips[i]].key.voice = plans[masters[m].plan].voice[i]
<1>1. MadeOfItsPlan(m)
  BY DEF AudioInv, MastersFit
<1>2. ASSUME NEW i \in Segments
      PROVE  /\ clips[masters[m].clips[i]].spoken = runs[masters[m].run].cells[i].text
             /\ clips[masters[m].clips[i]].key.voice = plans[masters[m].plan].voice[i]
  <2>1. /\ masters[m].clips[i] \in DOMAIN clips /\ masters[m].plan \in DOMAIN plans
        /\ plans[masters[m].plan].run = masters[m].run
        /\ clips[masters[m].clips[i]].key = CacheKey(masters[m].plan, i)
    BY <1>1 DEF MadeOfItsPlan, ReadsRun, Serves
  <2>2. /\ CacheKey(masters[m].plan, i).text = runs[masters[m].run].cells[i].text
        /\ CacheKey(masters[m].plan, i).voice = plans[masters[m].plan].voice[i]
    BY <2>1 DEF CacheKey, Narration
  <2> QED
    BY <2>1, <2>2 DEF AudioInv, ClipsSpeakTheirKey
<1> QED
  BY <1>2 DEF SpokenBy, TextOf

\* What a bundle prints, speaks and subtitles belongs together, whatever was rendered,
\* edited or canceled while it was packed.
THEOREM BundlesAreOfOnePiece == ChapterSpec => []BundleOfOnePiece
<1>1. TextInv /\ AudioInv => BundleOfOnePiece
  BY MasterSpeaksItsRun DEF AudioInv, BundlesFit, OfOnePiece, BundleOfOnePiece
<1> QED
  BY <1>1, AudioInvariant, PTL

\* A bundle the review finds no fault in speaks and prints what is approved now.
THEOREM FreshBundlesAreApproved == ChapterSpec => []FreshBundleIsApproved
<1>1. ASSUME TextInv, AudioInv PROVE FreshBundleIsApproved
  <2> SUFFICES ASSUME NEW b \in DOMAIN bundles, ~Stale(b)
               PROVE  /\ chapter.run # None /\ SpokenBy(chapter.master) = TextOf(chapter.run)
                      /\ bundles[b].kind = "publication" => rights
    BY DEF FreshBundleIsApproved
  <2>1. /\ bundles[b].master = chapter.master /\ bundles[b].run = chapter.run
        /\ ~(bundles[b].kind = "publication" /\ ~rights)
    <3>1. "MASTER_CHANGED" \notin StaleReasons(b) /\ "TRANSLATION_CHANGED" \notin StaleReasons(b)
          /\ "GATE_BLOCKED" \notin StaleReasons(b)
      BY DEF Stale
    <3> QED
      BY <3>1 DEF StaleReasons
  <2>2. bundles[b].master \in DOMAIN masters /\ masters[bundles[b].master].run = bundles[b].run
    BY <1>1 DEF AudioInv, BundlesFit, OfOnePiece
  <2>3. SpokenBy(chapter.master) = TextOf(chapter.run)
    BY <1>1, <2>1, <2>2, MasterSpeaksItsRun
  <2>4. bundles[b].run \in Nat
    BY <1>1, RowsAreTyped DEF AudioInv, BundleRow
  <2>5. rights \in BOOLEAN
    BY <1>1 DEF AudioInv, AudioTypeOK
  <2> QED
    BY <2>1, <2>3, <2>4, <2>5, TextAssumption
<1> QED
  BY <1>1, AudioInvariant, PTL

-----------------------------------------------------------------------------
(* Mastering: parts.                                                       *)

Segment == [estimate : Nat, version : Nat, length : Nat]

\* What follows the groups of the segments before i.
NextGroups(s, groups, i) ==
  IF groups # <<>> /\ Fits(s, Last(groups), i)
  THEN Front(groups) \o <<Append(Last(groups), i)>>
  ELSE Append(groups, <<i>>)

GroupsWalk(s, f) ==
  f = [i \in 0..Len(s) |-> IF i = 0 THEN <<>> ELSE NextGroups(s, f[i - 1], i)]

\* The segments up to i, in their order and cut into parts that are not empty.
Sized(groups) ==
  /\ groups \in Seq(Seq(Nat)) /\ Len(groups) \in Nat
  /\ \A p \in 1..Len(groups) : Len(groups[p]) \in Nat /\ Len(groups[p]) > 0

HasPlace(groups, j) ==
  \E p \in 1..Len(groups) : \E n \in 1..Len(groups[p]) : groups[p][n] = j

InOrder(groups) ==
  /\ \A p \in 1..Len(groups) : \A n \in 1..(Len(groups[p]) - 1) : groups[p][n + 1] = groups[p][n] + 1
  /\ \A p \in 1..(Len(groups) - 1) : groups[p + 1][1] = groups[p][Len(groups[p])] + 1

\* No segment is in two places.
Once(groups) ==
  \A p, q \in 1..Len(groups) : \A n \in 1..Len(groups[p]), l \in 1..Len(groups[q]) :
    groups[p][n] = groups[q][l] => p = q /\ n = l

Cut(groups, i) ==
  /\ Sized(groups) /\ InOrder(groups) /\ Once(groups)
  /\ \A p \in 1..Len(groups) : \A n \in 1..Len(groups[p]) : groups[p][n] \in 1..i
  /\ \A j \in 1..i : HasPlace(groups, j)
  /\ i > 0 => /\ Len(groups) > 0 /\ groups[1][1] = 1
              /\ groups[Len(groups)][Len(groups[Len(groups)])] = i

\* The same with another element at the end.
Ends(seq, more, e) ==
  /\ Len(more) = Len(seq)
  /\ \A p \in 1..(Len(seq) - 1) : more[p] = seq[p]
  /\ more[Len(seq)] = e

LEMMA FrontWithOne ==
  ASSUME NEW T, NEW seq \in Seq(T), Len(seq) > 0, NEW e \in T
  PROVE  Front(seq) \o <<e>> \in Seq(T) /\ Ends(seq, Front(seq) \o <<e>>, e)
<1>1. PICK front, one, more : front = Front(seq) /\ one = <<e>> /\ more = front \o one
  OBVIOUS
<1>2. Len(seq) \in Nat
  OBVIOUS
<1>3. /\ front \in Seq(T) /\ Len(front) = Len(seq) - 1
      /\ \A p \in 1..(Len(seq) - 1) : front[p] = seq[p]
  <2>1. front = SubSeq(seq, 1, Len(seq) - 1)
    BY <1>1 DEF Front
  <2>2. Len(seq) - 1 \in Int /\ \A i \in 1..(Len(seq) - 1) : seq[i] \in T
    BY <1>2
  <2>3. /\ SubSeq(seq, 1, Len(seq) - 1) \in Seq(T)
        /\ Len(SubSeq(seq, 1, Len(seq) - 1)) = Len(seq) - 1
        /\ \A i \in 1..(Len(seq) - 1) : SubSeq(seq, 1, Len(seq) - 1)[i] = seq[i]
    <3>1. PICK n : n = Len(seq) - 1 /\ n \in Int
      BY <1>2
    <3>2. /\ SubSeq(seq, 1, n) \in Seq(T) /\ Len(SubSeq(seq, 1, n)) = IF 1 <= n THEN n - 1 + 1 ELSE 0
          /\ \A i \in 1..(n - 1 + 1) : SubSeq(seq, 1, n)[i] = seq[1 + i - 1]
      <4>1. 1 \in Int /\ \A i \in 1..n : seq[i] \in T
        BY <2>2, <3>1
      <4> QED
        BY <3>1, <4>1, SubSeqProperties
    <3>3. PICK front_ : front_ = SubSeq(seq, 1, n)
      OBVIOUS
    <3>4. Len(front_) = n /\ \A i \in 1..n : front_[i] = seq[i]
      BY <1>2, <3>1, <3>2, <3>3
    <3> QED
      BY <3>1, <3>2, <3>3, <3>4
  <2> QED
    BY <2>1, <2>3
<1>4. one \in Seq(T) /\ Len(one) = 1 /\ one[1] = e
  BY <1>1
<1>5. /\ more \in Seq(T) /\ Len(more) = Len(front) + Len(one)
      /\ \A i \in 1..(Len(front) + Len(one)) :
           more[i] = IF i <= Len(front) THEN front[i] ELSE one[i - Len(front)]
  <2>1. more = front \o one
    BY <1>1
  <2> QED
    BY <1>3, <1>4, <2>1, ConcatProperties
<1>6. Ends(seq, more, e)
  BY <1>2, <1>3, <1>4, <1>5 DEF Ends
<1> QED
  BY <1>1, <1>5, <1>6

\* Segment i joins the last part, or opens one.
Joined(groups, next, i) ==
  /\ groups # <<>> /\ next \in Seq(Seq(Nat)) /\ Len(next) = Len(groups)
  /\ \A p \in 1..(Len(groups) - 1) : next[p] = groups[p]
  /\ next[Len(groups)] = Append(groups[Len(groups)], i)

Opened(groups, next, i) ==
  /\ next \in Seq(Seq(Nat)) /\ Len(next) = Len(groups) + 1
  /\ \A p \in 1..Len(groups) : next[p] = groups[p]
  /\ next[Len(groups) + 1] = <<i>>

LEMMA NextGroupsAre ==
  ASSUME NEW s, NEW groups \in Seq(Seq(Nat)), NEW i \in Nat, NEW next, next = NextGroups(s, groups, i)
  PROVE  Joined(groups, next, i) \/ Opened(groups, next, i)
<1>1. CASE groups # <<>> /\ Fits(s, Last(groups), i)
  <2>0. Len(groups) \in Nat /\ Len(groups) > 0 /\ groups # <<>>
    BY <1>1
  <2>1. PICK last : last = groups[Len(groups)]
    OBVIOUS
  <2>2. PICK longer : longer = Append(last, i)
    OBVIOUS
  <2>3. next = Front(groups) \o <<longer>>
    BY <1>1, <2>1, <2>2, Zenon DEF NextGroups, Last
  <2>4. last \in Seq(Nat)
    BY <2>0, <2>1
  <2>5. longer \in Seq(Nat)
    BY <2>2, <2>4
  <2>6. next \in Seq(Seq(Nat)) /\ Ends(groups, next, longer)
    BY <2>0, <2>3, <2>5, FrontWithOne
  <2> QED
    BY <2>0, <2>1, <2>2, <2>6, Zenon DEF Joined, Ends
<1>2. CASE ~(groups # <<>> /\ Fits(s, Last(groups), i))
  <2>1. next = Append(groups, <<i>>)
    BY <1>2, Zenon DEF NextGroups
  <2>2. <<i>> \in Seq(Nat)
    OBVIOUS
  <2>3. PICK one : one = <<i>>
    OBVIOUS
  <2>4. /\ next \in Seq(Seq(Nat)) /\ Len(next) = Len(groups) + 1
        /\ \A p \in 1..Len(groups) : next[p] = groups[p]
        /\ next[Len(groups) + 1] = one
    BY <2>1, <2>2, <2>3
  <2> QED
    BY <2>3, <2>4 DEF Opened
<1> QED
  BY <1>1, <1>2

LEMMA GroupsUnfold ==
  ASSUME NEW s \in Seq(Segment)
  PROVE  \E f : GroupsWalk(s, f) /\ Groups(s) = f[Len(s)]
<1> DEFINE groups == CHOOSE f : GroupsWalk(s, f)
<1>1. Groups(s) = groups[Len(s)]
  BY Zenon DEF Groups, GroupsWalk, NextGroups
<1>2. \E f : GroupsWalk(s, f)
  <2>1. PICK D, F : D = Seq(Seq(Nat)) /\ F = [x \in D \X (1..Len(s)) |-> NextGroups(s, x[1], x[2])]
    OBVIOUS
  <2>2. Len(s) \in Nat /\ <<>> \in D
    BY <2>1
  <2>3. Leads(F, D, Len(s))
    <3>1. \A x \in D \X (1..Len(s)) : x[1] \in Seq(Seq(Nat)) /\ x[2] \in Nat
      BY <2>1, <2>2
    <3>2. \A x \in D \X (1..Len(s)) : NextGroups(s, x[1], x[2]) \in D
      BY <2>1, <3>1, NextGroupsAre DEF Joined, Opened
    <3> QED
      BY <2>1, <3>2 DEF Leads
  <2>4. PICK f : Recursion(f, F, <<>>, D, Len(s))
    BY <2>2, <2>3, RecursionIsThere
  <2>5. \A i \in 1..Len(s) : F[<<f[i - 1], i>>] = NextGroups(s, f[i - 1], i)
    <3> SUFFICES ASSUME NEW i \in 1..Len(s) PROVE F[<<f[i - 1], i>>] = NextGroups(s, f[i - 1], i)
      OBVIOUS
    <3>1. f[i - 1] \in D
      BY <2>2, <2>4 DEF Recursion
    <3> QED
      BY <2>1, <3>1
  <2>6. \A i \in 0..Len(s) : i = 0 \/ i \in 1..Len(s)
    BY <2>2
  <2> QED
    BY <2>4, <2>5, <2>6 DEF GroupsWalk, Recursion
<1> QED
  BY <1>1, <1>2

\* What the two ways have in common: j is the last of the last part, the k-th of the m-th.
Grows(groups, next, m, k, j) ==
  /\ m > 0 /\ k > 0 /\ next \in Seq(Seq(Nat)) /\ Len(next) = m /\ Len(next[m]) = k /\ next[m][k] = j
  /\ \A p \in 1..(m - 1) : next[p] = groups[p]
  /\ k = 1 => Len(groups) = m - 1
  /\ k > 1 => /\ Len(groups) = m /\ Len(groups[m]) = k - 1
              /\ \A n \in 1..(k - 1) : next[m][n] = groups[m][n]

LEMMA CutGrows ==
  ASSUME NEW groups, NEW next, NEW i \in Nat, Cut(groups, i), NEW m \in Nat, NEW k \in Nat,
         Grows(groups, next, m, k, i + 1)
  PROVE  Cut(next, i + 1)
<1>0. /\ m > 0 /\ k > 0 /\ next \in Seq(Seq(Nat)) /\ Len(next) = m /\ Len(next[m]) = k
      /\ next[m][k] = i + 1
      /\ \A p \in 1..(m - 1) : next[p] = groups[p]
      /\ k = 1 => Len(groups) = m - 1
      /\ k > 1 => /\ Len(groups) = m /\ Len(groups[m]) = k - 1
                  /\ \A n \in 1..(k - 1) : next[m][n] = groups[m][n]
  BY DEF Grows
<1>1. /\ Len(groups) \in Nat /\ InOrder(groups)
      /\ \A p \in 1..Len(groups) : Len(groups[p]) \in Nat /\ Len(groups[p]) > 0
      /\ \A p \in 1..Len(groups) : \A n \in 1..Len(groups[p]) : groups[p][n] \in 1..i
  BY DEF Cut, Sized
<1>3. k = 1 \/ k > 1
  BY <1>0
<1>2. ASSUME NEW p \in 1..m, p # m PROVE p \in 1..Len(groups) /\ next[p] = groups[p]
  <2>1. p \in 1..(m - 1) /\ Len(groups) \in {m - 1, m}
    BY <1>0, <1>2, <1>3
  <2> QED
    BY <1>0, <2>1
<1>5. Sized(next)
  BY <1>0, <1>1, <1>2 DEF Sized
<1>6. \A p \in 1..m : \A n \in 1..Len(next[p]) : next[p][n] \in 1..(i + 1)
  <2> SUFFICES ASSUME NEW p \in 1..m, NEW n \in 1..Len(next[p]) PROVE next[p][n] \in 1..(i + 1)
    OBVIOUS
  <2>1. CASE p # m
    <3>1. p \in 1..Len(groups) /\ next[p] = groups[p]
      BY <1>0, <1>2, <2>1
    <3>2. groups[p][n] \in 1..i
      BY <1>0, <1>1, <3>1
    <3> QED
      BY <1>0, <3>1, <3>2
  <2>2. CASE p = m /\ n = k
    BY <1>0, <2>2
  <2>3. CASE p = m /\ n # k
    <3>0. n \in 1..k /\ k > 1
      BY <1>0, <1>3, <2>3
    <3>1. k > 1 /\ m \in 1..Len(groups) /\ n \in 1..Len(groups[m]) /\ next[m][n] = groups[m][n]
      <4>1. n \in 1..(k - 1)
        BY <1>0, <2>3, <3>0
      <4>2. Len(groups) = m /\ Len(groups[m]) = k - 1 /\ next[m][n] = groups[m][n]
        BY <1>0, <3>0, <4>1
      <4>3. m \in 1..m
        BY <1>0
      <4> QED
        BY <3>0, <4>1, <4>2, <4>3
    <3>2. groups[m][n] \in 1..i
      BY <1>0, <1>1, <3>1
    <3> QED
      BY <1>0, <2>3, <3>1, <3>2
  <2> QED
    BY <1>0, <2>1, <2>2, <2>3
<1>7. ASSUME NEW j \in 1..(i + 1) PROVE HasPlace(next, j)
  <2>1. CASE j = i + 1
    BY <1>0, <2>1 DEF HasPlace
  <2>2. CASE j # i + 1
    <3>1. HasPlace(groups, j)
      <4>1. j \in 1..i
        BY <1>0, <2>2
      <4> QED
        BY <4>1 DEF Cut
    <3>2. PICK p \in 1..Len(groups) : \E n \in 1..Len(groups[p]) : groups[p][n] = j
      BY <1>0, <3>1 DEF HasPlace
    <3>3. PICK n \in 1..Len(groups[p]) : groups[p][n] = j
      BY <1>0, <3>2
    <3>4. p \in 1..m /\ n \in 1..Len(next[p]) /\ next[p][n] = j
      <4>1. CASE p = m
        <5>1. Len(groups) = m /\ k > 1 /\ Len(groups[m]) = k - 1
          BY <1>0, <1>3, <4>1
        <5>2. n \in 1..(k - 1) /\ n \in 1..k
          BY <1>0, <3>3, <4>1, <5>1
        <5> QED
          BY <1>0, <3>3, <4>1, <5>1, <5>2
      <4>2. CASE p # m
        <5>1. p \in 1..m
          <6>1. Len(groups) <= m
            BY <1>0, <1>3
          <6> QED
            BY <1>1, <6>1
        <5>2. next[p] = groups[p]
          BY <1>2, <4>2, <5>1
        <5> QED
          BY <3>3, <5>1, <5>2
      <4> QED
        BY <4>1, <4>2
    <3> QED
      BY <1>0, <3>4 DEF HasPlace
  <2> QED
    BY <1>0, <2>1, <2>2
<1>8. Len(groups) > 0 => i > 0
  <2> SUFFICES ASSUME Len(groups) > 0 PROVE i > 0
    OBVIOUS
  <2>1. Len(groups[1]) > 0 /\ Len(groups[1]) \in Nat
    BY <1>0, <1>1
  <2>2. groups[1][1] \in 1..i
    <3>1. 1 \in 1..Len(groups) /\ 1 \in 1..Len(groups[1])
      BY <1>1, <2>1
    <3> QED
      BY <1>1, <3>1
  <2> QED
    BY <1>0, <2>2
<1>9. Len(groups) > 0 => groups[Len(groups)][Len(groups[Len(groups)])] = i /\ groups[1][1] = 1
  BY <1>0, <1>8 DEF Cut
<1>a. ASSUME NEW p \in 1..m, NEW n \in 1..(Len(next[p]) - 1)
      PROVE  next[p][n + 1] = next[p][n] + 1
  <2>0. \A q \in 1..Len(groups) : \A l \in 1..(Len(groups[q]) - 1) : groups[q][l + 1] = groups[q][l] + 1
    BY <1>0, <1>1 DEF InOrder
  <2>1. CASE p # m
    <3>1. p \in 1..Len(groups) /\ next[p] = groups[p]
      BY <1>0, <1>2, <2>1
    <3>2. n \in 1..(Len(groups[p]) - 1)
      BY <1>0, <3>1
    <3>3. groups[p][n + 1] = groups[p][n] + 1
      BY <1>0, <2>0, <3>1, <3>2
    <3> QED
      BY <1>0, <3>1, <3>3
  <2>2. CASE p = m /\ n + 1 = k
    <3>1. k > 1 /\ n = k - 1 /\ Len(groups) = m
      BY <1>0, <2>2
    <3>2. next[m][n] = groups[m][n] /\ groups[m][n] = i
      BY <1>0, <1>9, <3>1
    <3> QED
      BY <1>0, <2>2, <3>2
  <2>3. CASE p = m /\ n + 1 # k
    <3>1. k > 1 /\ Len(groups) = m /\ n \in 1..(Len(groups[m]) - 1) /\ n + 1 \in 1..(k - 1)
      BY <1>0, <1>3, <2>3
    <3>2. groups[m][n + 1] = groups[m][n] + 1
      BY <1>0, <2>0, <3>1
    <3> QED
      BY <1>0, <2>3, <3>1, <3>2
  <2> QED
    BY <1>0, <2>1, <2>2, <2>3
<1>b. ASSUME NEW p \in 1..(m - 1)
      PROVE  next[p + 1][1] = next[p][Len(next[p])] + 1
  <2>1. p \in 1..Len(groups) /\ next[p] = groups[p]
    BY <1>0, <1>2
  <2>2. CASE p < Len(groups)
    <3>1. groups[p + 1][1] = groups[p][Len(groups[p])] + 1
      BY <1>0, <1>1, <2>2 DEF InOrder
    <3>2. next[p + 1][1] = groups[p + 1][1]
      <4>1. CASE p + 1 = m
        <5>1. k > 1
          BY <1>0, <1>3, <2>2, <4>1
        <5>2. 1 \in 1..(k - 1)
          BY <5>1
        <5>3. next[m][1] = groups[m][1]
          BY <1>0, <5>1, <5>2
        <5> QED
          BY <4>1, <5>3
      <4>2. CASE p + 1 # m
        BY <1>0, <1>2, <4>2
      <4> QED
        BY <4>1, <4>2
    <3> QED
      BY <1>0, <2>1, <3>1, <3>2
  <2>3. CASE p = Len(groups)
    <3>1. k = 1 /\ p + 1 = m
      BY <1>0, <1>3, <2>3
    <3>2. groups[p][Len(groups[p])] = i
      BY <1>0, <1>9, <2>1, <2>3
    <3> QED
      BY <1>0, <2>1, <3>1, <3>2
  <2> QED
    BY <1>0, <1>1, <2>1, <2>2, <2>3
<1>c. next[1][1] = 1
  <2>1. CASE Len(groups) = 0
    <3>1. k = 1 /\ m = 1
      BY <1>0, <1>3, <2>1
    <3>2. i = 0
      <4> SUFFICES ASSUME i > 0 PROVE FALSE
        OBVIOUS
      <4> QED
        BY <1>0, <2>1 DEF Cut
    <3> QED
      BY <1>0, <3>1, <3>2
  <2>2. CASE Len(groups) > 0
    <3>1. groups[1][1] = 1
      BY <1>0, <1>9, <2>2
    <3>2. CASE m = 1
      BY <1>0, <1>3, <2>2, <3>1, <3>2
    <3>3. CASE m > 1
      BY <1>0, <1>2, <3>1, <3>3
    <3> QED
      BY <1>0, <3>2, <3>3
  <2> QED
    BY <1>0, <1>1, <2>1, <2>2
<1>e. ASSUME NEW p \in 1..m, NEW n \in 1..Len(next[p]), ~(p = m /\ n = k)
      PROVE  /\ p \in 1..Len(groups) /\ n \in 1..Len(groups[p]) /\ next[p][n] = groups[p][n]
             /\ next[p][n] \in 1..i
  <2>1. CASE p # m
    <3>1. p \in 1..Len(groups) /\ next[p] = groups[p]
      BY <1>2, <2>1
    <3> QED
      BY <1>1, <3>1
  <2>2. CASE p = m
    <3>1. k > 1 /\ n \in 1..(k - 1)
      BY <1>0, <1>3, <1>e, <2>2
    <3>2. m \in 1..Len(groups) /\ n \in 1..Len(groups[m]) /\ next[m][n] = groups[m][n]
      BY <1>0, <3>1
    <3>3. groups[m][n] \in 1..i
      BY <1>1, <3>2
    <3> QED
      BY <2>2, <3>2, <3>3
  <2> QED
    BY <2>1, <2>2
<1>f. Once(next)
  <2> SUFFICES ASSUME NEW p \in 1..m, NEW q \in 1..m,
                      NEW n \in 1..Len(next[p]), NEW l \in 1..Len(next[q]),
                      next[p][n] = next[q][l]
               PROVE  p = q /\ n = l
    BY <1>0 DEF Once
  <2>0. i + 1 \notin 1..i
    OBVIOUS
  <2>1. CASE p = m /\ n = k
    <3>1. next[q][l] = i + 1
      BY <1>0, <2>1
    <3> QED
      BY <1>e, <2>0, <2>1, <3>1
  <2>2. CASE q = m /\ l = k
    <3>1. next[p][n] = i + 1
      BY <1>0, <2>2
    <3> QED
      BY <1>e, <2>0, <2>2, <3>1
  <2>3. CASE ~(p = m /\ n = k) /\ ~(q = m /\ l = k)
    <3>1. /\ p \in 1..Len(groups) /\ n \in 1..Len(groups[p]) /\ next[p][n] = groups[p][n]
          /\ q \in 1..Len(groups) /\ l \in 1..Len(groups[q]) /\ next[q][l] = groups[q][l]
      BY <1>e, <2>3
    <3>2. /\ groups[p][n] = groups[q][l]
          /\ p \in 1..Len(groups) /\ n \in 1..Len(groups[p])
          /\ q \in 1..Len(groups) /\ l \in 1..Len(groups[q])
      BY <3>1
    <3>3. \A x, y \in 1..Len(groups) : \A v \in 1..Len(groups[x]), w \in 1..Len(groups[y]) :
            groups[x][v] = groups[y][w] => x = y /\ v = w
      BY DEF Cut, Once
    <3> QED
      BY <3>2, <3>3
  <2> QED
    BY <2>1, <2>2, <2>3
<1>d. InOrder(next)
  BY <1>0, <1>a, <1>b DEF InOrder
<1> QED
  BY <1>0, <1>5, <1>6, <1>7, <1>c, <1>d, <1>f DEF Cut

LEMMA NextIsCut ==
  ASSUME NEW groups, NEW next, NEW i \in Nat, Cut(groups, i),
         Joined(groups, next, i + 1) \/ Opened(groups, next, i + 1)
  PROVE  Cut(next, i + 1)
<1>0. Sized(groups) /\ groups \in Seq(Seq(Nat)) /\ Len(groups) \in Nat
  BY DEF Cut, Sized
<1>1. CASE Joined(groups, next, i + 1)
  <2>0. groups # <<>>
    BY <1>1 DEF Joined
  <2>1. PICK m : m = Len(groups) /\ m \in Nat /\ m > 0
    <3>1. \A seq \in Seq(Seq(Nat)) : seq # <<>> => Len(seq) \in Nat \ {0}
      BY EmptySeq
    <3>2. Len(groups) \in Nat \ {0}
      BY <1>0, <2>0, <3>1
    <3> QED
      BY <3>2
  <2>2. PICK last : last = groups[m] /\ last \in Seq(Nat) /\ Len(last) \in Nat /\ Len(last) > 0
    BY <1>0, <2>1 DEF Sized
  <2>3. next[m] = Append(last, i + 1)
    BY <1>1, <2>1, <2>2 DEF Joined
  <2>4. PICK k : k = Len(last) + 1 /\ k \in Nat /\ k > 1
    BY <2>2
  <2>5. /\ Len(next[m]) = k /\ next[m][k] = i + 1
        /\ \A n \in 1..(k - 1) : next[m][n] = last[n]
    BY <2>2, <2>3, <2>4
  <2>6. next \in Seq(Seq(Nat)) /\ Len(next) = m /\ \A p \in 1..(m - 1) : next[p] = groups[p]
    BY <1>1, <2>1 DEF Joined
  <2>7. Grows(groups, next, m, k, i + 1)
    BY <2>1, <2>2, <2>4, <2>5, <2>6 DEF Grows
  <2> QED
    BY <2>1, <2>4, <2>7, CutGrows
<1>2. CASE Opened(groups, next, i + 1)
  <2>1. PICK m : m = Len(groups) + 1 /\ m \in Nat /\ m > 0 /\ Len(groups) = m - 1
    BY <1>0
  <2>2. next[m] = <<i + 1>>
    BY <1>2, <2>1 DEF Opened
  <2>3. Len(next[m]) = 1 /\ next[m][1] = i + 1
    BY <2>2
  <2>6. next \in Seq(Seq(Nat)) /\ Len(next) = m /\ \A p \in 1..(m - 1) : next[p] = groups[p]
    BY <1>2, <2>1 DEF Opened
  <2>7. Grows(groups, next, m, 1, i + 1)
    BY <2>1, <2>3, <2>6 DEF Grows
  <2> QED
    BY <2>1, <2>7, CutGrows
<1> QED
  BY <1>1, <1>2

LEMMA EmptyIsCut ==
  Cut(<<>>, 0)
<1>1. <<>> \in Seq(Seq(Nat)) /\ Len(<<>>) = 0
  OBVIOUS
<1>2. PICK none : none = <<>>
  OBVIOUS
<1>3. none \in Seq(Seq(Nat)) /\ Len(none) = 0
  BY <1>1, <1>2
<1>4. Cut(none, 0)
  BY <1>3 DEF Cut, Sized, InOrder, Once
<1> QED
  BY <1>2, <1>4

\* By induction over the segments: the parts are a cut of the plan.
LEMMA GroupsAreCut ==
  ASSUME NEW s \in Seq(Segment)
  PROVE  Cut(Groups(s), Len(s))
<1>1. PICK f : GroupsWalk(s, f) /\ Groups(s) = f[Len(s)]
  BY GroupsUnfold
<1>2. Len(s) \in Nat
  OBVIOUS
<1> DEFINE S == {i \in Nat : i <= Len(s) => Cut(f[i], i)}
<1>3. 0 \in S
  <2>1. f[0] = <<>>
    BY <1>1, <1>2 DEF GroupsWalk
  <2> QED
    BY <2>1, EmptyIsCut
<1>4. ASSUME NEW i \in Nat, i \in S PROVE i + 1 \in S
  <2> SUFFICES ASSUME i + 1 <= Len(s) PROVE Cut(f[i + 1], i + 1)
    OBVIOUS
  <2>1. Cut(f[i], i)
    BY <1>2, <1>4
  <2>2. f[i + 1] = NextGroups(s, f[i], i + 1)
    <3>1. i + 1 \in 0..Len(s) /\ i + 1 # 0 /\ (i + 1) - 1 = i
      BY <1>2
    <3> QED
      BY <1>1, <3>1 DEF GroupsWalk
  <2>3. f[i] \in Seq(Seq(Nat)) /\ i + 1 \in Nat
    BY <2>1 DEF Cut, Sized
  <2>4. Joined(f[i], f[i + 1], i + 1) \/ Opened(f[i], f[i + 1], i + 1)
    BY <2>2, <2>3, NextGroupsAre
  <2> QED
    BY <2>1, <2>4, NextIsCut
<1>5. S = Nat
  <2> HIDE DEF S
  <2>1. S \in SUBSET Nat
    BY DEF S
  <2> QED
    BY <1>3, <1>4, <2>1, SetInduction
<1> QED
  BY <1>1, <1>2, <1>5

\* How t can come from s: some segments are made again, each time with a new version.
Renews(s, t) ==
  /\ s \in Seq(Segment) /\ t \in Seq(Segment) /\ Len(s) = Len(t)
  /\ \A i \in 1..Len(s) : /\ s[i].estimate = t[i].estimate /\ s[i].version <= t[i].version
                          /\ s[i].version = t[i].version => s[i].length = t[i].length

LEMMA SegmentsAreTyped ==
  ASSUME NEW s \in Seq(Segment)
  PROVE  /\ Len(s) \in Nat /\ DOMAIN s = 1..Len(s)
         /\ \A i \in 1..Len(s) : /\ s[i] \in Segment /\ s[i].estimate \in Nat
                                 /\ s[i].version \in Nat /\ s[i].length \in Nat
<1>1. Len(s) \in Nat /\ DOMAIN s = 1..Len(s)
  OBVIOUS
<1>2. \A i \in 1..Len(s) : s[i] \in Segment
  BY <1>1
<1> QED
  BY <1>1, <1>2 DEF Segment

LEMMA RenewsItself ==
  ASSUME NEW s \in Seq(Segment)
  PROVE  Renews(s, s)
BY SegmentsAreTyped DEF Renews

LEMMA RenewsAgain ==
  ASSUME NEW s, NEW t, NEW u, Renews(s, t), Renews(t, u)
  PROVE  Renews(s, u)
<1>1. /\ s \in Seq(Segment) /\ t \in Seq(Segment) /\ u \in Seq(Segment)
      /\ Len(s) = Len(t) /\ Len(t) = Len(u)
  BY DEF Renews
<1>2. ASSUME NEW i \in 1..Len(s)
      PROVE  /\ s[i].estimate = u[i].estimate /\ s[i].version <= u[i].version
             /\ s[i].version = u[i].version => s[i].length = u[i].length
  <2>1. s[i].version \in Nat /\ t[i].version \in Nat /\ u[i].version \in Nat
    BY <1>1, SegmentsAreTyped
  <2>2. /\ s[i].estimate = t[i].estimate /\ s[i].version <= t[i].version
        /\ s[i].version = t[i].version => s[i].length = t[i].length
    BY DEF Renews
  <2>3. /\ t[i].estimate = u[i].estimate /\ t[i].version <= u[i].version
        /\ t[i].version = u[i].version => t[i].length = u[i].length
    BY <1>1 DEF Renews
  <2> QED
    BY <2>1, <2>2, <2>3
<1> QED
  BY <1>1, <1>2 DEF Renews

LEMMA FitsAlike ==
  ASSUME NEW s, NEW t, Renews(s, t), NEW groups, NEW i \in 0..(Len(s) - 1), Cut(groups, i), groups # <<>>
  PROVE  Fits(s, Last(groups), i + 1) <=> Fits(t, Last(groups), i + 1)
<1>1. PICK last : last = Last(groups)
  OBVIOUS
<1>2. \A n \in DOMAIN last : last[n] \in 1..i
  <2>1. groups \in Seq(Seq(Nat)) /\ Len(groups) \in Nat /\ Len(groups) > 0
    <3>1. groups \in Seq(Seq(Nat)) /\ Len(groups) \in Nat
      BY DEF Cut, Sized
    <3>2. \A seq \in Seq(Seq(Nat)) : seq # <<>> => Len(seq) \in Nat \ {0}
      BY EmptySeq
    <3>3. Len(groups) \in Nat \ {0}
      BY <3>1, <3>2
    <3> QED
      BY <3>1, <3>3
  <2>2. last = groups[Len(groups)] /\ last \in Seq(Nat)
    BY <1>1, <2>1 DEF Last
  <2>3. DOMAIN last = 1..Len(last)
    BY <2>2
  <2>4. PICK m : m = Len(groups) /\ m \in 1..Len(groups)
    BY <2>1
  <2>5. \A p \in 1..Len(groups) : \A n \in 1..Len(groups[p]) : groups[p][n] \in 1..i
    BY DEF Cut
  <2> QED
    BY <2>2, <2>3, <2>4, <2>5
<1>3. Len(s) \in Nat /\ \A j \in 1..Len(s) : s[j].estimate = t[j].estimate
  BY SegmentsAreTyped DEF Renews
<1>4. s[i + 1].estimate = t[i + 1].estimate /\ \A n \in DOMAIN last : s[last[n]].estimate = t[last[n]].estimate
  <2>1. i + 1 \in 1..Len(s) /\ \A n \in DOMAIN last : last[n] \in 1..Len(s)
    BY <1>2, <1>3
  <2> QED
    BY <1>3, <2>1
<1>5. [n \in DOMAIN last |-> s[last[n]].estimate] = [n \in DOMAIN last |-> t[last[n]].estimate]
  BY <1>4
<1>6. Fits(s, last, i + 1) <=> Fits(t, last, i + 1)
  <2>1. PICK a, b : a = [n \in DOMAIN last |-> s[last[n]].estimate] /\ b = [n \in DOMAIN last |-> t[last[n]].estimate]
    OBVIOUS
  <2>2. a = b /\ s[i + 1].estimate = t[i + 1].estimate
    BY <1>4, <1>5, <2>1
  <2> QED
    BY <2>1, <2>2, Zenon DEF Fits
<1> QED
  BY <1>1, <1>6

\* The parts are a matter of the estimates, which stay.
LEMMA GroupsStay ==
  ASSUME NEW s, NEW t, Renews(s, t)
  PROVE  Groups(s) = Groups(t)
<1>0. s \in Seq(Segment) /\ t \in Seq(Segment) /\ Len(t) = Len(s) /\ Len(s) \in Nat
  BY SegmentsAreTyped DEF Renews
<1>1. PICK f : GroupsWalk(s, f) /\ Groups(s) = f[Len(s)]
  BY <1>0, GroupsUnfold
<1>2. PICK g : GroupsWalk(t, g) /\ Groups(t) = g[Len(s)]
  BY <1>0, GroupsUnfold
<1>3. f[0] = <<>> /\ g[0] = <<>>
  BY <1>0, <1>1, <1>2 DEF GroupsWalk
<1>4. ASSUME NEW i \in 0..(Len(s) - 1)
      PROVE  f[i + 1] = NextGroups(s, f[i], i + 1) /\ g[i + 1] = NextGroups(t, g[i], i + 1)
  <2>1. i + 1 \in 0..Len(s) /\ i + 1 # 0 /\ (i + 1) - 1 = i
    BY <1>0
  <2> QED
    BY <1>0, <1>1, <1>2, <2>1 DEF GroupsWalk
<1> DEFINE S == {i \in Nat : i <= Len(s) => f[i] = g[i] /\ Cut(f[i], i)}
<1>5. 0 \in S
  BY <1>3, EmptyIsCut
<1>6. ASSUME NEW i \in Nat, i \in S PROVE i + 1 \in S
  <2> SUFFICES ASSUME i + 1 <= Len(s) PROVE f[i + 1] = g[i + 1] /\ Cut(f[i + 1], i + 1)
    OBVIOUS
  <2>1. i \in 0..(Len(s) - 1) /\ f[i] = g[i] /\ Cut(f[i], i)
    BY <1>0, <1>6
  <2>2. f[i + 1] = NextGroups(s, f[i], i + 1) /\ g[i + 1] = NextGroups(t, f[i], i + 1)
    BY <1>4, <2>1
  <2>3. NextGroups(s, f[i], i + 1) = NextGroups(t, f[i], i + 1)
    <3>1. f[i] # <<>> => (Fits(s, Last(f[i]), i + 1) <=> Fits(t, Last(f[i]), i + 1))
      BY <2>1, FitsAlike
    <3> QED
      BY <3>1 DEF NextGroups
  <2>4. f[i] \in Seq(Seq(Nat)) /\ i + 1 \in Nat
    BY <2>1 DEF Cut, Sized
  <2>5. Joined(f[i], f[i + 1], i + 1) \/ Opened(f[i], f[i + 1], i + 1)
    BY <2>2, <2>4, NextGroupsAre
  <2> QED
    BY <2>1, <2>2, <2>3, <2>5, NextIsCut
<1>7. S = Nat
  <2> HIDE DEF S
  <2>1. S \in SUBSET Nat
    BY DEF S
  <2> QED
    BY <1>5, <1>6, <2>1, SetInduction
<1>8. f[Len(s)] = g[Len(s)]
  BY <1>0, <1>7
<1> QED
  BY <1>1, <1>2, <1>8

-----------------------------------------------------------------------------
(* Mastering: parts, used again.                                           *)

Part == [input : Seq(Nat \X Nat), ready : BOOLEAN, duration : Nat]
FinalRow == [parts : Seq(Nat), ready : BOOLEAN, duration : Nat]
RenderPass == [script : Seq(Segment), forced : SUBSET Nat, parts : Seq(Part), used : Seq(Nat)]

MasteringTypeOK ==
  /\ script \in Seq(Segment)
  /\ kept = [parts |-> kept.parts, finals |-> kept.finals, cues |-> kept.cues]
  /\ kept.parts \in Seq(Part) /\ kept.finals \in Seq(FinalRow)
  /\ pass # NoPass => pass \in RenderPass

LengthsOf(s, group) == [n \in DOMAIN group |-> s[group[n]].length]

\* A part is of a state the plan was in on the way to s, and no shorter than its audio.
MadeOn(part, s) ==
  \E t : Renews(t, s) /\ \E n \in 1..Len(Groups(t)) :
    /\ part.input = PartInput(t, Groups(t)[n])
    /\ part.duration >= Encoded(LengthsOf(t, Groups(t)[n]), 0)

PartsFor(parts, s) ==
  /\ \A p \in DOMAIN parts : MadeOn(parts[p], s)
  /\ \A p, q \in DOMAIN parts :
       parts[p].ready /\ parts[q].ready /\ parts[p].input = parts[q].input => p = q

\* These parts, all of them or the first ones, are what s is cut into.
MadeOf(used, parts, s) ==
  \A n \in DOMAIN used : /\ used[n] \in DOMAIN parts
                         /\ parts[used[n]].input = PartInput(s, Groups(s)[n])

AllReady(used, parts) == \A n \in DOMAIN used : parts[used[n]].ready

\* What the pass may build on: it has the parts that are kept, and more.
PassFollows ==
  pass # NoPass =>
    /\ Renews(script, pass.script)
    /\ pass.forced = {} => pass.script = script
    /\ Len(kept.parts) <= Len(pass.parts)
    /\ \A p \in DOMAIN kept.parts : pass.parts[p] = kept.parts[p]
    /\ PartsFor(pass.parts, pass.script)
    /\ Len(pass.used) <= Len(Groups(pass.script))
    /\ MadeOf(pass.used, pass.parts, pass.script) /\ AllReady(pass.used, pass.parts)

\* A final master is of the parts of one state of the plan.
FinalIsWhole(final) ==
  \E s : /\ Renews(s, script) /\ Len(final.parts) = Len(Groups(s))
         /\ MadeOf(final.parts, kept.parts, s)

FinalsAreWhole == \A f \in DOMAIN kept.finals : FinalIsWhole(kept.finals[f])

LastIsReady ==
  kept.finals # <<>> => AllReady(Last(kept.finals).parts, kept.parts)

PartsInv ==
  /\ MasteringTypeOK /\ PassFollows
  /\ PartsFor(kept.parts, script)
  /\ FinalsAreWhole /\ LastIsReady
  /\ OnlyTouchedPartsRebuilt

LEMMA MasteringInitParts ==
  ASSUME MasteringInit
  PROVE  PartsInv
<1>1. /\ kept.parts = <<>> /\ kept.finals = <<>> /\ pass = NoPass
      /\ kept = [parts |-> kept.parts, finals |-> kept.finals, cues |-> kept.cues]
  BY DEF MasteringInit
<1>2. script \in Seq(Segment)
  <2>1. PICK n \in 1..MaxSegments : script \in [1..n -> [estimate : Estimates, version : {1}, length : Lengths]]
    BY DEF MasteringInit
  <2>2. [estimate : Estimates, version : {1}, length : Lengths] \subseteq Segment
    <3>1. Estimates \subseteq Nat /\ Lengths \subseteq Nat /\ {1} \subseteq Nat
      BY MasteringAssumption
    <3> QED
      BY <3>1 DEF Segment
  <2>3. n \in Nat /\ script \in [1..n -> Segment]
    BY <2>1, <2>2, MasteringAssumption
  <2> QED
    BY <2>3
<1>3. PICK none : none = <<>>
  OBVIOUS
<1>4. none \in Seq(Part) /\ none \in Seq(FinalRow) /\ DOMAIN none = {}
  BY <1>3
<1>5. MasteringTypeOK /\ PassFollows
  BY <1>1, <1>2, <1>3, <1>4 DEF MasteringTypeOK, PassFollows
<1>6. PartsFor(kept.parts, script) /\ OnlyTouchedPartsRebuilt
  BY <1>1, <1>3, <1>4 DEF PartsFor, OnlyTouchedPartsRebuilt
<1>7. LastIsReady /\ FinalsAreWhole
  BY <1>1, <1>3, <1>4 DEF LastIsReady, FinalsAreWhole
<1> QED
  BY <1>5, <1>6, <1>7 DEF PartsInv

LEMMA PartsForLater ==
  ASSUME NEW parts, NEW s, NEW t, PartsFor(parts, s), Renews(s, t)
  PROVE  PartsFor(parts, t)
<1>1. ASSUME NEW part, MadeOn(part, s) PROVE MadeOn(part, t)
  <2>1. PICK u : /\ Renews(u, s)
                 /\ \E n \in 1..Len(Groups(u)) :
                      /\ part.input = PartInput(u, Groups(u)[n])
                      /\ part.duration >= Encoded(LengthsOf(u, Groups(u)[n]), 0)
    BY <1>1 DEF MadeOn
  <2>2. Renews(u, t)
    BY <2>1, RenewsAgain
  <2> QED
    BY <2>1, <2>2 DEF MadeOn
<1> QED
  BY <1>1 DEF PartsFor

\* What is kept grows, and the plan goes on.
KeptGrows ==
  /\ Renews(script, script')
  /\ kept'.parts \in Seq(Part)
  /\ \A p \in DOMAIN kept.parts : p \in DOMAIN kept'.parts /\ kept'.parts[p].input = kept.parts[p].input

LEMMA FinalStaysWhole ==
  ASSUME KeptGrows, NEW f, FinalIsWhole(kept.finals[f]),
         kept'.finals[f].parts = kept.finals[f].parts
  PROVE  FinalIsWhole(kept.finals[f])'
<1>0. PICK those : those = kept.finals[f].parts /\ those = kept'.finals[f].parts
  OBVIOUS
<1>1. PICK s : Renews(s, script) /\ Len(those) = Len(Groups(s)) /\ MadeOf(those, kept.parts, s)
  BY <1>0 DEF FinalIsWhole
<1>2. Renews(s, script')
  BY <1>1, RenewsAgain DEF KeptGrows
<1>3. MadeOf(those, kept'.parts, s)
  BY <1>1 DEF MadeOf, KeptGrows
<1> QED
  BY <1>0, <1>1, <1>2, <1>3 DEF FinalIsWhole

LEMMA ResynthesizedRenews ==
  ASSUME NEW s \in Seq(Segment), NEW these, NEW lengths, \A i \in these : lengths[i] \in Nat
  PROVE  /\ Renews(s, Resynthesized(s, these, lengths))
         /\ these = {} => Resynthesized(s, these, lengths) = s
<1>1. PICK t : t = Resynthesized(s, these, lengths)
  OBVIOUS
<1>2. /\ Len(s) \in Nat /\ DOMAIN s = 1..Len(s) /\ s = [i \in 1..Len(s) |-> s[i]]
      /\ \A i \in 1..Len(s) : /\ s[i] \in Segment /\ s[i].estimate \in Nat
                              /\ s[i].version \in Nat /\ s[i].length \in Nat
  BY SegmentsAreTyped
<1>3. ASSUME NEW i \in 1..Len(s)
      PROVE  /\ t[i] \in Segment /\ t[i].estimate = s[i].estimate /\ s[i].version <= t[i].version
             /\ s[i].version = t[i].version => s[i].length = t[i].length
             /\ i \notin these => t[i] = s[i]
  <2>1. CASE i \notin these
    <3>1. t[i] = s[i]
      BY <1>1, <1>2, <2>1 DEF Resynthesized
    <3>2. s[i].version <= s[i].version
      BY <1>2
    <3> QED
      BY <1>2, <3>1, <3>2
  <2>2. CASE i \in these
    <3>1. t[i] = [s[i] EXCEPT !.version = @ + 1, !.length = lengths[i]]
      BY <1>1, <1>2, <2>2 DEF Resynthesized
    <3>2. lengths[i] \in Nat /\ s[i].version + 1 \in Nat
      BY <1>2, <2>2
    <3>3. PICK one, v, l : one = s[i] /\ v = s[i].version + 1 /\ l = lengths[i] /\ one \in Segment /\ v \in Nat /\ l \in Nat
      BY <1>2, <3>2
    <3>4. t[i] = [one EXCEPT !.version = v, !.length = l]
      BY <3>1, <3>3
    <3>5. /\ t[i] \in Segment /\ t[i].estimate = one.estimate /\ t[i].version = v
      BY <3>3, <3>4 DEF Segment
    <3> QED
      BY <1>2, <2>2, <3>3, <3>5
  <2> QED
    BY <2>1, <2>2
<1>4. t = [i \in 1..Len(s) |-> t[i]]
  BY <1>1, <1>2 DEF Resynthesized
<1>5. t \in Seq(Segment) /\ Len(t) = Len(s)
  <2>1. t \in [1..Len(s) -> Segment]
    BY <1>3, <1>4
  <2> QED
    BY <1>2, <2>1
<1>6. Renews(s, t)
  BY <1>3, <1>5 DEF Renews
<1>7. these = {} => t = s
  BY <1>2, <1>3, <1>4
<1> QED
  BY <1>1, <1>6, <1>7

LEMMA JobSynthesizesParts ==
  ASSUME PartsInv, NEW i \in DOMAIN script, JobSynthesizes(i)
  PROVE  PartsInv'
<1>1. kept' = kept /\ pass' = pass /\ pass = NoPass
  BY DEF JobSynthesizes
<1>2. Renews(script, script')
  <2>1. PICK length \in Lengths : script' = Resynthesized(script, {i}, [j \in {i} |-> length])
    BY DEF JobSynthesizes
  <2>2. \A j \in {i} : [k \in {i} |-> length][j] \in Nat
    BY MasteringAssumption
  <2>3. script \in Seq(Segment)
    BY DEF PartsInv, MasteringTypeOK
  <2> QED
    BY <2>1, <2>2, <2>3, ResynthesizedRenews
<1>3. MasteringTypeOK' /\ PassFollows'
  BY <1>1, <1>2 DEF PartsInv, MasteringTypeOK, PassFollows, Renews
<1>4. PartsFor(kept.parts, script)'
  BY <1>1, <1>2, PartsForLater DEF PartsInv
<1>5. KeptGrows
  BY <1>1, <1>2 DEF KeptGrows, PartsInv, MasteringTypeOK
<1>6. FinalsAreWhole'
  BY <1>1, <1>5, FinalStaysWhole DEF PartsInv, FinalsAreWhole
<1>7. LastIsReady' /\ OnlyTouchedPartsRebuilt'
  BY <1>1 DEF PartsInv, LastIsReady, OnlyTouchedPartsRebuilt, ClipsOf
<1> QED
  BY <1>3, <1>4, <1>6, <1>7 DEF PartsInv

\* The steps in which only the pass changes.
LEMMA PassStepParts ==
  ASSUME PartsInv, UNCHANGED <<script, kept>>, PassFollows', (pass # NoPass => pass \in RenderPass)'
  PROVE  PartsInv'
<1>1. script' = script /\ kept' = kept
  OBVIOUS
<1>2. MasteringTypeOK'
  BY <1>1 DEF PartsInv, MasteringTypeOK
<1>3. PartsFor(kept.parts, script)'
  BY <1>1 DEF PartsInv
<1>4. FinalsAreWhole'
  BY <1>1 DEF PartsInv, FinalsAreWhole, FinalIsWhole
<1>5. LastIsReady' /\ OnlyTouchedPartsRebuilt'
  BY <1>1 DEF PartsInv, LastIsReady, OnlyTouchedPartsRebuilt, ClipsOf
<1> QED
  BY <1>2, <1>3, <1>4, <1>5 DEF PartsInv

LEMMA StartPassParts ==
  ASSUME PartsInv, NEW forced \in SUBSET DOMAIN script, StartPass(forced)
  PROVE  PartsInv'
<1>1. PICK lengths \in [forced -> Lengths] :
        pass' = [script |-> Resynthesized(script, forced, lengths), forced |-> forced,
                 parts |-> kept.parts, used |-> <<>>]
  BY DEF StartPass
<1>2. script \in Seq(Segment) /\ kept.parts \in Seq(Part) /\ DOMAIN script = 1..Len(script)
  BY DEF PartsInv, MasteringTypeOK
<1>3. PICK t : t = Resynthesized(script, forced, lengths)
  OBVIOUS
<1>4. Renews(script, t) /\ (forced = {} => t = script)
  <2>1. \A i \in forced : lengths[i] \in Nat
    BY MasteringAssumption
  <2> QED
    BY <1>2, <1>3, <2>1, ResynthesizedRenews
<1>5. /\ pass'.script = t /\ pass'.forced = forced /\ pass'.parts = kept.parts /\ pass'.used = <<>>
      /\ pass' = [script |-> t, forced |-> forced, parts |-> kept.parts, used |-> <<>>]
  BY <1>1, <1>3
<1>6. pass' \in RenderPass
  <2>1. t \in Seq(Segment) /\ forced \in SUBSET Nat /\ <<>> \in Seq(Nat)
    BY <1>2, <1>4 DEF Renews
  <2> QED
    BY <1>2, <1>5, <2>1 DEF RenderPass
<1>7. PICK none : none = <<>> /\ DOMAIN none = {} /\ Len(none) = 0
  OBVIOUS
<1>8. Len(Groups(t)) \in Nat
  BY <1>4, GroupsAreCut DEF Cut, Sized, Renews
<1>9. PartsFor(kept.parts, t)
  BY <1>4, PartsForLater DEF PartsInv
<1>a. MadeOf(none, kept.parts, t) /\ AllReady(none, kept.parts) /\ Len(none) <= Len(Groups(t))
  BY <1>7, <1>8 DEF MadeOf, AllReady
<1>b. script' = script /\ kept' = kept
  BY DEF StartPass
<1>c. PassFollows'
  <2>1. Len(kept.parts) <= Len(kept.parts)
    BY <1>2
  <2> QED
    BY <1>4, <1>5, <1>7, <1>9, <1>a, <1>b, <2>1 DEF PassFollows
<1> QED
  BY <1>6, <1>b, <1>c, PassStepParts

LEMMA PassFailsParts ==
  ASSUME PartsInv, PassFails
  PROVE  PartsInv'
BY PassStepParts DEF PassFails, PassFollows

LEMMA PartInputIsTyped ==
  ASSUME NEW s \in Seq(Segment), NEW n \in 1..Len(Groups(s))
  PROVE  /\ Groups(s)[n] \in Seq(Nat) /\ DOMAIN Groups(s)[n] = 1..Len(Groups(s)[n])
         /\ \A k \in DOMAIN Groups(s)[n] : Groups(s)[n][k] \in 1..Len(s)
         /\ PartInput(s, Groups(s)[n]) \in Seq(Nat \X Nat)
<1>1. PICK groups : groups = Groups(s) /\ Cut(groups, Len(s))
  BY GroupsAreCut
<1>2. groups \in Seq(Seq(Nat)) /\ n \in 1..Len(groups)
  BY <1>1 DEF Cut, Sized
<1>3. PICK group : group = groups[n] /\ group \in Seq(Nat)
  BY <1>2
<1>4. DOMAIN group = 1..Len(group) /\ Len(group) \in Nat
  BY <1>3
<1>5. \A k \in DOMAIN group : group[k] \in 1..Len(s)
  BY <1>1, <1>2, <1>3, <1>4 DEF Cut
<1>6. \A k \in DOMAIN group : group[k] \in Nat /\ s[group[k]].version \in Nat
  BY <1>3, <1>4, <1>5, SegmentsAreTyped
<1>7. [k \in DOMAIN group |-> <<group[k], s[group[k]].version>>] \in [1..Len(group) -> Nat \X Nat]
  BY <1>4, <1>6
<1>8. PartInput(s, group) \in Seq(Nat \X Nat)
  BY <1>4, <1>7 DEF PartInput
<1> QED
  BY <1>1, <1>3, <1>4, <1>5, <1>8

\* The audio of a part lasts a whole number of milliseconds.
LEMMA EncodedIsNatural ==
  ASSUME NEW lengths \in Seq(Nat), NEW padding \in Nat
  PROVE  /\ SumOf(lengths) \in Nat /\ Encoded(lengths, padding) \in Nat
         /\ Encoded(lengths, padding) = Encoded(lengths, 0) + padding
         /\ Encoded(lengths, 0) \in Nat
<1>1. Len(lengths) \in Nat /\ DOMAIN lengths = 1..Len(lengths) /\ \A i \in DOMAIN lengths : lengths[i] \in Nat
  OBVIOUS
<1>2. IsFiniteSet(DOMAIN lengths)
  BY <1>1, FS_Interval
<1>3. SumFunctionOnSet(lengths, DOMAIN lengths) \in Nat
  BY <1>1, <1>2, SumIsNatural
<1>4. PICK sum : sum = SumOf(lengths) /\ sum \in Nat
  BY <1>3 DEF SumOf, SumFunction
<1>5. Pause \in Nat
  BY MasteringAssumption
<1>6. PICK rests : rests = Len(lengths) * Pause /\ rests \in Nat
  BY <1>1, <1>5
<1>7. Encoded(lengths, padding) = sum + rests + padding /\ Encoded(lengths, 0) = sum + rests + 0
  BY <1>4, <1>6 DEF Encoded
<1> QED
  BY <1>4, <1>6, <1>7

LEMMA LengthsAreTyped ==
  ASSUME NEW s \in Seq(Segment), NEW n \in 1..Len(Groups(s))
  PROVE  LengthsOf(s, Groups(s)[n]) \in Seq(Nat)
<1>1. PICK group : /\ group = Groups(s)[n] /\ group \in Seq(Nat) /\ DOMAIN group = 1..Len(group)
                   /\ \A k \in DOMAIN group : group[k] \in 1..Len(s)
  BY PartInputIsTyped
<1>2. \A k \in DOMAIN group : s[group[k]].length \in Nat
  BY <1>1, SegmentsAreTyped
<1>3. [k \in DOMAIN group |-> s[group[k]].length] \in [1..Len(group) -> Nat] /\ Len(group) \in Nat
  BY <1>1, <1>2
<1> QED
  BY <1>1, <1>3 DEF LengthsOf

\* The pass as its records say, for a pass at work.
LEMMA PassIsTyped ==
  ASSUME PartsInv, pass # NoPass
  PROVE  /\ pass \in RenderPass /\ pass.script \in Seq(Segment) /\ pass.parts \in Seq(Part)
         /\ pass.used \in Seq(Nat) /\ pass.forced \in SUBSET Nat
         /\ pass = [script |-> pass.script, forced |-> pass.forced, parts |-> pass.parts, used |-> pass.used]
         /\ Len(pass.used) \in Nat /\ DOMAIN pass.used = 1..Len(pass.used)
         /\ Len(pass.parts) \in Nat /\ DOMAIN pass.parts = 1..Len(pass.parts)
         /\ \A p \in DOMAIN pass.parts : pass.parts[p] \in Part
<1>1. pass \in RenderPass
  BY DEF PartsInv, MasteringTypeOK
<1>2. /\ pass.script \in Seq(Segment) /\ pass.parts \in Seq(Part)
      /\ pass.used \in Seq(Nat) /\ pass.forced \in SUBSET Nat
      /\ pass = [script |-> pass.script, forced |-> pass.forced, parts |-> pass.parts, used |-> pass.used]
  BY <1>1 DEF RenderPass
<1>3. /\ Len(pass.used) \in Nat /\ DOMAIN pass.used = 1..Len(pass.used)
      /\ Len(pass.parts) \in Nat /\ DOMAIN pass.parts = 1..Len(pass.parts)
      /\ \A p \in DOMAIN pass.parts : pass.parts[p] \in Part
  BY <1>2
<1> QED
  BY <1>1, <1>2, <1>3

PassWith(s, forced, parts, used) == [script |-> s, forced |-> forced, parts |-> parts, used |-> used]

LEMMA PassOf ==
  ASSUME NEW s \in Seq(Segment), NEW forced \in SUBSET Nat, NEW parts \in Seq(Part), NEW used \in Seq(Nat)
  PROVE  /\ PassWith(s, forced, parts, used) \in RenderPass
         /\ PassWith(s, forced, parts, used).script = s
         /\ PassWith(s, forced, parts, used).forced = forced
         /\ PassWith(s, forced, parts, used).parts = parts
         /\ PassWith(s, forced, parts, used).used = used
BY DEF RenderPass, PassWith

LEMMA PartOf ==
  ASSUME NEW input \in Seq(Nat \X Nat), NEW duration \in Nat, NEW part, part = PartWrite(input, duration)
  PROVE  part \in Part /\ part.input = input /\ part.duration = duration /\ part.ready
BY DEF PartWrite, Part

\* One more part for the pass, made now or made before.
LEMMA OneMorePart ==
  ASSUME PartsInv, pass # NoPass, UNCHANGED <<script, kept>>,
         NEW parts \in Seq(Part), NEW p \in DOMAIN parts,
         pass' = [pass EXCEPT !.parts = parts, !.used = Append(@, p)],
         Len(pass.used) < Len(Grouped),
         Len(pass.parts) <= Len(parts), \A q \in DOMAIN pass.parts : parts[q] = pass.parts[q],
         PartsFor(parts, pass.script),
         parts[p].ready, parts[p].input = PartInput(pass.script, Grouped[Len(pass.used) + 1])
  PROVE  PartsInv'
<1>1. PICK s, old, used, forced :
        /\ s = pass.script /\ old = pass.parts /\ used = pass.used /\ forced = pass.forced
        /\ pass = [script |-> s, forced |-> forced, parts |-> old, used |-> used]
        /\ s \in Seq(Segment) /\ old \in Seq(Part) /\ used \in Seq(Nat) /\ forced \in SUBSET Nat
        /\ Len(used) \in Nat /\ DOMAIN used = 1..Len(used) /\ DOMAIN old = 1..Len(old) /\ Len(old) \in Nat
  BY PassIsTyped
<1>2. PICK more : more = Append(used, p)
  OBVIOUS
<1>3. DOMAIN parts = 1..Len(parts) /\ Len(parts) \in Nat /\ p \in Nat
  OBVIOUS
<1>4. /\ more \in Seq(Nat) /\ Len(more) = Len(used) + 1 /\ DOMAIN more = 1..(Len(used) + 1)
      /\ \A n \in 1..Len(used) : more[n] = used[n]
      /\ more[Len(used) + 1] = p
  BY <1>1, <1>2, <1>3
<1>5. pass' = [script |-> s, forced |-> forced, parts |-> parts, used |-> more]
  BY <1>1, <1>2
<1>7. /\ pass' \in RenderPass
      /\ pass'.script = s /\ pass'.forced = forced /\ pass'.parts = parts /\ pass'.used = more
  <2>1. PICK new : new = pass'
    OBVIOUS
  <2>2. new \in RenderPass /\ new.script = s /\ new.forced = forced /\ new.parts = parts /\ new.used = more
    <3>1. new = PassWith(s, forced, parts, more)
      BY <1>5, <2>1 DEF PassWith
    <3>2. s \in Seq(Segment) /\ forced \in SUBSET Nat /\ parts \in Seq(Part) /\ more \in Seq(Nat)
      BY <1>1, <1>4
    <3> QED
      BY <3>1, <3>2, PassOf
  <2> QED
    BY <2>1, <2>2
<1>8. /\ Renews(script, s) /\ (forced = {} => s = script)
      /\ Len(kept.parts) <= Len(old) /\ (\A q \in DOMAIN kept.parts : old[q] = kept.parts[q])
      /\ Len(used) <= Len(Groups(s)) /\ MadeOf(used, old, s) /\ AllReady(used, old)
  BY <1>1 DEF PartsInv, PassFollows
<1>9. Len(kept.parts) <= Len(parts) /\ \A q \in DOMAIN kept.parts : parts[q] = kept.parts[q]
  <2>1. Len(kept.parts) \in Nat /\ DOMAIN kept.parts = 1..Len(kept.parts)
    BY DEF PartsInv, MasteringTypeOK
  <2> QED
    BY <1>1, <1>3, <1>8, <2>1
<1>a. \A q \in DOMAIN old : q \in DOMAIN parts /\ parts[q] = old[q]
  BY <1>1, <1>3
<1>b. MadeOf(more, parts, s)
  <2> SUFFICES ASSUME NEW n \in 1..(Len(used) + 1)
               PROVE  more[n] \in DOMAIN parts /\ parts[more[n]].input = PartInput(s, Groups(s)[n])
    BY <1>4 DEF MadeOf
  <2>1. CASE n \in 1..Len(used)
    <3>1. used[n] \in DOMAIN old /\ old[used[n]].input = PartInput(s, Groups(s)[n])
      BY <1>1, <1>8, <2>1 DEF MadeOf
    <3> QED
      BY <1>4, <1>a, <2>1, <3>1
  <2>2. CASE n = Len(used) + 1
    BY <1>1, <1>4, <2>2 DEF Grouped
  <2> QED
    BY <1>1, <2>1, <2>2
<1>c. AllReady(more, parts)
  <2> SUFFICES ASSUME NEW n \in 1..(Len(used) + 1) PROVE parts[more[n]].ready
    BY <1>4 DEF AllReady
  <2>1. CASE n \in 1..Len(used)
    <3>1. used[n] \in DOMAIN old /\ old[used[n]].ready
      BY <1>1, <1>8, <2>1 DEF MadeOf, AllReady
    <3> QED
      BY <1>4, <1>a, <2>1, <3>1
  <2>2. CASE n = Len(used) + 1
    BY <1>4, <2>2
  <2> QED
    BY <1>1, <2>1, <2>2
<1>d. Len(more) <= Len(Groups(s))
  <2>1. Len(Groups(s)) \in Nat
    BY <1>1, GroupsAreCut DEF Cut, Sized
  <2> QED
    BY <1>1, <1>4, <2>1 DEF Grouped
<1>e. script' = script /\ kept' = kept
  OBVIOUS
<1>f. PassFollows'
  <2>1. PartsFor(parts, s)
    BY <1>1
  <2> QED
    BY <1>7, <1>8, <1>9, <1>b, <1>c, <1>d, <1>e, <2>1 DEF PassFollows
<1> QED
  BY <1>7, <1>f, PassStepParts

LEMMA RenderPartParts ==
  ASSUME PartsInv, RenderPart
  PROVE  PartsInv'
<1>0. pass # NoPass /\ Len(pass.used) < Len(Grouped) /\ script' = script /\ kept' = kept
  BY DEF RenderPart
<1>1. PICK s, old, used : /\ s = pass.script /\ old = pass.parts /\ used = pass.used
                          /\ s \in Seq(Segment) /\ old \in Seq(Part) /\ used \in Seq(Nat)
                          /\ Len(used) \in Nat /\ DOMAIN old = 1..Len(old) /\ Len(old) \in Nat
                          /\ \A q \in DOMAIN old : old[q] \in Part
                          /\ pass = [script |-> s, forced |-> pass.forced, parts |-> old, used |-> used]
  BY <1>0, PassIsTyped
<1>2. PICK n : n = Len(used) + 1 /\ n \in 1..Len(Groups(s))
  <2>1. Len(Groups(s)) \in Nat
    BY <1>1, GroupsAreCut DEF Cut, Sized
  <2> QED
    BY <1>0, <1>1, <2>1 DEF Grouped
<1>3. PICK group, input : group = Groups(s)[n] /\ input = PartInput(s, group) /\ input \in Seq(Nat \X Nat)
  BY <1>1, <1>2, PartInputIsTyped
<1>4. group = Grouped[Len(pass.used) + 1] /\ input = PartInput(pass.script, Grouped[Len(pass.used) + 1])
  BY <1>1, <1>2, <1>3 DEF Grouped
<1>5. PartsFor(old, s)
  BY <1>0, <1>1 DEF PartsInv, PassFollows
<1>6. ASSUME NEW p \in ReadyOf(old, "input", input), pass' = [pass EXCEPT !.used = Append(@, p)]
      PROVE  PartsInv'
  <2>1. p \in DOMAIN old /\ old[p].ready /\ old[p].input = input
    BY <1>6 DEF ReadyOf
  <2>2. pass' = [pass EXCEPT !.parts = old, !.used = Append(@, p)]
    BY <1>1, <1>6
  <2>3. Len(old) <= Len(old)
    BY <1>1
  <2> QED
    BY <1>0, <1>1, <1>4, <1>5, <2>1, <2>2, <2>3, OneMorePart
<1>7. ASSUME ReadyOf(old, "input", input) = {}, NEW padding \in Padding,
             pass' = [pass EXCEPT !.parts = Append(@, PartWrite(input, Encoded(LengthsOf(s, group), padding))),
                                  !.used = Append(@, Len(old) + 1)]
      PROVE  PartsInv'
  <2>1. PICK duration : /\ duration = Encoded(LengthsOf(s, group), padding) /\ duration \in Nat
                        /\ duration >= Encoded(LengthsOf(s, group), 0)
    <3>1. padding \in Nat /\ LengthsOf(s, group) \in Seq(Nat)
      BY <1>1, <1>2, <1>3, MasteringAssumption, LengthsAreTyped
    <3>2. PICK least : least = Encoded(LengthsOf(s, group), 0)
      OBVIOUS
    <3>3. least \in Nat /\ Encoded(LengthsOf(s, group), padding) = least + padding
      BY <3>1, <3>2, EncodedIsNatural
    <3> QED
      BY <3>1, <3>2, <3>3
  <2>2. PICK part : /\ part = PartWrite(input, duration) /\ part \in Part
                    /\ part.input = input /\ part.duration = duration /\ part.ready
    BY <1>3, <2>1, PartOf
  <2>3. PICK parts, p : parts = Append(old, part) /\ p = Len(old) + 1
    OBVIOUS
  <2>4. /\ parts \in Seq(Part) /\ Len(parts) = Len(old) + 1 /\ DOMAIN parts = 1..(Len(old) + 1)
        /\ \A q \in 1..Len(old) : parts[q] = old[q]
        /\ parts[p] = part /\ p \in DOMAIN parts
    BY <1>1, <2>2, <2>3
  <2>5. pass' = [pass EXCEPT !.parts = parts, !.used = Append(@, p)]
    BY <1>1, <1>7, <2>1, <2>2, <2>3
  <2>6. PartsFor(parts, s)
    <3>1. MadeOn(part, s)
      <4>1. Renews(s, s)
        BY <1>1, RenewsItself
      <4>2. part.input = PartInput(s, Groups(s)[n]) /\ part.duration >= Encoded(LengthsOf(s, Groups(s)[n]), 0)
        BY <1>3, <2>1, <2>2
      <4> QED
        BY <1>2, <4>1, <4>2, Zenon DEF MadeOn
    <3>2. \A q \in DOMAIN parts : MadeOn(parts[q], s)
      BY <1>1, <1>5, <2>3, <2>4, <3>1 DEF PartsFor
    <3>3. \A q \in 1..Len(old) : ~(old[q].ready /\ old[q].input = input)
      BY <1>1, <1>7 DEF ReadyOf
    <3>4. ASSUME NEW q \in DOMAIN parts, NEW r \in DOMAIN parts,
                 parts[q].ready, parts[r].ready, parts[q].input = parts[r].input
          PROVE  q = r
      <4>1. CASE q = p
        BY <1>1, <2>2, <2>3, <2>4, <3>3, <3>4, <4>1
      <4>2. CASE r = p
        BY <1>1, <2>2, <2>3, <2>4, <3>3, <3>4, <4>2
      <4>3. CASE q # p /\ r # p
        <5>1. q \in DOMAIN old /\ r \in DOMAIN old
          BY <1>1, <2>3, <2>4, <4>3
        <5>2. old[q].ready /\ old[r].ready /\ old[q].input = old[r].input
          BY <1>1, <2>4, <3>4, <5>1
        <5> QED
          BY <1>5, <5>1, <5>2 DEF PartsFor
      <4> QED
        BY <4>1, <4>2, <4>3
    <3> QED
      BY <3>2, <3>4 DEF PartsFor
  <2>7. Len(old) <= Len(parts) /\ \A q \in DOMAIN old : parts[q] = old[q]
    BY <1>1, <2>4
  <2> QED
    BY <1>0, <1>1, <1>4, <2>2, <2>4, <2>5, <2>6, <2>7, OneMorePart
<1> QED
  <2>1. \/ \E p \in ReadyOf(old, "input", input) : pass' = [pass EXCEPT !.used = Append(@, p)]
        \/ /\ ReadyOf(old, "input", input) = {}
           /\ \E padding \in Padding :
                pass' = [pass EXCEPT !.parts = Append(@, PartWrite(input, Encoded(LengthsOf(s, group), padding))),
                                     !.used = Append(@, Len(old) + 1)]
    BY <1>1, <1>3, <1>4 DEF RenderPart, LengthsOf
  <2> QED
    BY <1>6, <1>7, <2>1

LEMMA FinalsAreTyped ==
  ASSUME PartsInv
  PROVE  /\ Len(kept.finals) \in Nat /\ DOMAIN kept.finals = 1..Len(kept.finals)
         /\ Len(kept.parts) \in Nat /\ DOMAIN kept.parts = 1..Len(kept.parts)
         /\ \A f \in DOMAIN kept.finals :
              /\ kept.finals[f] \in FinalRow /\ kept.finals[f].parts \in Seq(Nat)
              /\ \A p \in ToSet(kept.finals[f].parts) : p \in DOMAIN kept.parts
<1>1. /\ Len(kept.finals) \in Nat /\ DOMAIN kept.finals = 1..Len(kept.finals)
      /\ Len(kept.parts) \in Nat /\ DOMAIN kept.parts = 1..Len(kept.parts)
      /\ \A f \in DOMAIN kept.finals : kept.finals[f] \in FinalRow
  BY DEF PartsInv, MasteringTypeOK
<1>2. ASSUME NEW f \in DOMAIN kept.finals
      PROVE  kept.finals[f].parts \in Seq(Nat) /\ \A p \in ToSet(kept.finals[f].parts) : p \in DOMAIN kept.parts
  <2>1. kept.finals[f].parts \in Seq(Nat)
    BY <1>1 DEF FinalRow
  <2>2. PICK s : MadeOf(kept.finals[f].parts, kept.parts, s)
    BY DEF PartsInv, FinalsAreWhole, FinalIsWhole
  <2> QED
    BY <2>1, <2>2 DEF MadeOf, ToSet
<1> QED
  BY <1>1, <1>2

\* The parts of final master f that the one before does not have.
NewPartsAreNew(f) ==
  \A p \in ToSet(kept.finals[f].parts) \ ToSet(kept.finals[f - 1].parts) :
    ~ ToSet(kept.parts[p].input) \subseteq ClipsOf(kept.finals[f - 1])

LEMMA NewPartsStayNew ==
  ASSUME PartsInv, KeptGrows, NEW f \in DOMAIN kept.finals \ {1},
         \A g \in DOMAIN kept.finals : kept'.finals[g].parts = kept.finals[g].parts
  PROVE  NewPartsAreNew(f)'
<1>1. f \in DOMAIN kept.finals /\ f - 1 \in DOMAIN kept.finals
  BY FinalsAreTyped
<1>2. PICK those, before : /\ those = kept.finals[f].parts /\ those = kept'.finals[f].parts
                           /\ before = kept.finals[f - 1].parts /\ before = kept'.finals[f - 1].parts
  BY <1>1
<1>3. \A p \in ToSet(those) \cup ToSet(before) : p \in DOMAIN kept.parts
  BY <1>1, <1>2, FinalsAreTyped
<1>4. \A p \in ToSet(those) \cup ToSet(before) : kept'.parts[p].input = kept.parts[p].input
  BY <1>3 DEF KeptGrows
<1>5. /\ ClipsOf(kept.finals[f - 1]) = UNION {ToSet(kept.parts[before[n]].input) : n \in DOMAIN before}
      /\ ClipsOf(kept.finals[f - 1])' = UNION {ToSet(kept'.parts[before[n]].input) : n \in DOMAIN before}
  BY <1>2 DEF ClipsOf
<1>6. ClipsOf(kept.finals[f - 1])' = ClipsOf(kept.finals[f - 1])
  <2>1. \A n \in DOMAIN before : kept'.parts[before[n]].input = kept.parts[before[n]].input
    BY <1>4 DEF ToSet
  <2> QED
    BY <1>5, <2>1
<1>7. NewPartsAreNew(f)
  BY DEF PartsInv, OnlyTouchedPartsRebuilt, NewPartsAreNew
<1>8. ASSUME NEW p \in ToSet(those) \ ToSet(before)
      PROVE  ~ ToSet(kept'.parts[p].input) \subseteq ClipsOf(kept.finals[f - 1])'
  <2>1. ~ ToSet(kept.parts[p].input) \subseteq ClipsOf(kept.finals[f - 1])
    BY <1>2, <1>7 DEF NewPartsAreNew
  <2> QED
    BY <1>4, <1>6, <2>1
<1> QED
  BY <1>2, <1>8 DEF NewPartsAreNew

\* What a pass that ends well leaves: the plan and at least the parts it had.
LEMMA PassGrows ==
  ASSUME PartsInv, pass # NoPass, script' = pass.script, kept'.parts \in Seq(Part),
         \A p \in DOMAIN pass.parts : p \in DOMAIN kept'.parts /\ kept'.parts[p].input = pass.parts[p].input
  PROVE  KeptGrows
<1>1. /\ Renews(script, pass.script)
      /\ Len(kept.parts) <= Len(pass.parts)
      /\ \A p \in DOMAIN kept.parts : pass.parts[p] = kept.parts[p]
  BY DEF PartsInv, PassFollows
<1>2. \A p \in DOMAIN kept.parts : p \in DOMAIN pass.parts
  BY <1>1, FinalsAreTyped, PassIsTyped
<1> QED
  BY <1>1, <1>2 DEF KeptGrows

LEMMA ReuseFinalParts ==
  ASSUME PartsInv, ReuseFinal
  PROVE  PartsInv'
<1>1. pass # NoPass /\ script' = pass.script /\ pass' = NoPass /\ kept' = [kept EXCEPT !.parts = pass.parts]
  BY DEF ReuseFinal
<1>2. PICK parts, finals, cues, s :
        /\ kept = [parts |-> parts, finals |-> finals, cues |-> cues]
        /\ finals = kept.finals /\ parts = kept.parts /\ finals \in Seq(FinalRow)
        /\ s = pass.script /\ s \in Seq(Segment)
  BY <1>1, PassIsTyped DEF PartsInv, MasteringTypeOK
<1>3. PICK new : new = pass.parts /\ new \in Seq(Part)
  BY <1>1, PassIsTyped
<1>4. kept' = [parts |-> new, finals |-> finals, cues |-> cues]
  BY <1>1, <1>2, <1>3
<1>5. kept'.parts = new /\ kept'.finals = finals /\ kept'.cues = cues
  BY <1>4
<1>6. MasteringTypeOK' /\ PassFollows'
  <2>1. MasteringTypeOK'
    BY <1>1, <1>2, <1>3, <1>4, <1>5 DEF MasteringTypeOK
  <2> QED
    BY <1>1, <2>1 DEF PassFollows
<1>7. KeptGrows
  BY <1>1, <1>3, <1>5, PassGrows
<1>8. PartsFor(kept.parts, script)'
  BY <1>1, <1>3, <1>5 DEF PartsInv, PassFollows
<1>9. FinalsAreWhole'
  BY <1>2, <1>5, <1>7, FinalStaysWhole DEF PartsInv, FinalsAreWhole
<1>a. LastIsReady'
  <2> SUFFICES ASSUME finals # <<>> PROVE AllReady(Last(finals).parts, new)
    BY <1>5 DEF LastIsReady
  <2>1. Len(finals) \in DOMAIN finals
    <3>1. \A seq \in Seq(FinalRow) : seq # <<>> => Len(seq) \in Nat \ {0}
      BY EmptySeq
    <3>2. Len(finals) \in Nat \ {0} /\ DOMAIN finals = 1..Len(finals)
      BY <1>2, <3>1
    <3> QED
      BY <3>2
  <2>2. PICK those : those = Last(finals).parts /\ those = finals[Len(finals)].parts
    BY DEF Last
  <2>3. AllReady(those, parts)
    BY <1>2, <2>2 DEF PartsInv, LastIsReady
  <2>4. \A n \in DOMAIN those : those[n] \in DOMAIN parts
    BY <1>2, <2>1, <2>2, FinalsAreTyped DEF ToSet
  <2>5. \A p \in DOMAIN parts : new[p] = parts[p]
    BY <1>1, <1>2, <1>3 DEF PartsInv, PassFollows
  <2> QED
    BY <2>2, <2>3, <2>4, <2>5 DEF AllReady
<1>b. OnlyTouchedPartsRebuilt'
  <2>1. \A f \in DOMAIN kept.finals \ {1} : NewPartsAreNew(f)'
    BY <1>2, <1>5, <1>7, NewPartsStayNew
  <2> QED
    BY <1>2, <1>5, <2>1 DEF OnlyTouchedPartsRebuilt, NewPartsAreNew
<1> QED
  BY <1>6, <1>8, <1>9, <1>a, <1>b DEF PartsInv

Carries(parts, old) == \A p \in DOMAIN old : p \in DOMAIN parts /\ parts[p] = old[p]

\* The parts of a new final master after a last one that is of the plan as it was.
LEMMA SameAudioSamePart ==
  ASSUME NEW s, NEW t, Groups(s) = Groups(t), NEW old, NEW parts, NEW before, NEW used,
         MadeOf(before, old, s), AllReady(before, old), MadeOf(used, parts, t), AllReady(used, parts),
         DOMAIN before = DOMAIN used, PartsFor(parts, t),
         Carries(parts, old), NEW n \in DOMAIN used,
         ToSet(parts[used[n]].input) \subseteq UNION {ToSet(old[before[k]].input) : k \in DOMAIN before}
  PROVE  used[n] \in ToSet(before)
<1>1. PICK groups, group : groups = Groups(s) /\ groups = Groups(t) /\ group = groups[n]
  OBVIOUS
<1>2. /\ parts[used[n]].input = PartInput(t, group) /\ used[n] \in DOMAIN parts /\ parts[used[n]].ready
      /\ old[before[n]].input = PartInput(s, group) /\ before[n] \in DOMAIN old /\ old[before[n]].ready
  BY <1>1 DEF MadeOf, AllReady
<1>3. ASSUME NEW i \in DOMAIN group PROVE s[group[i]].version = t[group[i]].version
  <2>1. <<group[i], t[group[i]].version>> \in ToSet(parts[used[n]].input)
    BY <1>2 DEF PartInput, ToSet
  <2>2. PICK k \in DOMAIN before : <<group[i], t[group[i]].version>> \in ToSet(old[before[k]].input)
    BY <2>1
  <2>3. old[before[k]].input = PartInput(s, groups[k])
    BY <1>1, <2>2 DEF MadeOf
  <2>4. PICK j \in DOMAIN groups[k] :
          <<group[i], t[group[i]].version>> = <<groups[k][j], s[groups[k][j]].version>>
    <3>1. PICK input, of : input = old[before[k]].input /\ of = groups[k]
      OBVIOUS
    <3>2. input = [m \in DOMAIN of |-> <<of[m], s[of[m]].version>>]
      BY <2>3, <3>1 DEF PartInput
    <3>3. PICK j \in DOMAIN input : input[j] = <<group[i], t[group[i]].version>>
      BY <2>2, <3>1 DEF ToSet
    <3>4. j \in DOMAIN of /\ input[j] = <<of[j], s[of[j]].version>>
      BY <3>2, <3>3
    <3> QED
      BY <3>1, <3>3, <3>4
  <2> QED
    BY <2>4
<1>4. PartInput(s, group) = PartInput(t, group)
  BY <1>3 DEF PartInput
<1>5. before[n] \in DOMAIN parts /\ parts[before[n]].ready /\ parts[before[n]].input = parts[used[n]].input
  BY <1>2, <1>4 DEF Carries
<1>6. before[n] = used[n]
  BY <1>2, <1>5 DEF PartsFor
<1> QED
  BY <1>6 DEF ToSet

\* All that a new final master supersedes stays as it is, but for being READY.
LEMMA SupersedingParts ==
  ASSUME NEW parts \in Seq(Part), NEW those, NEW next, next = Superseding(parts, those)
  PROVE  /\ next \in Seq(Part) /\ DOMAIN next = DOMAIN parts /\ Len(next) = Len(parts)
         /\ \A p \in DOMAIN parts : /\ next[p].input = parts[p].input /\ next[p].duration = parts[p].duration
                                    /\ next[p].ready <=> parts[p].ready /\ p \in those
<1>1. Len(parts) \in Nat /\ DOMAIN parts = 1..Len(parts) /\ \A p \in DOMAIN parts : parts[p] \in Part
  OBVIOUS
<1>2. ASSUME NEW p \in DOMAIN parts
      PROVE  /\ next[p] \in Part /\ next[p].input = parts[p].input /\ next[p].duration = parts[p].duration
             /\ next[p].ready <=> parts[p].ready /\ p \in those
  <2>1. PICK part, ready : part = parts[p] /\ ready = (part.ready /\ p \in those)
    OBVIOUS
  <2>2. next[p] = [part EXCEPT !.ready = ready]
    BY <2>1 DEF Superseding
  <2>3. part \in Part /\ ready \in BOOLEAN
    BY <1>1, <2>1
  <2>4. /\ next[p] \in Part /\ next[p].input = part.input /\ next[p].duration = part.duration
        /\ next[p].ready = ready
    BY <2>2, <2>3 DEF Part
  <2> QED
    BY <2>1, <2>4
<1>3. next = [p \in DOMAIN parts |-> next[p]]
  BY DEF Superseding
<1>4. next \in [1..Len(parts) -> Part]
  BY <1>1, <1>2, <1>3
<1> QED
  BY <1>1, <1>2, <1>4

LEMMA SupersedingFinals ==
  ASSUME NEW finals \in Seq(FinalRow), NEW next, next = Superseding(finals, {})
  PROVE  /\ next \in Seq(FinalRow) /\ Len(next) = Len(finals)
         /\ \A f \in DOMAIN finals : next[f].parts = finals[f].parts
<1>1. Len(finals) \in Nat /\ DOMAIN finals = 1..Len(finals) /\ \A f \in DOMAIN finals : finals[f] \in FinalRow
  OBVIOUS
<1>2. ASSUME NEW f \in DOMAIN finals
      PROVE  next[f] \in FinalRow /\ next[f].parts = finals[f].parts
  <2>1. PICK final : final = finals[f] /\ final \in FinalRow
    BY <1>1
  <2>2. PICK ready : ready = (final.ready /\ f \in {}) /\ ready \in BOOLEAN
    OBVIOUS
  <2>3. next[f] = [final EXCEPT !.ready = ready]
    BY <2>1, <2>2 DEF Superseding
  <2> QED
    BY <2>1, <2>2, <2>3 DEF FinalRow
<1>3. next = [f \in DOMAIN finals |-> next[f]]
  BY DEF Superseding
<1>4. next \in [1..Len(finals) -> FinalRow]
  BY <1>1, <1>2, <1>3
<1> QED
  BY <1>1, <1>2, <1>4

\* What ConcatFinal leaves, with names for its pieces.
ConcatLeaves(s, parts, used, duration) ==
  /\ s = pass.script /\ used = pass.used /\ used \in Seq(Nat) /\ duration \in Nat /\ s \in Seq(Segment)
  /\ parts = Superseding(pass.parts, ToSet(used))
  /\ script' = s /\ pass' = NoPass
  /\ kept' = [parts |-> parts,
              finals |-> Append(Superseding(kept.finals, {}), MasterWrite(used, duration)),
              cues |-> kept'.cues]
  /\ kept'.parts = parts /\ parts \in Seq(Part)
  /\ kept'.finals \in Seq(FinalRow) /\ Len(kept'.finals) = Len(kept.finals) + 1
  /\ \A f \in DOMAIN kept.finals : kept'.finals[f].parts = kept.finals[f].parts
  /\ kept'.finals[Len(kept.finals) + 1] = MasterWrite(used, duration)

LEMMA DurationsAreTyped ==
  ASSUME PartsInv, pass # NoPass
  PROVE  PartDurations \in Seq(Nat)
<1>1. ASSUME NEW n \in DOMAIN pass.used PROVE pass.parts[pass.used[n]].duration \in Nat
  <2>1. pass.used[n] \in DOMAIN pass.parts
    BY DEF PartsInv, PassFollows, MadeOf
  <2>2. pass.parts[pass.used[n]] \in Part
    BY <2>1, PassIsTyped
  <2> QED
    BY <2>2 DEF Part
<1>2. DOMAIN pass.used = 1..Len(pass.used) /\ Len(pass.used) \in Nat
  BY PassIsTyped
<1>3. [n \in DOMAIN pass.used |-> pass.parts[pass.used[n]].duration] \in [1..Len(pass.used) -> Nat]
  BY <1>1, <1>2
<1> QED
  BY <1>2, <1>3 DEF PartDurations

LEMMA MasterOf ==
  ASSUME NEW used \in Seq(Nat), NEW duration \in Nat
  PROVE  MasterWrite(used, duration) \in FinalRow
BY DEF MasterWrite, FinalRow

LEMMA ConcatIs ==
  ASSUME PartsInv, ConcatFinal
  PROVE  \E s, parts, used, duration : ConcatLeaves(s, parts, used, duration)
<1>1. PICK padding \in Padding :
        kept' = [parts  |-> Superseding(pass.parts, ToSet(pass.used)),
                 finals |-> Append(Superseding(kept.finals, {}),
                                   MasterWrite(pass.used, Encoded(PartDurations, padding))),
                 cues   |-> Subtitles(Encoded(PartDurations, padding))]
  BY DEF ConcatFinal
<1>2. pass # NoPass /\ script' = pass.script /\ pass' = NoPass
  BY DEF ConcatFinal
<1>3. PICK duration : duration = Encoded(PartDurations, padding) /\ duration \in Nat
  <2>1. padding \in Nat /\ PartDurations \in Seq(Nat)
    BY <1>2, DurationsAreTyped, MasteringAssumption
  <2> QED
    BY <2>1, EncodedIsNatural
<1>4. PICK s, used, old, finals :
        /\ s = pass.script /\ used = pass.used /\ old = pass.parts /\ finals = kept.finals
        /\ s \in Seq(Segment) /\ used \in Seq(Nat) /\ old \in Seq(Part) /\ finals \in Seq(FinalRow)
  BY <1>2, PassIsTyped DEF PartsInv, MasteringTypeOK
<1>5. PICK parts : parts = Superseding(old, ToSet(used)) /\ parts \in Seq(Part)
  BY <1>4, SupersedingParts
<1>6. PICK before : /\ before = Superseding(finals, {}) /\ before \in Seq(FinalRow)
                    /\ Len(before) = Len(finals)
                    /\ \A f \in DOMAIN finals : before[f].parts = finals[f].parts
  BY <1>4, SupersedingFinals
<1>7. PICK final : final = MasterWrite(used, duration) /\ final \in FinalRow
  BY <1>3, <1>4, MasterOf
<1>8. PICK all : all = Append(before, final)
  OBVIOUS
<1>9. Len(finals) \in Nat /\ DOMAIN finals = 1..Len(finals)
  BY <1>4
<1>a. /\ all \in Seq(FinalRow) /\ Len(all) = Len(finals) + 1
      /\ all[Len(finals) + 1] = final /\ \A f \in DOMAIN finals : all[f] = before[f]
  BY <1>6, <1>7, <1>8, <1>9
<1>b. PICK cues : cues = Subtitles(duration)
  OBVIOUS
<1>c. kept' = [parts |-> parts, finals |-> all, cues |-> cues]
  BY <1>1, <1>3, <1>4, <1>5, <1>6, <1>7, <1>8, <1>b
<1>d. kept'.parts = parts /\ kept'.finals = all /\ kept'.cues = cues
  BY <1>c
<1>e. all = Append(Superseding(kept.finals, {}), MasterWrite(used, duration))
  BY <1>4, <1>6, <1>7, <1>8
<1>f. kept' = [parts |-> parts, finals |-> Append(Superseding(kept.finals, {}), MasterWrite(used, duration)),
               cues |-> kept'.cues]
  BY <1>c, <1>d, <1>e
<1>g. parts = Superseding(pass.parts, ToSet(used)) /\ script' = s /\ pass' = NoPass
  BY <1>2, <1>4, <1>5
<1>h. /\ kept'.finals \in Seq(FinalRow) /\ Len(kept'.finals) = Len(kept.finals) + 1
      /\ kept'.finals[Len(kept.finals) + 1] = MasterWrite(used, duration)
      /\ \A f \in DOMAIN kept.finals : kept'.finals[f].parts = kept.finals[f].parts
  BY <1>4, <1>6, <1>7, <1>a, <1>d
<1>i. ConcatLeaves(s, parts, used, duration)
  BY <1>3, <1>4, <1>5, <1>d, <1>f, <1>g, <1>h, Zenon DEF ConcatLeaves
<1> QED
  BY <1>i

LEMMA ConcatFinalParts ==
  ASSUME PartsInv, ConcatFinal
  PROVE  PartsInv'
<1>0. pass # NoPass /\ Len(pass.used) = Len(Grouped)
  BY DEF ConcatFinal
<1>1. PICK s, parts, used, duration : ConcatLeaves(s, parts, used, duration)
  BY ConcatIs
<1>2. PICK old, f : /\ old = pass.parts /\ old \in Seq(Part) /\ DOMAIN old = 1..Len(old)
                    /\ f = Len(kept.finals) + 1
  BY <1>0, PassIsTyped
<1>3. /\ parts \in Seq(Part) /\ DOMAIN parts = DOMAIN old
      /\ \A p \in DOMAIN old : /\ parts[p].input = old[p].input /\ parts[p].duration = old[p].duration
                               /\ parts[p].ready <=> old[p].ready /\ p \in ToSet(used)
  <2>1. parts = Superseding(old, ToSet(used))
    BY <1>1, <1>2 DEF ConcatLeaves
  <2> QED
    BY <1>2, <2>1, SupersedingParts
<1>4. /\ Renews(script, s) /\ PartsFor(old, s) /\ MadeOf(used, old, s) /\ AllReady(used, old)
      /\ \A p \in DOMAIN kept.parts : old[p] = kept.parts[p]
      /\ Len(kept.parts) <= Len(old)
  BY <1>0, <1>1, <1>2 DEF PartsInv, PassFollows, ConcatLeaves
<1>5. Len(used) = Len(Groups(s)) /\ DOMAIN used = 1..Len(used) /\ Len(used) \in Nat
  BY <1>0, <1>1 DEF ConcatLeaves, Grouped
<1>6. /\ Len(kept.finals) \in Nat /\ DOMAIN kept.finals = 1..(f - 1) /\ DOMAIN kept'.finals = 1..f
      /\ f \in Nat /\ Len(kept'.finals) = f /\ kept'.finals[f].parts = used
  <2>1. /\ kept'.finals \in Seq(FinalRow) /\ Len(kept'.finals) = f
        /\ kept'.finals[f] = MasterWrite(used, duration)
    BY <1>1, <1>2 DEF ConcatLeaves
  <2>2. kept'.finals[f].parts = used
    BY <2>1 DEF MasterWrite
  <2> QED
    BY <1>2, <2>1, <2>2, FinalsAreTyped
<1>7. MasteringTypeOK' /\ PassFollows'
  <2>1. PICK new, finals, cues :
          new = kept' /\ finals = kept'.finals /\ cues = kept'.cues
    OBVIOUS
  <2>2. PICK all : all = Append(Superseding(kept.finals, {}), MasterWrite(used, duration))
    OBVIOUS
  <2>3. kept' = [parts |-> parts, finals |-> all, cues |-> cues]
    BY <1>1, <2>1, <2>2 DEF ConcatLeaves
  <2>4. kept' = [parts |-> kept'.parts, finals |-> kept'.finals, cues |-> kept'.cues]
    BY <2>3
  <2>5. pass' = NoPass /\ script' \in Seq(Segment) /\ kept'.parts \in Seq(Part) /\ kept'.finals \in Seq(FinalRow)
    BY <1>1 DEF ConcatLeaves
  <2> QED
    BY <2>4, <2>5 DEF MasteringTypeOK, PassFollows
<1>8. KeptGrows
  BY <1>0, <1>1, <1>2, <1>3, PassGrows DEF ConcatLeaves
<1>9. PartsFor(parts, s)
  <2>1. \A p \in DOMAIN parts : MadeOn(parts[p], s)
    BY <1>3, <1>4 DEF PartsFor, MadeOn
  <2> QED
    BY <1>3, <1>4, <2>1 DEF PartsFor
<1>a. MadeOf(used, parts, s) /\ AllReady(used, parts)
  BY <1>3, <1>4 DEF MadeOf, AllReady, ToSet
<1>b. FinalsAreWhole'
  <2>1. ASSUME NEW g \in 1..f PROVE FinalIsWhole(kept.finals[g])'
    <3>1. CASE g = f
      <4>1. Renews(s, s)
        BY <1>1, RenewsItself DEF ConcatLeaves
      <4>2. script' = s /\ kept'.parts = parts
        BY <1>1 DEF ConcatLeaves
      <4>3. kept'.finals[g].parts = used
        BY <1>6, <3>1
      <4> QED
        BY <1>5, <1>a, <4>1, <4>2, <4>3 DEF FinalIsWhole
    <3>2. CASE g # f
      <4>1. g \in DOMAIN kept.finals
        BY <1>6, <3>2
      <4> QED
        BY <1>1, <1>8, <4>1, FinalStaysWhole DEF PartsInv, FinalsAreWhole, ConcatLeaves
    <3> QED
      BY <3>1, <3>2
  <2> QED
    BY <1>6, <2>1 DEF FinalsAreWhole
<1>c. LastIsReady'
  BY <1>1, <1>6, <1>a DEF LastIsReady, Last, ConcatLeaves
<1>d. NewPartsAreNew(f)' \/ f = 1
  <2> SUFFICES ASSUME f # 1 PROVE NewPartsAreNew(f)'
    OBVIOUS
  <2>1. f - 1 \in DOMAIN kept.finals /\ f - 1 = Len(kept.finals) /\ kept.finals # <<>>
    BY <1>2, <1>6
  <2>2. PICK before : before = kept.finals[f - 1].parts /\ before = kept'.finals[f - 1].parts
    BY <1>1, <2>1 DEF ConcatLeaves
  <2>3. PICK t : Renews(t, script) /\ Len(before) = Len(Groups(t)) /\ MadeOf(before, kept.parts, t)
    BY <2>1, <2>2 DEF PartsInv, FinalsAreWhole, FinalIsWhole
  <2>4. Renews(t, s)
    BY <1>4, <2>3, RenewsAgain
  <2>5. Groups(t) = Groups(s)
    BY <2>4, GroupsStay
  <2>6. AllReady(before, kept.parts)
    BY <2>1, <2>2 DEF PartsInv, LastIsReady, Last
  <2>7. DOMAIN before = DOMAIN used
    <3>1. before \in Seq(Nat)
      BY <2>1, <2>2, FinalsAreTyped
    <3> QED
      BY <1>5, <2>3, <2>5, <3>1
  <2>8. \A p \in DOMAIN kept.parts : p \in DOMAIN old /\ old[p] = kept.parts[p]
    BY <1>2, <1>4, FinalsAreTyped, PassIsTyped, <1>0
  <2>9. \A k \in DOMAIN before : parts[before[k]].input = kept.parts[before[k]].input
    <3>1. \A k \in DOMAIN before : before[k] \in DOMAIN kept.parts
      BY <2>3 DEF MadeOf
    <3> QED
      BY <1>3, <2>8, <3>1
  <2>a. ClipsOf(kept.finals[f - 1])' = UNION {ToSet(kept.parts[before[k]].input) : k \in DOMAIN before}
    <3>1. kept'.parts = parts
      BY <1>1 DEF ConcatLeaves
    <3> QED
      BY <2>2, <2>9, <3>1 DEF ClipsOf
  <2>b. ASSUME NEW n \in DOMAIN used,
               ToSet(parts[used[n]].input) \subseteq ClipsOf(kept.finals[f - 1])'
        PROVE  used[n] \in ToSet(before)
    <3>1. old[used[n]].input = parts[used[n]].input
      BY <1>3, <1>4 DEF MadeOf
    <3>2. ToSet(old[used[n]].input) \subseteq UNION {ToSet(kept.parts[before[k]].input) : k \in DOMAIN before}
      BY <2>a, <2>b, <3>1
    <3>3. Carries(old, kept.parts)
      BY <2>8 DEF Carries
    <3> QED
      BY <1>4, <2>3, <2>5, <2>6, <2>7, <3>2, <3>3, SameAudioSamePart
  <2>c. kept'.parts = parts /\ kept'.finals[f].parts = used
    BY <1>1, <1>6 DEF ConcatLeaves
  <2> QED
    BY <2>2, <2>b, <2>c DEF NewPartsAreNew, ToSet
<1>e. OnlyTouchedPartsRebuilt'
  <2>1. ASSUME NEW g \in DOMAIN kept'.finals \ {1} PROVE NewPartsAreNew(g)'
    <3>1. CASE g = f
      BY <1>d, <3>1
    <3>2. CASE g # f
      <4>1. g \in DOMAIN kept.finals \ {1}
        BY <1>6, <3>2
      <4>2. \A h \in DOMAIN kept.finals : kept'.finals[h].parts = kept.finals[h].parts
        BY <1>1 DEF ConcatLeaves
      <4> QED
        BY <1>8, <4>1, <4>2, NewPartsStayNew
    <3> QED
      BY <3>1, <3>2
  <2> QED
    BY <2>1 DEF OnlyTouchedPartsRebuilt, NewPartsAreNew
<1>f. PartsFor(kept.parts, script)'
  BY <1>1, <1>9 DEF ConcatLeaves
<1> QED
  BY <1>7, <1>b, <1>c, <1>e, <1>f DEF PartsInv

LEMMA MasteringStepParts ==
  ASSUME PartsInv, [MasteringNext]_masteringVars
  PROVE  PartsInv'
<1>1. CASE UNCHANGED masteringVars
  <2>1. script' = script /\ kept' = kept /\ pass' = pass
    BY <1>1 DEF masteringVars
  <2>2. PassFollows' /\ (pass # NoPass => pass \in RenderPass)'
    BY <2>1 DEF PartsInv, PassFollows, MasteringTypeOK
  <2> QED
    BY <2>1, <2>2, PassStepParts
<1>2. CASE \E i \in DOMAIN script : JobSynthesizes(i)
  BY <1>2, JobSynthesizesParts
<1>3. CASE \E forced \in SUBSET DOMAIN script : StartPass(forced)
  BY <1>3, StartPassParts
<1>4. CASE RenderPart
  BY <1>4, RenderPartParts
<1>5. CASE ReuseFinal
  BY <1>5, ReuseFinalParts
<1>6. CASE ConcatFinal
  BY <1>6, ConcatFinalParts
<1>7. CASE PassFails
  BY <1>7, PassFailsParts
<1> QED
  BY <1>1, <1>2, <1>3, <1>4, <1>5, <1>6, <1>7 DEF MasteringNext

\* However segments are made again, by jobs or by passes, and whatever fails: _master
\* rebuilds a part only where audio in it is new (workflow.py:655-659).
THEOREM PartsAreReused == MasteringSpec => []OnlyTouchedPartsRebuilt
<1>1. MasteringInit => PartsInv
  BY MasteringInitParts
<1>2. PartsInv /\ [MasteringNext]_masteringVars => PartsInv'
  BY MasteringStepParts
<1>3. PartsInv => OnlyTouchedPartsRebuilt
  BY DEF PartsInv
<1> QED
  BY <1>1, <1>2, <1>3, PTL DEF MasteringSpec

-----------------------------------------------------------------------------
(* Mastering: subtitles.                                                   *)

\* What comes after segment i of what the processor laid out, and that all of it fits.
LEMMA LaidInOrder ==
  ASSUME NEW lengths \in Seq(Nat)
  PROVE  /\ DOMAIN Laid(lengths) = 1..Len(lengths)
         /\ Len(lengths) > 0 => Laid(lengths)[1] = 0
         /\ \A i \in 1..Len(lengths) :
              /\ Laid(lengths)[i] \in Nat
              /\ Laid(lengths)[i] + lengths[i] + Pause <= Encoded(lengths, 0)
         /\ \A i \in 1..(Len(lengths) - 1) :
              Laid(lengths)[i + 1] = Laid(lengths)[i] + lengths[i] + Pause
<1>0. Pause \in Nat
  BY MasteringAssumption
<1>1. PICK m : m = Len(lengths) /\ m \in Nat /\ DOMAIN lengths = 1..m /\ \A i \in 1..m : lengths[i] \in Nat
  OBVIOUS
<1> DEFINE Sum(i) == SumFunctionOnSet(lengths, 1..i)
<1>2. ASSUME NEW i \in 0..m PROVE Sum(i) \in Nat /\ Sum(i) <= Sum(m)
  <2>1. IsFiniteSet(1..m) /\ IsFiniteSet(1..i) /\ 1..i \in SUBSET (1..m)
    <3>1. m \in Int /\ i \in Int /\ 1 \in Int /\ i <= m
      BY <1>1
    <3>2. IsFiniteSet(1..m) /\ IsFiniteSet(1..i)
      BY <3>1, FS_Interval
    <3> QED
      BY <3>1, <3>2
  <2>2. \A j \in 1..m : lengths[j] \in Nat /\ lengths[j] <= lengths[j]
    BY <1>1
  <2>3. \A j \in 1..i : lengths[j] \in Nat /\ lengths[j] <= lengths[j]
    BY <2>1, <2>2
  <2>4. SumFunctionOnSet(lengths, 1..i) \in Nat
    BY <2>1, <2>3, SumIsNatural
  <2>5. SumFunctionOnSet(lengths, 1..i) <= SumFunctionOnSet(lengths, 1..m)
    BY <2>1, <2>2, <2>3, SumOfLess
  <2> QED
    BY <2>4, <2>5
<1>3. Sum(0) = 0
  <2>1. 1..0 = {}
    OBVIOUS
  <2> QED
    BY <2>1, SumOfNone
<1>4. ASSUME NEW i \in 1..m PROVE Sum(i) = Sum(i - 1) + lengths[i]
  <2>1. /\ 1..(i - 1) \in SUBSET (1..m) /\ i \in (1..m) \ (1..(i - 1))
        /\ (1..(i - 1)) \cup {i} = 1..i
    BY <1>1
  <2>2. SumFunctionOnSet(lengths, (1..(i - 1)) \cup {i}) = SumFunctionOnSet(lengths, 1..(i - 1)) + lengths[i]
    <3>1. PICK S, T : S = 1..m /\ T = 1..(i - 1)
      OBVIOUS
    <3>2. IsFiniteSet(S)
      <4>1. m \in Int /\ 1 \in Int
        BY <1>1
      <4> QED
        BY <3>1, <4>1, FS_Interval
    <3>3. T \in SUBSET S /\ i \in S \ T /\ \A x \in S : lengths[x] \in Nat
      BY <1>1, <2>1, <3>1
    <3>4. SumFunctionOnSet(lengths, T \cup {i}) = SumFunctionOnSet(lengths, T) + lengths[i]
      BY <3>2, <3>3, SumWithOneMore
    <3> QED
      BY <3>1, <3>4
  <2> QED
    BY <2>1, <2>2
<1>5. PICK laid : laid = Laid(lengths)
  OBVIOUS
<1>6. DOMAIN laid = 1..m /\ \A i \in 1..m : laid[i] = Sum(i - 1) + (i - 1) * Pause
  BY <1>1, <1>5 DEF Laid
<1>7. Encoded(lengths, 0) = Sum(m) + m * Pause + 0
  BY <1>1 DEF Encoded, SumOf, SumFunction
<1> HIDE DEF Sum
<1>8. ASSUME NEW i \in 1..m
      PROVE  laid[i] \in Nat /\ laid[i] + lengths[i] + Pause = Sum(i) + i * Pause
  <2>1. Sum(i - 1) \in Nat /\ Sum(i) = Sum(i - 1) + lengths[i] /\ lengths[i] \in Nat
    BY <1>1, <1>2, <1>4
  <2>2. PICK before : before = (i - 1) * Pause /\ before \in Nat /\ i * Pause = before + Pause
    <3>1. PICK j : j = i - 1 /\ j \in Nat /\ i = j + 1
      BY <1>1
    <3>2. j * Pause \in Nat /\ (j + 1) * Pause = j * Pause + Pause
      BY <1>0, <3>1
    <3> QED
      BY <3>1, <3>2
  <2>3. laid[i] = Sum(i - 1) + before
    BY <1>6, <2>2
  <2>4. PICK some, all, length, at, rest, now :
          /\ some = Sum(i - 1) /\ all = Sum(i) /\ length = lengths[i] /\ at = laid[i]
          /\ rest = Pause /\ now = i * Pause
    OBVIOUS
  <2>5. /\ some \in Nat /\ length \in Nat /\ rest \in Nat /\ before \in Nat
        /\ all = some + length /\ at = some + before /\ now = before + rest
    BY <1>0, <2>1, <2>2, <2>3, <2>4
  <2>6. at \in Nat /\ at + length + rest = all + now
    BY <2>5
  <2> QED
    BY <2>4, <2>6
<1>9. ASSUME NEW i \in 1..m PROVE laid[i] + lengths[i] + Pause <= Encoded(lengths, 0)
  <2>1. Sum(i) \in Nat /\ Sum(i) <= Sum(m) /\ Sum(m) \in Nat
    BY <1>1, <1>2
  <2>2. PICK d : d \in Nat /\ m = i + d
    <3>1. m - i \in Nat /\ m = i + (m - i)
      BY <1>1
    <3> QED
      BY <3>1
  <2>3. m * Pause = i * Pause + d * Pause /\ i * Pause \in Nat /\ d * Pause \in Nat
    BY <1>0, <1>1, <2>2
  <2> QED
    BY <1>7, <1>8, <2>1, <2>3
<1>a. m > 0 => laid[1] = 0
  <2> SUFFICES ASSUME m > 0 PROVE laid[1] = 0
    OBVIOUS
  <2>1. 1 \in 1..m /\ 1 - 1 = 0 /\ 0 * Pause = 0
    BY <1>0, <1>1
  <2> QED
    BY <1>3, <1>6, <2>1
<1>b. ASSUME NEW i \in 1..(m - 1) PROVE laid[i + 1] = laid[i] + lengths[i] + Pause
  <2>1. i \in 1..m /\ i + 1 \in 1..m /\ (i + 1) - 1 = i
    BY <1>1
  <2> QED
    BY <1>6, <1>8, <2>1
<1> QED
  BY <1>1, <1>5, <1>6, <1>8, <1>9, <1>a, <1>b

\* The subtitles and the processor agree on where the parts start.
LEMMA PartsStartWhereLaid ==
  ASSUME NEW durations \in Seq(Nat)
  PROVE  PartBoundaryStarts(durations) = Laid(durations)
<1>1. PICK m, laid : /\ m = Len(durations) /\ m \in Nat /\ DOMAIN durations = 1..m
                     /\ laid = Laid(durations)
  OBVIOUS
<1>2. /\ DOMAIN laid = 1..m /\ laid = [p \in 1..m |-> laid[p]]
      /\ m > 0 => laid[1] = 0
      /\ \A p \in 1..(m - 1) : laid[p + 1] = laid[p] + durations[p] + Pause
  <2>1. laid = [p \in 1..m |-> laid[p]]
    BY <1>1 DEF Laid
  <2> QED
    BY <1>1, <2>1, LaidInOrder
<1> DEFINE Starts(f) == f = [p \in DOMAIN durations |-> IF p = 1 THEN 0 ELSE f[p - 1] + durations[p - 1] + Pause]
           starts == CHOOSE f : Starts(f)
<1>3. PartBoundaryStarts(durations) = starts
  BY Zenon DEF PartBoundaryStarts
<1>4. Starts(laid)
  <2>1. ASSUME NEW p \in 1..m
        PROVE  laid[p] = IF p = 1 THEN 0 ELSE laid[p - 1] + durations[p - 1] + Pause
    <3>1. CASE p = 1
      BY <1>1, <1>2, <3>1
    <3>2. CASE p # 1
      <4>1. p - 1 \in 1..(m - 1) /\ (p - 1) + 1 = p
        BY <1>1, <3>2
      <4>2. laid[(p - 1) + 1] = laid[p - 1] + durations[p - 1] + Pause
        BY <1>2, <4>1
      <4> QED
        BY <3>2, <4>1, <4>2
    <3> QED
      BY <3>1, <3>2
  <2> QED
    BY <1>1, <1>2, <2>1
<1>5. Starts(starts)
  <2> HIDE DEF Starts
  <2> QED
    BY <1>4
<1>6. DOMAIN starts = 1..m /\ starts = [p \in 1..m |-> starts[p]]
      /\ \A p \in 1..m : starts[p] = IF p = 1 THEN 0 ELSE starts[p - 1] + durations[p - 1] + Pause
  <2> HIDE DEF starts
  <2> QED
    BY <1>1, <1>5
<1> HIDE DEF starts
<1> DEFINE S == {p \in Nat : p \in 1..m => starts[p] = laid[p]}
<1>7. 0 \in S
  OBVIOUS
<1>8. ASSUME NEW p \in Nat, p \in S PROVE p + 1 \in S
  <2> SUFFICES ASSUME p + 1 \in 1..m PROVE starts[p + 1] = laid[p + 1]
    OBVIOUS
  <2>1. CASE p = 0
    <3>0. 1 \in 1..m /\ m > 0
      BY <1>1, <2>1
    <3>1. starts[1] = 0 /\ laid[1] = 0
      BY <1>2, <1>6, <3>0
    <3> QED
      BY <2>1, <3>1
  <2>2. CASE p > 0
    <3>1. p \in 1..(m - 1) /\ p \in 1..m /\ (p + 1) - 1 = p /\ p + 1 # 1
      BY <1>1, <2>2
    <3>2. starts[p] = laid[p]
      BY <1>8, <3>1
    <3>3. starts[p + 1] = starts[p] + durations[p] + Pause
      BY <1>6, <3>1
    <3> QED
      BY <1>2, <3>1, <3>2, <3>3
  <2> QED
    BY <2>1, <2>2
<1>9. S = Nat
  <2> HIDE DEF S
  <2>1. S \in SUBSET Nat
    BY DEF S
  <2> QED
    BY <1>7, <1>8, <2>1, SetInduction
<1>a. \A p \in 1..m : starts[p] = laid[p]
  BY <1>1, <1>9
<1> QED
  BY <1>1, <1>2, <1>3, <1>6, <1>a

At == [part : Nat, into : Nat, now : Nat]
Cue == [start : Nat, end : Nat]
Telling == [at : At, cues : Seq(Cue)]

\* What follows when the cue of segment i is told.
NextCue(s, sizes, starts, duration, told, i) ==
  LET at  == TurnPage(told.at, sizes, starts)
      end == CueEnd(at.now, s[i].length, duration)
  IN  [at   |-> [at EXCEPT !.into = @ + 1, !.now = end + Pause],
       cues |-> Append(told.cues, [start |-> at.now, end |-> end])]

CuesWalk(s, sizes, starts, duration, f) ==
  f = [i \in 0..Len(s) |->
         IF i = 0 THEN [at |-> [part |-> 1, into |-> 0, now |-> 0], cues |-> <<>>]
         ELSE NextCue(s, sizes, starts, duration, f[i - 1], i)]

\* The cue is put at the page that is open then.
PutAt(s, duration, at, told, next, i) ==
  LET end == CueEnd(at.now, s[i].length, duration) IN
  /\ at \in At /\ next \in Telling /\ Len(next.cues) = Len(told.cues) + 1
  /\ next.at.part = at.part /\ next.at.into = at.into + 1 /\ next.at.now = end + Pause
  /\ \A j \in 1..Len(told.cues) : next.cues[j] = told.cues[j]
  /\ next.cues[Len(told.cues) + 1] = [start |-> at.now, end |-> end]

LEMMA NextCueIs ==
  ASSUME NEW s \in Seq(Segment), NEW sizes \in Seq(Nat), NEW starts, NEW duration \in Nat,
         DOMAIN starts = 1..Len(sizes), \A p \in 1..Len(sizes) : starts[p] \in Nat,
         NEW told \in Telling, NEW i \in 1..Len(s),
         NEW next, next = NextCue(s, sizes, starts, duration, told, i)
  PROVE  PutAt(s, duration, TurnPage(told.at, sizes, starts), told, next, i)
<1>1. PICK at, old : /\ at = TurnPage(told.at, sizes, starts) /\ old = told.cues /\ old \in Seq(Cue)
                     /\ Len(old) \in Nat /\ DOMAIN old = 1..Len(old)
  <2>1. told.cues \in Seq(Cue)
    BY DEF Telling
  <2> QED
    BY <2>1
<1>2. at \in At /\ at.part \in Nat /\ at.into \in Nat /\ at.now \in Nat
  <2>1. told.at \in At
    BY DEF Telling
  <2>2. CASE told.at.part < Len(sizes) /\ told.at.into >= sizes[told.at.part]
    <3>1. told.at.part \in Nat /\ Len(sizes) \in Nat
      BY <2>1 DEF At
    <3>2. told.at.part + 1 \in 1..Len(sizes)
      BY <2>2, <3>1
    <3>3. at = [part |-> told.at.part + 1, into |-> 0, now |-> starts[told.at.part + 1]]
      BY <1>1, <2>2 DEF TurnPage
    <3>4. starts[told.at.part + 1] \in Nat /\ told.at.part + 1 \in Nat
      BY <3>1, <3>2
    <3> QED
      BY <3>3, <3>4 DEF At
  <2>3. CASE ~(told.at.part < Len(sizes) /\ told.at.into >= sizes[told.at.part])
    <3>1. at = told.at
      BY <1>1, <2>3 DEF TurnPage
    <3> QED
      BY <2>1, <3>1 DEF At
  <2> QED
    BY <2>2, <2>3
<1>3. PICK end : end = CueEnd(at.now, s[i].length, duration) /\ end \in Nat
  <2>1. s[i].length \in Nat
    BY SegmentsAreTyped
  <2> QED
    BY <1>2, <2>1 DEF CueEnd
<1>4. PICK cue : cue = [start |-> at.now, end |-> end] /\ cue \in Cue
  <2>1. PICK now : now = at.now /\ now \in Nat
    BY <1>2
  <2>2. [start |-> now, end |-> end] \in Cue
    BY <1>3, <2>1 DEF Cue
  <2> QED
    BY <2>1, <2>2
<1>5. PICK then : then = [at EXCEPT !.into = @ + 1, !.now = end + Pause]
  OBVIOUS
<1>6. then \in At /\ then.part = at.part /\ then.into = at.into + 1 /\ then.now = end + Pause
  <2>1. PICK into, now : into = at.into + 1 /\ now = end + Pause /\ into \in Nat /\ now \in Nat
    <3>1. at.into + 1 \in Nat
      BY <1>2
    <3>2. end + Pause \in Nat
      BY <1>3, MasteringAssumption
    <3> QED
      BY <3>1, <3>2
  <2>2. then = [at EXCEPT !.into = into, !.now = now]
    BY <1>5, <2>1
  <2> QED
    BY <1>2, <2>1, <2>2 DEF At
<1>7. PICK cues : cues = Append(old, cue)
  OBVIOUS
<1>8. /\ cues \in Seq(Cue) /\ Len(cues) = Len(old) + 1 /\ cues[Len(old) + 1] = cue
      /\ \A j \in 1..Len(old) : cues[j] = old[j]
  BY <1>1, <1>4, <1>7
<1>9. next = [at |-> then, cues |-> cues]
  BY <1>1, <1>3, <1>4, <1>5, <1>7, Zenon DEF NextCue
<1>a. next \in Telling /\ next.at = then /\ next.cues = cues
  BY <1>6, <1>8, <1>9 DEF Telling
<1> QED
  BY <1>1, <1>2, <1>3, <1>4, <1>6, <1>8, <1>a DEF PutAt

LEMMA CuesUnfold ==
  ASSUME NEW s \in Seq(Segment), NEW sizes \in Seq(Nat), NEW durations \in Seq(Nat), NEW duration \in Nat,
         Len(sizes) = Len(durations)
  PROVE  \E f : /\ CuesWalk(s, sizes, PartBoundaryStarts(durations), duration, f)
                /\ f \in [0..Len(s) -> Telling]
                /\ Cues(s, sizes, durations, duration) = f[Len(s)].cues
<1> DEFINE starts == PartBoundaryStarts(durations)
           told == CHOOSE f : CuesWalk(s, sizes, starts, duration, f)
<1>1. Cues(s, sizes, durations, duration) = told[Len(s)].cues
  BY Zenon DEF Cues, CuesWalk, NextCue
<1> HIDE DEF starts
<1>2. DOMAIN starts = 1..Len(sizes) /\ \A p \in 1..Len(sizes) : starts[p] \in Nat
  BY PartsStartWhereLaid, LaidInOrder DEF starts
<1>3. PICK D, F, first : /\ D = Telling
                         /\ F = [x \in D \X (1..Len(s)) |-> NextCue(s, sizes, starts, duration, x[1], x[2])]
                         /\ first = [at |-> [part |-> 1, into |-> 0, now |-> 0], cues |-> <<>>]
  OBVIOUS
<1>4. Len(s) \in Nat /\ first \in D
  <2>1. <<>> \in Seq(Cue) /\ [part |-> 1, into |-> 0, now |-> 0] \in At
    BY DEF At
  <2> QED
    BY <1>3, <2>1 DEF Telling
<1>5. ASSUME NEW x \in D, NEW i \in 1..Len(s) PROVE NextCue(s, sizes, starts, duration, x, i) \in D
  <2>1. PICK next : next = NextCue(s, sizes, starts, duration, x, i)
    OBVIOUS
  <2>2. PutAt(s, duration, TurnPage(x.at, sizes, starts), x, next, i)
    BY <1>2, <1>3, <2>1, NextCueIs
  <2> QED
    BY <1>3, <2>1, <2>2 DEF PutAt
<1>6. Leads(F, D, Len(s))
  <2>1. \A x \in D \X (1..Len(s)) : x[1] \in D /\ x[2] \in 1..Len(s)
    OBVIOUS
  <2>2. \A x \in D \X (1..Len(s)) : NextCue(s, sizes, starts, duration, x[1], x[2]) \in D
    BY <1>5, <2>1
  <2> QED
    BY <1>3, <2>2 DEF Leads
<1>7. PICK f : Recursion(f, F, first, D, Len(s))
  BY <1>4, <1>6, RecursionIsThere
<1>8. \A i \in 1..Len(s) : F[<<f[i - 1], i>>] = NextCue(s, sizes, starts, duration, f[i - 1], i)
  <2> SUFFICES ASSUME NEW i \in 1..Len(s)
               PROVE  F[<<f[i - 1], i>>] = NextCue(s, sizes, starts, duration, f[i - 1], i)
    OBVIOUS
  <2>1. f[i - 1] \in D
    <3>1. i - 1 \in 0..Len(s) /\ f \in [0..Len(s) -> D]
      BY <1>4, <1>7 DEF Recursion
    <3> QED
      BY <3>1
  <2> QED
    BY <1>3, <2>1
<1>9. \A i \in 0..Len(s) : i = 0 \/ i \in 1..Len(s)
  BY <1>4
<1>a. CuesWalk(s, sizes, starts, duration, f)
  BY <1>3, <1>7, <1>8, <1>9 DEF CuesWalk, Recursion
<1>b. CuesWalk(s, sizes, starts, duration, told)
  BY <1>a
<1> HIDE DEF told
<1>c. \A i \in 0..Len(s) : told[i] \in D
  <2> DEFINE S == {i \in Nat : i <= Len(s) => told[i] \in D}
  <2>1. 0 \in S
    BY <1>3, <1>4, <1>b DEF CuesWalk
  <2>2. ASSUME NEW i \in Nat, i \in S PROVE i + 1 \in S
    <3> SUFFICES ASSUME i + 1 <= Len(s) PROVE told[i + 1] \in D
      OBVIOUS
    <3>1. i + 1 \in 0..Len(s) /\ i + 1 # 0 /\ (i + 1) - 1 = i /\ i + 1 \in 1..Len(s) /\ told[i] \in D
      BY <1>4, <2>2
    <3>2. told[i + 1] = NextCue(s, sizes, starts, duration, told[i], i + 1)
      BY <1>b, <3>1 DEF CuesWalk
    <3> QED
      BY <1>5, <3>1, <3>2
  <2>3. S = Nat
    <3> HIDE DEF S
    <3>1. S \in SUBSET Nat
      BY DEF S
    <3> QED
      BY <2>1, <2>2, <3>1, SetInduction
  <2>4. ASSUME NEW i \in 0..Len(s) PROVE told[i] \in D
    <3>1. i \in Nat /\ i <= Len(s) /\ i \in S
      <4>1. i \in Nat /\ i <= Len(s)
        BY <1>4
      <4> HIDE DEF S
      <4> QED
        BY <2>3, <4>1
    <3> QED
      BY <3>1
  <2> QED
    BY <2>4
<1>d. told \in [0..Len(s) -> Telling]
  <2>1. told = [i \in 0..Len(s) |-> told[i]]
    BY <1>b, Zenon DEF CuesWalk
  <2> QED
    BY <1>3, <1>c, <2>1
<1> QED
  BY <1>1, <1>b, <1>d DEF starts

\* Where the voice of the n-th segment of part p starts.
StartAt(s, durations, p, n) == Laid(durations)[p] + Laid(LengthsOf(s, Groups(s)[p]))[n]

IsAt(groups, p, n, i) == p \in 1..Len(groups) /\ n \in 1..Len(groups[p]) /\ groups[p][n] = i

RightCue(cue, s, durations, p, n) ==
  /\ cue.start = StartAt(s, durations, p, n)
  /\ cue.end = StartAt(s, durations, p, n) + s[Groups(s)[p][n]].length

\* Told up to segment i, the last one told being the n-th of part p.
ToldUpTo(told, s, durations, i) ==
  /\ told \in Telling /\ Len(told.cues) = i
  /\ \A j \in 1..i : \A p, n \in Nat : IsAt(Groups(s), p, n, j) => RightCue(told.cues[j], s, durations, p, n)
  /\ i = 0 => told.at.part = 1 /\ told.at.into = 0 /\ told.at.now = 0
  /\ i > 0 => \E p, n \in Nat : /\ IsAt(Groups(s), p, n, i) /\ told.at.part = p /\ told.at.into = n
                                /\ told.at.now = StartAt(s, durations, p, n) + s[i].length + Pause

\* The parts of s as files: each has its segments, and is no shorter than they are.
FilesOf(s, sizes, durations, duration) ==
  /\ sizes \in Seq(Nat) /\ durations \in Seq(Nat) /\ duration \in Nat
  /\ Len(sizes) = Len(Groups(s)) /\ Len(durations) = Len(Groups(s))
  /\ \A p \in 1..Len(Groups(s)) : /\ sizes[p] = Len(Groups(s)[p])
                                  /\ durations[p] >= Encoded(LengthsOf(s, Groups(s)[p]), 0)
  /\ duration >= Encoded(durations, 0)

\* What is laid out in a part, for one place in it.
LEMMA PlaceInPart ==
  ASSUME NEW s \in Seq(Segment), NEW p \in Nat, NEW n \in Nat, NEW i, IsAt(Groups(s), p, n, i),
         NEW lengths, lengths = LengthsOf(s, Groups(s)[p])
  PROVE  /\ i \in 1..Len(s) /\ lengths \in Seq(Nat) /\ Len(lengths) = Len(Groups(s)[p])
         /\ lengths[n] = s[i].length /\ n \in 1..Len(lengths)
<1>1. Len(Groups(s)) \in Nat /\ p \in 1..Len(Groups(s)) /\ Cut(Groups(s), Len(s))
  BY GroupsAreCut DEF IsAt, Cut, Sized
<1>2. PICK group : /\ group = Groups(s)[p] /\ group \in Seq(Nat) /\ DOMAIN group = 1..Len(group)
                   /\ \A k \in DOMAIN group : group[k] \in 1..Len(s)
  BY <1>1, PartInputIsTyped
<1>3. n \in 1..Len(group) /\ group[n] = i /\ Len(group) \in Nat
  BY <1>2 DEF IsAt
<1>4. lengths \in Seq(Nat)
  BY <1>1, LengthsAreTyped
<1>5. lengths = [k \in 1..Len(group) |-> s[group[k]].length]
  BY <1>2 DEF LengthsOf
<1>6. Len(lengths) = Len(group) /\ lengths[n] = s[i].length
  BY <1>3, <1>4, <1>5
<1> QED
  BY <1>2, <1>3, <1>4, <1>6

\* A voice is over before its part is, and its part before the master.
LEMMA VoiceFits ==
  ASSUME NEW s \in Seq(Segment), NEW sizes, NEW durations, NEW duration, FilesOf(s, sizes, durations, duration),
         NEW p \in Nat, NEW n \in Nat, NEW i, IsAt(Groups(s), p, n, i)
  PROVE  /\ StartAt(s, durations, p, n) \in Nat /\ s[i].length \in Nat
         /\ StartAt(s, durations, p, n) + s[i].length <= duration
<1>0. PICK group : group = Groups(s)[p]
  OBVIOUS
<1>1. PICK lengths : lengths = LengthsOf(s, group)
  OBVIOUS
<1>2. /\ i \in 1..Len(s) /\ lengths \in Seq(Nat) /\ Len(lengths) = Len(group)
      /\ lengths[n] = s[i].length /\ n \in 1..Len(lengths)
  BY <1>0, <1>1, PlaceInPart
<1>3. s[i].length \in Nat
  BY <1>2, SegmentsAreTyped
<1>4. PICK into, whole : into = Laid(lengths)[n] /\ whole = Encoded(lengths, 0)
  OBVIOUS
<1>5. into \in Nat /\ into + lengths[n] + Pause <= whole /\ whole \in Nat
  <2>1. Encoded(lengths, 0) \in Nat
    BY <1>2, EncodedIsNatural
  <2> QED
    BY <1>2, <1>4, <2>1, LaidInOrder
<1>6. /\ p \in 1..Len(durations) /\ durations \in Seq(Nat) /\ durations[p] >= whole
      /\ duration \in Nat /\ duration >= Encoded(durations, 0)
  BY <1>0, <1>1, <1>4 DEF FilesOf, IsAt
<1>7. PICK start, all : start = Laid(durations)[p] /\ all = Encoded(durations, 0)
  OBVIOUS
<1>8. start \in Nat /\ start + durations[p] + Pause <= all /\ all \in Nat
  <2>1. Encoded(durations, 0) \in Nat
    BY <1>6, EncodedIsNatural
  <2> QED
    BY <1>6, <1>7, <2>1, LaidInOrder
<1>9. StartAt(s, durations, p, n) = start + into
  BY <1>0, <1>1, <1>4, <1>7 DEF StartAt
<1>a. Pause \in Nat /\ durations[p] \in Nat
  BY <1>6, MasteringAssumption
<1>b. PICK length, rest, part : /\ length = s[i].length /\ rest = Pause /\ part = durations[p]
                                /\ length \in Nat /\ rest \in Nat /\ part \in Nat
  BY <1>3, <1>a
<1>c. into + length + rest <= whole /\ whole <= part /\ start + part + rest <= all /\ all <= duration
  BY <1>2, <1>5, <1>6, <1>7, <1>8, <1>b
<1>d. start + into \in Nat /\ start + into + length <= duration
  <2>1. /\ start \in Nat /\ into \in Nat /\ length \in Nat /\ rest \in Nat
        /\ whole \in Nat /\ part \in Nat /\ all \in Nat /\ duration \in Nat
    BY <1>5, <1>6, <1>8, <1>b
  <2> QED
    BY <1>c, <2>1
<1> QED
  BY <1>9, <1>b, <1>d

\* The place of the next segment: in the same part, or at the start of the next one.
LEMMA NextPlace ==
  ASSUME NEW s \in Seq(Segment), NEW sizes, NEW durations, NEW duration, FilesOf(s, sizes, durations, duration),
         NEW p \in Nat, NEW n \in Nat, NEW i \in Nat, IsAt(Groups(s), p, n, i), i < Len(s)
  PROVE  \/ /\ n < sizes[p] /\ IsAt(Groups(s), p, n + 1, i + 1)
            /\ StartAt(s, durations, p, n + 1) = StartAt(s, durations, p, n) + s[i].length + Pause
         \/ /\ n = sizes[p] /\ p < Len(sizes) /\ IsAt(Groups(s), p + 1, 1, i + 1)
            /\ StartAt(s, durations, p + 1, 1) = Laid(durations)[p + 1]
<1>1. PICK groups : groups = Groups(s) /\ Cut(groups, Len(s))
  BY GroupsAreCut
<1>2. /\ Len(groups) \in Nat /\ \A q \in 1..Len(groups) : Len(groups[q]) \in Nat /\ Len(groups[q]) > 0
      /\ p \in 1..Len(groups) /\ n \in 1..Len(groups[p]) /\ groups[p][n] = i
  BY <1>1 DEF Cut, Sized, IsAt
<1>3. /\ \A q \in 1..Len(groups) : \A k \in 1..(Len(groups[q]) - 1) : groups[q][k + 1] = groups[q][k] + 1
      /\ \A q \in 1..(Len(groups) - 1) : groups[q + 1][1] = groups[q][Len(groups[q])] + 1
  BY <1>1 DEF Cut, InOrder
<1>4. Len(sizes) = Len(groups) /\ sizes[p] = Len(groups[p]) /\ Len(durations) = Len(groups)
  BY <1>1, <1>2 DEF FilesOf
<1>5. CASE n < Len(groups[p])
  <2>1. n \in 1..(Len(groups[p]) - 1) /\ n + 1 \in 1..Len(groups[p])
    BY <1>2, <1>5
  <2>2. groups[p][n + 1] = i + 1
    BY <1>2, <1>3, <2>1
  <2>3. PICK lengths : lengths = LengthsOf(s, groups[p])
    OBVIOUS
  <2>4. lengths \in Seq(Nat) /\ Len(lengths) = Len(groups[p]) /\ lengths[n] = s[i].length
    BY <1>1, <2>3, PlaceInPart
  <2>5. PICK into, next : into = Laid(lengths)[n] /\ next = Laid(lengths)[n + 1]
    OBVIOUS
  <2>6. next = into + lengths[n] + Pause /\ into \in Nat
    BY <1>2, <2>1, <2>4, <2>5, LaidInOrder
  <2>7. Laid(durations)[p] \in Nat
    BY <1>2, <1>4, LaidInOrder DEF FilesOf
  <2>8. s[i].length \in Nat /\ Pause \in Nat
    BY VoiceFits, MasteringAssumption
  <2>9. PICK start : start = Laid(durations)[p] /\ start \in Nat
    BY <2>7
  <2>a. StartAt(s, durations, p, n) = start + into /\ StartAt(s, durations, p, n + 1) = start + next
    BY <1>1, <2>3, <2>5, <2>9 DEF StartAt
  <2>b. StartAt(s, durations, p, n + 1) = StartAt(s, durations, p, n) + s[i].length + Pause
    <3>1. PICK length, rest : length = s[i].length /\ rest = Pause /\ length \in Nat /\ rest \in Nat
      BY <2>8
    <3>2. next = into + length + rest
      BY <2>4, <2>6, <3>1
    <3>3. start + next = (start + into) + length + rest
      <4>1. start \in Nat /\ into \in Nat /\ length \in Nat /\ rest \in Nat
        BY <2>6, <2>9, <3>1
      <4> QED
        BY <3>2, <4>1
    <3> QED
      BY <2>a, <3>1, <3>3
  <2>c. IsAt(Groups(s), p, n + 1, i + 1)
    BY <1>1, <1>2, <2>1, <2>2 DEF IsAt
  <2> QED
    BY <1>4, <1>5, <2>b, <2>c
<1>6. CASE ~(n < Len(groups[p]))
  <2>1. n = Len(groups[p])
    BY <1>2, <1>6
  <2>2. p < Len(groups)
    <3> SUFFICES ASSUME p = Len(groups) PROVE FALSE
      BY <1>2
    <3>1. Len(s) > 0
      OBVIOUS
    <3>2. groups[Len(groups)][Len(groups[Len(groups)])] = Len(s)
      BY <1>1, <3>1 DEF Cut
    <3> QED
      BY <1>2, <2>1, <3>2
  <2>3. p \in 1..(Len(groups) - 1) /\ p + 1 \in 1..Len(groups)
    BY <1>2, <2>2
  <2>4. groups[p + 1][1] = i + 1 /\ 1 \in 1..Len(groups[p + 1])
    BY <1>2, <1>3, <2>1, <2>3
  <2>5. IsAt(Groups(s), p + 1, 1, i + 1)
    BY <1>1, <2>3, <2>4 DEF IsAt
  <2>6. PICK lengths : lengths = LengthsOf(s, groups[p + 1])
    OBVIOUS
  <2>7. lengths \in Seq(Nat) /\ Len(lengths) = Len(groups[p + 1]) /\ Len(lengths) > 0
    <3>1. lengths \in Seq(Nat) /\ Len(lengths) = Len(groups[p + 1])
      BY <1>1, <2>5, <2>6, PlaceInPart
    <3> QED
      BY <1>2, <2>3, <3>1
  <2>8. Laid(lengths)[1] = 0
    BY <2>7, LaidInOrder
  <2>9. Laid(durations)[p + 1] \in Nat
    BY <1>4, <2>3, LaidInOrder DEF FilesOf
  <2>a. PICK start : start = Laid(durations)[p + 1] /\ start \in Nat
    BY <2>9
  <2>b. StartAt(s, durations, p + 1, 1) = start + 0
    BY <1>1, <2>6, <2>8, <2>a DEF StartAt
  <2> QED
    BY <1>4, <2>1, <2>2, <2>5, <2>a, <2>b
<1> QED
  BY <1>5, <1>6

\* The page that is open when the cue of segment i is put: its part, and where it starts.
LEMMA PageIsRight ==
  ASSUME NEW s \in Seq(Segment), NEW sizes, NEW durations, NEW duration, FilesOf(s, sizes, durations, duration),
         NEW i \in Nat, i < Len(s), NEW told, ToldUpTo(told, s, durations, i),
         NEW at, at = TurnPage(told.at, sizes, Laid(durations))
  PROVE  \E p, n \in Nat : /\ IsAt(Groups(s), p, n, i + 1) /\ at.part = p /\ at.into + 1 = n
                           /\ at.now = StartAt(s, durations, p, n)
<1>0. told.at \in At /\ told.at.part \in Nat /\ told.at.into \in Nat /\ told.at.now \in Nat
  <2>1. told.at \in At
    BY DEF ToldUpTo, Telling
  <2> QED
    BY <2>1 DEF At
<1>1. CASE i = 0
  <2>1. told.at.part = 1 /\ told.at.into = 0 /\ told.at.now = 0
    BY <1>1 DEF ToldUpTo
  <2>2. PICK groups : groups = Groups(s) /\ Cut(groups, Len(s)) /\ Len(s) > 0
    BY <1>1, GroupsAreCut
  <2>3. Len(groups) \in Nat /\ Len(groups) > 0 /\ groups[1][1] = 1 /\ Len(groups[1]) \in Nat /\ Len(groups[1]) > 0
    BY <2>2 DEF Cut, Sized
  <2>4. sizes[1] = Len(groups[1]) /\ Len(durations) = Len(groups) /\ durations \in Seq(Nat)
    BY <2>2, <2>3 DEF FilesOf
  <2>5. IsAt(Groups(s), 1, 1, i + 1)
    BY <1>1, <2>2, <2>3 DEF IsAt
  <2>6. ~(told.at.into >= sizes[told.at.part])
    BY <2>1, <2>3, <2>4
  <2>7. at = told.at
    BY <2>6 DEF TurnPage
  <2>8. Laid(durations)[1] = 0
    BY <2>3, <2>4, LaidInOrder
  <2>9. PICK lengths : lengths = LengthsOf(s, groups[1])
    OBVIOUS
  <2>a. Laid(lengths)[1] = 0
    <3>1. lengths \in Seq(Nat) /\ Len(lengths) = Len(groups[1])
      BY <2>2, <2>5, <2>9, PlaceInPart
    <3> QED
      BY <2>3, <3>1, LaidInOrder
  <2>b. StartAt(s, durations, 1, 1) = 0
    BY <2>2, <2>8, <2>9, <2>a DEF StartAt
  <2> QED
    BY <2>1, <2>5, <2>7, <2>b
<1>2. CASE i > 0
  <2>1. PICK p, n \in Nat : /\ IsAt(Groups(s), p, n, i) /\ told.at.part = p /\ told.at.into = n
                            /\ told.at.now = StartAt(s, durations, p, n) + s[i].length + Pause
    BY <1>2 DEF ToldUpTo
  <2>2. Len(sizes) \in Nat
    BY DEF FilesOf
  <2>3. CASE /\ n < sizes[p] /\ IsAt(Groups(s), p, n + 1, i + 1)
             /\ StartAt(s, durations, p, n + 1) = StartAt(s, durations, p, n) + s[i].length + Pause
    <3>1. sizes[p] \in Nat
      <4>1. p \in 1..Len(Groups(s))
        BY <2>1 DEF IsAt
      <4>2. sizes \in Seq(Nat) /\ Len(sizes) = Len(Groups(s))
        BY DEF FilesOf
      <4> QED
        BY <4>1, <4>2
    <3>2. ~(told.at.into >= sizes[told.at.part])
      BY <2>1, <2>3, <3>1
    <3>3. at = told.at
      BY <3>2 DEF TurnPage
    <3>4. at.part = p /\ at.into + 1 = n + 1 /\ at.now = StartAt(s, durations, p, n + 1) /\ n + 1 \in Nat
      BY <2>1, <2>3, <3>3
    <3> QED
      BY <2>1, <2>3, <3>4
  <2>4. CASE /\ n = sizes[p] /\ p < Len(sizes) /\ IsAt(Groups(s), p + 1, 1, i + 1)
             /\ StartAt(s, durations, p + 1, 1) = Laid(durations)[p + 1]
    <3>1. told.at.part < Len(sizes) /\ told.at.into >= sizes[told.at.part]
      BY <2>1, <2>4
    <3>2. at = [part |-> told.at.part + 1, into |-> 0, now |-> Laid(durations)[told.at.part + 1]]
      BY <3>1 DEF TurnPage
    <3>3. at.part = p + 1 /\ at.into + 1 = 1 /\ at.now = StartAt(s, durations, p + 1, 1) /\ p + 1 \in Nat
      BY <2>1, <2>4, <3>2
    <3> QED
      BY <2>4, <3>3
  <2> QED
    BY <2>1, <2>3, <2>4, NextPlace
<1> QED
  BY <1>1, <1>2

LEMMA TellingGoesOn ==
  ASSUME NEW s \in Seq(Segment), NEW sizes, NEW durations, NEW duration, FilesOf(s, sizes, durations, duration),
         NEW i \in Nat, i < Len(s), NEW told, ToldUpTo(told, s, durations, i),
         NEW next, next = NextCue(s, sizes, Laid(durations), duration, told, i + 1)
  PROVE  ToldUpTo(next, s, durations, i + 1)
<1>1. PICK at, starts : at = TurnPage(told.at, sizes, Laid(durations)) /\ starts = Laid(durations)
  OBVIOUS
<1>2. PICK p, n \in Nat : /\ IsAt(Groups(s), p, n, i + 1) /\ at.part = p /\ at.into + 1 = n
                          /\ at.now = StartAt(s, durations, p, n)
  BY <1>1, PageIsRight
<1>3. PutAt(s, duration, at, told, next, i + 1)
  <2>1. /\ sizes \in Seq(Nat) /\ durations \in Seq(Nat) /\ duration \in Nat /\ Len(sizes) = Len(durations)
    BY DEF FilesOf
  <2>2. DOMAIN starts = 1..Len(sizes) /\ \A q \in 1..Len(sizes) : starts[q] \in Nat
    BY <1>1, <2>1, LaidInOrder
  <2>3. told \in Telling /\ i + 1 \in 1..Len(s)
    BY DEF ToldUpTo
  <2> QED
    BY <1>1, <2>1, <2>2, <2>3, NextCueIs
<1>4. PICK start, length, end :
        start = StartAt(s, durations, p, n) /\ length = s[i + 1].length /\ end = CueEnd(at.now, length, duration)
  OBVIOUS
<1>5. start \in Nat /\ length \in Nat /\ start + length <= duration /\ duration \in Nat
  BY <1>2, <1>4, VoiceFits DEF FilesOf
<1>6. end = start + length
  BY <1>2, <1>4, <1>5 DEF CueEnd
<1>7. /\ next \in Telling /\ Len(next.cues) = Len(told.cues) + 1
      /\ next.at.part = at.part /\ next.at.into = at.into + 1 /\ next.at.now = end + Pause
      /\ \A j \in 1..Len(told.cues) : next.cues[j] = told.cues[j]
      /\ next.cues[Len(told.cues) + 1] = [start |-> at.now, end |-> end]
  BY <1>3, <1>4 DEF PutAt
<1>8. Len(told.cues) = i
  BY DEF ToldUpTo
<1>9. ASSUME NEW j \in 1..(i + 1), NEW q \in Nat, NEW k \in Nat, IsAt(Groups(s), q, k, j)
      PROVE  RightCue(next.cues[j], s, durations, q, k)
  <2>1. CASE j = i + 1
    <3>1. q = p /\ k = n
      <4>1. PICK groups : groups = Groups(s) /\ Once(groups)
        BY GroupsAreCut DEF Cut
      <4>2. /\ p \in 1..Len(groups) /\ n \in 1..Len(groups[p]) /\ groups[p][n] = i + 1
            /\ q \in 1..Len(groups) /\ k \in 1..Len(groups[q]) /\ groups[q][k] = i + 1
        BY <1>2, <1>9, <2>1, <4>1 DEF IsAt
      <4> QED
        BY <4>1, <4>2 DEF Once
    <3>2. next.cues[j].start = start /\ next.cues[j].end = start + length
      BY <1>2, <1>4, <1>6, <1>7, <1>8, <2>1
    <3>3. Groups(s)[p][n] = i + 1
      BY <1>2 DEF IsAt
    <3> QED
      BY <1>4, <3>1, <3>2, <3>3 DEF RightCue
  <2>2. CASE j # i + 1
    <3>1. j \in 1..i
      BY <2>2
    <3>2. next.cues[j] = told.cues[j]
      BY <1>7, <1>8, <3>1
    <3> QED
      BY <1>9, <3>1, <3>2 DEF ToldUpTo
  <2> QED
    BY <2>1, <2>2
<1>a. /\ IsAt(Groups(s), p, n, i + 1) /\ next.at.part = p /\ next.at.into = n
      /\ next.at.now = StartAt(s, durations, p, n) + s[i + 1].length + Pause
  BY <1>2, <1>4, <1>6, <1>7
<1>b. i + 1 > 0 /\ i + 1 # 0
  OBVIOUS
<1> QED
  BY <1>7, <1>8, <1>9, <1>a, <1>b DEF ToldUpTo

CuesRight(cues, s, durations) ==
  /\ Len(cues) = Len(s) /\ cues \in Seq(Cue)
  /\ \A j \in 1..Len(s) : \A p, n \in Nat : IsAt(Groups(s), p, n, j) => RightCue(cues[j], s, durations, p, n)

\* By induction over the segments: the subtitles are along the voice.
LEMMA CuesAreRight ==
  ASSUME NEW s \in Seq(Segment), NEW sizes, NEW durations, NEW duration, FilesOf(s, sizes, durations, duration)
  PROVE  CuesRight(Cues(s, sizes, durations, duration), s, durations)
<1>1. PICK f : /\ CuesWalk(s, sizes, PartBoundaryStarts(durations), duration, f)
               /\ f \in [0..Len(s) -> Telling]
               /\ Cues(s, sizes, durations, duration) = f[Len(s)].cues
  BY CuesUnfold DEF FilesOf
<1>2. CuesWalk(s, sizes, Laid(durations), duration, f)
  BY <1>1, PartsStartWhereLaid DEF FilesOf
<1>3. Len(s) \in Nat
  OBVIOUS
<1> DEFINE S == {i \in Nat : i <= Len(s) => ToldUpTo(f[i], s, durations, i)}
<1>4. 0 \in S
  <2>1. f[0] = [at |-> [part |-> 1, into |-> 0, now |-> 0], cues |-> <<>>] /\ f[0] \in Telling
    <3>1. 0 \in 0..Len(s)
      BY <1>3
    <3>2. f[0] \in Telling
      BY <1>1, <3>1
    <3>3. f[0] = [at |-> [part |-> 1, into |-> 0, now |-> 0], cues |-> <<>>]
      BY <1>2, <3>1 DEF CuesWalk
    <3> QED
      BY <3>2, <3>3
  <2>2. PICK told : told = f[0]
    OBVIOUS
  <2>3. told \in Telling /\ told.at.part = 1 /\ told.at.into = 0 /\ told.at.now = 0 /\ Len(told.cues) = 0
    BY <2>1, <2>2
  <2>4. ToldUpTo(told, s, durations, 0)
    BY <2>3 DEF ToldUpTo
  <2> QED
    BY <2>2, <2>4
<1>5. ASSUME NEW i \in Nat, i \in S PROVE i + 1 \in S
  <2> SUFFICES ASSUME i + 1 <= Len(s) PROVE ToldUpTo(f[i + 1], s, durations, i + 1)
    OBVIOUS
  <2>1. i + 1 \in 0..Len(s) /\ i + 1 # 0 /\ (i + 1) - 1 = i /\ i < Len(s) /\ ToldUpTo(f[i], s, durations, i)
    BY <1>3, <1>5
  <2>2. f[i + 1] = NextCue(s, sizes, Laid(durations), duration, f[i], i + 1)
    BY <1>2, <2>1 DEF CuesWalk
  <2> QED
    BY <2>1, <2>2, TellingGoesOn
<1>6. S = Nat
  <2> HIDE DEF S
  <2>1. S \in SUBSET Nat
    BY DEF S
  <2> QED
    BY <1>4, <1>5, <2>1, SetInduction
<1>7. ToldUpTo(f[Len(s)], s, durations, Len(s))
  BY <1>3, <1>6
<1>8. f[Len(s)].cues \in Seq(Cue)
  BY <1>7 DEF ToldUpTo, Telling
<1> QED
  BY <1>1, <1>7, <1>8 DEF ToldUpTo, CuesRight


IsOf(group, s) == \A k \in DOMAIN group : group[k] \in 1..Len(s)

\* The input of a part tells its segments, and their audio, which has its length.
LEMMA InputTells ==
  ASSUME NEW t, NEW s, Renews(t, s), NEW g \in Seq(Nat), NEW h \in Seq(Nat),
         IsOf(h, s), PartInput(t, g) = PartInput(s, h)
  PROVE  /\ g = h /\ LengthsOf(t, g) = LengthsOf(s, h)
         /\ \A k \in DOMAIN h : t[h[k]].length = s[h[k]].length
<1>1. PICK a, b : /\ a = PartInput(t, g) /\ b = PartInput(s, h) /\ a = b
                  /\ a = [k \in DOMAIN g |-> <<g[k], t[g[k]].version>>]
                  /\ b = [k \in DOMAIN h |-> <<h[k], s[h[k]].version>>]
  BY DEF PartInput
<1>2. DOMAIN g = DOMAIN h
  <2>1. DOMAIN a = DOMAIN g /\ DOMAIN b = DOMAIN h
    BY <1>1
  <2> QED
    BY <1>1, <2>1
<1>3. ASSUME NEW k \in DOMAIN h PROVE g[k] = h[k] /\ t[h[k]].version = s[h[k]].version
  <2>1. a[k] = <<g[k], t[g[k]].version>> /\ b[k] = <<h[k], s[h[k]].version>>
    BY <1>1, <1>2
  <2>2. <<g[k], t[g[k]].version>> = <<h[k], s[h[k]].version>>
    BY <1>1, <2>1
  <2>3. g[k] = h[k]
    BY <2>2
  <2> QED
    BY <2>2, <2>3
<1>4. g = h
  BY <1>2, <1>3
<1>5. \A k \in DOMAIN h : t[h[k]].length = s[h[k]].length
  BY <1>3 DEF Renews, IsOf
<1>6. [k \in DOMAIN h |-> t[h[k]].length] = [k \in DOMAIN h |-> s[h[k]].length]
  BY <1>5
<1> QED
  BY <1>4, <1>5, <1>6 DEF LengthsOf

\* The files of a pass that has all its parts are those of its segments.
LEMMA PassHasFiles ==
  ASSUME PartsInv, pass # NoPass, Len(pass.used) = Len(Grouped),
         NEW duration \in Nat, duration >= Encoded(PartDurations, 0)
  PROVE  FilesOf(pass.script, PartSizes, PartDurations, duration)
<1>1. PICK s, parts, used, groups :
        /\ s = pass.script /\ parts = pass.parts /\ used = pass.used /\ groups = Groups(s)
        /\ s \in Seq(Segment) /\ used \in Seq(Nat) /\ Len(used) \in Nat /\ DOMAIN used = 1..Len(used)
  BY PassIsTyped
<1>2. PartsFor(parts, s) /\ MadeOf(used, parts, s) /\ Len(used) = Len(groups)
  BY <1>1 DEF PartsInv, PassFollows, Grouped
<1>3. PICK durations, sizes :
        /\ durations = PartDurations /\ durations = [n \in DOMAIN used |-> parts[used[n]].duration]
        /\ sizes = PartSizes /\ sizes = [n \in DOMAIN used |-> Len(parts[used[n]].input)]
        /\ durations \in Seq(Nat)
  BY <1>1, DurationsAreTyped DEF PartDurations, PartSizes
<1>4. ASSUME NEW p \in 1..Len(groups)
      PROVE  /\ sizes[p] = Len(groups[p]) /\ sizes[p] \in Nat
             /\ durations[p] >= Encoded(LengthsOf(s, groups[p]), 0)
  <2>1. PICK part, group : part = parts[used[p]] /\ group = groups[p] /\ used[p] \in DOMAIN parts
    BY <1>1, <1>2 DEF MadeOf
  <2>2. part.input = PartInput(s, group)
    BY <1>1, <1>2, <2>1 DEF MadeOf
  <2>3. /\ group \in Seq(Nat) /\ DOMAIN group = 1..Len(group) /\ Len(group) \in Nat
        /\ \A k \in DOMAIN group : group[k] \in 1..Len(s)
    <3>1. p \in 1..Len(Groups(s))
      BY <1>1
    <3>2. /\ Groups(s)[p] \in Seq(Nat) /\ DOMAIN Groups(s)[p] = 1..Len(Groups(s)[p])
          /\ \A k \in DOMAIN Groups(s)[p] : Groups(s)[p][k] \in 1..Len(s)
      BY <1>1, <3>1, PartInputIsTyped
    <3>3. group = Groups(s)[p]
      BY <1>1, <2>1
    <3>4. group \in Seq(Nat) => Len(group) \in Nat
      OBVIOUS
    <3> QED
      BY <3>2, <3>3, <3>4
  <2>4. Len(PartInput(s, group)) = Len(group)
    <3>1. DOMAIN PartInput(s, group) = 1..Len(group)
      BY <2>3 DEF PartInput
    <3>2. PartInput(s, group) \in Seq(Nat \X Nat)
      BY <1>1, <2>1, PartInputIsTyped
    <3> QED
      BY <2>3, <3>1, <3>2
  <2>5. sizes[p] = Len(part.input) /\ durations[p] = part.duration
    BY <1>1, <1>2, <1>3, <2>1
  <2>6. MadeOn(part, s)
    BY <1>2, <2>1 DEF PartsFor
  <2>7. PICK t : /\ Renews(t, s)
                 /\ \E n \in 1..Len(Groups(t)) :
                      /\ part.input = PartInput(t, Groups(t)[n])
                      /\ part.duration >= Encoded(LengthsOf(t, Groups(t)[n]), 0)
    BY <2>6 DEF MadeOn
  <2>8. PICK n \in 1..Len(Groups(t)) : /\ part.input = PartInput(t, Groups(t)[n])
                                       /\ part.duration >= Encoded(LengthsOf(t, Groups(t)[n]), 0)
    BY <2>7
  <2>9. PICK old : old = Groups(t)[n] /\ old \in Seq(Nat)
    BY <2>7, PartInputIsTyped DEF Renews
  <2>a. PartInput(t, old) = PartInput(s, group)
    BY <2>2, <2>8, <2>9
  <2>b. LengthsOf(t, old) = LengthsOf(s, group)
    <3>1. IsOf(group, s)
      BY <2>3 DEF IsOf
    <3> QED
      BY <2>3, <2>7, <2>9, <2>a, <3>1, InputTells
  <2>c. part.duration >= Encoded(LengthsOf(s, group), 0)
    BY <2>8, <2>9, <2>b
  <2> QED
    BY <2>1, <2>2, <2>3, <2>4, <2>5, <2>c
<1>5. DOMAIN sizes = 1..Len(groups) /\ DOMAIN durations = 1..Len(groups) /\ Len(groups) \in Nat
  BY <1>1, <1>2, <1>3
<1>6. sizes \in Seq(Nat) /\ Len(sizes) = Len(groups) /\ Len(durations) = Len(groups)
  <2>1. sizes = [p \in 1..Len(groups) |-> sizes[p]]
    BY <1>1, <1>2, <1>3
  <2>2. sizes \in [1..Len(groups) -> Nat]
    BY <1>4, <2>1
  <2> QED
    BY <1>3, <1>5, <2>2
<1>7. duration >= Encoded(durations, 0)
  BY <1>3
<1>8. FilesOf(s, sizes, durations, duration)
  BY <1>1, <1>3, <1>4, <1>6, <1>7 DEF FilesOf
<1> QED
  BY <1>1, <1>3, <1>8

DurationsOf(used, parts) == [n \in DOMAIN used |-> parts[used[n]].duration]

\* The subtitles kept are along these parts, which are what s is cut into.
ToldOf(used, parts, cues, s) ==
  /\ Len(used) = Len(Groups(s)) /\ MadeOf(used, parts, s)
  /\ CuesRight(cues, s, DurationsOf(used, parts))

\* The subtitles are of the last final master, whatever the plan has become since.
LastIsTold ==
  kept.finals # <<>> =>
    \E s : Renews(s, script) /\ ToldOf(Last(kept.finals).parts, kept.parts, kept.cues, s)

CuesInv == PartsInv /\ LastIsTold

\* The steps that leave the last final master and the subtitles.
LEMMA LastStaysTold ==
  ASSUME LastIsTold, Renews(script, script'), kept'.finals = kept.finals, kept'.cues = kept.cues,
         \A p \in DOMAIN kept.parts : p \in DOMAIN kept'.parts /\ kept'.parts[p] = kept.parts[p]
  PROVE  LastIsTold'
<1> SUFFICES ASSUME kept.finals # <<>>
             PROVE  \E s : /\ Renews(s, script')
                           /\ ToldOf(Last(kept.finals).parts, kept'.parts, kept.cues, s)
  BY DEF LastIsTold
<1>1. PICK used, parts, more, cues :
        used = Last(kept.finals).parts /\ parts = kept.parts /\ more = kept'.parts /\ cues = kept.cues
  OBVIOUS
<1>2. PICK s : Renews(s, script) /\ ToldOf(used, parts, cues, s)
  BY <1>1 DEF LastIsTold
<1>3. Renews(s, script')
  BY <1>2, RenewsAgain
<1>4. MadeOf(used, parts, s) /\ \A n \in DOMAIN used : used[n] \in DOMAIN parts /\ more[used[n]] = parts[used[n]]
  BY <1>1, <1>2 DEF ToldOf, MadeOf
<1>5. MadeOf(used, more, s)
  BY <1>1, <1>4 DEF MadeOf
<1>6. DurationsOf(used, more) = DurationsOf(used, parts)
  BY <1>4 DEF DurationsOf
<1>7. ToldOf(used, more, cues, s)
  BY <1>2, <1>5, <1>6 DEF ToldOf
<1> QED
  BY <1>1, <1>3, <1>7

LEMMA ConcatFinalTells ==
  ASSUME PartsInv, ConcatFinal
  PROVE  LastIsTold'
<1>0. pass # NoPass /\ Len(pass.used) = Len(Grouped)
  BY DEF ConcatFinal
<1>1. PICK s, parts, used, whole : ConcatLeaves(s, parts, used, whole)
  BY ConcatIs
<1>2. PICK old : /\ old = pass.parts /\ old \in Seq(Part) /\ parts = Superseding(old, ToSet(used))
                 /\ MadeOf(used, old, s) /\ Len(used) = Len(Groups(s)) /\ s \in Seq(Segment)
  BY <1>0, <1>1, PassIsTyped DEF ConcatLeaves, PartsInv, PassFollows, Grouped
<1>3. \A p \in DOMAIN old : /\ p \in DOMAIN parts /\ parts[p].input = old[p].input
                            /\ parts[p].duration = old[p].duration
  BY <1>2, SupersedingParts
<1>4. MadeOf(used, parts, s)
  BY <1>2, <1>3 DEF MadeOf
<1>5. PartDurations = DurationsOf(used, parts)
  <2>1. \A n \in DOMAIN used : old[used[n]].duration = parts[used[n]].duration
    BY <1>2, <1>3 DEF MadeOf
  <2>2. PartDurations = [n \in DOMAIN used |-> old[used[n]].duration]
    BY <1>1, <1>2 DEF PartDurations, ConcatLeaves
  <2> QED
    BY <2>1, <2>2 DEF DurationsOf
<1>6. PICK padding \in Padding : kept'.cues = Subtitles(Encoded(PartDurations, padding))
  BY DEF ConcatFinal
<1>7. PICK duration : /\ duration = Encoded(PartDurations, padding) /\ duration \in Nat
                      /\ duration >= Encoded(PartDurations, 0)
  <2>1. padding \in Nat /\ PartDurations \in Seq(Nat)
    BY <1>0, DurationsAreTyped, MasteringAssumption
  <2>2. PICK least : least = Encoded(PartDurations, 0) /\ least \in Nat /\ Encoded(PartDurations, padding) = least + padding
    BY <2>1, EncodedIsNatural
  <2> QED
    BY <2>1, <2>2
<1>8. CuesRight(Cues(s, PartSizes, PartDurations, duration), s, PartDurations)
  <2>1. FilesOf(s, PartSizes, PartDurations, duration)
    BY <1>0, <1>1, <1>7, PassHasFiles DEF ConcatLeaves
  <2> QED
    BY <1>2, <2>1, CuesAreRight
<1>9. kept'.cues = Cues(s, PartSizes, PartDurations, duration)
  BY <1>1, <1>6, <1>7 DEF Subtitles, ConcatLeaves
<1>a. ToldOf(used, parts, kept'.cues, s)
  BY <1>2, <1>4, <1>5, <1>8, <1>9 DEF ToldOf
<1>b. Last(kept'.finals).parts = used
  <2>1. /\ Len(kept'.finals) = Len(kept.finals) + 1
        /\ kept'.finals[Len(kept.finals) + 1] = MasterWrite(used, whole)
    BY <1>1 DEF ConcatLeaves
  <2>2. MasterWrite(used, whole).parts = used
    BY DEF MasterWrite
  <2> QED
    BY <2>1, <2>2 DEF Last
<1>c. Renews(s, script') /\ kept'.parts = parts
  BY <1>1, <1>2, RenewsItself DEF ConcatLeaves
<1> QED
  BY <1>a, <1>b, <1>c DEF LastIsTold

LEMMA MasteringInitCues ==
  ASSUME MasteringInit
  PROVE  CuesInv
<1>1. kept.finals = <<>>
  BY DEF MasteringInit
<1> QED
  BY <1>1, MasteringInitParts DEF CuesInv, LastIsTold

LEMMA MasteringStepCues ==
  ASSUME CuesInv, [MasteringNext]_masteringVars
  PROVE  CuesInv'
<1>1. PartsInv /\ PartsInv' /\ LastIsTold
  BY MasteringStepParts DEF CuesInv
<1>2. Renews(script, script)
  BY <1>1, RenewsItself DEF PartsInv, MasteringTypeOK
<1>3. CASE UNCHANGED <<script, kept>>
  <2>1. script' = script /\ kept' = kept
    BY <1>3
  <2> QED
    BY <1>1, <1>2, <2>1, LastStaysTold DEF CuesInv
<1>4. CASE \E i \in DOMAIN script : JobSynthesizes(i)
  <2>1. PICK i \in DOMAIN script : JobSynthesizes(i)
    BY <1>4
  <2>2. Renews(script, script') /\ kept' = kept
    <3>1. PICK length \in Lengths : script' = Resynthesized(script, {i}, [j \in {i} |-> length])
      BY <2>1 DEF JobSynthesizes
    <3>2. \A j \in {i} : [k \in {i} |-> length][j] \in Nat
      BY MasteringAssumption
    <3>3. script \in Seq(Segment)
      BY <1>1 DEF PartsInv, MasteringTypeOK
    <3> QED
      BY <2>1, <3>1, <3>2, <3>3, ResynthesizedRenews DEF JobSynthesizes
  <2> QED
    BY <1>1, <2>2, LastStaysTold DEF CuesInv
<1>5. CASE ReuseFinal
  <2>1. pass # NoPass /\ script' = pass.script /\ kept' = [kept EXCEPT !.parts = pass.parts]
    BY <1>5 DEF ReuseFinal
  <2>2. /\ Renews(script, pass.script) /\ Len(kept.parts) <= Len(pass.parts)
        /\ \A p \in DOMAIN kept.parts : pass.parts[p] = kept.parts[p]
    BY <1>1, <2>1 DEF PartsInv, PassFollows
  <2>3. \A p \in DOMAIN kept.parts : p \in DOMAIN pass.parts
    BY <1>1, <2>1, <2>2, FinalsAreTyped, PassIsTyped
  <2>4. PICK parts, finals, cues, new :
          /\ kept = [parts |-> parts, finals |-> finals, cues |-> cues] /\ new = pass.parts
          /\ kept.parts = parts /\ kept.finals = finals /\ kept.cues = cues
    BY <1>1 DEF PartsInv, MasteringTypeOK
  <2>5. kept'.parts = new /\ kept'.finals = finals /\ kept'.cues = cues
    <3>1. kept' = [parts |-> new, finals |-> finals, cues |-> cues]
      BY <2>1, <2>4
    <3> QED
      BY <3>1
  <2> QED
    BY <1>1, <2>1, <2>2, <2>3, <2>4, <2>5, LastStaysTold DEF CuesInv
<1>6. CASE ConcatFinal
  BY <1>1, <1>6, ConcatFinalTells DEF CuesInv
<1>7. \/ UNCHANGED <<script, kept>>
      \/ \E i \in DOMAIN script : JobSynthesizes(i)
      \/ ReuseFinal
      \/ ConcatFinal
  BY DEF MasteringNext, masteringVars, StartPass, RenderPart, PassFails
<1> QED
  BY <1>3, <1>4, <1>5, <1>6, <1>7

PartsOf(final) == [p \in DOMAIN final.parts |-> kept.parts[final.parts[p]]]
Holding(parts, i) == CHOOSE q \in DOMAIN parts : i \in ToSet(SegmentsOf(parts[q]))
PlaceOf(part, i) == CHOOSE k \in DOMAIN part.input : SegmentsOf(part)[k] = i
LengthsIn(part, s) == [k \in DOMAIN part.input |-> s[SegmentsOf(part)[k]].length]
VoiceAt(parts, s, p, n) ==
  Laid([q \in DOMAIN parts |-> parts[q].duration])[p] + Laid(LengthsIn(parts[p], s))[n]

LEMMA HeardIs ==
  ASSUME NEW final, NEW i
  PROVE  Heard(final, i) =
           VoiceAt(PartsOf(final), script, Holding(PartsOf(final), i),
                   PlaceOf(PartsOf(final)[Holding(PartsOf(final), i)], i))
BY Zenon DEF Heard, PartsOf, Holding, PlaceOf, LengthsIn, VoiceAt

\* Parts as files hold what the plan is cut into.
HoldsCut(parts, s) ==
  /\ DOMAIN parts = 1..Len(Groups(s))
  /\ \A q \in 1..Len(Groups(s)) : parts[q].input = PartInput(s, Groups(s)[q])

LEMMA HeardInItsPlace ==
  ASSUME NEW s \in Seq(Segment), NEW parts, HoldsCut(parts, s),
         NEW p \in Nat, NEW n \in Nat, NEW i, IsAt(Groups(s), p, n, i)
  PROVE  /\ Holding(parts, i) = p /\ PlaceOf(parts[p], i) = n
         /\ LengthsIn(parts[p], s) = LengthsOf(s, Groups(s)[p])
<1>1. PICK groups : groups = Groups(s) /\ Cut(groups, Len(s)) /\ Once(groups)
  BY GroupsAreCut DEF Cut
<1>2. \A q \in 1..Len(groups) : DOMAIN groups[q] = 1..Len(groups[q])
  <2>1. \A q \in 1..Len(Groups(s)) : DOMAIN Groups(s)[q] = 1..Len(Groups(s)[q])
    BY PartInputIsTyped
  <2> QED
    BY <1>1, <2>1
<1>3. ASSUME NEW q \in 1..Len(groups) PROVE SegmentsOf(parts[q]) = groups[q] /\ DOMAIN parts[q].input = DOMAIN groups[q]
  <2>1. PICK part, group : part = parts[q] /\ group = groups[q]
    OBVIOUS
  <2>2. part.input = [k \in DOMAIN group |-> <<group[k], s[group[k]].version>>]
    BY <1>1, <2>1 DEF HoldsCut, PartInput
  <2>3. group = [k \in DOMAIN group |-> group[k]]
    <3>1. group \in Seq(Nat)
      BY <1>1, <2>1 DEF Cut, Sized
    <3> QED
      BY <3>1
  <2>4. DOMAIN part.input = DOMAIN group /\ \A k \in DOMAIN group : part.input[k][1] = group[k]
    BY <2>2
  <2>5. [k \in DOMAIN part.input |-> part.input[k][1]] = group
    BY <2>3, <2>4
  <2> QED
    BY <2>1, <2>4, <2>5 DEF SegmentsOf
<1>4. p \in 1..Len(groups) /\ n \in 1..Len(groups[p]) /\ groups[p][n] = i
  BY <1>1 DEF IsAt
<1>5. \A q \in 1..Len(groups) : \A k \in 1..Len(groups[q]) : groups[q][k] = i => q = p /\ k = n
  BY <1>1, <1>4 DEF Once
<1>6. Holding(parts, i) = p
  <2>1. DOMAIN parts = 1..Len(groups)
    BY <1>1 DEF HoldsCut
  <2>2. \A q \in 1..Len(groups) : i \in ToSet(SegmentsOf(parts[q])) <=> q = p
    BY <1>2, <1>3, <1>4, <1>5 DEF ToSet
  <2> QED
    BY <1>4, <2>1, <2>2 DEF Holding
<1>7. PlaceOf(parts[p], i) = n
  <2>1. \A k \in DOMAIN parts[p].input : SegmentsOf(parts[p])[k] = i <=> k = n
    BY <1>2, <1>3, <1>4, <1>5
  <2>2. n \in DOMAIN parts[p].input
    BY <1>2, <1>3, <1>4
  <2> QED
    BY <2>1, <2>2 DEF PlaceOf
<1>8. LengthsIn(parts[p], s) = LengthsOf(s, groups[p])
  BY <1>3, <1>4 DEF LengthsIn, LengthsOf
<1> QED
  BY <1>1, <1>6, <1>7, <1>8

FilesAre(parts, used, all) == parts = [p \in DOMAIN used |-> all[used[p]]]

\* A cue is along the voice when the plan still has the audio of its master.
LEMMA ToldIsHeard ==
  ASSUME NEW s, NEW now, Renews(s, now), NEW used \in Seq(Nat), NEW all, NEW cues, ToldOf(used, all, cues, s),
         NEW parts, FilesAre(parts, used, all), HoldsCut(parts, now), NEW i \in 1..Len(now),
         NEW h, h = Holding(parts, i), NEW start, start = VoiceAt(parts, now, h, PlaceOf(parts[h], i))
  PROVE  cues[i] = [start |-> start, end |-> start + now[i].length]
<1>1. s \in Seq(Segment) /\ now \in Seq(Segment) /\ Len(s) = Len(now) /\ Groups(s) = Groups(now)
  BY GroupsStay DEF Renews
<1>2. PICK groups : groups = Groups(s) /\ groups = Groups(now) /\ Cut(groups, Len(s))
  BY <1>1, GroupsAreCut
<1>3. PICK p, n \in Nat : IsAt(groups, p, n, i)
  <2>1. HasPlace(groups, i)
    BY <1>1, <1>2 DEF Cut
  <2>2. PICK p \in 1..Len(groups) : \E n \in 1..Len(groups[p]) : groups[p][n] = i
    BY <2>1 DEF HasPlace
  <2>3. PICK n \in 1..Len(groups[p]) : groups[p][n] = i
    BY <2>2
  <2>4. p \in Nat /\ n \in Nat
    <3>1. Len(groups) \in Nat /\ Len(groups[p]) \in Nat
      BY <1>2 DEF Cut, Sized
    <3> QED
      BY <3>1
  <2> QED
    BY <2>2, <2>3, <2>4 DEF IsAt
<1>4. PICK group : group = groups[p] /\ group \in Seq(Nat) /\ IsOf(group, now)
  <2>1. p \in 1..Len(groups)
    BY <1>3 DEF IsAt
  <2>2. Groups(now)[p] \in Seq(Nat) /\ \A k \in DOMAIN Groups(now)[p] : Groups(now)[p][k] \in 1..Len(now)
    BY <1>1, <1>2, <2>1, PartInputIsTyped
  <2> QED
    BY <1>2, <2>2 DEF IsOf
<1>5. /\ Holding(parts, i) = p /\ PlaceOf(parts[p], i) = n
      /\ LengthsIn(parts[p], now) = LengthsOf(now, group)
  <2>1. IsAt(Groups(now), p, n, i)
    BY <1>2, <1>3
  <2>2. /\ Holding(parts, i) = p /\ PlaceOf(parts[p], i) = n
        /\ LengthsIn(parts[p], now) = LengthsOf(now, Groups(now)[p])
    BY <1>1, <1>3, <2>1, HeardInItsPlace
  <2> QED
    BY <1>2, <1>4, <2>2
<1>6. PartInput(s, group) = PartInput(now, group)
  <2>1. Len(used) = Len(groups) /\ MadeOf(used, all, s) /\ p \in 1..Len(groups) /\ p \in DOMAIN used
    BY <1>2, <1>3 DEF ToldOf, IsAt
  <2>2. all[used[p]].input = PartInput(s, group)
    BY <1>2, <1>4, <2>1 DEF MadeOf
  <2>3. parts[p].input = PartInput(now, group)
    BY <1>2, <1>4, <2>1 DEF HoldsCut
  <2>4. parts[p] = all[used[p]]
    BY <2>1 DEF FilesAre
  <2> QED
    BY <2>2, <2>3, <2>4
<1>7. LengthsOf(s, group) = LengthsOf(now, group) /\ \A k \in DOMAIN group : s[group[k]].length = now[group[k]].length
  BY <1>4, <1>6, InputTells
<1>8. s[i].length = now[i].length /\ group[n] = i
  <2>1. n \in 1..Len(group) /\ group[n] = i
    BY <1>3, <1>4 DEF IsAt
  <2>2. n \in DOMAIN group
    BY <1>4, <2>1
  <2> QED
    BY <1>7, <2>1, <2>2
<1>9. PICK durations : durations = DurationsOf(used, all) /\ durations = [q \in DOMAIN parts |-> parts[q].duration]
  <2>1. DOMAIN parts = DOMAIN used /\ \A q \in DOMAIN used : parts[q].duration = all[used[q]].duration
    BY DEF FilesAre
  <2> QED
    BY <2>1 DEF DurationsOf
<1>a. VoiceAt(parts, now, p, n) = StartAt(s, durations, p, n)
  BY <1>2, <1>4, <1>5, <1>7, <1>9 DEF VoiceAt, StartAt
<1>b. start = StartAt(s, durations, p, n)
  BY <1>5, <1>a
<1>c. CuesRight(cues, s, durations)
  BY <1>9 DEF ToldOf
<1>d. RightCue(cues[i], s, durations, p, n) /\ cues \in Seq(Cue) /\ Len(cues) = Len(s)
  BY <1>1, <1>2, <1>3, <1>c DEF CuesRight
<1>e. PICK cue, length : cue = cues[i] /\ length = now[i].length /\ cue \in Cue
  BY <1>1, <1>d
<1>f. cue.start = start /\ cue.end = start + length
  BY <1>2, <1>4, <1>8, <1>b, <1>d, <1>e DEF RightCue
<1>g. PICK end : end = start + length
  OBVIOUS
<1>h. cue = [start |-> start, end |-> end]
  BY <1>e, <1>f, <1>g DEF Cue
<1> QED
  BY <1>e, <1>g, <1>h

LEMMA CuesInvFollows ==
  ASSUME CuesInv
  PROVE  CuesFollowTheVoice
<1> SUFFICES ASSUME UpToDate
             PROVE  /\ Len(kept.cues) = Len(script)
                    /\ \A i \in DOMAIN script :
                         LET start == Heard(Last(kept.finals), i)
                         IN  kept.cues[i] = [start |-> start, end |-> start + script[i].length]
  BY DEF CuesFollowTheVoice
<1>1. PICK final, used, all, cues : /\ final = Last(kept.finals) /\ used = final.parts /\ all = kept.parts
                                    /\ cues = kept.cues
  OBVIOUS
<1>2. kept.finals # <<>> /\ PartsInv /\ LastIsTold
  BY DEF UpToDate, CuesInv
<1>3. used \in Seq(Nat)
  <2>1. Len(kept.finals) \in DOMAIN kept.finals
    <3>1. \A seq \in Seq(FinalRow) : seq # <<>> => Len(seq) \in Nat \ {0}
      BY EmptySeq
    <3>2. Len(kept.finals) \in Nat \ {0}
      BY <1>2, <3>1 DEF PartsInv, MasteringTypeOK
    <3> QED
      BY <1>2, <3>2, FinalsAreTyped
  <2> QED
    BY <1>1, <1>2, <2>1, FinalsAreTyped DEF Last
<1>4. PICK s : Renews(s, script) /\ ToldOf(used, all, cues, s)
  BY <1>1, <1>2 DEF LastIsTold
<1>5. PICK now : now = script /\ now \in Seq(Segment) /\ Len(s) = Len(now) /\ DOMAIN now = 1..Len(now)
  BY <1>4, SegmentsAreTyped DEF Renews
<1>6. PICK parts : parts = PartsOf(final) /\ parts = [p \in DOMAIN used |-> all[used[p]]]
  BY <1>1 DEF PartsOf
<1>7. HoldsCut(parts, now)
  <2>1. PICK groups : groups = Groups(now)
    OBVIOUS
  <2>2. [n \in DOMAIN used |-> all[used[n]].input] = [n \in DOMAIN groups |-> PartInput(now, groups[n])]
    BY <1>1, <1>5, <2>1 DEF UpToDate
  <2>3. DOMAIN groups = 1..Len(groups)
    <3>1. groups \in Seq(Seq(Nat))
      BY <1>5, <2>1, GroupsAreCut DEF Cut, Sized
    <3> QED
      BY <3>1
  <2>4. DOMAIN used = DOMAIN groups
    <3>1. PICK f, g : /\ f = [n \in DOMAIN used |-> all[used[n]].input]
                      /\ g = [n \in DOMAIN groups |-> PartInput(now, groups[n])]
      OBVIOUS
    <3>2. DOMAIN f = DOMAIN used /\ DOMAIN g = DOMAIN groups /\ f = g
      BY <2>2, <3>1
    <3> QED
      BY <3>2
  <2>5. \A n \in DOMAIN used : all[used[n]].input = PartInput(now, groups[n])
    BY <2>2, <2>4
  <2> QED
    BY <1>6, <2>1, <2>3, <2>4, <2>5 DEF HoldsCut
<1>8. Len(cues) = Len(now)
  BY <1>4, <1>5 DEF ToldOf, CuesRight
<1>9. ASSUME NEW i \in DOMAIN now, NEW start, start = Heard(final, i)
      PROVE  cues[i] = [start |-> start, end |-> start + now[i].length]
  <2>1. PICK p : p = Holding(parts, i)
    OBVIOUS
  <2>2. start = VoiceAt(parts, now, p, PlaceOf(parts[p], i))
    <3>1. Heard(final, i) = VoiceAt(PartsOf(final), script, Holding(PartsOf(final), i),
                                    PlaceOf(PartsOf(final)[Holding(PartsOf(final), i)], i))
      BY HeardIs
    <3> QED
      BY <1>5, <1>6, <1>9, <2>1, <3>1
  <2>3. Renews(s, now) /\ i \in 1..Len(now)
    BY <1>4, <1>5
  <2> QED
    <3>1. FilesAre(parts, used, all) /\ ToldOf(used, all, cues, s)
      BY <1>4, <1>6 DEF FilesAre
    <3> QED
      BY <1>3, <1>7, <2>1, <2>2, <2>3, <3>1, ToldIsHeard
<1> QED
  BY <1>1, <1>5, <1>8, <1>9

\* Whatever was made again since, by a job or by a pass, whichever parts _render_part used
\* again and whatever the encoder added: when the last master has the audio of the plan,
\* _write_srt has put every cue along its voice (workflow.py:1494-1543).
THEOREM SubtitlesFollow == MasteringSpec => []CuesFollowTheVoice
<1>1. MasteringInit => CuesInv
  BY MasteringInitCues
<1>2. CuesInv /\ [MasteringNext]_masteringVars => CuesInv'
  BY MasteringStepCues
<1>3. CuesInv => CuesFollowTheVoice
  BY CuesInvFollows
<1> QED
  BY <1>1, <1>2, <1>3, PTL DEF MasteringSpec
=============================================================================
