--------------------------- MODULE ArtifactContent ---------------------------
(***************************************************************************)
(* The route that serves the audio of an artifact, artifact_content of     *)
(* backend/app/api/audio.py, with a single byte range, a validator of what *)
(* the player has (If-None-Match) and a condition on the range (If-Range), *)
(* and the player that listens to it: one that seeks, is cut off, comes    *)
(* back for the rest, and is given another artifact meanwhile.             *)
(*                                                                         *)
(* The file of an artifact never changes.  A byte stands for itself: its   *)
(* artifact and its place.                                                 *)
(***************************************************************************)
EXTENDS Naturals, Sequences

CONSTANTS
  Files,       \* artifacts of the chapter
  MaxSize,     \* bound on their sizes, in bytes
  ChunkBytes,  \* ARTIFACT_CHUNK_BYTES
  NoRange,     \* no Range header, or an empty one
  Multi,       \* a list of several ranges
  Malformed,   \* another unit, no number at all, or no range
  Open,        \* a number left out
  Silent       \* no answer under way, no validator, nothing held

ASSUME ContentAssumption ==
  /\ MaxSize \in Nat /\ ChunkBytes \in Nat \ {0}
  /\ {NoRange, Multi, Malformed, Open, Silent} \cap Nat = {}
  /\ Malformed \notin {NoRange, Multi}
  /\ Silent \notin Files

VARIABLES
  size,     \* [Files -> their sizes]
  served,   \* files whose artifact is READY with its file in place
  answer,   \* the answer under way
  held      \* what the player keeps: the file it takes it for, bytes by place

contentVars == <<size, served, answer, held>>

\* The byte of place n of a file is its own.
Bytes(f) == [n \in 1..size[f] |-> <<f, n - 1>>]

-----------------------------------------------------------------------------
(* The Range header.                                                     *)

\* first-last, first-, or -length of a suffix.
SingleRange == [first : 0..MaxSize, last : (0..MaxSize) \cup {Open}]
                 \cup [first : {Open}, last : 0..MaxSize]
Ranges == {NoRange, Multi, Malformed} \cup SingleRange

Full(total) == [code |-> 200, start |-> 0, length |-> total]
Partial(start, end) == [code |-> 206, start |-> start, length |-> end - start + 1]
Unsatisfiable == [code |-> 416, start |-> 0, length |-> 0]

SuffixRange(length, total) ==
  IF length = 0 \/ total = 0 THEN Unsatisfiable
  ELSE Partial(IF length > total THEN 0 ELSE total - length, total - 1)

\* Variant: the last place of a file is taken for its size.
IntervalRangeLong(first, last, total) ==
  LET end == IF last = Open \/ last > total THEN total ELSE last
  IN  IF first >= total \/ end < first THEN Unsatisfiable ELSE Partial(first, end)

IntervalRange(first, last, total) ==
  LET end == IF last = Open \/ last > total - 1 THEN total - 1 ELSE last
  IN  IF first >= total \/ end < first THEN Unsatisfiable ELSE Partial(first, end)

DecideRange(range, total) ==
  CASE range \in {NoRange, Multi} -> Full(total)
    [] range = Malformed          -> Unsatisfiable
    [] OTHER -> IF range.first = Open THEN SuffixRange(range.last, total)
                                      ELSE IntervalRange(range.first, range.last, total)

EtagMatches(ifNoneMatch, f) == ifNoneMatch = f
IfRangeMatches(ifRange, f) == ifRange \in {Silent, f}

NotModified == [code |-> 304, start |-> 0, length |-> 0]

Decision(f, range, ifNoneMatch, ifRange) ==
  IF EtagMatches(ifNoneMatch, f) THEN NotModified
  ELSE DecideRange(IF IfRangeMatches(ifRange, f) THEN range ELSE NoRange, size[f])

-----------------------------------------------------------------------------
(* One request after another.                                            *)

Nothing(f) == [of |-> f, bytes |-> {}]

\* The next bytes of an answer, read from the file behind those that were sent.
FileSlice(f, start, remaining) ==
  SubSeq(Bytes(f), start + 1, start + (IF remaining < ChunkBytes THEN remaining ELSE ChunkBytes))

\* A part is added to what the player holds when that is of the same file, by the ETag,
\* or when it asked for a part on that condition; any other body takes its place.
Kept(f, code, ifRange) ==
  CASE code \in {304, 416} -> held
    [] code = 206 /\ (held.of = f \/ ifRange # Silent) -> held
    [] OTHER -> Nothing(f)

Validators == {Silent, held.of}

GetContent(f, range, ifNoneMatch, ifRange) ==
  /\ answer = Silent
  /\ f \in served
  /\ ifNoneMatch \in Validators /\ ifRange \in Validators
  /\ LET decision == Decision(f, range, ifNoneMatch, ifRange) IN
     /\ answer' = [file |-> f, range |-> range, decision |-> decision, sent |-> 0]
     /\ held' = Kept(f, decision.code, ifRange)
  /\ UNCHANGED <<size, served>>

\* The file is opened for the first bytes.
IterFileSlice ==
  /\ answer # Silent
  /\ answer.sent < answer.decision.length
  /\ answer.sent = 0 => answer.file \in served
  /\ LET at    == answer.decision.start + answer.sent
         chunk == FileSlice(answer.file, at, answer.decision.length - answer.sent)
     IN  /\ held' = [held EXCEPT !.bytes =
                       @ \cup {<<at + n - 1, chunk[n]>> : n \in DOMAIN chunk}]
         /\ answer' = [answer EXCEPT !.sent = @ + Len(chunk)]
  /\ UNCHANGED <<size, served>>

\* The body is over, or the connection is.
ContentOver ==
  /\ answer # Silent
  /\ answer' = Silent
  /\ UNCHANGED <<size, served, held>>

\* The artifact is superseded, or cleaned up: a later request is answered with 404.
Withdraw(f) ==
  /\ f \in served
  /\ served' = served \ {f}
  /\ UNCHANGED <<size, answer, held>>

-----------------------------------------------------------------------------

ContentInit ==
  /\ size \in [Files -> 0..MaxSize]
  /\ served = Files
  /\ answer = Silent /\ held = Nothing(Silent)

ContentNext ==
  \/ \E f \in Files, range \in Ranges, tag, condition \in Validators : GetContent(f, range, tag, condition)
  \/ IterFileSlice \/ ContentOver
  \/ \E f \in Files : Withdraw(f)

ContentSpec == ContentInit /\ [][ContentNext]_contentVars

-----------------------------------------------------------------------------

\* The places of a file that a Range header names.
Asked(range, total) ==
  {p \in 0..MaxSize :
     /\ p < total
     /\ CASE range \in {NoRange, Multi} -> TRUE
          [] range = Malformed -> FALSE
          [] OTHER -> IF range.first = Open THEN total =< p + range.last
                      ELSE range.first =< p /\ (range.last = Open \/ p =< range.last)}

\* A part is all of the range and nothing else, and a range is refused only when the
\* file has no byte of it.
AnswerIsTheRange ==
  answer # Silent /\ answer.decision.code \in {206, 416} =>
    LET start == answer.decision.start IN
    /\ Asked(answer.range, size[answer.file]) =
         {p \in 0..MaxSize : start =< p /\ p < start + answer.decision.length}
    /\ answer.decision.code = 416 <=> answer.decision.length = 0

\* Every byte the player holds is in its place, and of one and the same file.
HeldIsOneFile == \A b \in held.bytes : b[2] = <<held.of, b[1]>>

\* However a player seeks, is cut off and comes back with what it has, for this artifact
\* or the next one: it is answered what it asked for, and what it holds is one file
\* (api/audio.py:277-291).
PlayerHoldsTheFile == AnswerIsTheRange /\ HeldIsOneFile
=============================================================================
