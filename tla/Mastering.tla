------------------------------- MODULE Mastering -------------------------------
(***************************************************************************)
(* How one render makes the master of a chapter (_master, _render_part,    *)
(* _concat_final_master and _write_srt of modules/speech/workflow.py over  *)
(* providers/ffmpeg_audio.py): the segments are mastered in parts, parts   *)
(* that are still right are used again, the parts are joined to the final  *)
(* master, and the subtitles are laid along it.                            *)
(*                                                                         *)
(* ChapterAudio has this as the one step RenderCommit: all of it is one    *)
(* transaction, and a failure at any point keeps nothing.  Here time is a  *)
(* number, and the encoder may make a file longer than what it is fed.     *)
(***************************************************************************)
EXTENDS Integers, Sequences, FiniteSets, SequencesExt

CONSTANTS
  Estimates,        \* estimated_duration_ms of a segment, from its words
  Lengths,          \* what its synthesis really takes
  Padding,          \* what the encoder adds to a file
  Pause,            \* pause_after_ms
  PartMaxSegments,  \* PART_MAX_SEGMENTS
  PartMaxDuration,  \* PART_MAX_DURATION_MS
  MaxSegments,      \* bound on the segments of a plan
  MaxVersions,      \* bound on how often a segment is synthesized
  MaxFinals,        \* bound on final masters
  NoPass

ASSUME MasteringAssumption ==
  /\ Estimates \subseteq Nat /\ Lengths \subseteq Nat \ {0} /\ Padding \subseteq Nat
  /\ {Pause, PartMaxSegments, PartMaxDuration, MaxSegments} \subseteq Nat \ {0}
  /\ {MaxVersions, MaxFinals} \subseteq Nat

VARIABLES
  script,  \* the segments of the plan, each with the version of its audio
  kept,    \* committed: part artifacts, final masters, the cues of the subtitles
  pass     \* the render at work on its own copy of all that, or NoPass

masteringVars == <<script, kept, pass>>

-----------------------------------------------------------------------------
(* Files.                                                                *)

SumOf(lengths) == SumFunction(lengths)

\* The processor puts its inputs one behind the other, each with its pause.
Laid(lengths) ==
  [i \in DOMAIN lengths |-> SumFunctionOnSet(lengths, 1..(i - 1)) + (i - 1) * Pause]

Encoded(lengths, padding) == SumOf(lengths) + Len(lengths) * Pause + padding

-----------------------------------------------------------------------------
(* Parts.                                                                *)

\* Variant: parts are measured by what was synthesized.
FitsByLength(s, group, i) ==
  /\ Len(group) < PartMaxSegments
  /\ SumOf([n \in DOMAIN group |-> s[group[n]].length]) + s[i].length =< PartMaxDuration

\* Only estimates count, which a new synthesis leaves as they are.
Fits(s, group, i) ==
  /\ Len(group) < PartMaxSegments
  /\ SumOf([n \in DOMAIN group |-> s[group[n]].estimate]) + s[i].estimate =< PartMaxDuration

\* A segment that is too long for any part has one of its own.
Groups(s) ==
  LET upTo[i \in 0..Len(s)] ==
        IF i = 0 THEN <<>>
        ELSE LET groups == upTo[i - 1] IN
             IF groups # <<>> /\ Fits(s, Last(groups), i)
             THEN Front(groups) \o <<Append(Last(groups), i)>>
             ELSE Append(groups, <<i>>)
  IN  upTo[Len(s)]

\* The input hash of a part is over its segments and the artifact of each.
PartInput(s, group) == [n \in DOMAIN group |-> <<group[n], s[group[n]].version>>]

ReadyOf(things, key, value) == {t \in DOMAIN things : things[t].ready /\ things[t][key] = value}

SegmentsOf(part) == [n \in DOMAIN part.input |-> part.input[n][1]]

-----------------------------------------------------------------------------
(* Subtitles.                                                            *)

\* Where each part starts in the final master.
PartBoundaryStarts(durations) ==
  LET starts[p \in DOMAIN durations] ==
        IF p = 1 THEN 0 ELSE starts[p - 1] + durations[p - 1] + Pause
  IN  starts

\* Variant: the count of segments goes on across a boundary.
TurnPageCounting(at, sizes, starts) ==
  IF at.part < Len(sizes) /\ at.into >= sizes[at.part]
  THEN [at EXCEPT !.part = @ + 1, !.now = starts[at.part + 1]]
  ELSE at

\* After the last segment of a part, time goes on where the next one starts.
TurnPage(at, sizes, starts) ==
  IF at.part < Len(sizes) /\ at.into >= sizes[at.part]
  THEN [part |-> at.part + 1, into |-> 0, now |-> starts[at.part + 1]]
  ELSE at

\* A cue ends no later than the master, unless it starts later already.
CueEnd(start, length, duration) ==
  IF duration < start + length /\ duration >= start THEN duration ELSE start + length

Cues(s, sizes, durations, duration) ==
  LET starts == PartBoundaryStarts(durations)
      upTo[i \in 0..Len(s)] ==
        IF i = 0 THEN [at |-> [part |-> 1, into |-> 0, now |-> 0], cues |-> <<>>]
        ELSE LET at  == TurnPage(upTo[i - 1].at, sizes, starts)
                 end == CueEnd(at.now, s[i].length, duration)
             IN  [at   |-> [at EXCEPT !.into = @ + 1, !.now = end + Pause],
                  cues |-> Append(upTo[i - 1].cues, [start |-> at.now, end |-> end])]
  IN  upTo[Len(s)].cues

-----------------------------------------------------------------------------
(* The pass.                                                             *)

\* A segment is synthesized again: by the pass that was told to, or by a job.
Resynthesized(s, these, lengths) ==
  [i \in DOMAIN s |-> IF i \in these
                      THEN [s[i] EXCEPT !.version = @ + 1, !.length = lengths[i]] ELSE s[i]]

CanResynthesize(these) == \A i \in these : script[i].version < MaxVersions

JobSynthesizes(i) ==
  /\ pass = NoPass
  /\ CanResynthesize({i})
  /\ \E length \in Lengths : script' = Resynthesized(script, {i}, [j \in {i} |-> length])
  /\ UNCHANGED <<kept, pass>>

StartPass(forced) ==
  /\ pass = NoPass
  /\ CanResynthesize(forced)
  /\ \E lengths \in [forced -> Lengths] :
       pass' = [script |-> Resynthesized(script, forced, lengths), forced |-> forced,
                parts |-> kept.parts, used |-> <<>>]
  /\ UNCHANGED <<script, kept>>

Grouped == Groups(pass.script)

PartWrite(input, duration) == [input |-> input, ready |-> TRUE, duration |-> duration]

RenderPart ==
  /\ pass # NoPass
  /\ Len(pass.used) < Len(Grouped)
  /\ LET group == Grouped[Len(pass.used) + 1]
         input == PartInput(pass.script, group)
         ready == ReadyOf(pass.parts, "input", input)
     IN  \/ \E p \in ready : pass' = [pass EXCEPT !.used = Append(@, p)]
         \/ /\ ready = {}
            /\ \E padding \in Padding :
                 pass' = [pass EXCEPT
                   !.parts = Append(@, PartWrite(input,
                       Encoded([n \in DOMAIN group |-> pass.script[group[n]].length], padding))),
                   !.used = Append(@, Len(pass.parts) + 1)]
  /\ UNCHANGED <<script, kept>>

PartDurations == [n \in DOMAIN pass.used |-> pass.parts[pass.used[n]].duration]
PartSizes == [n \in DOMAIN pass.used |-> Len(pass.parts[pass.used[n]].input)]

\* Only these stay READY beside a new final master.
Superseding(things, those) == [t \in DOMAIN things |-> [things[t] EXCEPT !.ready = @ /\ t \in those]]

MasterWrite(parts, duration) == [parts |-> parts, ready |-> TRUE, duration |-> duration]

\* The subtitles of a new master are of its own parts.
Subtitles(duration) == Cues(pass.script, PartSizes, PartDurations, duration)

ReusableFinal ==
  IF pass.forced = {} THEN ReadyOf(kept.finals, "parts", pass.used) ELSE {}

\* The final master of the same parts is used again, and its subtitles with it.
ReuseFinal ==
  /\ pass # NoPass /\ Len(pass.used) = Len(Grouped)
  /\ ReusableFinal # {}
  /\ script' = pass.script
  /\ kept' = [kept EXCEPT !.parts = pass.parts]
  /\ pass' = NoPass

ConcatFinal ==
  /\ pass # NoPass /\ Len(pass.used) = Len(Grouped)
  /\ ReusableFinal = {}
  /\ Len(kept.finals) < MaxFinals
  /\ \E padding \in Padding :
       LET duration == Encoded(PartDurations, padding) IN
       kept' = [parts  |-> Superseding(pass.parts, ToSet(pass.used)),
                finals |-> Append(Superseding(kept.finals, {}), MasterWrite(pass.used, duration)),
                cues   |-> Subtitles(duration)]
  /\ script' = pass.script
  /\ pass' = NoPass

\* The encoder, or a check of what it made, fails: nothing of the pass is kept.
PassFails ==
  /\ pass # NoPass
  /\ pass' = NoPass
  /\ UNCHANGED <<script, kept>>

-----------------------------------------------------------------------------

MasteringInit ==
  /\ \E n \in 1..MaxSegments :
       script \in [1..n -> [estimate : Estimates, version : {1}, length : Lengths]]
  /\ kept = [parts |-> <<>>, finals |-> <<>>, cues |-> <<>>]
  /\ pass = NoPass

MasteringNext ==
  \/ \E i \in DOMAIN script : JobSynthesizes(i)
  \/ \E forced \in SUBSET DOMAIN script : StartPass(forced)
  \/ RenderPart \/ ReuseFinal \/ ConcatFinal \/ PassFails

MasteringSpec == MasteringInit /\ [][MasteringNext]_masteringVars

-----------------------------------------------------------------------------

\* Where the voice of segment i is heard in a final master, by what the processor did.
Heard(final, i) ==
  LET parts == [p \in DOMAIN final.parts |-> kept.parts[final.parts[p]]]
      p == CHOOSE q \in DOMAIN parts : i \in ToSet(SegmentsOf(parts[q]))
      n == CHOOSE k \in DOMAIN parts[p].input : SegmentsOf(parts[p])[k] = i
      lengths == [k \in DOMAIN parts[p].input |-> script[SegmentsOf(parts[p])[k]].length]
  IN  Laid([q \in DOMAIN parts |-> parts[q].duration])[p] + Laid(lengths)[n]

\* The last final master is of the audio the plan has now.
UpToDate ==
  /\ kept.finals # <<>>
  /\ [n \in DOMAIN Last(kept.finals).parts |-> kept.parts[Last(kept.finals).parts[n]].input]
       = [n \in DOMAIN Groups(script) |-> PartInput(script, Groups(script)[n])]

\* Every cue starts and ends with the voice it prints, to the millisecond and in every
\* part, whatever the encoder added and whichever parts were used again
\* (workflow.py:1500-1506, "so a part boundary never skews the timestamps").
CuesFollowTheVoice ==
  UpToDate =>
    /\ Len(kept.cues) = Len(script)
    /\ \A i \in DOMAIN script :
         LET start == Heard(Last(kept.finals), i)
         IN  kept.cues[i] = [start |-> start, end |-> start + script[i].length]

ClipsOf(final) == UNION {ToSet(kept.parts[final.parts[p]].input) : p \in DOMAIN final.parts}

\* Making a segment again rebuilds the part it is in and no other: a part of a new final
\* master that the one before does not have holds audio the one before did not have
\* (workflow.py:655-659).
OnlyTouchedPartsRebuilt ==
  \A f \in DOMAIN kept.finals \ {1} :
    \A p \in ToSet(kept.finals[f].parts) \ ToSet(kept.finals[f - 1].parts) :
      ~ ToSet(kept.parts[p].input) \subseteq ClipsOf(kept.finals[f - 1])

\* Between two segments there is the pause of the first, also where two parts meet
\* (workflow.py:917-919, "replayed between parts by the final concat without being
\* doubled").
NoPauseDoubled ==
  UpToDate =>
    \A i \in 1..(Len(script) - 1) :
      Heard(Last(kept.finals), i + 1) = Heard(Last(kept.finals), i) + script[i].length + Pause
=============================================================================
