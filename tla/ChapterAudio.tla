---------------------------- MODULE ChapterAudio ----------------------------
(***************************************************************************)
(* The chapter from its approved translation to its exported bundle: voice *)
(* plans (backend/app/modules/voices/roles.py, speech/workflow.py), the    *)
(* inline render and the resumable SYNTHESIZE job (speech/workflow.py,     *)
(* jobs/execution_handlers.py, api/audio.py), the approval of a master and *)
(* the export with its later review (exports/workflow.py, review.py,       *)
(* compliance/rights.py).                                                  *)
(*                                                                         *)
(* Three requests work for long on what they read first, while other       *)
(* requests commit: a render until it writes (from then on it holds the    *)
(* write lock), the approval of a master while it probes the file, and an  *)
(* export while it packs the bundle.  Each is a step that reads and a step *)
(* that commits; a column whose value did not change in the session is not *)
(* written.  The job commits after each segment and holds no lock while    *)
(* the provider works.                                                     *)
(***************************************************************************)
EXTENDS ChapterText

CONSTANTS
  Presets,      \* voices
  Casts,        \* sets of voices a plan may have
  Faults,       \* may what is made have a blocking fault: of a segment, of a master
  Forced,       \* lists of segments a render or a job may be told to make again
  Kinds,        \* of exports: "private", "publication"
  MaxPlans,     \* bound on voice plans
  MaxClips,     \* bound on segment artifacts
  MaxMasters,   \* bound on final masters
  MaxBundles,   \* bound on exports
  MaxOpen,      \* bound on requests that work at the same time
  Idle

ASSUME AudioAssumption ==
  /\ Casts \subseteq (SUBSET Presets) \ {{}} /\ Forced \subseteq SUBSET Segments
  /\ Faults \subseteq [clip : BOOLEAN, master : BOOLEAN]
  /\ Kinds \subseteq {"private", "publication"}
  /\ {MaxPlans, MaxClips, MaxMasters, MaxBundles, MaxOpen} \subseteq Nat
  /\ Idle \notin Nat

VARIABLES
  plans,      \* voice_plans: the run read, the cast, the voice of each segment
  clips,      \* TTS_SEGMENT artifacts
  masters,    \* final MASTER_MP3 artifacts
  srt,        \* the master the READY SRT artifact belongs to, or None
  issue,      \* is a MAJOR or CRITICAL audio issue open
  rights,     \* do the rights of the project allow a publication
  bundles,    \* exports
  rendering,  \* the inline render between what it read and its first write
  approving,  \* the approval of a master during its probe
  exporting,  \* the export while it packs
  job         \* the SYNTHESIZE job in flight

requests == <<rendering, approving, exporting>>
Open == Cardinality({r \in {"rendering", "approving", "exporting"} :
                       \/ r = "rendering" /\ rendering # Idle
                       \/ r = "approving" /\ approving # Idle
                       \/ r = "exporting" /\ exporting # Idle})
audioVars == <<plans, clips, masters, srt, issue, rights, bundles, requests, job>>
chapterVars == <<textVars, audioVars>>

-----------------------------------------------------------------------------
(* Voice plans.                                                          *)

ApprovedRun == chapter.run # None /\ runs[chapter.run].status = "APPROVED"

VoicePlan(cast, narrator) ==
  [run |-> chapter.run, cast |-> cast, voice |-> [i \in Segments |-> narrator]]

Configure(cast, narrator) ==
  /\ ApprovedRun
  /\ Len(plans) < MaxPlans
  /\ Allowed(chapter.state, "VOICE_CONFIGURED")
  /\ plans' = Append(plans, VoicePlan(cast, narrator))
  /\ chapter' = [chapter EXCEPT !.plan = Len(plans) + 1, !.state = "VOICE_CONFIGURED"]
  /\ UNCHANGED <<runs, context, proposal, clips, masters, srt, issue, rights, bundles,
                 requests, job>>

ConfigureSingle(preset) == {preset} \in Casts /\ Configure({preset}, preset)

\* The narrator and at least one role beside it, to which no segment is given yet.
CreateMulti(cast, narrator) == Cardinality(cast) > 1 /\ Configure(cast, narrator)

\* Give a segment to another role: a new plan, in whatever state the chapter is.
AssignRole(i, voice) ==
  /\ chapter.plan # None
  /\ ApprovedRun
  /\ Len(plans) < MaxPlans
  /\ voice \in plans[chapter.plan].cast
  /\ plans' = Append(plans, [plans[chapter.plan] EXCEPT !.voice[i] = voice])
  /\ chapter' = [chapter EXCEPT !.plan = Len(plans) + 1]
  /\ UNCHANGED <<runs, context, proposal, clips, masters, srt, issue, rights, bundles,
                 requests, job>>

-----------------------------------------------------------------------------
(* Segment audio.                                                        *)

Narration(p, i) == runs[plans[p].run].cells[i].text

\* What a segment of a plan is synthesized from, and found again by.
CacheKeyOfVoice(p, i) == [text |-> "any", voice |-> plans[p].voice[i]]
CacheKey(p, i) == [text |-> Narration(p, i), voice |-> plans[p].voice[i]]

Cached(made, key) == {c \in DOMAIN made : made[c].ready /\ made[c].key = key}

Retired(made, these) ==
  [c \in DOMAIN made |-> [made[c] EXCEPT !.ready = @ /\ c \notin these]]

Clip(p, i, fault) ==
  [key |-> CacheKey(p, i), spoken |-> Narration(p, i), fault |-> fault, ready |-> TRUE]

\* A new artifact takes the place of the READY ones of its key.
Synthesized(made, p, i, fault) ==
  Append(Retired(made, Cached(made, CacheKey(p, i))), Clip(p, i, fault))

\* The next segment of a pass: audio that is READY serves it, unless it is to be
\* made again.
ServeNext(before, p, i, forced, fault) ==
  LET found == Cached(before.made, CacheKey(p, i))
  IN  IF found # {} /\ i \notin forced
      THEN [before EXCEPT !.used = Append(@, Latest(found))]
      ELSE [made |-> Synthesized(before.made, p, i, fault),
            used |-> Append(before.used, Len(before.made) + 1)]

\* A whole pass in the order of the plan: the artifacts, and the one that serves
\* each segment; what serves none is retired.
Pass(made, p, forced, fault) ==
  LET served[i \in 0..N] ==
        IF i = 0 THEN [made |-> made, used |-> <<>>]
        ELSE ServeNext(served[i - 1], p, i, forced, fault)
  IN  served[N]

Serving(pass) == {pass.used[i] : i \in Segments}
Unserving(pass) == DOMAIN pass.made \ Serving(pass)

Advanced(state) == IF state \in {"VOICE_CONFIGURED", "TTS_QUEUED"} THEN "SYNTHESIZING" ELSE state

-----------------------------------------------------------------------------
(* The inline render.                                                    *)

Renderable ==
  /\ chapter.plan # None
  /\ ApprovedRun
  /\ plans[chapter.plan].run = chapter.run

RenderRead(forced) ==
  /\ rendering = Idle /\ Open < MaxOpen
  /\ Renderable
  /\ rendering' = [plan |-> chapter.plan, run |-> chapter.run, state |-> chapter.state,
                   forced |-> forced]
  /\ UNCHANGED <<textVars, plans, clips, masters, srt, issue, rights, bundles,
                 approving, exporting, job>>

\* A final master is used again by a render nothing was forced in, when one of
\* the same run and segment audio is READY.
SameMaster(pass) ==
  {m \in DOMAIN masters :
     /\ masters[m].ready
     /\ masters[m].run = rendering.run
     /\ masters[m].plan = rendering.plan
     /\ masters[m].clips = pass.used}

FinalMaster(pass, fault) ==
  [run |-> rendering.run, plan |-> rendering.plan, clips |-> pass.used, fault |-> fault,
   ready |-> TRUE]

\* The faults the audio checks see: of the segments in every pass, of the master
\* only when it was made in this one.
Found(pass, m, fresh) ==
  \/ \E i \in Segments : pass.made[pass.used[i]].fault
  \/ fresh /\ m.fault

\* Masters and exports that something takes out of use go together.
Withdrawn(rows) == [r \in DOMAIN rows |-> [rows[r] EXCEPT !.ready = FALSE]]

RenderWrites(m, fresh, pass) ==
  /\ clips' = Retired(pass.made, Unserving(pass))
  /\ srt' = m
  /\ issue' = Found(pass, masters'[m], fresh)
  /\ chapter' = [chapter EXCEPT
       !.state = IF rendering.state = "AUDIO_REVIEW" THEN @ ELSE "AUDIO_REVIEW"]
  /\ rendering' = Idle
  /\ UNCHANGED <<runs, context, proposal, plans, rights, bundles, approving, exporting, job>>

RenderCommit ==
  /\ rendering # Idle
  /\ \E fault \in Faults :
       LET pass == Pass(clips, rendering.plan, rendering.forced, fault.clip)
           same == IF rendering.forced = {} THEN SameMaster(pass) ELSE {}
       IN  /\ Len(pass.made) <= MaxClips
           /\ IF same # {}
              THEN /\ UNCHANGED masters
                   /\ RenderWrites(Latest(same), FALSE, pass)
              ELSE /\ Len(masters) < MaxMasters
                   /\ masters' =
                        Append(Withdrawn(masters), FinalMaster(pass, fault.master))
                   /\ RenderWrites(Len(masters) + 1, TRUE, pass)

\* The provider, the encoder or a check of their output fails: nothing is kept.
RenderFails ==
  /\ rendering # Idle
  /\ rendering' = Idle
  /\ UNCHANGED <<textVars, plans, clips, masters, srt, issue, rights, bundles,
                 approving, exporting, job>>

-----------------------------------------------------------------------------
(* The SYNTHESIZE job.  It pins what it was enqueued for; its attempts start at
   the first segment again and find in the cache what earlier ones stored. *)

EnqueueRender(forced) ==
  /\ chapter.run # None /\ chapter.plan # None
  /\ job = Idle
  /\ job' = [run |-> chapter.run, plan |-> chapter.plan, source |-> chapter.source,
             forced |-> forced, phase |-> "queued", used |-> <<>>, advance |-> FALSE,
             replaces |-> {}]
  /\ UNCHANGED <<textVars, plans, clips, masters, srt, issue, rights, bundles, requests>>

PinsHold == chapter.run = job.run /\ chapter.plan = job.plan /\ chapter.source = job.source

\* The worker checks the pins and the plan, then works through the segments on
\* what it read; a job that does not fit is refused.
JobStarts ==
  /\ job # Idle /\ job.phase = "queued"
  /\ job' = IF PinsHold /\ Renderable
            THEN [job EXCEPT !.phase = "segment",
                             !.advance = Advanced(chapter.state) # chapter.state]
            ELSE Idle
  /\ UNCHANGED <<textVars, plans, clips, masters, srt, issue, rights, bundles, requests>>

Upcoming == Len(job.used) + 1

\* The state the session holds goes out with its next commit.
Flushed == IF job.advance THEN [chapter EXCEPT !.state = "SYNTHESIZING"] ELSE chapter

JobReuses ==
  /\ job # Idle /\ job.phase = "segment" /\ Len(job.used) < N
  /\ LET found == Cached(clips, CacheKey(job.plan, Upcoming))
     IN  /\ found # {} /\ Upcoming \notin job.forced
         /\ job' = [job EXCEPT !.used = Append(@, Latest(found))]
  /\ UNCHANGED <<textVars, plans, clips, masters, srt, issue, rights, bundles, requests>>

\* No segment audio to reuse, or told to make it again: commit, and call the
\* provider.  No transaction is open, unless READY audio is to be replaced: that
\* is written first, and the write lock held while the provider works ...
JobCalls ==
  /\ job # Idle /\ job.phase = "segment" /\ Len(job.used) < N
  /\ Cached(clips, CacheKey(job.plan, Upcoming)) = {} \/ Upcoming \in job.forced
  /\ job' = [job EXCEPT !.phase = "provider", !.advance = FALSE,
                        !.replaces = Cached(clips, CacheKey(job.plan, Upcoming))]
  /\ chapter' = Flushed
  /\ UNCHANGED <<runs, context, proposal, plans, clips, masters, srt, issue, rights, bundles,
                 requests>>

\* ... then store what it returned, and commit again.
JobStores ==
  /\ job # Idle /\ job.phase = "provider"
  /\ Len(clips) < MaxClips
  /\ \E fault \in Faults :
       clips' = Append(Retired(clips, job.replaces), Clip(job.plan, Upcoming, fault.clip))
  /\ job' = [job EXCEPT !.phase = "segment", !.used = Append(@, Len(clips) + 1),
                        !.replaces = {}]
  /\ UNCHANGED <<textVars, plans, masters, srt, issue, rights, bundles, requests>>

\* After the last segment, audio of the chapter that serves none of them retires.
JobEnds ==
  /\ job # Idle /\ job.phase = "segment" /\ Len(job.used) = N
  /\ clips' = Retired(clips, {c \in DOMAIN clips : \A i \in Segments : job.used[i] # c})
  /\ chapter' = Flushed
  /\ job' = Idle
  /\ UNCHANGED <<runs, context, proposal, plans, masters, srt, issue, rights, bundles, requests>>

\* The worker dies, its lease runs out, or the provider fails for now: what was
\* committed stays, and the job is queued again.
JobInterrupted ==
  /\ job # Idle /\ job.phase # "queued"
  /\ job' = [job EXCEPT !.phase = "queued", !.used = <<>>, !.advance = FALSE,
                        !.replaces = {}]
  /\ UNCHANGED <<textVars, plans, clips, masters, srt, issue, rights, bundles, requests>>

\* The job is canceled between two segments, or before it starts.
JobCanceled ==
  /\ job # Idle /\ job.phase # "provider"
  /\ job' = Idle
  /\ UNCHANGED <<textVars, plans, clips, masters, srt, issue, rights, bundles, requests>>

\* While it replaces READY audio the job keeps every other writer waiting.
Locked == job # Idle /\ job.replaces # {}

-----------------------------------------------------------------------------
(* The approval of a master.                                             *)

ApproveAudioRead(m) ==
  /\ approving = Idle /\ Open < MaxOpen
  /\ masters[m].ready
  /\ masters[m].run = chapter.run
  /\ masters[m].plan = chapter.plan
  /\ approving' = [master |-> m, state |-> chapter.state, had |-> chapter.master]
  /\ UNCHANGED <<textVars, plans, clips, masters, srt, issue, rights, bundles,
                 rendering, exporting, job>>

\* The open issues are read after the probe, everything else was before it.
ApproveAudioCommit ==
  /\ approving # Idle
  /\ ~issue
  /\ Allowed(approving.state, "READY_TO_EXPORT")
  /\ chapter' = [chapter EXCEPT
       !.master = IF approving.had = approving.master THEN @ ELSE approving.master,
       !.state = IF approving.state = "READY_TO_EXPORT" THEN @ ELSE "READY_TO_EXPORT"]
  /\ approving' = Idle
  /\ UNCHANGED <<runs, context, proposal, plans, clips, masters, srt, issue, rights, bundles,
                 rendering, exporting, job>>

ApproveAudioRefused ==
  /\ approving # Idle
  /\ approving' = Idle
  /\ UNCHANGED <<textVars, plans, clips, masters, srt, issue, rights, bundles,
                 rendering, exporting, job>>

-----------------------------------------------------------------------------
(* Exports.                                                              *)

\* A private archive is built in any case, a publication only with subtitles and rights.
MayBeBuilt(kind) == kind = "publication" => srt # None /\ rights

\* What an export is made of must fit together when it is read.
ExportOfAnyMaster(kind) ==
  /\ exporting = Idle /\ Open < MaxOpen
  /\ ApprovedRun
  /\ chapter.master # None /\ masters[chapter.master].ready
  /\ MayBeBuilt(kind)
  /\ exporting' = [kind |-> kind, run |-> chapter.run, source |-> chapter.source,
                   master |-> chapter.master, srt |-> srt, rights |-> rights]
  /\ UNCHANGED <<textVars, plans, clips, masters, srt, issue, rights, bundles,
                 rendering, approving, job>>

ExportRead(kind) ==
  /\ exporting = Idle /\ Open < MaxOpen
  /\ ApprovedRun
  /\ chapter.master # None /\ masters[chapter.master].ready
  /\ masters[chapter.master].run = chapter.run
  /\ masters[chapter.master].plan = chapter.plan
  /\ MayBeBuilt(kind)
  /\ exporting' = [kind |-> kind, run |-> chapter.run, source |-> chapter.source,
                   master |-> chapter.master, srt |-> srt, rights |-> rights]
  /\ UNCHANGED <<textVars, plans, clips, masters, srt, issue, rights, bundles,
                 rendering, approving, job>>

\* The row of an export keeps what was read for it.
Bundle ==
  [kind |-> exporting.kind, run |-> exporting.run, source |-> exporting.source,
   master |-> exporting.master, srt |-> exporting.srt, rights |-> exporting.rights,
   ready |-> TRUE]

ExportCommit ==
  /\ exporting # Idle
  /\ Len(bundles) < MaxBundles
  /\ bundles' = Append(bundles, Bundle)
  /\ chapter' = [chapter EXCEPT !.export = Len(bundles) + 1]
  /\ exporting' = Idle
  /\ UNCHANGED <<runs, context, proposal, plans, clips, masters, srt, issue, rights,
                 rendering, approving, job>>

\* A file is missing, changed, or fails its check: the partial bundle is removed.
ExportFails ==
  /\ exporting # Idle
  /\ exporting' = Idle
  /\ UNCHANGED <<textVars, plans, clips, masters, srt, issue, rights, bundles,
                 rendering, approving, job>>

\* Grants are added, expire, or are withdrawn.
RightsChange ==
  /\ rights' = ~rights
  /\ UNCHANGED <<textVars, plans, clips, masters, srt, issue, bundles, requests, job>>

\* What the review page says of a bundle.
StaleReasons(b) ==
  {reason \in {"GATE_BLOCKED", "RIGHTS_CHANGED", "MASTER_CHANGED", "TRANSLATION_CHANGED"} :
     CASE reason = "GATE_BLOCKED"        -> bundles[b].kind = "publication" /\ ~rights
       [] reason = "RIGHTS_CHANGED"      -> bundles[b].rights # rights
       [] reason = "MASTER_CHANGED"      -> bundles[b].master # chapter.master
       [] reason = "TRANSLATION_CHANGED" -> bundles[b].run # chapter.run}

Stale(b) == StaleReasons(b) # {}

-----------------------------------------------------------------------------
(* A term of the glossary takes the audio and the exports with the text. *)

InvalidateTerm ==
  /\ ChangeTerm
  /\ clips' = Retired(clips, DOMAIN clips)
  /\ masters' = Withdrawn(masters)
  /\ srt' = None
  /\ bundles' = Withdrawn(bundles)
  /\ UNCHANGED <<plans, issue, rights, requests, job>>

-----------------------------------------------------------------------------
(* Specification.                                                        *)

AudioInit ==
  /\ TextInit
  /\ plans = <<>> /\ clips = <<>> /\ masters = <<>> /\ bundles = <<>>
  /\ srt = None
  /\ issue = FALSE
  /\ rights \in BOOLEAN
  /\ rendering = Idle /\ approving = Idle /\ exporting = Idle
  /\ job = Idle

Reads ==
  \/ \E forced \in Forced : RenderRead(forced)
  \/ \E m \in DOMAIN masters : ApproveAudioRead(m)
  \/ \E kind \in Kinds : ExportRead(kind)
  \/ RenderFails
  \/ ApproveAudioRefused
  \/ ExportFails

Writes ==
  \/ TextRequests /\ UNCHANGED audioVars
  \/ InvalidateTerm
  \/ \E preset \in Presets : ConfigureSingle(preset)
  \/ \E cast \in Casts : \E narrator \in cast : CreateMulti(cast, narrator)
  \/ \E i \in Segments, voice \in Presets : AssignRole(i, voice)
  \/ RenderCommit
  \/ ApproveAudioCommit
  \/ ExportCommit
  \/ RightsChange
  \/ \E forced \in Forced : EnqueueRender(forced)

JobSteps ==
  \/ JobStarts \/ JobReuses \/ JobCalls \/ JobStores \/ JobEnds
  \/ JobInterrupted \/ JobCanceled

AudioNext == Reads \/ (~Locked /\ Writes) \/ JobSteps

ChapterSpec == AudioInit /\ [][AudioNext]_chapterVars

-----------------------------------------------------------------------------
(* What the pipeline must keep.                                          *)

\* The voice plan of a chapter reads the translation that is approved for it, and
\* no plan was ever made of a text with an issue nobody dismissed
\* (speech/workflow.py, roles.py: _approved_run at the time, and every change of
\* the approved run since).
PlanReadsApprovedRun ==
  /\ chapter.plan # None => plans[chapter.plan].run = chapter.run
  /\ \A p \in DOMAIN plans : runs[plans[p].run].blockers # "open"

SpokenBy(m) == [i \in Segments |-> clips[masters[m].clips[i]].spoken]
TextOf(r) == [i \in Segments |-> runs[r].cells[i].text]

\* A bundle is of one piece: its audio speaks the text it prints, segment by
\* segment, in the voices of one plan, and its subtitles belong to that audio,
\* whatever was rendered, edited or canceled while it was packed
\* (exports/workflow.py: _context and the caches its parts come from).
BundleOfOnePiece ==
  \A b \in DOMAIN bundles :
     LET m == bundles[b].master IN
     /\ SpokenBy(m) = TextOf(bundles[b].run)
     /\ \A i \in Segments :
          clips[masters[m].clips[i]].key.voice = plans[masters[m].plan].voice[i]
     /\ bundles[b].kind = "publication" => bundles[b].srt = m /\ bundles[b].rights

\* A bundle the review calls fresh prints and speaks the translation that is
\* approved now, and may still be published if it is for that (exports/review.py).
FreshBundleIsApproved ==
  \A b \in DOMAIN bundles :
     ~Stale(b) =>
       /\ chapter.run # None /\ SpokenBy(chapter.master) = TextOf(chapter.run)
       /\ bundles[b].kind = "publication" => rights

=============================================================================
