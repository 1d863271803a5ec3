----------------------------- MODULE MCChapter -----------------------------
(***************************************************************************)
(* A small instance of the chapter from an approved text to its bundle.    *)
(***************************************************************************)
EXTENDS ChapterAudio, TLC

MCAnswers == {[i \in Segments |-> "first"]}
MCFlagged == [c \in 0..MaxContext |-> Edits]
MCForced == {{}, {1}}
MCCasts == {Presets} \cup {{p} : p \in Presets}
MCFaults == {[clip |-> FALSE, master |-> FALSE]}
\* Bounds on what happened to the chapter together: a change of the glossary and
\* a forced job leave less room for the rest, only jobs are forced, no job works beside
\* an approval or an export, and rights are
\* withdrawn around an export.
MCHistory ==
  /\ Len(runs) + Len(plans) + Len(masters) + Len(bundles) + 3 * context
       + (IF job # Idle /\ job.forced # {} THEN 3 ELSE 0) =< 6
  /\ rendering # Idle => rendering.forced = {}
  /\ approving # Idle \/ exporting # Idle => job = Idle
  /\ ~rights => bundles # <<>> \/ exporting # Idle

MCPresets == Permutations(Presets)
=============================================================================
