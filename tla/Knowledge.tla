------------------------------ MODULE Knowledge ------------------------------
(***************************************************************************)
(* What a project knows beside its text, and what a translation is made    *)
(* with: the glossary (backend/app/modules/translation/glossary.py) and    *)
(* its invalidation (projects/invalidation.py), the story memory           *)
(* (story_memory.py), the imported vector index over it (memory_index.py), *)
(* the translation memory (translation_memory.py), the characters          *)
(* (characters.py), and the trace that tells a user what a run was made    *)
(* with (context_trace.py).                                                *)
(*                                                                         *)
(* A chapter is its ordinal.  Its source is one segment.  A hash is the    *)
(* set of what is hashed.  An upsert of a term, a decision about a memory, *)
(* a revision of a character and a translation each read, while others may *)
(* commit, and then write in one transaction.                              *)
(***************************************************************************)
EXTENDS Naturals, Sequences, FiniteSets, FiniteSetsExt

CONSTANTS
  NChapters,    \* chapters of the project
  Texts,        \* the source text of each chapter
  Terms,        \* source terms
  Mentions,     \* the terms each text contains
  Targets,      \* renderings of a term
  Renderings,   \* translations of a text
  Scopes,       \* chapter ranges entries are given
  Users,        \* requests at the same time
  Characters,
  MaxRevisions, \* bound on revisions of one term or character
  MaxMemories,  \* bound on memory entries
  MaxRuns,      \* bound on translations
  None

Chapters == 1..NChapters

ASSUME KnowledgeAssumption ==
  /\ NChapters \in Nat \ {0}
  /\ DOMAIN Texts = Chapters
  /\ \A c \in Chapters : Mentions[Texts[c]] \subseteq Terms
  /\ Scopes \subseteq [from : Chapters, to : Chapters]
  /\ {MaxRevisions, MaxMemories, MaxRuns} \subseteq Nat
  /\ \A refs \in SUBSET (1..MaxMemories) : refs # None

VARIABLES
  glossary,   \* glossary_entries: every revision of every term
  memories,   \* story_memory_entries
  runs,       \* translation_runs, each with what it was made with
  pairs,      \* translation_memory
  index,      \* memory_indexes: the one of the project, or None
  people,     \* character_revisions: every revision of every character
  doing       \* per user: the request that has read and not written

knowledgeVars == <<glossary, memories, runs, pairs, index, people, doing>>

Idle == [what |-> "idle"]
Begin(u, request) == doing[u] = Idle /\ doing' = [doing EXCEPT ![u] = request]
End(u) == doing' = [doing EXCEPT ![u] = Idle]
Doing(u, what) == doing[u].what = what

Covers(x, c) == x.from =< c /\ c =< x.to

-----------------------------------------------------------------------------
(* The glossary.                                                         *)

Revisions(term) == {e \in glossary : e.term = term}
ActiveEntries == {e \in glossary : \A f \in Revisions(e.term) : f.supersedes # e.no}
Newest(these) == CHOOSE e \in these : \A f \in these : f.no =< e.no
ActiveEntry(term) ==
  LET active == ActiveEntries \cap Revisions(term) IN IF active = {} THEN None ELSE Newest(active)

\* What a chapter must be translated with: locked terms whose scope covers it.
LockedRules(c) ==
  {[term |-> e.term, target |-> e.target] : e \in {f \in ActiveEntries : f.locked /\ Covers(f, c)}}

Standing(r) == runs[r].status \in {"REVIEW", "APPROVED"}

AffectedBelow(term, scope) == {c \in Chapters : term \in Mentions[Texts[c]] /\ scope.from =< c /\ c < scope.to}
Affected(term, scope) == {c \in Chapters : term \in Mentions[Texts[c]] /\ Covers(scope, c)}

Invalidated(chapters) ==
  [r \in DOMAIN runs |->
     IF Standing(r) /\ runs[r].chapter \in chapters THEN [runs[r] EXCEPT !.status = "SUPERSEDED"]
     ELSE runs[r]]

\* Read the active entry of the term: a command that repeats it changes nothing.
UpsertRead(u, term, target, locked, scope) ==
  LET active == ActiveEntry(term)
      command == [term |-> term, target |-> target, locked |-> locked,
                  from |-> scope.from, to |-> scope.to]
      same == active # None /\ \A f \in DOMAIN command : active[f] = command[f]
  IN  /\ Cardinality(Revisions(term)) < MaxRevisions
      /\ Begin(u, [what |-> "upsert", command |-> command,
                   supersedes |-> IF active = None THEN 0 ELSE active.no])
      /\ ~same
      /\ UNCHANGED <<glossary, memories, runs, pairs, index, people>>

\* The row of a command: the next number of its term, and the entry it replaces.
AppliedEntry(e, supersedes) ==
  [term |-> e.term, target |-> e.target, locked |-> e.locked, from |-> e.from, to |-> e.to,
   no |-> Max({f.no : f \in Revisions(e.term)} \cup {0}) + 1, supersedes |-> supersedes]

\* Insert it under the id of its term and number, and invalidate what was
\* translated in its scope.
UpsertCommit(u) ==
  LET e == doing[u].command
  IN  /\ Doing(u, "upsert")
      /\ Cardinality(Revisions(e.term)) < MaxRevisions
      /\ glossary' = glossary \cup {AppliedEntry(e, doing[u].supersedes)}
      /\ runs' = Invalidated(Affected(e.term, [from |-> e.from, to |-> e.to]))
      /\ End(u)
      /\ UNCHANGED <<memories, pairs, index, people>>

-----------------------------------------------------------------------------
(* Story memory.                                                         *)

ApprovedRun(r) == r # None /\ runs[r].status = "APPROVED"

MemoryFor(c) ==
  {k \in DOMAIN memories : /\ memories[k].status = "APPROVED" /\ ApprovedRun(memories[k].run)
                           /\ Covers(memories[k], c)}

CreateMemory(scope) ==
  /\ Len(memories) < MaxMemories
  /\ memories' = Append(memories, [from |-> scope.from, to |-> scope.to,
                                   status |-> "CANDIDATE", run |-> None])
  /\ UNCHANGED <<glossary, runs, pairs, index, people, doing>>

\* A candidate is approved with an approved run as its evidence, or rejected.
DecideRead(u, k, run) ==
  /\ memories[k].status = "CANDIDATE"
  /\ run # None => ApprovedRun(run)
  /\ Begin(u, [what |-> "decide", memory |-> k, run |-> run])
  /\ UNCHANGED <<glossary, memories, runs, pairs, index, people>>

\* Only the columns that change are written.
DecideCommit(u) ==
  LET d == doing[u] IN
  /\ Doing(u, "decide")
  /\ memories' = [memories EXCEPT
       ![d.memory].status = IF d.run = None THEN "REJECTED" ELSE "APPROVED",
       ![d.memory].run = IF d.run = None THEN @ ELSE d.run]
  /\ End(u)
  /\ UNCHANGED <<glossary, runs, pairs, index, people>>

-----------------------------------------------------------------------------
(* The vector index of the user.                                         *)

\* project_memory_snapshot_hash: approved entries, whatever became of their runs.
Snapshot == {k \in DOMAIN memories : memories[k].status = "APPROVED"}

Importable(refs) == refs # {} /\ refs \subseteq DOMAIN memories

\* The user's file names the snapshot it was made from, or takes the current one.
ImportIndex(refs, source, disabled) ==
  /\ Importable(refs)
  /\ index' = [refs |-> refs, source |-> source, disabled |-> disabled]
  /\ UNCHANGED <<glossary, memories, runs, pairs, people, doing>>

RetrievalEnabled == index # None /\ index.source = Snapshot /\ ~index.disabled

\* The entries of the index that may be ranked for a chapter.
EligibleUnfiltered(c) ==
  {k \in index.refs : memories[k].status = "APPROVED" /\ Covers(memories[k], c)}
Eligible(c) ==
  {k \in index.refs : /\ memories[k].status = "APPROVED"
                      /\ memories[k].run # None => ApprovedRun(memories[k].run)
                      /\ Covers(memories[k], c)}

\* Retrieval with a query that fits.
Ranked(c) == IF index = None \/ index.disabled \/ index.source # Snapshot THEN None ELSE Eligible(c)

-----------------------------------------------------------------------------
(* Translations.                                                         *)

\* The hashes are taken before the run is inserted; from then on the session
\* holds the write lock, and reads the rules.
TranslateRead(u, c) ==
  /\ Len(runs) < MaxRuns
  /\ Begin(u, [what |-> "translate", chapter |-> c, glossary |-> ActiveEntries,
               memory |-> MemoryFor(c)])
  /\ UNCHANGED <<glossary, memories, runs, pairs, index, people>>

TranslateCommit(u, text) ==
  LET t == doing[u] IN
  /\ Doing(u, "translate")
  /\ Len(runs) < MaxRuns
  /\ runs' = Append(runs, [chapter |-> t.chapter, status |-> "REVIEW", glossary |-> t.glossary,
                           rules |-> LockedRules(t.chapter), memory |-> t.memory, text |-> text])
  /\ End(u)
  /\ UNCHANGED <<glossary, memories, pairs, index, people>>

\* The pair an approved run leaves in the translation memory, in place of those
\* other runs left under the same fingerprint.
Pair(r) == [source |-> Texts[runs[r].chapter], glossary |-> runs[r].glossary, run |-> r]
Fingerprint(p) == <<p.source, p.glossary>>

RecordBeside(r) == pairs \cup {Pair(r)}
Recorded(r) ==
  {p \in pairs : Fingerprint(p) # Fingerprint(Pair(r)) \/ p.run = r} \cup {Pair(r)}

\* The latest run under review is approved; earlier approved ones stay so.
ApproveRun(r) ==
  /\ runs[r].status = "REVIEW"
  /\ \A s \in DOMAIN runs : runs[s].chapter = runs[r].chapter /\ runs[s].status = "REVIEW" => s =< r
  /\ runs' = [runs EXCEPT ![r].status = "APPROVED"]
  /\ pairs' = Recorded(r)
  /\ UNCHANGED <<glossary, memories, index, people, doing>>

\* An edit supersedes the run it is made from.
EditRun(r, text) ==
  /\ Standing(r)
  /\ Len(runs) < MaxRuns
  /\ text # runs[r].text
  /\ runs' = Append([runs EXCEPT ![r].status = "SUPERSEDED"],
                    [runs[r] EXCEPT !.status = "REVIEW", !.text = text])
  /\ UNCHANGED <<glossary, memories, pairs, index, people, doing>>

\* exact_match: what a translation of the text is offered.
Offered(text, hash) ==
  {runs[p.run].text : p \in {q \in pairs : /\ Fingerprint(q) = <<text, hash>>
                                           /\ runs[q.run].status = "APPROVED"}}

\* What the inspector says of the latest run of a chapter.
LatestRun(c) == Max({r \in DOMAIN runs : runs[r].chapter = c})
Translated(c) == \E r \in DOMAIN runs : runs[r].chapter = c

\* The run hashed the summaries; the trace hashes the entries.
RunMemoryHash(r) == {<<k>> : k \in runs[r].memory}
TraceMemoryHash(c) == {<<k, memories[k].from, memories[k].to>> : k \in MemoryFor(c)}

ShownStaleGlossaryOnly(c) == runs[LatestRun(c)].glossary # ActiveEntries
ShownStale(c) ==
  \/ runs[LatestRun(c)].glossary # ActiveEntries
  \/ RunMemoryHash(LatestRun(c)) # TraceMemoryHash(c)

-----------------------------------------------------------------------------
(* Characters.                                                           *)

CharacterStatuses == {"CANDIDATE", "APPROVED"}
RevisionsOf(p) == {r \in people : r.character = p}

\* A new character has an id of its own.
CreateCharacter(p, status) ==
  /\ RevisionsOf(p) = {}
  /\ people' = people \cup {[character |-> p, status |-> status, no |-> 1, supersedes |-> 0,
                            by |-> None]}
  /\ UNCHANGED <<glossary, memories, runs, pairs, index, doing>>

\* Other facts of any status, or an approval: a revision after the active one.
CharacterRead(u, p, status) ==
  /\ RevisionsOf(p) # {}
  /\ LET active == Newest(RevisionsOf(p)) IN
       /\ active.no < MaxRevisions
       /\ Begin(u, [what |-> "character", character |-> p, status |-> status, no |-> active.no])
  /\ UNCHANGED <<glossary, memories, runs, pairs, index, people>>

Revision(u) == [character |-> doing[u].character, status |-> doing[u].status,
                no |-> doing[u].no + 1, supersedes |-> doing[u].no, by |-> u]

\* The unique index refuses a second revision of the same number.
CharacterCommit(u) ==
  /\ Doing(u, "character")
  /\ people' = IF \E r \in RevisionsOf(doing[u].character) : r.no = doing[u].no + 1
               THEN people ELSE people \cup {Revision(u)}
  /\ End(u)
  /\ UNCHANGED <<glossary, memories, runs, pairs, index>>

-----------------------------------------------------------------------------

KnowledgeInit ==
  /\ glossary = {} /\ memories = <<>> /\ runs = <<>> /\ pairs = {} /\ index = None
  /\ people = {} /\ doing = [u \in Users |-> Idle]

Reads(u) ==
  \/ \E t \in Terms, g \in Targets, locked \in BOOLEAN, s \in Scopes :
       UpsertRead(u, t, g, locked, s)
  \/ \E k \in DOMAIN memories, r \in DOMAIN runs \cup {None} : DecideRead(u, k, r)
  \/ \E c \in Chapters : TranslateRead(u, c)
  \/ \E p \in Characters, status \in CharacterStatuses : CharacterRead(u, p, status)

Commits(u) == \/ UpsertCommit(u) \/ DecideCommit(u) \/ CharacterCommit(u)
              \/ \E text \in Renderings : TranslateCommit(u, text)

KnowledgeNext ==
  \/ \E u \in Users : Reads(u) \/ Commits(u)
  \/ \E s \in Scopes : CreateMemory(s)
  \/ \E p \in Characters, status \in CharacterStatuses : CreateCharacter(p, status)
  \/ \E refs \in SUBSET DOMAIN memories, source \in {Snapshot, {}}, disabled \in BOOLEAN :
       ImportIndex(refs, source, disabled)
  \/ \E r \in DOMAIN runs : ApproveRun(r) \/ \E text \in Renderings : EditRun(r, text)

KnowledgeSpec == KnowledgeInit /\ [][KnowledgeNext]_knowledgeVars

-----------------------------------------------------------------------------
(* What the knowledge is worth.                                          *)

\* No translation that is still under review or approved was made without a locked
\* term its chapter mentions and that is in force for it: the change of a term
\* supersedes what was translated in its scope, and a translation that was already
\* under way when the term changed reads the new rules.
LiveRunsKnowTheirTerms ==
  \A r \in DOMAIN runs : Standing(r) =>
    \A rule \in LockedRules(runs[r].chapter) :
      rule.term \in Mentions[Texts[runs[r].chapter]] => rule \in runs[r].rules

\* What the vector index may contribute to a chapter is memory the structured
\* selection gives that chapter too, and retrieval runs exactly when its status says
\* so: entries whose evidence was superseded, or that another chapter's range holds,
\* are dropped although the index was imported when they were good.
RetrievalWithinApproved ==
  \A c \in Chapters : /\ (Ranked(c) # None) = RetrievalEnabled
                      /\ Ranked(c) # None => Ranked(c) \subseteq MemoryFor(c)

\* For one source text and one glossary the translation memory offers at most one
\* translation, though several chapters with that text may have been approved.
OneTranslationOffered ==
  \A p \in pairs : Cardinality(Offered(p.source, p.glossary)) =< 1

\* The inspector shows a run as stale when it was made with another glossary or
\* another story memory than the chapter has now.
OldContextShown ==
  \A c \in Chapters : Translated(c) =>
    LET run == runs[LatestRun(c)] IN
    run.glossary # ActiveEntries \/ run.memory # MemoryFor(c) => ShownStale(c)

=============================================================================
