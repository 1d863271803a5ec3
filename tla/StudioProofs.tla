----------------------------- MODULE StudioProofs -----------------------------
(***************************************************************************)
(* What TLAPS proves about the files of the studio (Vault), about what a   *)
(* project knows (Knowledge) and about what it spends (Budget).            *)
(***************************************************************************)
EXTENDS Budget, Vault, Knowledge, NaturalSets, SequenceTheorems, TLAPS

-----------------------------------------------------------------------------
(* Knowledge, for any chapters, texts, terms and users: what a translation *)
(* was made with is what its chapter asked for, or the run no longer       *)
(* stands.                                                                 *)

RunStatuses == {"REVIEW", "APPROVED", "SUPERSEDED"}
Rule == [term : Terms, target : Targets]

\* Rows; a run's hash of the glossary is of entries that are still there.
RunRow == [chapter : Chapters, status : RunStatuses, glossary : SUBSET glossary,
           rules : SUBSET Rule, memory : SUBSET Nat, text : Renderings]
MemoryRow == [from : Chapters, to : Chapters, status : {"CANDIDATE", "APPROVED", "REJECTED"},
              run : Nat \cup {None}]
Command == [term : Terms, target : Targets, locked : BOOLEAN, from : Chapters, to : Chapters]

RequestOK(u) ==
  /\ Doing(u, "upsert") => doing[u].command \in Command
  /\ Doing(u, "decide") => doing[u].memory \in DOMAIN memories /\ doing[u].run \in Nat \cup {None}
  /\ Doing(u, "translate") =>
       /\ doing[u].chapter \in Chapters
       /\ doing[u].glossary \subseteq glossary
       /\ doing[u].memory \subseteq Nat

KnowledgeTypeOK ==
  /\ \A e \in glossary : e.term \in Terms /\ e.target \in Targets
  /\ runs \in Seq(RunRow)
  /\ memories \in Seq(MemoryRow) /\ Len(memories) =< MaxMemories
  /\ index # None => index.refs \subseteq DOMAIN memories
  /\ DOMAIN doing = Users
  /\ \A u \in Users : RequestOK(u)

\* An approved memory has its evidence, whoever decides about it a second time.
EvidenceKept == \A k \in DOMAIN memories : memories[k].status = "APPROVED" => memories[k].run # None

\* A pair is the one its run left, and the only one of its fingerprint.
PairsOfRuns ==
  /\ \A p \in pairs : p.run \in DOMAIN runs /\ p = Pair(p.run)
  /\ \A p, q \in pairs : Fingerprint(p) = Fingerprint(q) => p = q

KnowledgeInv ==
  /\ KnowledgeTypeOK
  /\ EvidenceKept
  /\ PairsOfRuns
  /\ LiveRunsKnowTheirTerms

LEMMA KnowledgeStart == KnowledgeInit => KnowledgeInv
BY KnowledgeAssumption DEF KnowledgeInit, KnowledgeInv, KnowledgeTypeOK, RequestOK, Doing, Idle, EvidenceKept,
   PairsOfRuns, LiveRunsKnowTheirTerms

\* Beginning a request writes nothing but the request.
LEMMA BeginKeepsKnowledge ==
  ASSUME KnowledgeInv, NEW u \in Users, NEW request, Begin(u, request),
         UNCHANGED <<glossary, memories, runs, pairs, index>>,
         /\ request.what = "upsert" => request.command \in Command
         /\ request.what = "decide" =>
              request.memory \in DOMAIN memories /\ request.run \in Nat \cup {None}
         /\ request.what = "translate" =>
              /\ request.chapter \in Chapters
              /\ request.glossary \subseteq glossary
              /\ request.memory \subseteq Nat
  PROVE  KnowledgeInv'
<1>1. DOMAIN doing' = Users /\ \A v \in Users : doing'[v] = IF v = u THEN request ELSE doing[v]
  BY DEF Begin, KnowledgeInv, KnowledgeTypeOK
<1>2. \A v \in Users : RequestOK(v)'
  BY <1>1 DEF KnowledgeInv, KnowledgeTypeOK, RequestOK, Doing
<1>3. KnowledgeTypeOK'
  BY <1>1, <1>2 DEF KnowledgeInv, KnowledgeTypeOK, RunRow
<1>4. EvidenceKept' /\ PairsOfRuns' /\ LiveRunsKnowTheirTerms'
  BY DEF KnowledgeInv, EvidenceKept, PairsOfRuns, Pair, Fingerprint, LiveRunsKnowTheirTerms, Standing,
     LockedRules, ActiveEntries, Revisions, Covers
<1> QED
  BY <1>3, <1>4 DEF KnowledgeInv

LEMMA ReadsKeepKnowledge ==
  ASSUME KnowledgeInv, NEW u \in Users, Reads(u)
  PROVE  KnowledgeInv'
<1>1. ASSUME NEW t \in Terms, NEW g \in Targets, NEW locked \in BOOLEAN, NEW s \in Scopes,
             UpsertRead(u, t, g, locked, s)
      PROVE  KnowledgeInv'
  <2>1. s.from \in Chapters /\ s.to \in Chapters
    BY KnowledgeAssumption
  <2> DEFINE command == [term |-> t, target |-> g, locked |-> locked, from |-> s.from, to |-> s.to]
             active == ActiveEntry(t)
             request == [what |-> "upsert", command |-> command,
                         supersedes |-> IF active = None THEN 0 ELSE active.no]
  <2>2. Begin(u, request) /\ UNCHANGED <<glossary, memories, runs, pairs, index>>
    BY <1>1 DEF UpsertRead
  <2>3. request.what = "upsert" /\ request.command \in Command
    BY <2>1 DEF Command
  <2> QED
    BY <2>2, <2>3, BeginKeepsKnowledge
<1>2. ASSUME NEW k \in DOMAIN memories, NEW r \in DOMAIN runs \cup {None}, DecideRead(u, k, r)
      PROVE  KnowledgeInv'
  <2>1. r \in Nat \cup {None}
    BY DEF KnowledgeInv, KnowledgeTypeOK
  <2>2. /\ Begin(u, [what |-> "decide", memory |-> k, run |-> r])
        /\ UNCHANGED <<glossary, memories, runs, pairs, index>>
    BY <1>2 DEF DecideRead
  <2> QED
    BY <2>1, <2>2, BeginKeepsKnowledge
<1>3. ASSUME NEW c \in Chapters, TranslateRead(u, c) PROVE KnowledgeInv'
  <2>1. ActiveEntries \subseteq glossary
    BY DEF ActiveEntries
  <2>2. MemoryFor(c) \subseteq Nat
    BY DEF MemoryFor, KnowledgeInv, KnowledgeTypeOK
  <2>3. /\ Begin(u, [what |-> "translate", chapter |-> c, glossary |-> ActiveEntries,
                     memory |-> MemoryFor(c)])
        /\ UNCHANGED <<glossary, memories, runs, pairs, index>>
    BY <1>3 DEF TranslateRead
  <2> QED
    BY <2>1, <2>2, <2>3, BeginKeepsKnowledge
<1>4. ASSUME NEW p \in Characters, NEW status \in CharacterStatuses, CharacterRead(u, p, status)
      PROVE  KnowledgeInv'
  <2>1. PICK request : /\ Begin(u, request) /\ request.what = "character"
                       /\ UNCHANGED <<glossary, memories, runs, pairs, index>>
    BY <1>4 DEF CharacterRead
  <2> QED
    BY <2>1, BeginKeepsKnowledge
<1> QED
  BY <1>1, <1>2, <1>3, <1>4 DEF Reads

\* A request that ends leaves those of others as they were; rows that only grow keep
\* what they asked for.
LEMMA EndKeepsRequests ==
  ASSUME KnowledgeInv, NEW u \in Users, End(u) \/ UNCHANGED doing, glossary \subseteq glossary',
         DOMAIN memories \subseteq DOMAIN memories'
  PROVE  DOMAIN doing' = Users /\ \A v \in Users : RequestOK(v)'
<1>1. DOMAIN doing' = Users /\ \A v \in Users : doing'[v] \in {doing[v], Idle}
  BY DEF End, KnowledgeInv, KnowledgeTypeOK
<1> QED
  BY <1>1 DEF KnowledgeInv, KnowledgeTypeOK, RequestOK, Doing, Idle

\* The rules of a chapter are of entries; a new entry brings at most its own.
LEMMA RulesOfChapter ==
  ASSUME KnowledgeTypeOK, NEW c
  PROVE  LockedRules(c) \in SUBSET Rule
BY DEF LockedRules, Rule, ActiveEntries, KnowledgeTypeOK

LEMMA InvalidatedRuns ==
  ASSUME KnowledgeTypeOK, NEW chapters
  PROVE  /\ Invalidated(chapters) \in Seq(RunRow)
         /\ DOMAIN Invalidated(chapters) = DOMAIN runs
         /\ \A r \in DOMAIN runs :
              /\ Invalidated(chapters)[r].chapter = runs[r].chapter
              /\ Invalidated(chapters)[r].glossary = runs[r].glossary
              /\ Invalidated(chapters)[r].rules = runs[r].rules
              /\ Invalidated(chapters)[r].status \in {"REVIEW", "APPROVED"} =>
                   Standing(r) /\ runs[r].chapter \notin chapters
<1> DEFINE made(r) == IF Standing(r) /\ runs[r].chapter \in chapters
                     THEN [runs[r] EXCEPT !.status = "SUPERSEDED"] ELSE runs[r]
<1>1. \A r \in DOMAIN runs : runs[r] \in RunRow
  BY DEF KnowledgeTypeOK
<1>2. \A x \in RunRow : LET y == [x EXCEPT !.status = "SUPERSEDED"] IN
        /\ y \in RunRow /\ y.chapter = x.chapter /\ y.glossary = x.glossary /\ y.rules = x.rules
        /\ y.status = "SUPERSEDED"
  BY DEF RunRow, RunStatuses
<1>3. \A r \in DOMAIN runs :
        /\ made(r) \in RunRow
        /\ made(r).chapter = runs[r].chapter
        /\ made(r).glossary = runs[r].glossary
        /\ made(r).rules = runs[r].rules
        /\ made(r).status \in {"REVIEW", "APPROVED"} => Standing(r) /\ runs[r].chapter \notin chapters
  BY <1>1, <1>2 DEF Standing
<1>4. Invalidated(chapters) = [r \in DOMAIN runs |-> made(r)]
  BY DEF Invalidated
<1>5. DOMAIN runs = 1..Len(runs) /\ Len(runs) \in Nat
  BY DEF KnowledgeTypeOK
<1> HIDE DEF made
<1>6. Invalidated(chapters) \in Seq(RunRow)
  BY <1>3, <1>4, <1>5, SeqDef
<1> QED
  BY <1>3, <1>4, <1>6

\* A new entry of a term supersedes what was translated in its scope; it can only take
\* other entries out of force.
LEMMA UpsertKeepsKnowledge ==
  ASSUME KnowledgeInv, NEW u \in Users, UpsertCommit(u)
  PROVE  KnowledgeInv'
<1> DEFINE c == doing[u].command
           e == AppliedEntry(c, doing[u].supersedes)
           chapters == Affected(c.term, [from |-> c.from, to |-> c.to])
<1>1. /\ c \in Command /\ glossary' = glossary \cup {e} /\ runs' = Invalidated(chapters) /\ End(u)
      /\ UNCHANGED <<memories, pairs, index, people>>
  BY DEF UpsertCommit, KnowledgeInv, KnowledgeTypeOK, RequestOK
<1>2. e.term = c.term /\ e.target = c.target /\ e.from = c.from /\ e.to = c.to
  BY DEF AppliedEntry
<1>3. e.term \in Terms /\ e.target \in Targets
  BY <1>1, <1>2 DEF Command
<1>4. \A r \in Chapters : e.term \in Mentions[Texts[r]] /\ Covers(e, r) => r \in chapters
  BY <1>2 DEF Affected, Covers
<1> HIDE DEF c, e, chapters
<1>5. /\ Invalidated(chapters) \in Seq(RunRow)
      /\ DOMAIN Invalidated(chapters) = DOMAIN runs
      /\ \A r \in DOMAIN runs :
              /\ Invalidated(chapters)[r].chapter = runs[r].chapter
              /\ Invalidated(chapters)[r].glossary = runs[r].glossary
              /\ Invalidated(chapters)[r].rules = runs[r].rules
              /\ Invalidated(chapters)[r].status \in {"REVIEW", "APPROVED"} =>
                   Standing(r) /\ runs[r].chapter \notin chapters
  BY InvalidatedRuns DEF KnowledgeInv
<1>6. runs' \in Seq(RunRow')
  <2>1. RunRow \subseteq RunRow'
    BY <1>1 DEF RunRow
  <2>2. Seq(RunRow) \subseteq Seq(RunRow')
    BY <2>1
  <2> QED
    BY <2>2, <1>1, <1>5
<1>7. KnowledgeTypeOK'
  <2>1. DOMAIN doing' = Users /\ \A v \in Users : RequestOK(v)'
    BY <1>1, EndKeepsRequests
  <2>2. \A f \in glossary' : f.term \in Terms /\ f.target \in Targets
    BY <1>1, <1>3 DEF KnowledgeInv, KnowledgeTypeOK
  <2> QED
    BY <1>1, <1>6, <2>1, <2>2 DEF KnowledgeInv, KnowledgeTypeOK
<1>8. EvidenceKept'
  BY <1>1 DEF KnowledgeInv, EvidenceKept
<1>9. PairsOfRuns'
  BY <1>1, <1>5 DEF KnowledgeInv, PairsOfRuns, Pair, Fingerprint
<1>10. LiveRunsKnowTheirTerms'
  <2> SUFFICES ASSUME NEW r \in DOMAIN runs', Standing(r)', NEW rule \in LockedRules(runs[r].chapter)',
                      rule.term \in Mentions[Texts[runs'[r].chapter]]
               PROVE  rule \in runs'[r].rules
    BY DEF LiveRunsKnowTheirTerms
  <2> DEFINE x == runs[r].chapter
  <2>1. /\ r \in DOMAIN runs /\ runs'[r].chapter = x /\ runs'[r].rules = runs[r].rules
        /\ Standing(r) /\ x \notin chapters /\ x \in Chapters
    <3>1. r \in DOMAIN runs /\ runs'[r] = Invalidated(chapters)[r]
      BY <1>1, <1>5
    <3>2. runs[r].chapter \in Chapters
      <4>1. runs[r] \in RunRow
        BY <3>1 DEF KnowledgeInv, KnowledgeTypeOK
      <4> QED
        BY <4>1 DEF RunRow
    <3>3. Invalidated(chapters)[r].status \in {"REVIEW", "APPROVED"}
      BY <3>1 DEF Standing
    <3> QED
      BY <3>1, <3>2, <3>3, <1>5
  <2>2. PICK f \in ActiveEntries' : /\ f.locked /\ Covers(f, x)
                                    /\ rule = [term |-> f.term, target |-> f.target]
    BY <2>1 DEF LockedRules
  <2>3. f \in ActiveEntries \cup {e}
    BY <2>2, <1>1 DEF ActiveEntries, Revisions
  <2>4. f # e
    BY <2>1, <2>2, <1>4
  <2>5. rule \in LockedRules(x)
    BY <2>2, <2>3, <2>4 DEF LockedRules
  <2> QED
    BY <2>1, <2>5 DEF KnowledgeInv, LiveRunsKnowTheirTerms
<1> QED
  BY <1>7, <1>8, <1>9, <1>10 DEF KnowledgeInv

LEMMA MemoriesKeepKnowledge ==
  ASSUME KnowledgeInv, memories' \in Seq(MemoryRow), DOMAIN memories \subseteq DOMAIN memories',
         Len(memories') =< MaxMemories, EvidenceKept', UNCHANGED <<glossary, runs, pairs>>,
         index' = index \/ index'.refs \subseteq DOMAIN memories,
         (\E u \in Users : End(u)) \/ UNCHANGED doing
  PROVE  KnowledgeInv'
<1>1. DOMAIN doing' = Users /\ \A v \in Users : RequestOK(v)'
  <2>1. CASE UNCHANGED doing
    BY <2>1 DEF KnowledgeInv, KnowledgeTypeOK, RequestOK, Doing
  <2>2. CASE \E u \in Users : End(u)
    BY <2>2, EndKeepsRequests
  <2> QED
    BY <2>1, <2>2
<1>2. KnowledgeTypeOK'
  BY <1>1 DEF KnowledgeInv, KnowledgeTypeOK, RunRow
<1>3. PairsOfRuns' /\ LiveRunsKnowTheirTerms'
  BY DEF KnowledgeInv, PairsOfRuns, Pair, Fingerprint, LiveRunsKnowTheirTerms, Standing,
     LockedRules, ActiveEntries, Revisions, Covers
<1> QED
  BY <1>2, <1>3 DEF KnowledgeInv

LEMMA MemoryOperationsKeepKnowledge ==
  ASSUME KnowledgeInv,
         \/ \E s \in Scopes : CreateMemory(s)
         \/ \E u \in Users : DecideCommit(u) \/ CharacterCommit(u)
         \/ \E refs \in SUBSET DOMAIN memories, source \in {Snapshot, {}}, disabled \in BOOLEAN :
              ImportIndex(refs, source, disabled)
         \/ \E p \in Characters, status \in CharacterStatuses : CreateCharacter(p, status)
  PROVE  KnowledgeInv'
<1>t. /\ memories \in Seq(MemoryRow) /\ Len(memories) =< MaxMemories /\ EvidenceKept
      /\ Len(memories) \in Nat /\ DOMAIN memories = 1..Len(memories)
  BY DEF KnowledgeInv, KnowledgeTypeOK
<1>1. ASSUME NEW s \in Scopes, CreateMemory(s) PROVE KnowledgeInv'
  <2> DEFINE made == [from |-> s.from, to |-> s.to, status |-> "CANDIDATE", run |-> None]
  <2>1. made \in MemoryRow /\ made.status # "APPROVED"
    BY KnowledgeAssumption DEF MemoryRow
  <2>2. /\ memories' = Append(memories, made) /\ Len(memories) < MaxMemories
        /\ UNCHANGED <<glossary, runs, pairs, index, doing>>
    BY <1>1 DEF CreateMemory
  <2> HIDE DEF made
  <2>3. /\ memories' \in Seq(MemoryRow) /\ Len(memories') = Len(memories) + 1
        /\ \A k \in 1..Len(memories) : memories'[k] = memories[k]
        /\ memories'[Len(memories) + 1] = made
    BY <2>1, <2>2, <1>t
  <2>4. EvidenceKept'
    BY <2>1, <2>3, <1>t DEF EvidenceKept
  <2>5. DOMAIN memories \subseteq DOMAIN memories' /\ Len(memories') =< MaxMemories
    BY <2>2, <2>3, <1>t, KnowledgeAssumption
  <2> QED
    BY <2>2, <2>3, <2>4, <2>5, MemoriesKeepKnowledge
<1>2. ASSUME NEW u \in Users, DecideCommit(u) PROVE KnowledgeInv'
  <2> DEFINE k == doing[u].memory
             r == doing[u].run
             after(x) == [x EXCEPT !.status = IF r = None THEN "REJECTED" ELSE "APPROVED",
                                   !.run = IF r = None THEN @ ELSE r]
  <2>1. k \in DOMAIN memories /\ r \in Nat \cup {None}
    BY <1>2 DEF DecideCommit, KnowledgeInv, KnowledgeTypeOK, RequestOK
  <2>2. \A x \in MemoryRow : after(x) \in MemoryRow /\ (after(x).status = "APPROVED" => after(x).run # None)
    BY <2>1 DEF MemoryRow
  <2>3. memories' = [memories EXCEPT ![k] = after(memories[k])]
    BY <1>2, <2>1, <1>t DEF DecideCommit
  <2> HIDE DEF after, k, r
  <2>4. /\ memories' \in Seq(MemoryRow) /\ DOMAIN memories' = DOMAIN memories
        /\ Len(memories') = Len(memories)
        /\ \A j \in DOMAIN memories : memories'[j] = IF j = k THEN after(memories[k]) ELSE memories[j]
    BY <2>1, <2>2, <2>3, <1>t
  <2>5. EvidenceKept'
    BY <2>1, <2>2, <2>4, <1>t DEF EvidenceKept
  <2>6. End(u) /\ UNCHANGED <<glossary, runs, pairs, index>>
    BY <1>2 DEF DecideCommit
  <2> QED
    <3>1. /\ DOMAIN memories \subseteq DOMAIN memories' /\ Len(memories') =< MaxMemories
          /\ UNCHANGED <<glossary, runs, pairs>> /\ index' = index /\ (\E v \in Users : End(v))
      BY <2>4, <2>6, <1>t
    <3> QED
      BY <2>4, <2>5, <3>1, MemoriesKeepKnowledge
<1>3. ASSUME NEW u \in Users, CharacterCommit(u) PROVE KnowledgeInv'
  <2>1. End(u) /\ UNCHANGED <<glossary, memories, runs, pairs, index>>
    BY <1>3 DEF CharacterCommit
  <2>2. EvidenceKept'
    BY <2>1, <1>t DEF EvidenceKept
  <2>3. /\ memories' \in Seq(MemoryRow) /\ DOMAIN memories \subseteq DOMAIN memories'
        /\ Len(memories') =< MaxMemories /\ UNCHANGED <<glossary, runs, pairs>>
    BY <2>1, <1>t
  <2> QED
    BY <2>1, <2>2, <2>3, MemoriesKeepKnowledge
<1>4. ASSUME NEW refs \in SUBSET DOMAIN memories, NEW source, NEW disabled,
             ImportIndex(refs, source, disabled)
      PROVE  KnowledgeInv'
  <2>1. index'.refs = refs /\ UNCHANGED <<glossary, memories, runs, pairs, doing>>
    BY <1>4 DEF ImportIndex
  <2>2. EvidenceKept'
    BY <2>1, <1>t DEF EvidenceKept
  <2>3. /\ memories' \in Seq(MemoryRow) /\ DOMAIN memories \subseteq DOMAIN memories'
        /\ Len(memories') =< MaxMemories /\ UNCHANGED <<glossary, runs, pairs>>
    BY <2>1, <1>t
  <2> QED
    BY <2>1, <2>2, <2>3, MemoriesKeepKnowledge
<1>5. ASSUME NEW p \in Characters, NEW status \in CharacterStatuses, CreateCharacter(p, status)
      PROVE  KnowledgeInv'
  <2>1. UNCHANGED <<glossary, memories, runs, pairs, index, doing>>
    BY <1>5 DEF CreateCharacter
  <2>2. EvidenceKept'
    BY <2>1, <1>t DEF EvidenceKept
  <2>3. /\ memories' \in Seq(MemoryRow) /\ DOMAIN memories \subseteq DOMAIN memories'
        /\ Len(memories') =< MaxMemories /\ UNCHANGED <<glossary, runs, pairs>>
    BY <2>1, <1>t
  <2> QED
    BY <2>1, <2>2, <2>3, MemoriesKeepKnowledge
<1> QED
  BY <1>1, <1>2, <1>3, <1>4, <1>5

\* A run that is added knows the rules it was made with.
LEMMA AppendedRun ==
  ASSUME KnowledgeInv, NEW before \in Seq(RunRow), DOMAIN before = DOMAIN runs,
         \A r \in DOMAIN runs : /\ before[r].chapter = runs[r].chapter
                                /\ before[r].glossary = runs[r].glossary
                                /\ before[r].rules = runs[r].rules
                                /\ before[r].status \in {"REVIEW", "APPROVED"} => Standing(r),
         NEW made \in RunRow, runs' = Append(before, made) \/ runs' = before,
         \A rule \in LockedRules(made.chapter) :
           rule.term \in Mentions[Texts[made.chapter]] => rule \in made.rules,
         UNCHANGED <<glossary, memories, index>>, (\E u \in Users : End(u)) \/ UNCHANGED doing,
         PairsOfRuns'
  PROVE  KnowledgeInv'
<1>1. RunRow' = RunRow
  BY DEF RunRow
<1>2. DOMAIN before = 1..Len(before) /\ Len(before) \in Nat /\ Append(before, made) \in Seq(RunRow)
      /\ Len(Append(before, made)) = Len(before) + 1 /\ Append(before, made)[Len(before) + 1] = made
      /\ \A r \in 1..Len(before) : Append(before, made)[r] = before[r]
  OBVIOUS
<1>3. DOMAIN doing' = Users /\ \A v \in Users : RequestOK(v)'
  <2>1. CASE UNCHANGED doing
    BY <2>1 DEF KnowledgeInv, KnowledgeTypeOK, RequestOK, Doing
  <2>2. CASE \E u \in Users : End(u)
    BY <2>2, EndKeepsRequests
  <2> QED
    BY <2>1, <2>2
<1>4. runs' \in Seq(RunRow)
  BY <1>2
<1>5. KnowledgeTypeOK'
  BY <1>1, <1>3, <1>4 DEF KnowledgeInv, KnowledgeTypeOK
<1>6. EvidenceKept'
  BY DEF KnowledgeInv, EvidenceKept
<1>7. LiveRunsKnowTheirTerms'
  <2> SUFFICES ASSUME NEW r \in DOMAIN runs', Standing(r)', NEW rule \in LockedRules(runs[r].chapter)',
                      rule.term \in Mentions[Texts[runs'[r].chapter]]
               PROVE  rule \in runs'[r].rules
    BY DEF LiveRunsKnowTheirTerms
  <2>1. \A c : LockedRules(c)' = LockedRules(c)
    BY DEF LockedRules, ActiveEntries, Revisions, Covers
  <2>2. rule \in LockedRules(runs'[r].chapter)
    BY <2>1 DEF LockedRules, ActiveEntries, Revisions, Covers
  <2>3. CASE r \in DOMAIN runs
    <3>1. runs'[r] = before[r]
      BY <1>2, <2>3
    <3>2. before[r].status \in {"REVIEW", "APPROVED"}
      BY <3>1 DEF Standing
    <3>3. Standing(r) /\ runs'[r].chapter = runs[r].chapter /\ runs'[r].rules = runs[r].rules
      BY <2>3, <3>1, <3>2
    <3> QED
      BY <2>2, <2>3, <3>3 DEF KnowledgeInv, LiveRunsKnowTheirTerms
  <2>4. CASE r \notin DOMAIN runs
    <3>1. runs'[r] = made
      BY <1>2, <2>4
    <3> QED
      BY <3>1, <2>2
  <2> QED
    BY <2>3, <2>4
<1> QED
  BY <1>5, <1>6, <1>7 DEF KnowledgeInv

LEMMA TranslationsKeepKnowledge ==
  ASSUME KnowledgeInv,
         \/ \E u \in Users, text \in Renderings : TranslateCommit(u, text)
         \/ \E r \in DOMAIN runs, text \in Renderings : EditRun(r, text)
         \/ \E r \in DOMAIN runs : ApproveRun(r)
  PROVE  KnowledgeInv'
<1>t. /\ runs \in Seq(RunRow) /\ Len(runs) \in Nat /\ DOMAIN runs = 1..Len(runs)
      /\ \A r \in DOMAIN runs : runs[r] \in RunRow
  BY DEF KnowledgeInv, KnowledgeTypeOK
<1>1. ASSUME NEW u \in Users, NEW text \in Renderings, TranslateCommit(u, text) PROVE KnowledgeInv'
  <2> DEFINE c == doing[u].chapter
             made == [chapter |-> c, status |-> "REVIEW", glossary |-> doing[u].glossary,
                     rules |-> LockedRules(c), memory |-> doing[u].memory, text |-> text]
  <2>1. c \in Chapters /\ doing[u].glossary \subseteq glossary /\ doing[u].memory \subseteq Nat
    BY <1>1 DEF TranslateCommit, KnowledgeInv, KnowledgeTypeOK, RequestOK
  <2>2. LockedRules(c) \in SUBSET Rule
    BY RulesOfChapter DEF KnowledgeInv
  <2>3. made \in RunRow /\ made.chapter = c /\ made.rules = LockedRules(c)
    BY <2>1, <2>2 DEF RunRow, RunStatuses
  <2>4. runs' = Append(runs, made) /\ End(u) /\ UNCHANGED <<glossary, memories, pairs, index>>
    BY <1>1 DEF TranslateCommit
  <2> HIDE DEF made, c
  <2>5. \A r \in DOMAIN runs : r \in DOMAIN runs' /\ runs'[r] = runs[r]
    BY <2>3, <2>4, <1>t
  <2>6. PairsOfRuns'
    BY <2>4, <2>5 DEF KnowledgeInv, PairsOfRuns, Pair, Fingerprint
  <2>7. \A r \in DOMAIN runs : runs[r].status \in {"REVIEW", "APPROVED"} => Standing(r)
    BY DEF Standing
  <2>8. \E v \in Users : End(v)
    BY <2>4
  <2> QED
    BY <2>3, <2>4, <2>6, <2>7, <2>8, <1>t, AppendedRun
<1>2. ASSUME NEW r \in DOMAIN runs, NEW text \in Renderings, EditRun(r, text) PROVE KnowledgeInv'
  <2> DEFINE old == [runs[r] EXCEPT !.status = "SUPERSEDED"]
             before == [runs EXCEPT ![r] = old]
             made == [runs[r] EXCEPT !.status = "REVIEW", !.text = text]
  <2>1. \A x \in RunRow :
          LET y == [x EXCEPT !.status = "REVIEW", !.text = text]
              z == [x EXCEPT !.status = "SUPERSEDED"] IN
          /\ y \in RunRow /\ y.chapter = x.chapter /\ y.rules = x.rules
          /\ z \in RunRow /\ z.chapter = x.chapter /\ z.rules = x.rules /\ z.glossary = x.glossary
          /\ z.status = "SUPERSEDED"
    BY DEF RunRow, RunStatuses
  <2>2. /\ made \in RunRow /\ made.chapter = runs[r].chapter /\ made.rules = runs[r].rules
        /\ old \in RunRow /\ old.chapter = runs[r].chapter /\ old.rules = runs[r].rules
        /\ old.glossary = runs[r].glossary /\ old.status = "SUPERSEDED"
    BY <2>1, <1>t
  <2>3. /\ runs' = Append(before, made) /\ Standing(r)
        /\ UNCHANGED <<glossary, memories, pairs, index, doing>>
    BY <1>2 DEF EditRun
  <2> HIDE DEF made, old
  <2>4. /\ before \in Seq(RunRow) /\ DOMAIN before = DOMAIN runs /\ Len(before) = Len(runs)
        /\ \A s \in DOMAIN runs : before[s] = IF s = r THEN old ELSE runs[s]
    BY <2>2, <1>t
  <2> HIDE DEF before
  <2>5. \A s \in DOMAIN runs : /\ before[s].chapter = runs[s].chapter
                               /\ before[s].glossary = runs[s].glossary
                               /\ before[s].rules = runs[s].rules
                               /\ before[s].status \in {"REVIEW", "APPROVED"} => Standing(s)
    BY <2>2, <2>3, <2>4 DEF Standing
  <2>6. \A s \in DOMAIN runs : s \in DOMAIN runs' /\ runs'[s] = before[s]
    BY <2>2, <2>3, <2>4, <1>t
  <2>7. PairsOfRuns'
    BY <2>3, <2>5, <2>6 DEF KnowledgeInv, PairsOfRuns, Pair, Fingerprint
  <2>8. \A rule \in LockedRules(made.chapter) :
          rule.term \in Mentions[Texts[made.chapter]] => rule \in made.rules
    BY <2>2, <2>3 DEF KnowledgeInv, LiveRunsKnowTheirTerms
  <2> QED
    BY <2>2, <2>3, <2>4, <2>5, <2>7, <2>8, <1>t, AppendedRun
<1>3. ASSUME NEW r \in DOMAIN runs, ApproveRun(r) PROVE KnowledgeInv'
  <2> DEFINE new == [runs[r] EXCEPT !.status = "APPROVED"]
             made == runs[r]
  <2>1. \A x \in RunRow : LET z == [x EXCEPT !.status = "APPROVED"] IN
          z \in RunRow /\ z.chapter = x.chapter /\ z.rules = x.rules /\ z.glossary = x.glossary
    BY DEF RunRow, RunStatuses
  <2>2. /\ new \in RunRow /\ new.chapter = runs[r].chapter /\ new.rules = runs[r].rules
        /\ new.glossary = runs[r].glossary
    BY <2>1, <1>t
  <2>3. /\ runs' = [runs EXCEPT ![r] = new] /\ pairs' = Recorded(r) /\ Standing(r)
        /\ UNCHANGED <<glossary, memories, index, doing>>
    BY <1>3 DEF ApproveRun, Standing
  <2> HIDE DEF new
  <2>4. /\ runs' \in Seq(RunRow) /\ DOMAIN runs' = DOMAIN runs
        /\ \A s \in DOMAIN runs : runs'[s] = IF s = r THEN new ELSE runs[s]
    BY <2>2, <2>3, <1>t
  <2>5. \A s \in DOMAIN runs : /\ runs'[s].chapter = runs[s].chapter
                               /\ runs'[s].glossary = runs[s].glossary
                               /\ runs'[s].rules = runs[s].rules
                               /\ runs'[s].status \in {"REVIEW", "APPROVED"} => Standing(s)
    BY <2>2, <2>3, <2>4 DEF Standing
  <2>6. \A s \in DOMAIN runs : Pair(s)' = Pair(s)
    BY <2>5 DEF Pair
  <2>7. PairsOfRuns'
    <3>1. Pair(r).run = r
      BY DEF Pair
    <3>2. \A p \in pairs' : p = Pair(r) \/ (p \in pairs /\ Fingerprint(p) # Fingerprint(Pair(r)))
      BY <2>3, <3>1 DEF Recorded, KnowledgeInv, PairsOfRuns
    <3>3. \A p \in pairs' : p.run \in DOMAIN runs' /\ p = Pair(p.run)'
      <4> TAKE p \in pairs'
      <4>1. p.run \in DOMAIN runs /\ p = Pair(p.run)
        BY <3>1, <3>2 DEF KnowledgeInv, PairsOfRuns
      <4> QED
        BY <4>1, <2>4, <2>5 DEF Pair
    <3>4. \A p, q \in pairs' : Fingerprint(p) = Fingerprint(q) => p = q
      BY <3>2 DEF KnowledgeInv, PairsOfRuns
    <3> QED
      BY <3>3, <3>4 DEF PairsOfRuns, Fingerprint
  <2>8. \A rule \in LockedRules(made.chapter) :
          rule.term \in Mentions[Texts[made.chapter]] => rule \in made.rules
    BY <2>3 DEF KnowledgeInv, LiveRunsKnowTheirTerms
  <2>9. runs[r] \in RunRow
    BY <1>t
  <2> HIDE DEF made
  <2>10. made \in RunRow
    BY <2>9 DEF made
  <2>11. RunRow' = RunRow
    BY <2>3 DEF RunRow
  <2>12. PICK before \in Seq(RunRow) : before = runs'
    BY <2>4
  <2> QED
    BY <2>3, <2>4, <2>5, <2>7, <2>8, <2>10, <2>12, AppendedRun
<1> QED
  BY <1>1, <1>2, <1>3

LEMMA KnowledgeStep == KnowledgeInv /\ [KnowledgeNext]_knowledgeVars => KnowledgeInv'
<1> SUFFICES ASSUME KnowledgeInv, [KnowledgeNext]_knowledgeVars PROVE KnowledgeInv'
  OBVIOUS
<1>1. ASSUME NEW u \in Users, Commits(u) PROVE KnowledgeInv'
  <2>1. CASE UpsertCommit(u)
    BY <2>1, UpsertKeepsKnowledge
  <2>2. CASE DecideCommit(u) \/ CharacterCommit(u)
    BY <2>2, MemoryOperationsKeepKnowledge
  <2>3. CASE \E text \in Renderings : TranslateCommit(u, text)
    BY <2>3, TranslationsKeepKnowledge
  <2> QED
    BY <1>1, <2>1, <2>2, <2>3 DEF Commits
<1>2. CASE \E r \in DOMAIN runs : ApproveRun(r) \/ \E text \in Renderings : EditRun(r, text)
  BY <1>2, TranslationsKeepKnowledge
<1>3. CASE UNCHANGED knowledgeVars
  <2>1. memories' = memories /\ memories \in Seq(MemoryRow) /\ Len(memories) =< MaxMemories
    BY <1>3 DEF knowledgeVars, KnowledgeInv, KnowledgeTypeOK
  <2>2. UNCHANGED <<glossary, runs, pairs, index, doing>> /\ EvidenceKept'
    BY <1>3 DEF knowledgeVars, KnowledgeInv, EvidenceKept
  <2> QED
    BY <2>1, <2>2, MemoriesKeepKnowledge
<1>4. ASSUME NEW u \in Users, Reads(u) PROVE KnowledgeInv'
  BY <1>4, ReadsKeepKnowledge
<1> QED
  BY <1>1, <1>2, <1>3, <1>4, MemoryOperationsKeepKnowledge DEF KnowledgeNext

LEMMA KnowledgeInvariant == KnowledgeSpec => []KnowledgeInv
BY KnowledgeStart, KnowledgeStep, PTL DEF KnowledgeSpec

\* Whatever requests interleave, no standing translation lacks a locked term its chapter
\* mentions: a term that changes while a translation is under way is read by it, or takes it
\* down (glossary.py upsert, translation/workflow.py, projects/invalidation.py).
THEOREM TermsAreKnown == KnowledgeSpec => []LiveRunsKnowTheirTerms
<1>1. KnowledgeInv => LiveRunsKnowTheirTerms
  BY DEF KnowledgeInv
<1> QED
  BY <1>1, KnowledgeInvariant, PTL

\* The vector index adds nothing the structured selection would not give, though it was
\* imported earlier: it needs that an approved memory keeps its evidence (memory_index.py).
THEOREM RetrievalIsWithinApproved == KnowledgeSpec => []RetrievalWithinApproved
<1>1. ASSUME KnowledgeInv PROVE RetrievalWithinApproved
  <2>1. ASSUME NEW c \in Chapters, RetrievalEnabled
        PROVE  Eligible(c) # None /\ Eligible(c) \subseteq MemoryFor(c)
    <3>1. index.refs \subseteq DOMAIN memories /\ DOMAIN memories \subseteq 1..MaxMemories
      BY <1>1, <2>1, KnowledgeAssumption DEF RetrievalEnabled, KnowledgeInv, KnowledgeTypeOK
    <3>2. Eligible(c) \in SUBSET (1..MaxMemories)
      BY <3>1 DEF Eligible
    <3>3. Eligible(c) # None
      BY <3>2, KnowledgeAssumption
    <3>4. Eligible(c) \subseteq MemoryFor(c)
      BY <1>1, <3>1 DEF KnowledgeInv, EvidenceKept, Eligible, MemoryFor
    <3> QED
      BY <3>3, <3>4
  <2> QED
    BY <2>1 DEF RetrievalWithinApproved, Ranked, RetrievalEnabled
<1> QED
  BY <1>1, KnowledgeInvariant, PTL

\* The translation memory offers one translation of a text under one glossary, though
\* several chapters with that text were approved (translation_memory.py).
THEOREM OneIsOffered == KnowledgeSpec => []OneTranslationOffered
<1>1. ASSUME KnowledgeInv PROVE OneTranslationOffered
  <2> SUFFICES ASSUME NEW p \in pairs PROVE Cardinality(Offered(p.source, p.glossary)) =< 1
    BY DEF OneTranslationOffered
  <2>1. \A q \in pairs : Fingerprint(q) = <<p.source, p.glossary>> => q = p
    BY <1>1 DEF KnowledgeInv, PairsOfRuns, Fingerprint
  <2>2. Offered(p.source, p.glossary) \subseteq {runs[p.run].text}
    BY <2>1 DEF Offered
  <2>3. IsFiniteSet({runs[p.run].text}) /\ Cardinality({runs[p.run].text}) = 1
    BY FS_Singleton
  <2> QED
    BY <2>2, <2>3, FS_Subset
<1> QED
  BY <1>1, KnowledgeInvariant, PTL

\* A run made with another story memory than its chapter has now is shown as stale: the
\* hash of a run and the hash of the trace agree only when both are of nothing
\* (context_trace.py).
THEOREM OldContextIsShown == KnowledgeSpec => []OldContextShown
<1>1. OldContextShown
  <2> SUFFICES ASSUME NEW c \in Chapters,
                      RunMemoryHash(LatestRun(c)) = TraceMemoryHash(c)
               PROVE  runs[LatestRun(c)].memory = MemoryFor(c)
    BY DEF OldContextShown, ShownStale
  <2>1. \A k, j, f, t : <<k>> # <<j, f, t>>
    OBVIOUS
  <2>2. RunMemoryHash(LatestRun(c)) = {}
    BY <2>1 DEF RunMemoryHash, TraceMemoryHash
  <2>3. runs[LatestRun(c)].memory = {} /\ MemoryFor(c) = {}
    BY <2>2 DEF RunMemoryHash, TraceMemoryHash
  <2> QED
    BY <2>3
<1> QED
  BY <1>1, PTL

-----------------------------------------------------------------------------
(* Files, for any artifacts, any number of backups and of crashes: cleanup, *)
(* which moves a file, commits its row and erases the file in three steps, *)
(* never leaves a row without its file.                                    *)

\* Once the row of a file moved aside is committed as DELETED, it stays so until the
\* file is erased: no other operation writes the row of a DELETED artifact again.
ErasesOnlyDeleted ==
  cleaning.at = "committed" /\ Candidate \in Artifacts => row[Candidate] = "DELETED"

FilesInv ==
  /\ DOMAIN row = Artifacts
  /\ row = [a \in Artifacts |-> row[a]]
  /\ cleaning = [at |-> cleaning.at, todo |-> cleaning.todo]
  /\ ErasesOnlyDeleted
  /\ NamedFileExists

LEMMA FilesStart == VaultInit => FilesInv
  BY VaultAssumption DEF VaultInit, FilesInv, ErasesOnlyDeleted, NamedFileExists, Free, Statuses

\* A row that is written was not DELETED before; a file is only added.
LEMMA StoreKeepsFiles ==
  ASSUME FilesInv, NEW a \in Artifacts, Store(a)
  PROVE  FilesInv'
<1>1. row[a] # "DELETED" \/ UNCHANGED row
  BY VaultAssumption DEF Store, WriteFile, WriteRow, Supersede, Lookup, Statuses
<1>2. /\ UNCHANGED <<aside, cleaning>> /\ live \subseteq live'
      /\ row[a] = Nil => a \in live \/ UNCHANGED row
  BY VaultAssumption DEF Store, WriteFile, WriteRow, Supersede, Lookup, Statuses
<1>3. PICK status \in {row[a], "READY", "SUPERSEDED", "CORRUPT"} : row' = [row EXCEPT ![a] = status]
  <2>1. row = [row EXCEPT ![a] = row[a]]
    BY DEF FilesInv
  <2> QED
    BY <2>1 DEF Store, WriteFile, WriteRow, Supersede, Lookup
<1>4. DOMAIN row' = Artifacts /\ row' = [b \in Artifacts |-> row'[b]]
  BY <1>3 DEF FilesInv
<1>5. ErasesOnlyDeleted'
  BY <1>1, <1>2, <1>3 DEF FilesInv, ErasesOnlyDeleted, Candidate
<1>6. NamedFileExists'
  BY <1>1, <1>2, <1>3 DEF FilesInv, NamedFileExists
<1> QED
  BY <1>2, <1>4, <1>5, <1>6 DEF FilesInv

LEMMA CleanupKeepsFiles ==
  ASSUME FilesInv, Cleanup
  PROVE  FilesInv'
<1>a. \A stage : [cleaning EXCEPT !.at = stage] = [at |-> stage, todo |-> cleaning.todo]
  BY DEF FilesInv
<1>1. CASE Preview \/ Execute \/ CleanupSkip
  <2>1. UNCHANGED <<row, live, aside>>
    BY <1>1 DEF Preview, Execute, CleanupSkip, files
  <2>2. \/ UNCHANGED cleaning
        \/ cleaning'.at # "committed" /\ cleaning' = [at |-> cleaning'.at, todo |-> cleaning'.todo]
    BY <1>1 DEF Preview, Execute, CleanupSkip, Cleaned, Free
  <2> QED
    BY <2>1, <2>2 DEF FilesInv, ErasesOnlyDeleted, NamedFileExists, Candidate
<1>2. CASE CleanupMove
  BY <1>2, <1>a DEF FilesInv, ErasesOnlyDeleted, NamedFileExists, CleanupMove
<1>3. CASE CleanupCommit
  BY <1>3, <1>a DEF FilesInv, ErasesOnlyDeleted, NamedFileExists, CleanupCommit, Candidate
<1>4. CASE CleanupFails
  BY <1>4 DEF FilesInv, ErasesOnlyDeleted, NamedFileExists, CleanupFails, Free
<1>5. CASE CleanupErase
  BY <1>5 DEF FilesInv, ErasesOnlyDeleted, NamedFileExists, CleanupErase, Cleaned, Free
<1> QED
  BY <1>1, <1>2, <1>3, <1>4, <1>5 DEF Cleanup

LEMMA VaultNextKeepsFiles == FilesInv /\ [VaultNext]_vaultVars => FilesInv'
<1> SUFFICES ASSUME FilesInv, [VaultNext]_vaultVars PROVE FilesInv'
  OBVIOUS
<1>1. ASSUME UNCHANGED <<row, live, aside>>, cleaning' \in {cleaning, Free} PROVE FilesInv'
  BY <1>1 DEF FilesInv, ErasesOnlyDeleted, NamedFileExists, Candidate, Free
<1>2. CASE MasterApproval
  BY <1>1, <1>2 DEF MasterApproval
<1>3. ASSUME NEW t \in Makers, Backup(t) PROVE FilesInv'
  BY <1>1, <1>3 DEF Backup, BackupDatabase, BackupFiles, BackupCheck, PublishDatabase, PublishFiles,
     PublishManifest, BackupVerify, Prune, Answer, BackupFails, files
<1>4. CASE Crash
  BY <1>1, <1>4 DEF Crash, files
<1>5. ASSUME NEW a \in Artifacts, NEW owner \in Backups \cup {Live}, Damage(a, owner) PROVE FilesInv'
  BY <1>1, <1>5 DEF Damage, files
<1>6. CASE UNCHANGED vaultVars
  BY <1>1, <1>6 DEF vaultVars
<1> QED
  BY <1>2, <1>3, <1>4, <1>5, <1>6, StoreKeepsFiles, CleanupKeepsFiles DEF VaultNext

\* Wherever the process dies between a file and its row, a row that is not DELETED names a
\* file that is at its path or beside it (artifacts/store.py, storage/cleanup.py).
THEOREM FilesOutliveRows == VaultSpec => []NamedFileExists
<1>1. FilesInv => NamedFileExists
  BY DEF FilesInv
<1> QED
  BY <1>1, FilesStart, VaultNextKeepsFiles, PTL DEF VaultSpec

-----------------------------------------------------------------------------
(* Backups, for any number of threads, backups, artifacts, crashes and     *)
(* damaged files: a backup that is listed can be restored, and pruning     *)
(* leaves what was promised.                                               *)

Rows == [Artifacts -> Statuses \cup {Nil}]
Inodes == [Artifacts -> Backups \cup {Nil}]
Kept == [db : Rows \cup {Nil}, files : Inodes \cup {Nil}, listed : BOOLEAN]

Stages == {"free", "copy", "check", "database", "files", "manifest", "verify",
           "prune database", "prune files", "prune manifest"}
Work == [at : Stages, id : Backups \cup {Nil}, db : Rows \cup {Nil}, base : Backups \cup {Nil},
         files : Inodes \cup {Nil}, doomed : SUBSET Backups]

\* Before its manifest is written, before it is published, and after.
Copying == {"copy", "check"}
Publishing == {"database", "files", "manifest"}
StillLate == Stages \ ({"free"} \cup Copying \cup Publishing)

BackupsTypeOK ==
  /\ row \in Rows
  /\ disk \in [Backups -> Kept]
  /\ stamp \in [Backups -> Nat]
  /\ maker \in [Makers -> Work]
  /\ started \in 0..MaxBackups /\ answered \in Nat

\* No other backup has a file that the backup b wrote: a later one links only what is listed.
Unlent(b) == \A a \in Artifacts :
  /\ \A c \in Backups : disk[c].files # Nil => disk[c].files[a] # b
  /\ \A t \in Makers : maker[t].files # Nil /\ maker[t].id # b => maker[t].files[a] # b

Unwritten(b) == \A a \in Artifacts : <<a, b>> \notin damaged

SoundOrRotten(b, db, held) == b \in rotten \/ Sound(db, held)

\* What a thread knows of the backup it makes.  It has checked every file before it
\* publishes any, and what it removes was beyond the retention when it was chosen.
MakerOK(t) ==
  LET m == maker[t] IN
  /\ m.at # "free" => m.id \in Backups /\ m.id =< started /\ m.db \in Rows
  /\ m.at \notin {"free", "copy"} => m.files \in Inodes
  /\ m.at = "copy" => m.files = Nil /\ Unwritten(m.id)
  /\ m.at = "check" => /\ \A a \in Needed(m.db) : m.files[a] # Nil
                       /\ \A a \in Artifacts : <<a, m.id>> \in damaged => m.files[a] = m.id
  /\ m.at \in Copying => Unlent(m.id) /\ stamp[m.id] = 0
  /\ m.at \in Copying \cup Publishing => ~disk[m.id].listed
  /\ m.at \in Publishing => stamp[m.id] # 0 /\ SoundOrRotten(m.id, m.db, m.files)
  /\ m.at \in {"files", "manifest"} => disk[m.id].db = m.db
  /\ m.at = "manifest" => disk[m.id].files = m.files
  /\ \A b \in m.doomed : stamp[b] # 0 /\ Beyond(b)
  /\ m.at \in {"prune files", "prune manifest"} => m.doomed # {}

\* Two threads make two backups, and nobody removes one that is being published.
MakersApart ==
  \A t, u \in Makers :
    /\ t # u /\ maker[t].at # "free" /\ maker[u].at # "free" => maker[t].id # maker[u].id
    /\ maker[t].at \in Publishing => maker[t].id \notin maker[u].doomed

NotYetMade == \A b \in Backups : b > started => /\ Unlent(b) /\ Unwritten(b)
                                                /\ stamp[b] = 0 /\ ~disk[b].listed

ListedOK == \A b \in Listed : stamp[b] # 0 /\ (Beyond(b) \/ b \in rotten \/ Verifies(b))

BackupsInv ==
  BackupsTypeOK /\ (\A t \in Makers : MakerOK(t)) /\ MakersApart /\ NotYetMade /\ ListedOK

\* The retention is full, or the backups of those who were answered, and of those who
\* wait for no more than their answer, are all listed.
Late == {t \in Makers : maker[t].at \in StillLate}
AnsweredAreListed ==
  \/ Cardinality(Listed) >= Retention
  \/ Cardinality(Listed) >= answered + Cardinality(Late)

BackupsKept == BackupsInv /\ AnsweredAreListed

\* What the assumption about the constants says of the values of the variables.
LEMMA NilIsApart ==
  /\ Nil \notin Nat /\ Nil \notin Statuses /\ Nil \notin Backups /\ Nil \notin Rows /\ Nil \notin Inodes
  /\ Retention \in Nat \ {0} /\ MaxBackups \in Nat /\ Backups \subseteq Nat
  /\ Live \notin Backups
<1>1. Backups \subseteq Nat /\ MaxBackups \in Nat
  BY VaultAssumption DEF Backups
<1>2. Rows \subseteq [Artifacts -> Statuses \cup Nat \cup {Nil}]
  BY DEF Rows
<1>3. Inodes \subseteq [Artifacts -> Statuses \cup Nat \cup {Nil}]
  BY <1>1 DEF Inodes
<1> QED
  BY <1>1, <1>2, <1>3, VaultAssumption

LEMMA BackupsAreFinite ==
  /\ IsFiniteSet(Backups)
  /\ \A these \in SUBSET Backups : IsFiniteSet(these) /\ Cardinality(these) \in Nat
<1>1. IsFiniteSet(Backups)
  BY NilIsApart, FS_Interval DEF Backups
<1> QED
  BY <1>1, FS_Subset, FS_CardinalityType

\* Some backups have a newest.
LEMMA NewestIsThere ==
  ASSUME BackupsTypeOK, NEW these \in SUBSET Backups, these # {}
  PROVE  NewestOf(these) \in these
<1>1. IsFiniteSet(these) /\ \A b \in these : stamp[b] \in Nat
  BY BackupsAreFinite DEF BackupsTypeOK
<1>2. \E b \in these : \A c \in these : stamp[c] =< stamp[b]
  BY <1>1, SomeIsHighest
<1> QED
  BY <1>2, Zenon DEF NewestOf

\* What is beyond the retention stays so: only what is beyond it is ever removed.
LEMMA BeyondStays ==
  ASSUME BackupsTypeOK, \A c \in Backups : stamp'[c] = stamp[c] \/ c \notin Listed,
         Listed' \in SUBSET Backups,
         \/ Listed \in SUBSET Listed'
         \/ \E d \in Backups : Beyond(d) /\ Listed \ {d} \in SUBSET Listed',
         NEW b \in Backups, stamp'[b] = stamp[b], Beyond(b)
  PROVE  Beyond(b)'
<1>0. Listed \in SUBSET Backups /\ Retention \in Nat /\ \A c \in Backups : stamp[c] \in Nat
  BY NilIsApart DEF Listed, BackupsTypeOK
<1>1. ASSUME NEW these \in SUBSET Newer(b)', Cardinality(these) >= Retention PROVE Beyond(b)'
  <2>1. Newer(b)' \in SUBSET Backups
    BY DEF Newer
  <2>2. IsFiniteSet(Newer(b)') /\ Cardinality(Newer(b)') \in Nat /\ Cardinality(these) \in Nat
    BY <2>1, BackupsAreFinite
  <2>3. Cardinality(these) <= Cardinality(Newer(b)')
    BY <2>2, FS_Subset
  <2> QED
    BY <1>0, <1>1, <2>2, <2>3 DEF Beyond
<1>2. \A c \in Newer(b) : c \in Listed' => c \in Newer(b)'
  BY <1>0 DEF Newer
<1>3. CASE Listed \in SUBSET Listed'
  BY <1>1, <1>2, <1>3 DEF Newer, Beyond
<1>4. ASSUME NEW d \in Backups, Beyond(d), Listed \ {d} \in SUBSET Listed' PROVE Beyond(b)'
  <2>1. CASE d \in Newer(b)
    <3>1. Newer(d) \in SUBSET Newer(b) /\ d \notin Newer(d)
      BY <1>0, <2>1 DEF Newer
    <3>2. \A c \in Newer(d) : c \in Listed'
      BY <1>4, <3>1 DEF Newer
    <3>3. Newer(d) \in SUBSET Newer(b)'
      BY <1>2, <3>1, <3>2
    <3> QED
      BY <1>1, <1>4, <3>3 DEF Beyond
  <2>2. CASE d \notin Newer(b)
    <3>1. \A c \in Newer(b) : c \in Listed'
      BY <1>4, <2>2 DEF Newer
    <3>2. Newer(b) \in SUBSET Newer(b)'
      BY <1>2, <3>1
    <3> QED
      BY <1>1, <3>2 DEF Beyond
  <2> QED
    BY <2>1, <2>2
<1> QED
  BY <1>3, <1>4

\* A backup in the making that a step of somebody else leaves alone.
LEMMA MakerStands ==
  ASSUME BackupsTypeOK, BackupsTypeOK', NEW u \in Makers, MakerOK(u), maker'[u] = maker[u],
         started <= started', NEW b, maker[u].id = b,
         \A d \in Backups : stamp[d] # 0 /\ Beyond(d) => stamp'[d] # 0 /\ Beyond(d)',
         maker[u].at \in Copying =>
           /\ Unlent(b)' /\ stamp'[b] = stamp[b]
           /\ \A a \in Artifacts : <<a, b>> \in damaged' => <<a, b>> \in damaged,
         maker[u].at \in Copying \cup Publishing => (disk'[b].listed => disk[b].listed),
         maker[u].at \in Publishing =>
           /\ stamp'[b] = stamp[b]
           /\ \A db, held : maker[u].db = db /\ maker[u].files = held /\ SoundOrRotten(b, db, held)
                              => SoundOrRotten(b, db, held)',
         maker[u].at \in {"files", "manifest"} =>
           disk'[b].db = disk[b].db /\ disk'[b].files = disk[b].files
  PROVE  MakerOK(u)'
<1>1. PICK m \in Work : m = maker[u]
  BY DEF BackupsTypeOK
<1>2. m.id = b /\ maker'[u] = m
  BY <1>1
<1>3. m.at # "free" => b \in Backups /\ b =< started' /\ m.db \in Rows
  <2>0. m.at # "free" => m.id \in Backups /\ m.id =< started /\ m.db \in Rows
    BY <1>1, Zenon DEF MakerOK
  <2>1. m.at # "free" => b \in Backups /\ b =< started /\ m.db \in Rows
    BY <1>2, <2>0
  <2>2. started \in Nat /\ started' \in Nat /\ \A n \in Backups : n \in Nat
    BY NilIsApart DEF BackupsTypeOK
  <2> QED
    BY <2>1, <2>2
<1>4. m.at \notin {"free", "copy"} => m.files \in Inodes
  BY <1>1 DEF MakerOK
<1>5. m.at = "copy" => m.files = Nil /\ Unwritten(b)'
  BY <1>1, <1>2 DEF MakerOK, Unwritten, Copying
<1>6. m.at = "check" => /\ \A a \in Needed(m.db) : m.files[a] # Nil
                        /\ \A a \in Artifacts : <<a, b>> \in damaged' => m.files[a] = b
  BY <1>1, <1>2 DEF MakerOK, Copying
<1>7. m.at \in Copying => Unlent(b)' /\ stamp'[b] = 0
  BY <1>1, <1>2 DEF MakerOK
<1>8. m.at \in Copying \cup Publishing => ~disk'[b].listed
  BY <1>1, <1>2 DEF MakerOK
<1>9. m.at \in Publishing => stamp'[b] # 0 /\ SoundOrRotten(b, m.db, m.files)'
  <2>1. m.at \in Publishing => stamp[b] # 0 /\ SoundOrRotten(b, m.db, m.files)
    BY <1>1, <1>2 DEF MakerOK
  <2> QED
    BY <1>1, <1>2, <2>1
<1>10. m.at \in {"files", "manifest"} => disk'[b].db = m.db
  BY <1>1, <1>2 DEF MakerOK
<1>11. m.at = "manifest" => disk'[b].files = m.files
  BY <1>1, <1>2 DEF MakerOK
<1>12. \A d \in m.doomed : stamp'[d] # 0 /\ Beyond(d)'
  <2>1. m.doomed \in SUBSET Backups /\ \A d \in m.doomed : stamp[d] # 0 /\ Beyond(d)
    BY <1>1 DEF MakerOK, Work
  <2> QED
    BY <2>1
<1>13. m.at \in {"prune files", "prune manifest"} => m.doomed # {}
  BY <1>1 DEF MakerOK
<1> QED
  BY <1>2, <1>3, <1>4, <1>5, <1>6, <1>7, <1>8, <1>9, <1>10, <1>11, <1>12, <1>13 DEF MakerOK

\* A backup that stays listed.
LEMMA ListedStands ==
  ASSUME NEW b \in Backups, b \in Listed, ListedOK, stamp'[b] = stamp[b],
         Beyond(b) => Beyond(b)', rotten \subseteq rotten',
         \/ Beyond(b)
         \/ /\ UNCHANGED <<disk[b].db, disk[b].files>>
            /\ disk'[b].listed
            /\ \/ b \in rotten'
               \/ \A a \in Artifacts : \A o : disk[b].files[a] = o /\ <<a, o>> \in damaged' => <<a, o>> \in damaged
  PROVE  stamp'[b] # 0 /\ (Beyond(b)' \/ b \in rotten' \/ Verifies(b)')
<1>1. stamp[b] # 0 /\ (Beyond(b) \/ b \in rotten \/ Verifies(b))
  BY DEF ListedOK
<1>2. ASSUME Verifies(b), UNCHANGED <<disk[b].db, disk[b].files>>, disk'[b].listed,
             \A a \in Artifacts : \A o : disk[b].files[a] = o /\ <<a, o>> \in damaged' => <<a, o>> \in damaged
      PROVE  Verifies(b)'
  BY <1>2 DEF Verifies, Sound, Needed
<1> QED
  BY <1>1, <1>2

\* The id of a backup in the making.
LEMMA MakerHasId ==
  ASSUME BackupsInv, NEW t \in Makers, maker[t].at # "free"
  PROVE  maker[t].id \in Backups /\ ~(maker[t].id > started)
<1>1. MakerOK(t) /\ started \in Nat
  BY DEF BackupsInv, BackupsTypeOK
<1>2. PICK n : n = maker[t].id
  OBVIOUS
<1>3. n \in Backups /\ n =< started
  BY <1>1, <1>2, Zenon DEF MakerOK
<1>4. n \in Nat
  BY <1>3, NilIsApart
<1>5. ~(n > started)
  BY <1>1, <1>3, <1>4
<1> QED
  BY <1>2, <1>3, <1>5

\* What a step of one thread does that neither begins a backup nor writes files: m is its
\* work before and next the one after.
ThreadMoves(t, m, next) ==
  /\ maker[t] = m /\ maker' = [maker EXCEPT ![t] = next] /\ m.at # "free"
  /\ UNCHANGED <<damaged, rotten, started>>
  /\ next.at # "free" => next.id = m.id
  /\ next.at \in Publishing => m.at \in Publishing \cup {"check"}
  /\ \/ next.files = Nil
     \/ m.files # Nil /\ \A a \in Artifacts : next.files[a] \in {m.files[a], m.id}
  /\ \A b \in next.doomed : b \in m.doomed \/ b \in Listed
  /\ \A b \in Backups : stamp'[b] = stamp[b] \/ (b = m.id /\ m.at = "check")
  /\ \A b \in Backups :
       \/ disk'[b] = disk[b]
       \/ b = m.id /\ m.at \in Publishing /\ disk'[b].files \in {disk[b].files, m.files}
       \/ /\ b \in m.doomed /\ disk'[b].files \in {disk[b].files, Nil}
          /\ disk'[b].listed => disk[b].listed
  /\ \/ Listed \in SUBSET Listed'
     \/ \E d \in m.doomed : Listed \ {d} \in SUBSET Listed'
  /\ \A b \in Listed' : b \in Listed \/ (stamp'[b] # 0 /\ (b \in rotten \/ Verifies(b)'))

\* The rest of the invariant stands then, but for the thread itself.
LEMMA OthersStand ==
  ASSUME BackupsInv, BackupsTypeOK', NEW t \in Makers, NEW m, NEW next, ThreadMoves(t, m, next)
  PROVE  /\ \A u \in Makers \ {t} : MakerOK(u)'
         /\ MakersApart' /\ NotYetMade' /\ ListedOK'
         /\ \A b \in Backups : stamp[b] # 0 /\ Beyond(b) => stamp'[b] # 0 /\ Beyond(b)'
<1> USE DEF ThreadMoves
<1>1. BackupsTypeOK /\ MakersApart /\ NotYetMade /\ ListedOK /\ \A u \in Makers : MakerOK(u)
  BY DEF BackupsInv
<1>2. /\ m \in Work /\ m.id \in Backups /\ ~(m.id > started) /\ started \in Nat
      /\ \A u \in Makers : maker'[u] = IF u = t THEN next ELSE maker[u]
  BY <1>1, MakerHasId DEF BackupsTypeOK
<1>3. /\ m.at = "check" => stamp[m.id] = 0
      /\ m.at \in Publishing \cup {"check"} => ~disk[m.id].listed
      /\ m.doomed \in SUBSET Backups
      /\ \A b \in m.doomed : stamp[b] # 0 /\ Beyond(b)
  BY <1>1, <1>2 DEF MakerOK, Copying, Work
<1>4. Listed \in SUBSET Backups /\ Listed' \in SUBSET Backups
  BY DEF Listed
<1>5. ASSUME NEW b \in Backups, stamp[b] # 0, Beyond(b) PROVE stamp'[b] # 0 /\ Beyond(b)'
  <2>1. stamp'[b] = stamp[b]
    BY <1>3, <1>5
  <2>2. \A c \in Backups : stamp'[c] = stamp[c] \/ c \notin Listed
    BY <1>3 DEF Listed
  <2>3. \/ Listed \in SUBSET Listed'
        \/ \E d \in Backups : Beyond(d) /\ Listed \ {d} \in SUBSET Listed'
    BY <1>3
  <2> QED
    BY <1>1, <1>4, <1>5, <2>1, <2>2, <2>3, BeyondStays
\* Inodes nobody else had.
<1>6. ASSUME NEW b \in Backups, b # m.id, Unlent(b) PROVE Unlent(b)'
  <2>1. ASSUME NEW a \in Artifacts, NEW c \in Backups, disk'[c].files # Nil PROVE disk'[c].files[a] # b
    BY <1>2, <1>6, <2>1 DEF Unlent
  <2>2. ASSUME NEW a \in Artifacts, NEW u \in Makers, maker'[u].files # Nil, maker'[u].id # b
        PROVE  maker'[u].files[a] # b
    <3>1. CASE u = t
      BY <1>2, <1>6, <2>2, <3>1 DEF Unlent
    <3>2. CASE u # t
      BY <1>2, <1>6, <2>2, <3>2 DEF Unlent
    <3> QED
      BY <3>1, <3>2
  <2> QED
    BY <2>1, <2>2 DEF Unlent
<1>7. ASSUME NEW u \in Makers \ {t} PROVE MakerOK(u)'
  <2>1. PICK b : b = maker[u].id
    OBVIOUS
  <2>2. maker[u].at # "free" => b \in Backups /\ b # m.id
    BY <1>1, <1>2, <2>1, MakerHasId DEF MakersApart
  <2>3. maker[u].at \in Copying =>
           /\ Unlent(b)' /\ stamp'[b] = stamp[b]
           /\ \A a \in Artifacts : <<a, b>> \in damaged' => <<a, b>> \in damaged
    BY <1>1, <1>6, <2>1, <2>2 DEF MakerOK, Copying
  <2>4. maker[u].at \in Copying \cup Publishing => (disk'[b].listed => disk[b].listed)
    BY <2>2 DEF Copying, Publishing
  <2>5. maker[u].at \in Publishing =>
           /\ stamp'[b] = stamp[b]
           /\ \A db, held : maker[u].db = db /\ maker[u].files = held /\ SoundOrRotten(b, db, held)
                              => SoundOrRotten(b, db, held)'
    BY <2>2 DEF Publishing, SoundOrRotten, Sound
  <2>6. maker[u].at \in {"files", "manifest"} =>
           disk'[b].db = disk[b].db /\ disk'[b].files = disk[b].files
    <3>1. maker[u].at \in Publishing => b \notin m.doomed
      BY <1>1, <2>1 DEF MakersApart
    <3> QED
      BY <2>2, <3>1 DEF Publishing
  <2>7. started <= started' /\ maker'[u] = maker[u]
    BY <1>2
  <2> QED
    BY <1>1, <1>5, <2>1, <2>3, <2>4, <2>5, <2>6, <2>7, MakerStands
<1>8. MakersApart'
  <2>1. ASSUME NEW u \in Makers, NEW v \in Makers, u # v, maker'[u].at # "free", maker'[v].at # "free"
        PROVE  maker'[u].id # maker'[v].id
    BY <1>1, <1>2, <2>1 DEF MakersApart
  <2>2. ASSUME NEW u \in Makers, NEW v \in Makers, maker'[u].at \in Publishing
        PROVE  maker'[u].id \notin maker'[v].doomed
    <3>1. PICK b : b = maker'[u].id
      OBVIOUS
    <3>2. maker[u].at \in Publishing \cup {"check"} /\ b = maker[u].id
      BY <1>2, <2>2, <3>1 DEF Publishing
    <3>3. b \notin maker[v].doomed /\ b \in Backups
      <4>1. CASE maker[u].at \in Publishing
        BY <1>1, <3>2, <4>1, MakerHasId DEF MakersApart, Publishing
      <4>2. CASE maker[u].at = "check"
        <5>1. MakerOK(u) /\ MakerOK(v) /\ maker[u].at # "free" /\ maker[u].at \in Copying
          BY <1>1, <4>2 DEF Copying
        <5>2. b \in Backups
          BY <3>2, <5>1, MakerHasId
        <5>3. stamp[b] = 0 /\ \A d \in maker[v].doomed : stamp[d] # 0
          BY <3>2, <5>1 DEF MakerOK
        <5> QED
          BY <5>2, <5>3
      <4> QED
        BY <3>2, <4>1, <4>2
    <3>4. b \notin Listed
      BY <1>1, <3>2 DEF MakerOK, Copying, Listed
    <3> QED
      BY <1>2, <3>1, <3>3, <3>4
  <2> QED
    BY <2>1, <2>2 DEF MakersApart
<1>9. NotYetMade'
  <2> SUFFICES ASSUME NEW b \in Backups, b > started'
               PROVE  Unlent(b)' /\ Unwritten(b)' /\ stamp'[b] = 0 /\ ~disk'[b].listed
    BY DEF NotYetMade
  <2>1. Unlent(b) /\ Unwritten(b) /\ stamp[b] = 0 /\ ~disk[b].listed /\ b # m.id
    BY <1>1, <1>2 DEF NotYetMade
  <2> QED
    BY <1>6, <2>1 DEF Unwritten
<1>10. ListedOK'
  <2> SUFFICES ASSUME NEW b \in Listed' PROVE stamp'[b] # 0 /\ (Beyond(b)' \/ b \in rotten' \/ Verifies(b)')
    BY DEF ListedOK
  <2>1. CASE b \notin Listed
    BY <2>1
  <2>2. CASE b \in Listed
    <3>1. b \in Backups /\ disk'[b].listed /\ stamp[b] # 0
      BY <1>1, <1>4, <2>2 DEF Listed, ListedOK
    <3>2. stamp'[b] = stamp[b]
      BY <1>3, <3>1
    <3>3. Beyond(b) => Beyond(b)'
      BY <1>5, <3>1
    <3>4. Beyond(b) \/ disk'[b] = disk[b]
      BY <1>3, <2>2 DEF Listed
    <3> QED
      BY <1>1, <2>2, <3>1, <3>2, <3>3, <3>4, ListedStands
  <2> QED
    BY <2>1, <2>2
<1> QED
  BY <1>5, <1>7, <1>8, <1>9, <1>10

\* What is read back is good, or the step is not taken: a linked file that was torn is copied,
\* a copy of the thread's own that is torn ends the backup.
LEMMA CheckKeeps ==
  ASSUME BackupsInv, NEW t \in Makers, BackupCheck(t)
  PROVE  BackupsInv'
<1>1. PICK m : m = maker[t]
  OBVIOUS
<1>2. BackupsTypeOK /\ NotYetMade /\ MakerOK(t) /\ m.at = "check"
  BY <1>1 DEF BackupsInv, BackupCheck, Makes
<1>3. /\ m \in Work /\ m.id \in Backups /\ m.db \in Rows /\ m.files \in Inodes
      /\ \A a \in Needed(m.db) : m.files[a] # Nil
      /\ \A a \in Artifacts : <<a, m.id>> \in damaged => m.files[a] = m.id
      /\ ~disk[m.id].listed /\ m.files # Nil
  BY <1>1, <1>2, NilIsApart DEF MakerOK, BackupsTypeOK, Copying
<1>4. PICK torn : torn = {a \in Needed(m.db) : <<a, m.files[a]>> \in damaged}
  OBVIOUS
<1>5. PICK held : held = [a \in Artifacts |-> IF a \in torn THEN m.id ELSE m.files[a]]
  OBVIOUS
<1>6. PICK next : next = [m EXCEPT !.at = "database", !.files = held]
  OBVIOUS
<1>7. PICK now : now = Max({stamp[b] : b \in Backups}) + 1
  OBVIOUS
<1>8. /\ \A a \in torn : m.files[a] # m.id
      /\ maker' = [maker EXCEPT ![t] = next]
      /\ stamp' = [stamp EXCEPT ![m.id] = now]
      /\ UNCHANGED <<row, damaged, disk, started, answered, rotten>>
  BY <1>1, <1>4, <1>5, <1>6, <1>7 DEF BackupCheck, Moves, files
<1>9. now \in Nat /\ now # 0
  <2>1. IsFiniteSet(Backups) /\ Backups # {} /\ \A b \in Backups : stamp[b] \in Nat
    BY <1>2, <1>3, BackupsAreFinite DEF BackupsTypeOK
  <2>2. \E b \in Backups : \A c \in Backups : stamp[c] <= stamp[b]
    BY <2>1, SomeIsHighest
  <2> DEFINE stamps == {stamp[b] : b \in Backups}
  <2>3. stamps \subseteq Nat /\ \E x \in stamps : \A y \in stamps : x >= y
    BY <2>1, <2>2
  <2> HIDE DEF stamps
  <2>4. Max(stamps) \in stamps
    BY <2>3, Zenon DEF Max
  <2> QED
    BY <1>7, <2>3, <2>4 DEF stamps
<1>10. held \in Inodes /\ \A a \in Artifacts : held[a] \in {m.files[a], m.id}
  BY <1>3, <1>5 DEF Inodes
<1>11. Sound(m.db, held)
  <2> SUFFICES ASSUME NEW a \in Needed(m.db) PROVE held[a] # Nil /\ <<a, held[a]>> \notin damaged
    BY DEF Sound
  <2>1. a \in Artifacts
    BY DEF Needed
  <2>2. CASE a \in torn
    BY <1>3, <1>5, <1>8, <2>1, <2>2, NilIsApart
  <2>3. CASE a \notin torn
    BY <1>3, <1>4, <1>5, <2>1, <2>3
  <2> QED
    BY <2>2, <2>3
<1>12. /\ next \in Work /\ next.at = "database" /\ next.id = m.id /\ next.db = m.db
       /\ next.files = held /\ next.doomed = m.doomed
  BY <1>3, <1>6, <1>10 DEF Work, Stages
<1>13. BackupsTypeOK'
  BY <1>2, <1>3, <1>8, <1>9, <1>12 DEF BackupsTypeOK
<1>14. Listed' = Listed
  BY <1>8 DEF Listed
<1>15. /\ \A u \in Makers \ {t} : MakerOK(u)'
       /\ MakersApart' /\ NotYetMade' /\ ListedOK'
       /\ \A b \in Backups : stamp[b] # 0 /\ Beyond(b) => stamp'[b] # 0 /\ Beyond(b)'
  <2>1. \A b \in Backups : stamp'[b] = stamp[b] \/ (b = m.id /\ m.at = "check")
    BY <1>2, <1>8 DEF BackupsTypeOK
  <2>2. m.at # "free" /\ m.at \in Publishing \cup {"check"}
    BY <1>2
  <2>3. UNCHANGED <<damaged, rotten, started>> /\ \A b \in Backups : disk'[b] = disk[b]
    BY <1>8
  <2>4. /\ \A b \in next.doomed : b \in m.doomed \/ b \in Listed
        /\ m.files # Nil /\ \A a \in Artifacts : next.files[a] \in {m.files[a], m.id}
    BY <1>3, <1>10, <1>12
  <2>5. Listed \in SUBSET Listed' /\ \A b \in Listed' : b \in Listed
    BY <1>14
  <2>6. ThreadMoves(t, m, next)
    BY <1>1, <1>8, <1>12, <2>1, <2>2, <2>3, <2>4, <2>5 DEF ThreadMoves
  <2> QED
    BY <1>13, <2>6, OthersStand
<1>16. MakerOK(t)'
  <2>1. maker'[t] = next /\ stamp'[m.id] # 0
    BY <1>2, <1>3, <1>8, <1>9 DEF BackupsTypeOK
  <2>2. Sound(m.db, held)'
    BY <1>8, <1>11 DEF Sound
  <2>3. \A b \in next.doomed : stamp'[b] # 0 /\ Beyond(b)'
    <3>1. m.doomed \subseteq Backups /\ \A b \in m.doomed : stamp[b] # 0 /\ Beyond(b)
      BY <1>1, <1>2, <1>3 DEF MakerOK, Work
    <3> QED
      BY <1>12, <1>15, <3>1
  <2>4. m.id =< started'
    BY <1>1, <1>2, <1>8, Zenon DEF MakerOK
  <2> QED
    BY <1>3, <1>8, <1>10, <1>12, <2>1, <2>2, <2>3, <2>4 DEF MakerOK, SoundOrRotten, Copying, Publishing
<1> QED
  BY <1>13, <1>15, <1>16 DEF BackupsInv

\* The manifest comes last: the database and the files of what is listed are all there.
LEMMA PublishKeeps ==
  ASSUME BackupsInv, NEW t \in Makers, PublishDatabase(t) \/ PublishFiles(t) \/ PublishManifest(t)
  PROVE  BackupsInv'
<1>1. PICK m : m = maker[t]
  OBVIOUS
<1>2. BackupsTypeOK /\ MakerOK(t) /\ m.at \in Publishing
  BY <1>1 DEF BackupsInv, PublishDatabase, PublishFiles, PublishManifest, Makes, Publishing
<1>3. /\ m \in Work /\ m.id \in Backups /\ m.db \in Rows /\ m.files \in Inodes
      /\ ~disk[m.id].listed /\ m.files # Nil /\ m.db # Nil /\ m.at # "free"
      /\ stamp[m.id] # 0 /\ SoundOrRotten(m.id, m.db, m.files)
      /\ disk[m.id] \in Kept
      /\ m.at \in {"files", "manifest"} => disk[m.id].db = m.db
      /\ m.at = "manifest" => disk[m.id].files = m.files
      /\ m.doomed \subseteq Backups /\ \A b \in m.doomed : stamp[b] # 0 /\ Beyond(b)
  BY <1>1, <1>2, NilIsApart DEF MakerOK, BackupsTypeOK, Publishing, Work
<1>4. m.id =< started
  BY <1>1, <1>3, <1>2, Zenon DEF MakerOK
<1>5. PICK at, one :
        /\ maker' = [maker EXCEPT ![t] = [m EXCEPT !.at = at]]
        /\ disk' = [disk EXCEPT ![m.id] = one]
        /\ at \in Stages /\ one \in Kept
        /\ \/ m.at = "database" /\ at = "files" /\ one = [disk[m.id] EXCEPT !.db = m.db]
           \/ m.at = "files" /\ at = "manifest" /\ one = [disk[m.id] EXCEPT !.files = m.files]
           \/ m.at = "manifest" /\ at = "verify" /\ one = [disk[m.id] EXCEPT !.listed = TRUE]
  <2>1. CASE PublishDatabase(t)
    <3>1. [disk[m.id] EXCEPT !.db = m.db] \in Kept
      BY <1>3 DEF Kept
    <3> QED
      BY <1>1, <2>1, <3>1 DEF PublishDatabase, Makes, Moves, Stages
  <2>2. CASE PublishFiles(t)
    <3>1. [disk[m.id] EXCEPT !.files = m.files] \in Kept
      BY <1>3 DEF Kept
    <3> QED
      BY <1>1, <2>2, <3>1 DEF PublishFiles, Makes, Moves, Stages
  <2>3. CASE PublishManifest(t)
    <3>1. [disk[m.id] EXCEPT !.listed = TRUE] \in Kept
      BY <1>3 DEF Kept
    <3> QED
      BY <1>1, <2>3, <3>1 DEF PublishManifest, Makes, Moves, Stages
  <2> QED
    BY <2>1, <2>2, <2>3
<1>6. PICK next : next = [m EXCEPT !.at = at]
  OBVIOUS
<1>7. UNCHANGED <<row, damaged, stamp, started, answered, rotten>>
  BY DEF PublishDatabase, PublishFiles, PublishManifest, files
<1>8. /\ next \in Work /\ next.at = at /\ next.id = m.id /\ next.db = m.db
      /\ next.files = m.files /\ next.doomed = m.doomed
  BY <1>3, <1>5, <1>6 DEF Work
<1>9. \A b \in Backups : disk'[b] = IF b = m.id THEN one ELSE disk[b]
  BY <1>2, <1>5 DEF BackupsTypeOK
<1>10. /\ one.files \in {disk[m.id].files, m.files}
       /\ one.listed => m.at = "manifest" /\ one.db = m.db /\ one.files = m.files
       /\ at \in {"files", "manifest"} => one.db = m.db /\ ~one.listed
       /\ at = "manifest" => one.files = m.files
       /\ at \in {"files", "manifest", "verify"}
  BY <1>3, <1>5 DEF Kept
<1>11. BackupsTypeOK'
  BY <1>2, <1>5, <1>6, <1>7, <1>8 DEF BackupsTypeOK
<1>12. /\ \A u \in Makers \ {t} : MakerOK(u)'
       /\ MakersApart' /\ NotYetMade' /\ ListedOK'
       /\ \A b \in Backups : stamp[b] # 0 /\ Beyond(b) => stamp'[b] # 0 /\ Beyond(b)'
  <2>1. \A b \in Backups : stamp'[b] = stamp[b] \/ (b = m.id /\ m.at = "check")
    BY <1>7
  <2>2. UNCHANGED <<damaged, rotten, started>> /\ maker' = [maker EXCEPT ![t] = next]
    BY <1>5, <1>6, <1>7
  <2>3. \A b \in Backups : \/ disk'[b] = disk[b]
                           \/ b = m.id /\ m.at \in Publishing /\ disk'[b].files \in {disk[b].files, m.files}
    BY <1>2, <1>9, <1>10
  <2>4. /\ \A b \in next.doomed : b \in m.doomed \/ b \in Listed
        /\ m.files # Nil /\ \A a \in Artifacts : next.files[a] \in {m.files[a], m.id}
        /\ m.at \in Publishing \cup {"check"}
    BY <1>2, <1>3, <1>8
  <2>5. Listed \in SUBSET Listed'
    BY <1>3, <1>9 DEF Listed
  <2>6. \A b \in Listed' : b \in Listed \/ (stamp'[b] # 0 /\ (b \in rotten \/ Verifies(b)'))
    <3> SUFFICES ASSUME NEW b \in Listed', b \notin Listed
                 PROVE  stamp'[b] # 0 /\ (b \in rotten \/ Verifies(b)')
      OBVIOUS
    <3>1. b = m.id /\ disk'[b] = one /\ one.listed /\ b \in Backups
      BY <1>9 DEF Listed
    <3>2. disk'[b].listed /\ disk'[b].db = m.db /\ disk'[b].files = m.files
      BY <1>10, <3>1
    <3>3. b \in rotten \/ Sound(m.db, m.files)'
      BY <1>3, <1>7, <3>1 DEF SoundOrRotten, Sound
    <3> QED
      BY <1>3, <1>7, <3>1, <3>2, <3>3 DEF Verifies
  <2>7. m.at # "free" /\ next.id = m.id /\ maker[t] = m
    BY <1>1, <1>3, <1>8
  <2>8. ThreadMoves(t, m, next)
    BY <2>1, <2>2, <2>3, <2>4, <2>5, <2>6, <2>7 DEF ThreadMoves
  <2> QED
    BY <1>11, <2>8, OthersStand
<1>13. MakerOK(t)'
  <2>1. maker'[t] = next /\ stamp'[m.id] # 0 /\ disk'[m.id] = one
    BY <1>2, <1>3, <1>5, <1>6, <1>7, <1>9 DEF BackupsTypeOK
  <2>2. SoundOrRotten(m.id, m.db, m.files)'
    BY <1>3, <1>7 DEF Sound, SoundOrRotten
  <2>3. \A b \in next.doomed : stamp'[b] # 0 /\ Beyond(b)'
    BY <1>3, <1>8, <1>12
  <2>4. m.id =< started'
    BY <1>4, <1>7
  <2> QED
    BY <1>3, <1>8, <1>10, <2>1, <2>2, <2>3, <2>4 DEF MakerOK, Copying, Publishing
<1> QED
  BY <1>11, <1>12, <1>13 DEF BackupsInv

\* What is chosen to go is beyond the retention, and stays so until it is gone.
LEMMA VerifyKeeps ==
  ASSUME BackupsInv, NEW t \in Makers, BackupVerify(t)
  PROVE  BackupsInv'
<1>1. PICK m : m = maker[t]
  OBVIOUS
<1>2. BackupsTypeOK /\ MakerOK(t) /\ ListedOK /\ m.at = "verify"
  BY <1>1 DEF BackupsInv, BackupVerify, Makes
<1>3. /\ m \in Work /\ m.id \in Backups /\ m.db \in Rows /\ m.files \in Inodes /\ m.files # Nil
  BY <1>1, <1>2, NilIsApart DEF MakerOK, BackupsTypeOK
<1>4. m.id =< started
  BY <1>1, <1>3, <1>2, Zenon DEF MakerOK
<1>5. PICK doomed : doomed = {b \in Listed : Beyond(b)}
  OBVIOUS
<1>6. PICK next : next = [m EXCEPT !.at = "prune database", !.doomed = doomed]
  OBVIOUS
<1>7. /\ maker' = [maker EXCEPT ![t] = next]
      /\ UNCHANGED <<row, damaged, disk, stamp, started, answered, rotten>>
  BY <1>1, <1>5, <1>6 DEF BackupVerify, Moves, files
<1>8. Listed' = Listed /\ Listed \subseteq Backups
  BY <1>7 DEF Listed
<1>9. /\ next \in Work /\ next.at = "prune database" /\ next.id = m.id /\ next.db = m.db
      /\ next.files = m.files /\ next.doomed = doomed
  BY <1>3, <1>5, <1>6, <1>8 DEF Work, Stages
<1>10. BackupsTypeOK'
  BY <1>2, <1>7, <1>9 DEF BackupsTypeOK
<1>11. /\ \A u \in Makers \ {t} : MakerOK(u)'
       /\ MakersApart' /\ NotYetMade' /\ ListedOK'
       /\ \A b \in Backups : stamp[b] # 0 /\ Beyond(b) => stamp'[b] # 0 /\ Beyond(b)'
  <2>1. \A b \in Backups : stamp'[b] = stamp[b] /\ disk'[b] = disk[b]
    BY <1>7
  <2>2. UNCHANGED <<damaged, rotten, started>> /\ m.at # "free" /\ next.at \notin Publishing
    BY <1>2, <1>7, <1>9 DEF Publishing
  <2>3. /\ \A b \in next.doomed : b \in m.doomed \/ b \in Listed
        /\ \A a \in Artifacts : next.files[a] \in {m.files[a], m.id}
    BY <1>5, <1>9
  <2>4. Listed \in SUBSET Listed' /\ \A b \in Listed' : b \in Listed
    BY <1>8
  <2>5. ThreadMoves(t, m, next)
    BY <1>1, <1>3, <1>7, <1>9, <2>1, <2>2, <2>3, <2>4 DEF ThreadMoves
  <2> QED
    BY <1>10, <2>5, OthersStand
<1>12. MakerOK(t)'
  <2>1. maker'[t] = next
    BY <1>2, <1>7 DEF BackupsTypeOK
  <2>2. \A b \in next.doomed : stamp'[b] # 0 /\ Beyond(b)'
    BY <1>2, <1>5, <1>8, <1>9, <1>11 DEF ListedOK
  <2>3. m.id =< started'
    BY <1>4, <1>7
  <2> QED
    BY <1>3, <1>9, <2>1, <2>2, <2>3 DEF MakerOK, Copying, Publishing
<1> QED
  BY <1>10, <1>11, <1>12 DEF BackupsInv

LEMMA PruneKeeps ==
  ASSUME BackupsInv, NEW t \in Makers, Prune(t)
  PROVE  /\ BackupsInv'
         /\ \/ Listed' = Listed
            \/ \E b \in Listed : Beyond(b) /\ Listed' = Listed \ {b}
<1>1. PICK m : m = maker[t]
  OBVIOUS
<1>2. BackupsTypeOK /\ MakerOK(t) /\ m.at \in {"prune database", "prune files", "prune manifest"}
  BY <1>1 DEF BackupsInv, Prune
<1>3. /\ m \in Work /\ m.id \in Backups /\ m.db \in Rows /\ m.files \in Inodes
      /\ m.files # Nil /\ m.doomed # {} /\ m.doomed \subseteq Backups
      /\ \A b \in m.doomed : stamp[b] # 0 /\ Beyond(b)
  BY <1>1, <1>2, NilIsApart DEF MakerOK, BackupsTypeOK, Prune, Work
<1>4. m.id =< started
  BY <1>1, <1>3, <1>2, Zenon DEF MakerOK
<1>5. PICK b : b = NewestOf(m.doomed)
  OBVIOUS
<1>6. b \in m.doomed /\ b \in Backups /\ disk[b] \in Kept
  BY <1>2, <1>3, <1>5, NewestIsThere DEF BackupsTypeOK
<1>7. PICK next, one :
        /\ maker' = [maker EXCEPT ![t] = next]
        /\ disk' = [disk EXCEPT ![b] = one]
        /\ \/ /\ next = [m EXCEPT !.at = "prune files"]
              /\ one = [disk[b] EXCEPT !.db = Nil]
           \/ /\ next = [m EXCEPT !.at = "prune manifest"]
              /\ one = [disk[b] EXCEPT !.files = Nil]
           \/ /\ next = [m EXCEPT !.at = "prune database", !.doomed = m.doomed \ {b}]
              /\ one = [disk[b] EXCEPT !.listed = FALSE]
  BY <1>1, <1>3, <1>5 DEF Prune, Moves, Work
<1>8. UNCHANGED <<row, damaged, stamp, started, answered, rotten>>
  BY DEF Prune, files
<1>9. /\ next \in Work /\ next.at \in {"prune database", "prune files", "prune manifest"}
      /\ next.id = m.id /\ next.db = m.db /\ next.files = m.files
      /\ next.doomed \subseteq m.doomed
      /\ next.at \in {"prune files", "prune manifest"} => next.doomed = m.doomed
  <2>1. m \in Work
    BY <1>3
  <2>2. CASE next = [m EXCEPT !.at = "prune files"]
    BY <1>3, <2>1, <2>2 DEF Work, Stages
  <2>3. CASE next = [m EXCEPT !.at = "prune manifest"]
    BY <1>3, <2>1, <2>3 DEF Work, Stages
  <2>4. CASE next = [m EXCEPT !.at = "prune database", !.doomed = m.doomed \ {b}]
    BY <1>3, <2>1, <2>4 DEF Work, Stages
  <2> QED
    BY <1>7, <2>2, <2>3, <2>4
<1>10. /\ one \in Kept /\ one.files \in {disk[b].files, Nil}
       /\ one.listed => disk[b].listed
  BY <1>6, <1>7 DEF Kept
<1>11. \A c \in Backups : disk'[c] = IF c = b THEN one ELSE disk[c]
  BY <1>2, <1>7 DEF BackupsTypeOK
<1>12. BackupsTypeOK'
  BY <1>2, <1>6, <1>7, <1>8, <1>9, <1>10 DEF BackupsTypeOK
<1>13. Listed \ {b} \in SUBSET Listed' /\ Listed' \subseteq Listed
  BY <1>6, <1>10, <1>11 DEF Listed
<1>14. /\ \A u \in Makers \ {t} : MakerOK(u)'
       /\ MakersApart' /\ NotYetMade' /\ ListedOK'
       /\ \A c \in Backups : stamp[c] # 0 /\ Beyond(c) => stamp'[c] # 0 /\ Beyond(c)'
  <2>1. \A c \in Backups : stamp'[c] = stamp[c]
    BY <1>8
  <2>2. /\ UNCHANGED <<damaged, rotten, started>> /\ maker' = [maker EXCEPT ![t] = next]
        /\ next.at \notin Publishing
    BY <1>7, <1>8, <1>9 DEF Publishing
  <2>3. \A c \in Backups : \/ disk'[c] = disk[c]
                           \/ /\ c \in m.doomed /\ disk'[c].files \in {disk[c].files, Nil}
                              /\ disk'[c].listed => disk[c].listed
    BY <1>6, <1>10, <1>11
  <2>4. /\ \A c \in next.doomed : c \in m.doomed \/ c \in Listed
        /\ m.files # Nil /\ \A a \in Artifacts : next.files[a] \in {m.files[a], m.id}
    BY <1>3, <1>9
  <2>5. \E d \in m.doomed : Listed \ {d} \in SUBSET Listed'
    BY <1>6, <1>13
  <2>6. \A c \in Listed' : c \in Listed
    BY <1>13
  <2>7. m.at # "free" /\ next.id = m.id /\ maker[t] = m
    BY <1>1, <1>2, <1>9
  <2>8. ThreadMoves(t, m, next)
    BY <2>1, <2>2, <2>3, <2>4, <2>5, <2>6, <2>7 DEF ThreadMoves
  <2> QED
    BY <1>12, <2>8, OthersStand
<1>15. MakerOK(t)'
  <2>1. maker'[t] = next
    BY <1>2, <1>7 DEF BackupsTypeOK
  <2>2. \A c \in next.doomed : stamp'[c] # 0 /\ Beyond(c)'
    BY <1>3, <1>9, <1>14
  <2>3. m.id =< started'
    BY <1>4, <1>8
  <2> QED
    BY <1>3, <1>9, <2>1, <2>2, <2>3 DEF MakerOK, Copying, Publishing
<1>16. \/ Listed' = Listed
       \/ \E c \in Listed : Beyond(c) /\ Listed' = Listed \ {c}
  <2>1. CASE b \in Listed'
    BY <1>13, <2>1
  <2>2. CASE b \notin Listed'
    BY <1>3, <1>6, <1>13, <2>2
  <2> QED
    BY <2>1, <2>2
<1> QED
  BY <1>12, <1>14, <1>15, <1>16 DEF BackupsInv

LEMMA EndKeeps ==
  ASSUME BackupsInv, NEW t \in Makers, Answer(t) \/ BackupFails(t)
  PROVE  BackupsInv'
<1>1. PICK m : m = maker[t]
  OBVIOUS
<1>2. BackupsTypeOK /\ m.at # "free"
  BY <1>1 DEF BackupsInv, Answer, BackupFails, Makes
<1>3. /\ maker' = [maker EXCEPT ![t] = NoMaker]
      /\ UNCHANGED <<row, damaged, disk, stamp, started, rotten>>
      /\ answered' \in {answered, answered + 1}
  BY DEF Answer, BackupFails, Moves, files
<1>4. NoMaker \in Work /\ NoMaker.at = "free" /\ NoMaker.files = Nil /\ NoMaker.doomed = {}
  BY DEF NoMaker, Work, Stages
<1>5. Listed' = Listed
  BY <1>3 DEF Listed
<1>6. BackupsTypeOK'
  <2>1. maker' \in [Makers -> Work]
    BY <1>2, <1>3, <1>4 DEF BackupsTypeOK
  <2> QED
    BY <1>2, <1>3, <2>1 DEF BackupsTypeOK
<1>7. /\ \A u \in Makers \ {t} : MakerOK(u)'
      /\ MakersApart' /\ NotYetMade' /\ ListedOK'
  <2>1. \A b \in Backups : stamp'[b] = stamp[b] /\ disk'[b] = disk[b]
    BY <1>3
  <2>2. UNCHANGED <<damaged, rotten, started>> /\ NoMaker.at \notin Publishing
    BY <1>3, <1>4 DEF Publishing
  <2>3. \A b \in NoMaker.doomed : b \in m.doomed \/ b \in Listed
    BY <1>4
  <2>4. Listed \in SUBSET Listed' /\ \A b \in Listed' : b \in Listed
    BY <1>5
  <2>5. ThreadMoves(t, m, NoMaker)
    BY <1>1, <1>2, <1>3, <1>4, <2>1, <2>2, <2>3, <2>4 DEF ThreadMoves
  <2> QED
    BY <1>6, <2>5, OthersStand
<1>8. MakerOK(t)'
  <2>1. maker'[t] = NoMaker
    BY <1>2, <1>3 DEF BackupsTypeOK
  <2> QED
    BY <1>4, <2>1 DEF MakerOK, Copying, Publishing
<1> QED
  BY <1>6, <1>7, <1>8 DEF BackupsInv

\* Where neither the backups nor what they say changed, the retention is where it was.
LEMMA BeyondSame ==
  ASSUME UNCHANGED <<disk, stamp>>
  PROVE  /\ Listed' = Listed
         /\ \A b : Beyond(b) => Beyond(b)'
<1>1. Listed' = Listed
  BY DEF Listed
<1>2. \A b : Newer(b)' = Newer(b)
  BY <1>1 DEF Newer
<1> QED
  BY <1>1, <1>2 DEF Beyond

\* A new backup, or one that ends at its first file.
LEMMA BeginKeeps ==
  ASSUME BackupsInv, NEW t \in Makers, BackupDatabase(t)
  PROVE  BackupsInv' /\ Listed' = Listed /\ Late' = Late
<1>1. /\ BackupsTypeOK /\ MakersApart /\ NotYetMade /\ ListedOK /\ \A u \in Makers : MakerOK(u)
      /\ maker[t].at = "free"
  BY DEF BackupsInv, BackupDatabase, Makes
<1>2. PICK id : id = started + 1
  OBVIOUS
<1>3. id \in Backups /\ started \in Nat /\ started' = id /\ id \in 0..MaxBackups
  BY <1>1, <1>2, NilIsApart DEF BackupDatabase, BackupsTypeOK, Backups
<1>4. UNCHANGED <<row, damaged, disk, stamp, answered, rotten>>
  BY DEF BackupDatabase, files
<1>5. LinkBase \in Backups \cup {Nil}
  <2> DEFINE lenders == {b \in Listed : /\ disk[b].files # Nil
                                        /\ \E a \in Artifacts : disk[b].files[a] # Nil}
  <2>1. lenders \in SUBSET Backups
    BY DEF Listed
  <2>2. LinkBase = IF lenders = {} THEN Nil ELSE NewestOf(lenders)
    BY DEF LinkBase
  <2> HIDE DEF lenders
  <2> QED
    BY <1>1, <2>1, <2>2, NewestIsThere
<1>6. PICK next : next = [NoMaker EXCEPT !.at = "copy", !.id = id, !.db = row, !.base = LinkBase]
  OBVIOUS
<1>7. /\ next \in Work /\ next.at = "copy" /\ next.id = id /\ next.db = row
      /\ next.files = Nil /\ next.doomed = {}
  BY <1>1, <1>3, <1>5, <1>6 DEF NoMaker, Work, Stages, BackupsTypeOK
<1>8. maker' = maker \/ maker' = [maker EXCEPT ![t] = next]
  BY <1>2, <1>6 DEF BackupDatabase, Moves
<1>9. \A u \in Makers : maker'[u] = maker[u] \/ (u = t /\ maker'[u] = next)
  BY <1>1, <1>8 DEF BackupsTypeOK
<1>10. BackupsTypeOK'
  BY <1>1, <1>3, <1>4, <1>7, <1>8 DEF BackupsTypeOK
<1>11. ASSUME NEW b, Unlent(b) PROVE Unlent(b)'
  BY <1>4, <1>7, <1>9, <1>11 DEF Unlent
<1>12. Listed' = Listed /\ \A b : Beyond(b) => Beyond(b)'
  BY <1>4, BeyondSame
<1>13. Unlent(id) /\ Unwritten(id) /\ stamp[id] = 0 /\ ~disk[id].listed
  BY <1>1, <1>2, <1>3 DEF NotYetMade
<1>14. ASSUME NEW u \in Makers, maker'[u] = maker[u] PROVE MakerOK(u)'
  <2>1. PICK b : b = maker[u].id
    OBVIOUS
  <2>2. started <= started'
    BY <1>2, <1>3
  <2>3. \A d \in Backups : stamp[d] # 0 /\ Beyond(d) => stamp'[d] # 0 /\ Beyond(d)'
    BY <1>4, <1>12
  <2>4. maker[u].at \in Copying =>
           /\ Unlent(b)' /\ stamp'[b] = stamp[b]
           /\ \A a \in Artifacts : <<a, b>> \in damaged' => <<a, b>> \in damaged
    <3>1. maker[u].at \in Copying => Unlent(b)
      BY <1>1, <2>1, Zenon DEF MakerOK
    <3> QED
      BY <1>4, <1>11, <3>1
  <2>5. \A db, held : SoundOrRotten(b, db, held) => SoundOrRotten(b, db, held)'
    BY <1>4 DEF SoundOrRotten, Sound
  <2> QED
    BY <1>1, <1>4, <1>10, <1>14, <2>1, <2>2, <2>3, <2>4, <2>5, MakerStands
<1>15. ASSUME NEW u \in Makers, maker'[u] = next PROVE MakerOK(u)'
  <2>1. id <= started' /\ row \in Rows
    BY <1>1, <1>3 DEF BackupsTypeOK
  <2>2. Unlent(id)' /\ Unwritten(id)' /\ stamp'[id] = 0 /\ ~disk'[id].listed
    BY <1>4, <1>11, <1>13 DEF Unwritten
  <2> QED
    BY <1>3, <1>7, <1>15, <2>1, <2>2 DEF MakerOK, Copying, Publishing
<1>16. MakersApart'
  <2>1. ASSUME NEW u \in Makers, maker[u].at # "free" PROVE maker[u].id # id
    BY <1>2, <1>3, <2>1, MakerHasId
  <2>2. ASSUME NEW u \in Makers, NEW v \in Makers, u # v, maker'[u].at # "free", maker'[v].at # "free"
        PROVE  maker'[u].id # maker'[v].id
    BY <1>1, <1>7, <1>9, <2>1, <2>2 DEF MakersApart
  <2>3. ASSUME NEW u \in Makers, NEW v \in Makers, maker'[u].at \in Publishing
        PROVE  maker'[u].id \notin maker'[v].doomed
    <3>1. maker'[u] = maker[u] /\ (maker'[v] = maker[v] \/ maker'[v].doomed = {})
      BY <1>7, <1>9, <2>3 DEF Publishing
    <3> QED
      BY <1>1, <2>3, <3>1 DEF MakersApart
  <2> QED
    BY <2>2, <2>3 DEF MakersApart
<1>17. NotYetMade'
  <2> SUFFICES ASSUME NEW b \in Backups, b > started'
               PROVE  Unlent(b)' /\ Unwritten(b)' /\ stamp'[b] = 0 /\ ~disk'[b].listed
    BY DEF NotYetMade
  <2>1. b > started
    BY <1>2, <1>3, NilIsApart
  <2>2. Unlent(b) /\ Unwritten(b) /\ stamp[b] = 0 /\ ~disk[b].listed
    BY <1>1, <2>1 DEF NotYetMade
  <2> QED
    BY <1>4, <1>11, <2>2 DEF Unwritten
<1>18. ListedOK'
  <2>1. \A b : Verifies(b) => Verifies(b)'
    BY <1>4 DEF Verifies, Sound
  <2> QED
    BY <1>1, <1>4, <1>12, <2>1 DEF ListedOK
<1>19. Late' = Late
  <2>1. \A u \in Makers : maker'[u] = maker[u] \/ (maker[u].at = "free" /\ maker'[u].at = "copy")
    BY <1>1, <1>7, <1>9
  <2> QED
    BY <2>1 DEF Late, StillLate, Copying
<1> QED
  BY <1>9, <1>10, <1>12, <1>14, <1>15, <1>16, <1>17, <1>18, <1>19 DEF BackupsInv

\* The files of a new backup: its own copies, with the damage of the originals, and links to
\* those of its base.  No other backup in the making has a file of its.
LEMMA FilesKeep ==
  ASSUME BackupsInv, NEW t \in Makers, BackupFiles(t)
  PROVE  BackupsInv'
<1>1. PICK m : m = maker[t]
  OBVIOUS
<1>2. /\ BackupsTypeOK /\ MakersApart /\ NotYetMade /\ ListedOK /\ \A u \in Makers : MakerOK(u)
      /\ m.at = "copy"
  BY <1>1 DEF BackupsInv, BackupFiles, Makes
<1>3. /\ m \in Work /\ m.id \in Backups /\ m.db \in Rows /\ m.doomed \subseteq Backups
      /\ Unlent(m.id) /\ Unwritten(m.id) /\ stamp[m.id] = 0 /\ ~disk[m.id].listed
      /\ \A b \in m.doomed : stamp[b] # 0 /\ Beyond(b)
  BY <1>1, <1>2 DEF MakerOK, BackupsTypeOK, Copying, Work
<1>4. ~(m.id > started) /\ m.id =< started /\ started \in Nat
  <2>1. MakerOK(t) /\ m.at # "free"
    BY <1>2
  <2>2. m.id =< started
    BY <1>1, <2>1, Zenon DEF MakerOK
  <2>3. ~(m.id > started)
    BY <1>1, <2>1, MakerHasId
  <2> QED
    BY <1>2, <2>2, <2>3 DEF BackupsTypeOK
<1>5. PICK held : held = Held(t)
  OBVIOUS
<1>6. PICK next : next = [m EXCEPT !.at = "check", !.files = held]
  OBVIOUS
<1>7. PICK torn : torn = CopyOf(m.id, Copied(t, held))
  OBVIOUS
<1>8. /\ maker' = [maker EXCEPT ![t] = next] /\ damaged' = damaged \cup torn
      /\ UNCHANGED <<row, disk, stamp, started, answered, rotten>>
  BY <1>1, <1>5, <1>6, <1>7 DEF BackupFiles, Moves, files
<1>9. ASSUME NEW a \in Artifacts
      PROVE  \/ held[a] = Nil /\ a \notin Needed(m.db)
             \/ held[a] = m.id
             \/ \E b \in Backups : disk[b].files # Nil /\ held[a] = disk[b].files[a] /\ held[a] # Nil
  BY <1>1, <1>3, <1>5 DEF Held, Work
<1>10. held \in Inodes
  <2>1. \A b \in Backups : disk[b].files # Nil => disk[b].files \in Inodes
    BY <1>2 DEF BackupsTypeOK, Kept
  <2>2. \A a \in Artifacts : held[a] \in Backups \cup {Nil}
    BY <1>3, <1>9, <2>1 DEF Inodes
  <2>3. held = [a \in Artifacts |-> held[a]]
    BY <1>5 DEF Held
  <2> QED
    BY <2>2, <2>3 DEF Inodes
<1>11. \A a, o : <<a, o>> \in torn => o = m.id /\ a \in Artifacts /\ held[a] = m.id
  BY <1>1, <1>7 DEF CopyOf, Copied, Needed
<1>12. /\ next \in Work /\ next.at = "check" /\ next.id = m.id /\ next.db = m.db
       /\ next.files = held /\ next.doomed = m.doomed /\ held # Nil
  BY <1>3, <1>6, <1>10, NilIsApart DEF Work, Stages
<1>13. \A u \in Makers : maker'[u] = IF u = t THEN next ELSE maker[u]
  BY <1>2, <1>8 DEF BackupsTypeOK
<1>14. BackupsTypeOK'
  BY <1>2, <1>8, <1>12 DEF BackupsTypeOK
<1>15. Listed' = Listed /\ \A b : Beyond(b) => Beyond(b)'
  BY <1>8, BeyondSame
<1>16. ASSUME NEW b \in Backups, b # m.id, Unlent(b) PROVE Unlent(b)'
  <2>1. ASSUME NEW a \in Artifacts PROVE held[a] # b
    BY <1>9, <1>16, NilIsApart DEF Unlent
  <2> QED
    BY <1>8, <1>12, <1>13, <1>16, <2>1 DEF Unlent
<1>17. Unlent(m.id)'
  BY <1>3, <1>8, <1>12, <1>13 DEF Unlent
\* Nobody else has a file that is damaged now.
<1>18. ASSUME NEW a \in Artifacts, NEW o, <<a, o>> \in damaged', <<a, o>> \notin damaged
       PROVE  /\ \A b \in Backups : disk[b].files # Nil => disk[b].files[a] # o
              /\ \A u \in Makers \ {t} : maker[u].files # Nil /\ maker[u].id # m.id => maker[u].files[a] # o
  BY <1>3, <1>8, <1>11, <1>18 DEF Unlent
<1>19. ASSUME NEW u \in Makers \ {t} PROVE MakerOK(u)'
  <2>1. PICK b : b = maker[u].id
    OBVIOUS
  <2>2. maker[u].at # "free" => b \in Backups /\ b # m.id
    BY <1>1, <1>2, <2>1, MakerHasId DEF MakersApart
  <2>3. started <= started' /\ maker'[u] = maker[u]
    BY <1>4, <1>8, <1>13
  <2>4. \A d \in Backups : stamp[d] # 0 /\ Beyond(d) => stamp'[d] # 0 /\ Beyond(d)'
    BY <1>8, <1>15
  <2>5. maker[u].at \in Copying =>
           /\ Unlent(b)' /\ stamp'[b] = stamp[b]
           /\ \A a \in Artifacts : <<a, b>> \in damaged' => <<a, b>> \in damaged
    <3>1. maker[u].at \in Copying => Unlent(b) /\ maker[u].at # "free"
      BY <1>2, <2>1, Zenon DEF MakerOK, Copying
    <3> QED
      BY <1>8, <1>11, <1>16, <2>2, <3>1
  <2>6. maker[u].at \in Publishing =>
           \A db, has : /\ maker[u].db = db /\ maker[u].files = has /\ SoundOrRotten(b, db, has)
                          => SoundOrRotten(b, db, has)'
    <3> SUFFICES ASSUME maker[u].at \in Publishing, NEW db, NEW has, maker[u].files = has, Sound(db, has)
                 PROVE  Sound(db, has)'
      BY <1>8 DEF SoundOrRotten
    <3>1. has # Nil
      BY <1>2, NilIsApart DEF MakerOK, Publishing
    <3>2. \A a \in Artifacts : <<a, has[a]>> \in damaged' => <<a, has[a]>> \in damaged
      BY <1>18, <2>1, <2>2, <3>1 DEF Publishing
    <3> QED
      BY <3>2 DEF Sound, Needed
  <2> QED
    BY <1>2, <1>8, <1>14, <2>1, <2>3, <2>4, <2>5, <2>6, MakerStands
<1>20. MakerOK(t)'
  <2>1. maker'[t] = next /\ stamp'[m.id] = 0 /\ ~disk'[m.id].listed /\ m.id =< started'
    BY <1>3, <1>4, <1>8, <1>13
  <2>2. \A a \in Needed(m.db) : held[a] # Nil
    BY <1>3, <1>9, NilIsApart DEF Needed
  <2>3. \A a \in Artifacts : <<a, m.id>> \in damaged' => held[a] = m.id
    BY <1>3, <1>8, <1>11 DEF Unwritten
  <2>4. \A b \in m.doomed : stamp'[b] # 0 /\ Beyond(b)'
    BY <1>3, <1>8, <1>15
  <2> QED
    BY <1>3, <1>10, <1>12, <1>17, <2>1, <2>2, <2>3, <2>4 DEF MakerOK, Copying, Publishing
<1>21. MakersApart'
  BY <1>1, <1>2, <1>12, <1>13 DEF MakersApart, Publishing
<1>22. NotYetMade'
  <2> SUFFICES ASSUME NEW b \in Backups, b > started'
               PROVE  Unlent(b)' /\ Unwritten(b)' /\ stamp'[b] = 0 /\ ~disk'[b].listed
    BY DEF NotYetMade
  <2>1. Unlent(b) /\ Unwritten(b) /\ stamp[b] = 0 /\ ~disk[b].listed /\ b # m.id
    BY <1>2, <1>4, <1>8 DEF NotYetMade
  <2> QED
    BY <1>8, <1>11, <1>16, <2>1 DEF Unwritten
<1>23. ListedOK'
  <2>1. ASSUME NEW b \in Backups, Verifies(b) PROVE Verifies(b)'
    <3>1. \A a \in Artifacts : <<a, disk[b].files[a]>> \in damaged' => <<a, disk[b].files[a]>> \in damaged
      BY <1>18, <2>1 DEF Verifies
    <3> QED
      BY <1>8, <2>1, <3>1 DEF Verifies, Sound, Needed
  <2>2. Listed \subseteq Backups
    BY DEF Listed
  <2> QED
    BY <1>2, <1>8, <1>15, <2>1, <2>2 DEF ListedOK
<1> QED
  BY <1>14, <1>19, <1>20, <1>21, <1>22, <1>23 DEF BackupsInv

\* Whoever holds the file and had read it back is rotten now; who copies will see it.
LEMMA DamageKeeps ==
  ASSUME BackupsInv, NEW art \in Artifacts, NEW owner \in Backups \cup {Live}, Damage(art, owner)
  PROVE  BackupsInv'
<1>1. /\ BackupsTypeOK /\ MakersApart /\ NotYetMade /\ ListedOK /\ \A u \in Makers : MakerOK(u)
      /\ UNCHANGED <<row, disk, stamp, maker, started, answered>>
  BY DEF BackupsInv, Damage, files
<1>2. /\ damaged' = damaged \cup {<<art, owner>>} /\ rotten' = rotten \cup Holders(art, owner)
      /\ owner = Live \/ \E b \in Backups : disk[b].files # Nil /\ disk[b].files[art] = owner
  BY DEF Damage
<1>3. BackupsTypeOK'
  BY <1>1 DEF BackupsTypeOK
<1>4. Listed' = Listed /\ \A b : Beyond(b) => Beyond(b)'
  BY <1>1, BeyondSame
\* An inode that nobody has is not the one.
<1>5. ASSUME NEW b \in Backups, Unlent(b)
      PROVE  Unlent(b)' /\ \A a \in Artifacts : <<a, b>> \in damaged' => <<a, b>> \in damaged
  <2>1. owner # b
    BY <1>2, <1>5, NilIsApart DEF Unlent
  <2>2. \A a \in Artifacts : <<a, b>> \in damaged' => <<a, b>> \in damaged
    BY <1>2, <2>1
  <2> QED
    BY <1>1, <1>5, <2>2 DEF Unlent
<1>6. ASSUME NEW db, NEW held, Sound(db, held), ~(art \in Artifacts /\ held[art] = owner)
      PROVE  Sound(db, held)'
  BY <1>2, <1>6 DEF Sound, Needed
<1>7. ASSUME NEW u \in Makers PROVE MakerOK(u)'
  <2>1. PICK b : b = maker[u].id
    OBVIOUS
  <2>2. maker[u].at # "free" => b \in Backups
    BY <2>1, MakerHasId
  <2>3. started <= started' /\ maker'[u] = maker[u]
    BY <1>1 DEF BackupsTypeOK
  <2>4. \A d \in Backups : stamp[d] # 0 /\ Beyond(d) => stamp'[d] # 0 /\ Beyond(d)'
    BY <1>1, <1>4
  <2>5. maker[u].at \in Copying =>
           /\ Unlent(b)' /\ stamp'[b] = stamp[b]
           /\ \A a \in Artifacts : <<a, b>> \in damaged' => <<a, b>> \in damaged
    <3>1. maker[u].at \in Copying => Unlent(b) /\ maker[u].at # "free"
      BY <1>1, <2>1, Zenon DEF MakerOK, Copying
    <3> QED
      BY <1>1, <1>5, <2>2, <3>1
  <2>6. maker[u].at \in Publishing =>
           \A db, has : maker[u].db = db /\ maker[u].files = has /\ SoundOrRotten(b, db, has)
                          => SoundOrRotten(b, db, has)'
    <3> SUFFICES ASSUME maker[u].at \in Publishing, NEW db, NEW has, maker[u].files = has,
                        SoundOrRotten(b, db, has)
                 PROVE  SoundOrRotten(b, db, has)'
      OBVIOUS
    <3>1. has # Nil /\ b \in Backups /\ ~Makes(u, "check")
      BY <1>1, <2>2, NilIsApart DEF MakerOK, Publishing, Makes
    <3>2. has[art] = owner => b \in Holders(art, owner)
      BY <2>1, <3>1 DEF Holders
    <3> QED
      BY <1>2, <1>6, <3>2 DEF SoundOrRotten
  <2> QED
    BY <1>1, <1>3, <2>1, <2>3, <2>4, <2>5, <2>6, MakerStands
<1>8. MakersApart'
  BY <1>1 DEF MakersApart
<1>9. NotYetMade'
  BY <1>1, <1>5 DEF NotYetMade, Unwritten
<1>10. ListedOK'
  <2> SUFFICES ASSUME NEW b \in Listed
               PROVE  stamp'[b] # 0 /\ (Beyond(b)' \/ b \in rotten' \/ Verifies(b)')
    BY <1>4 DEF ListedOK
  <2>1. stamp[b] # 0 /\ (Beyond(b) \/ b \in rotten \/ Verifies(b)) /\ b \in Backups
    BY <1>1 DEF ListedOK, Listed
  <2>2. Verifies(b) /\ disk[b].files[art] = owner => b \in Holders(art, owner)
    BY <2>1 DEF Verifies, Holders
  <2>3. Verifies(b) /\ disk[b].files[art] # owner => Verifies(b)'
    <3> SUFFICES ASSUME Verifies(b), disk[b].files[art] # owner PROVE Verifies(b)'
      OBVIOUS
    <3>1. PICK db, has : db = disk[b].db /\ has = disk[b].files
      OBVIOUS
    <3>2. Sound(db, has) /\ has[art] # owner
      BY <3>1 DEF Verifies
    <3>3. Sound(db, has)'
      BY <1>6, <3>2
    <3> QED
      BY <1>1, <3>1, <3>3 DEF Verifies
  <2> QED
    BY <1>1, <1>2, <1>4, <2>1, <2>2, <2>3
<1> QED
  BY <1>3, <1>7, <1>8, <1>9, <1>10 DEF BackupsInv

LEMMA CrashKeeps ==
  ASSUME BackupsInv, Crash
  PROVE  BackupsInv' /\ Listed' = Listed /\ Late' = {}
<1>1. /\ BackupsTypeOK /\ NotYetMade /\ ListedOK
      /\ UNCHANGED <<row, damaged, disk, stamp, started, answered, rotten>>
      /\ maker' = [u \in Makers |-> NoMaker]
  BY DEF BackupsInv, Crash, files
<1>2. /\ NoMaker \in Work /\ NoMaker.at = "free" /\ NoMaker.files = Nil /\ NoMaker.doomed = {}
      /\ \A u \in Makers : maker'[u] = NoMaker
  BY <1>1 DEF NoMaker, Work, Stages
<1>3. BackupsTypeOK'
  BY <1>1, <1>2 DEF BackupsTypeOK
<1>4. \A u \in Makers : MakerOK(u)'
  BY <1>2 DEF MakerOK, Copying, Publishing
<1>5. MakersApart'
  BY <1>2 DEF MakersApart
<1>6. Listed' = Listed /\ \A b : Beyond(b) => Beyond(b)'
  BY <1>1, BeyondSame
<1>7. NotYetMade'
  BY <1>1, <1>2 DEF NotYetMade, Unlent, Unwritten
<1>8. ListedOK'
  <2>1. \A b : Verifies(b) => Verifies(b)'
    BY <1>1 DEF Verifies, Sound
  <2> QED
    BY <1>1, <1>6, <2>1 DEF ListedOK
<1>9. Late' = {}
  BY <1>2 DEF Late, StillLate
<1> QED
  BY <1>3, <1>4, <1>5, <1>6, <1>7, <1>8, <1>9 DEF BackupsInv

\* Steps that touch no backup.
LEMMA ElsewhereKeeps ==
  ASSUME BackupsInv, row' \in Rows, UNCHANGED <<damaged, backups>>
  PROVE  BackupsInv' /\ Listed' = Listed /\ Late' = Late
<1>1. /\ BackupsTypeOK /\ MakersApart /\ NotYetMade /\ ListedOK /\ \A u \in Makers : MakerOK(u)
      /\ UNCHANGED <<damaged, disk, stamp, maker, started, answered, rotten>>
  BY DEF BackupsInv, backups
<1>2. BackupsTypeOK'
  BY <1>1 DEF BackupsTypeOK
<1>3. Listed' = Listed /\ \A b : Beyond(b) => Beyond(b)'
  BY <1>1, BeyondSame
<1>4. \A b : Unlent(b) => Unlent(b)'
  BY <1>1 DEF Unlent
<1>5. ASSUME NEW u \in Makers PROVE MakerOK(u)'
  <2>1. PICK b : b = maker[u].id
    OBVIOUS
  <2>2. started <= started' /\ maker'[u] = maker[u]
    BY <1>1 DEF BackupsTypeOK
  <2>3. \A d \in Backups : stamp[d] # 0 /\ Beyond(d) => stamp'[d] # 0 /\ Beyond(d)'
    BY <1>1, <1>3
  <2>4. maker[u].at \in Copying =>
           /\ Unlent(b)' /\ stamp'[b] = stamp[b]
           /\ \A a \in Artifacts : <<a, b>> \in damaged' => <<a, b>> \in damaged
    <3>1. maker[u].at \in Copying => Unlent(b)
      BY <1>1, <2>1, Zenon DEF MakerOK
    <3> QED
      BY <1>1, <1>4, <3>1
  <2>5. \A db, has : SoundOrRotten(b, db, has) => SoundOrRotten(b, db, has)'
    BY <1>1 DEF SoundOrRotten, Sound
  <2> QED
    BY <1>1, <1>2, <2>1, <2>2, <2>3, <2>4, <2>5, MakerStands
<1>6. MakersApart'
  BY <1>1 DEF MakersApart
<1>7. NotYetMade'
  BY <1>1, <1>4 DEF NotYetMade, Unwritten
<1>8. ListedOK'
  <2>1. \A b : Verifies(b) => Verifies(b)'
    BY <1>1 DEF Verifies, Sound
  <2> QED
    BY <1>1, <1>3, <2>1 DEF ListedOK
<1>9. Late' = Late
  BY <1>1 DEF Late
<1> QED
  BY <1>2, <1>3, <1>5, <1>6, <1>7, <1>8, <1>9 DEF BackupsInv

\* What a step does to the backups that are listed and to the requests that wait for
\* their answer.
CountsMove ==
  \/ Listed' = Listed /\ answered' = answered /\ Late' \in SUBSET Late
  \/ \E b \in Backups \ Listed, t \in Makers \ Late :
       Listed' = Listed \cup {b} /\ Late' = Late \cup {t} /\ answered' = answered
  \/ \E t \in Late : Listed' = Listed /\ Late' = Late \ {t} /\ answered' = answered + 1
  \/ \E b \in Listed : Beyond(b) /\ Listed' = Listed \ {b}

LEMMA CountsFollow ==
  ASSUME BackupsTypeOK, BackupsTypeOK', AnsweredAreListed, CountsMove
  PROVE  AnsweredAreListed'
<1> DEFINE few == Cardinality(Listed')  late == Cardinality(Late')
<1>1. /\ Listed \in SUBSET Backups /\ Listed' \in SUBSET Backups
      /\ Late \in SUBSET Makers /\ Late' \in SUBSET Makers /\ IsFiniteSet(Makers)
  BY VaultAssumption DEF Listed, Late
<1>2. /\ IsFiniteSet(Listed) /\ IsFiniteSet(Listed') /\ IsFiniteSet(Late) /\ IsFiniteSet(Late')
      /\ Cardinality(Listed) \in Nat /\ few \in Nat /\ Cardinality(Late) \in Nat /\ late \in Nat
  <2>1. IsFiniteSet(Late) /\ IsFiniteSet(Late')
    BY <1>1, FS_Subset
  <2> QED
    BY <1>1, <2>1, BackupsAreFinite, FS_CardinalityType
<1>3. answered \in Nat /\ answered' \in Nat /\ Retention \in Nat
  BY NilIsApart DEF BackupsTypeOK
<1>4. CASE Listed' = Listed /\ answered' = answered /\ Late' \in SUBSET Late
  <2>1. late <= Cardinality(Late)
    BY <1>2, <1>4, FS_Subset
  <2> QED
    BY <1>2, <1>3, <1>4, <2>1 DEF AnsweredAreListed
<1>5. ASSUME NEW b \in Backups \ Listed, NEW t \in Makers \ Late,
             Listed' = Listed \cup {b}, Late' = Late \cup {t}, answered' = answered
      PROVE  AnsweredAreListed'
  <2>1. few = Cardinality(Listed) + 1 /\ late = Cardinality(Late) + 1
    BY <1>2, <1>5, FS_AddElement
  <2> QED
    BY <1>2, <1>3, <1>5, <2>1 DEF AnsweredAreListed
<1>6. ASSUME NEW t \in Late, Listed' = Listed, Late' = Late \ {t}, answered' = answered + 1
      PROVE  AnsweredAreListed'
  <2>1. late = Cardinality(Late) - 1
    BY <1>2, <1>6, FS_RemoveElement
  <2> QED
    BY <1>2, <1>3, <1>6, <2>1 DEF AnsweredAreListed
<1>7. ASSUME NEW b \in Listed, Beyond(b), Listed' = Listed \ {b} PROVE AnsweredAreListed'
  <2>1. Newer(b) \in SUBSET Listed' /\ Newer(b) \in SUBSET Backups
    BY <1>1, <1>7 DEF Newer, BackupsTypeOK
  <2>2. Cardinality(Newer(b)) \in Nat /\ Cardinality(Newer(b)) >= Retention
    BY <1>7, <2>1, BackupsAreFinite DEF Beyond
  <2>3. Cardinality(Newer(b)) <= few
    BY <1>2, <2>1, FS_Subset
  <2>4. few >= Retention
    BY <1>2, <1>3, <2>2, <2>3
  <2> QED
    BY <2>4 DEF AnsweredAreListed
<1> QED
  BY <1>4, <1>5, <1>6, <1>7 DEF CountsMove

LEMMA LateFollows ==
  ASSUME BackupsTypeOK, NEW t \in Makers, NEW next, maker' = [maker EXCEPT ![t] = next]
  PROVE  Late' = IF next.at \in StillLate THEN Late \cup {t} ELSE Late \ {t}
<1>1. \A u \in Makers : maker'[u] = IF u = t THEN next ELSE maker[u]
  BY DEF BackupsTypeOK
<1> QED
  BY <1>1 DEF Late, StillLate

LEMMA BackupKeeps ==
  ASSUME BackupsKept, NEW t \in Makers, Backup(t)
  PROVE  BackupsKept'
<1>1. BackupsInv /\ AnsweredAreListed /\ BackupsTypeOK
  BY DEF BackupsKept, BackupsInv
<1>2. PICK m : m = maker[t]
  OBVIOUS
<1>3. t \in Late <=> m.at \in StillLate
  BY <1>2 DEF Late, StillLate
<1>4. UNCHANGED <<disk, stamp>> => Listed' = Listed
  BY DEF Listed
<1>5. ASSUME BackupDatabase(t) PROVE BackupsInv' /\ CountsMove
  BY <1>1, <1>5, BeginKeeps DEF BackupDatabase, CountsMove
<1>6. ASSUME BackupFiles(t) PROVE BackupsInv' /\ CountsMove
  <2>1. PICK next : maker' = [maker EXCEPT ![t] = next] /\ next.at = "check"
    <3>1. PICK held : maker' = [maker EXCEPT ![t] = [m EXCEPT !.at = "check", !.files = held]]
      BY <1>2, <1>6 DEF BackupFiles, Moves
    <3>2. m \in Work
      BY <1>1, <1>2 DEF BackupsTypeOK
    <3>3. [m EXCEPT !.at = "check", !.files = held].at = "check"
      BY <3>2 DEF Work
    <3> QED
      BY <3>1, <3>3
  <2>2. Late' \in SUBSET Late
    BY <1>1, <2>1, LateFollows DEF StillLate, Copying
  <2> QED
    BY <1>1, <1>4, <1>6, <2>2, FilesKeep DEF BackupFiles, CountsMove
<1>7. ASSUME BackupCheck(t) PROVE BackupsInv' /\ CountsMove
  <2>1. PICK next : maker' = [maker EXCEPT ![t] = next] /\ next.at = "database"
    <3>1. PICK held : maker' = [maker EXCEPT ![t] = [m EXCEPT !.at = "database", !.files = held]]
      BY <1>2, <1>7 DEF BackupCheck, Moves
    <3>2. m \in Work
      BY <1>1, <1>2 DEF BackupsTypeOK
    <3>3. [m EXCEPT !.at = "database", !.files = held].at = "database"
      BY <3>2 DEF Work
    <3> QED
      BY <3>1, <3>3
  <2>2. Late' \in SUBSET Late
    BY <1>1, <2>1, LateFollows DEF StillLate, Publishing
  <2>3. Listed' = Listed
    BY <1>7 DEF BackupCheck, Listed
  <2> QED
    BY <1>1, <1>7, <2>2, <2>3, CheckKeeps DEF BackupCheck, CountsMove
<1>8. ASSUME PublishDatabase(t) \/ PublishFiles(t) PROVE BackupsInv' /\ CountsMove
  <2>1. PICK next : maker' = [maker EXCEPT ![t] = next] /\ next.at \in Publishing
    <3>1. PICK at \in Publishing : maker' = [maker EXCEPT ![t] = [m EXCEPT !.at = at]]
      BY <1>2, <1>8 DEF PublishDatabase, PublishFiles, Moves, Publishing
    <3>2. m \in Work
      BY <1>1, <1>2 DEF BackupsTypeOK
    <3>3. [m EXCEPT !.at = at].at = at
      BY <3>2 DEF Work
    <3> QED
      BY <3>1, <3>3
  <2>2. Late' \in SUBSET Late
    BY <1>1, <2>1, LateFollows DEF StillLate, Publishing
  <2>3. Listed' = Listed
    <3>1. disk \in [Backups -> Kept]
      BY <1>1 DEF BackupsTypeOK
    <3>2. PublishDatabase(t) => \A b \in Backups : disk'[b].listed = disk[b].listed
      BY <3>1 DEF PublishDatabase, Kept
    <3>3. PublishFiles(t) => \A b \in Backups : disk'[b].listed = disk[b].listed
      BY <3>1 DEF PublishFiles, Kept
    <3> QED
      BY <1>8, <3>2, <3>3 DEF Listed
  <2> QED
    BY <1>1, <1>8, <2>2, <2>3, PublishKeeps DEF PublishDatabase, PublishFiles, CountsMove
<1>9. ASSUME PublishManifest(t) PROVE BackupsInv' /\ CountsMove
  <2>1. PICK next : maker' = [maker EXCEPT ![t] = next] /\ next.at = "verify"
    <3>1. maker' = [maker EXCEPT ![t] = [m EXCEPT !.at = "verify"]] /\ m \in Work
      BY <1>1, <1>2, <1>9 DEF PublishManifest, Moves, BackupsTypeOK
    <3>2. [m EXCEPT !.at = "verify"].at = "verify"
      BY <3>1 DEF Work
    <3> QED
      BY <3>1, <3>2
  <2>2. t \notin Late /\ Late' = Late \cup {t}
    BY <1>1, <1>3, <1>2, <1>9, <2>1, LateFollows
       DEF StillLate, Copying, Publishing, Stages, PublishManifest, Makes
  <2>3. m.id \in Backups /\ ~disk[m.id].listed
    <3>1. MakerOK(t) /\ maker[t].at = "manifest"
      BY <1>1, <1>9 DEF PublishManifest, Makes, BackupsInv
    <3>2. maker[t].id \in Backups
      BY <1>1, <3>1, MakerHasId
    <3>3. ~disk[maker[t].id].listed
      BY <3>1 DEF MakerOK, Publishing
    <3> QED
      BY <1>2, <3>2, <3>3
  <2>4. Listed' = Listed \cup {m.id}
    <3>1. disk' = [disk EXCEPT ![m.id].listed = TRUE] /\ disk \in [Backups -> Kept]
      BY <1>1, <1>2, <1>9 DEF PublishManifest, BackupsTypeOK
    <3>2. \A b \in Backups : disk'[b].listed <=> disk[b].listed \/ b = m.id
      BY <2>3, <3>1 DEF Kept
    <3> QED
      BY <2>3, <3>2 DEF Listed
  <2>5. m.id \in Backups \ Listed
    BY <2>3 DEF Listed
  <2> QED
    BY <1>1, <1>9, <2>2, <2>4, <2>5, PublishKeeps DEF PublishManifest, CountsMove
<1>10. ASSUME BackupVerify(t) PROVE BackupsInv' /\ CountsMove
  <2>1. PICK next : maker' = [maker EXCEPT ![t] = next] /\ next.at = "prune database"
    <3>1. PICK doomed : maker' = [maker EXCEPT ![t] = [m EXCEPT !.at = "prune database", !.doomed = doomed]]
      BY <1>2, <1>10 DEF BackupVerify, Moves
    <3>2. m \in Work
      BY <1>1, <1>2 DEF BackupsTypeOK
    <3>3. [m EXCEPT !.at = "prune database", !.doomed = doomed].at = "prune database"
      BY <3>2 DEF Work
    <3> QED
      BY <3>1, <3>3
  <2>2. t \in Late
    BY <1>2, <1>3, <1>10 DEF BackupVerify, Makes, StillLate, Stages, Copying, Publishing
  <2>3. Late' \in SUBSET Late
    BY <1>1, <2>1, <2>2, LateFollows
  <2> QED
    BY <1>1, <1>4, <1>10, <2>3, VerifyKeeps DEF BackupVerify, CountsMove
<1>11. ASSUME Prune(t) PROVE BackupsInv' /\ CountsMove
  <2>1. PICK next : maker' = [maker EXCEPT ![t] = next]
    BY <1>11 DEF Prune, Moves
  <2>2. t \in Late
    BY <1>2, <1>3, <1>11 DEF Prune, StillLate, Stages, Copying, Publishing
  <2>3. Late' \in SUBSET Late
    BY <1>1, <2>1, <2>2, LateFollows
  <2> QED
    BY <1>1, <1>11, <2>3, PruneKeeps DEF Prune, CountsMove
<1>12. ASSUME Answer(t) PROVE BackupsInv' /\ CountsMove
  <2>1. t \in Late /\ Late' = Late \ {t}
    <3>1. m.at \in StillLate
      BY <1>2, <1>12 DEF Answer, Makes, StillLate, Stages, Copying, Publishing
    <3>2. maker' = [maker EXCEPT ![t] = NoMaker]
      BY <1>12 DEF Answer, Moves
    <3>3. NoMaker.at \notin StillLate
      BY DEF NoMaker, StillLate
    <3> QED
      BY <1>1, <1>3, <3>1, <3>2, <3>3, LateFollows
  <2> QED
    <3>1. Listed' = Listed /\ answered' = answered + 1
      BY <1>4, <1>12 DEF Answer
    <3>2. BackupsInv'
      BY <1>1, <1>12, EndKeeps
    <3> QED
      BY <2>1, <3>1, <3>2 DEF CountsMove
<1>13. ASSUME BackupFails(t) PROVE BackupsInv' /\ CountsMove
  <2>1. Late' \in SUBSET Late
    <3>1. maker' = [maker EXCEPT ![t] = NoMaker]
      BY <1>13 DEF BackupFails, Moves
    <3>2. NoMaker.at \notin StillLate
      BY DEF NoMaker, StillLate
    <3> QED
      BY <1>1, <3>1, <3>2, LateFollows
  <2> QED
    <3>1. Listed' = Listed /\ answered' = answered
      BY <1>4, <1>13 DEF BackupFails
    <3>2. BackupsInv'
      BY <1>1, <1>13, EndKeeps
    <3> QED
      BY <2>1, <3>1, <3>2 DEF CountsMove
<1>14. BackupsInv' /\ CountsMove
  BY <1>5, <1>6, <1>7, <1>8, <1>9, <1>10, <1>11, <1>12, <1>13 DEF Backup
<1>15. BackupsTypeOK'
  BY <1>14 DEF BackupsInv
<1>16. AnsweredAreListed'
  BY <1>1, <1>14, <1>15, CountsFollow
<1> QED
  BY <1>14, <1>16 DEF BackupsKept

LEMMA BackupsStart == VaultInit => BackupsKept
<1> SUFFICES ASSUME VaultInit PROVE BackupsKept
  OBVIOUS
<1>1. /\ row = [a \in Artifacts |-> Nil] /\ damaged = {} /\ disk = [b \in Backups |-> NoBackup]
      /\ stamp = [b \in Backups |-> 0] /\ maker = [t \in Makers |-> NoMaker]
      /\ started = 0 /\ answered = 0
  BY DEF VaultInit
<1>2. NoMaker \in Work /\ NoMaker.at = "free" /\ NoMaker.files = Nil /\ NoMaker.doomed = {}
  BY DEF NoMaker, Work, Stages
<1>3. NoBackup \in Kept /\ ~NoBackup.listed /\ NoBackup.files = Nil
  BY DEF NoBackup, Kept
<1>4. BackupsTypeOK
  <2>1. disk \in [Backups -> Kept] /\ maker \in [Makers -> Work]
    BY <1>1, <1>2, <1>3
  <2>2. row \in Rows /\ stamp \in [Backups -> Nat]
    BY <1>1 DEF Rows
  <2> QED
    BY <1>1, <2>1, <2>2, NilIsApart DEF BackupsTypeOK
<1>5. (\A t \in Makers : maker[t] = NoMaker) /\ \A b \in Backups : disk[b] = NoBackup /\ stamp[b] = 0
  BY <1>1
<1>6. (\A t \in Makers : MakerOK(t)) /\ MakersApart
  BY <1>2, <1>5 DEF MakerOK, MakersApart, Copying, Publishing
<1>7. NotYetMade /\ Listed = {}
  BY <1>1, <1>2, <1>3, <1>5 DEF NotYetMade, Unlent, Unwritten, Listed
<1>8. Late = {}
  BY <1>2, <1>5 DEF Late, StillLate
<1>9. AnsweredAreListed
  BY <1>1, <1>7, <1>8, FS_EmptySet DEF AnsweredAreListed
<1> QED
  BY <1>4, <1>6, <1>7, <1>9 DEF BackupsKept, BackupsInv, ListedOK

LEMMA BackupsStep == BackupsKept /\ [VaultNext]_vaultVars => BackupsKept'
<1> SUFFICES ASSUME BackupsKept, [VaultNext]_vaultVars PROVE BackupsKept'
  OBVIOUS
<1>1. BackupsInv /\ AnsweredAreListed /\ row \in Rows /\ BackupsTypeOK
  BY DEF BackupsKept, BackupsInv, BackupsTypeOK
<1>2. ASSUME row' \in Rows, UNCHANGED <<damaged, backups>> PROVE BackupsKept'
  <2>1. BackupsInv' /\ Listed' = Listed /\ Late' = Late /\ answered' = answered
    BY <1>1, <1>2, ElsewhereKeeps DEF backups
  <2> QED
    BY <1>1, <2>1 DEF BackupsKept, AnsweredAreListed
<1>3. UNCHANGED row => row' \in Rows
  BY <1>1
<1>4. \A a, s : s \in Statuses /\ row' = [row EXCEPT ![a] = s] => row' \in Rows
  BY <1>1 DEF Rows
<1>5. CASE UNCHANGED vaultVars
  BY <1>2, <1>3, <1>5 DEF vaultVars, backups
<1>6. ASSUME NEW a \in Artifacts, Store(a) PROVE BackupsKept'
  BY <1>2, <1>3, <1>4, <1>6 DEF Store, WriteFile, WriteRow, Supersede, Lookup, Statuses
<1>7. CASE MasterApproval
  BY <1>2, <1>3, <1>7 DEF MasterApproval
<1>8. CASE Cleanup
  BY <1>2, <1>3, <1>4, <1>8 DEF Cleanup, Preview, Execute, CleanupSkip, CleanupMove, CleanupCommit,
                                CleanupFails, CleanupErase, Statuses, files
<1>9. ASSUME NEW t \in Makers, Backup(t) PROVE BackupsKept'
  BY <1>9, BackupKeeps
<1>10. CASE Crash
  <2>1. BackupsInv' /\ Listed' = Listed /\ Late' \in SUBSET Late /\ answered' = answered
    BY <1>1, <1>10, CrashKeeps DEF Crash
  <2>2. BackupsTypeOK'
    BY <2>1 DEF BackupsInv
  <2> QED
    BY <1>1, <2>1, <2>2, CountsFollow DEF BackupsKept, CountsMove
<1>11. ASSUME NEW a \in Artifacts, NEW owner \in Backups \cup {Live}, Damage(a, owner) PROVE BackupsKept'
  <2>1. BackupsInv' /\ UNCHANGED <<disk, maker, answered>>
    BY <1>1, <1>11, DamageKeeps DEF Damage
  <2>2. Listed' = Listed /\ Late' = Late
    BY <2>1 DEF Listed, Late
  <2> QED
    BY <1>1, <2>1, <2>2 DEF BackupsKept, AnsweredAreListed
<1> QED
  BY <1>5, <1>6, <1>7, <1>8, <1>9, <1>10, <1>11 DEF VaultNext

LEMMA BackupsInvariant == VaultSpec => []BackupsKept
  BY BackupsStart, BackupsStep, PTL DEF VaultSpec

\* A backup that is listed and within the retention can be restored, or a file of it was
\* damaged after it had been read back: for any number of threads, backups, crashes
\* and damaged files.
THEOREM ListedBackupsVerify == VaultSpec => []ListedVerifies
<1>1. BackupsKept => ListedVerifies
  BY DEF BackupsKept, BackupsInv, ListedOK, ListedVerifies
<1> QED
  BY <1>1, BackupsInvariant, PTL

\* As many backups as were answered, up to the retention, are listed, within it and good.
THEOREM RetentionIsKept == VaultSpec => []RetentionKept
<1>1. BackupsKept => RetentionKept
  <2> SUFFICES ASSUME BackupsKept PROVE RetentionKept
    OBVIOUS
  <2>1. BackupsTypeOK /\ ListedOK /\ AnsweredAreListed
    BY DEF BackupsKept, BackupsInv
  <2> DEFINE front == {b \in Listed : ~(Cardinality({c \in Listed : stamp[c] > stamp[b]}) >= Retention)}
             kept == {b \in Listed : ~Beyond(b) /\ (Verifies(b) \/ b \in rotten)}
  <2>2. kept = front
    BY <2>1 DEF ListedOK, Beyond, Newer
  <2>3. IsFiniteSet(Listed) /\ Cardinality(Listed) \in Nat /\ \A b \in Listed : stamp[b] \in Nat
    BY <2>1, BackupsAreFinite DEF Listed, BackupsTypeOK
  <2>4. Retention \in Nat /\ answered \in Nat
    BY <2>1, NilIsApart DEF BackupsTypeOK
  <2>5. Cardinality(front) >= Retention \/ front = Listed
    <3> HIDE DEF Listed
    <3> QED
      BY <2>3, <2>4, FrontIsFull
  <2>6. IsFiniteSet(front) /\ Cardinality(front) \in Nat
    BY <2>3, FS_Subset, FS_CardinalityType
  <2>7. Cardinality(Late) \in Nat
    <3>1. IsFiniteSet(Late)
      BY VaultAssumption, FS_Subset DEF Late
    <3> QED
      BY <3>1, FS_CardinalityType
  <2> DEFINE least == IF answered < Retention THEN answered ELSE Retention
  <2>8. Cardinality(front) >= least
    <3> HIDE DEF front
    <3> QED
      BY <2>1, <2>3, <2>4, <2>5, <2>6, <2>7 DEF AnsweredAreListed
  <2>9. Cardinality(kept) >= least
    <3> HIDE DEF front, kept, least
    <3> QED
      BY <2>2, <2>8
  <2> QED
    BY <2>9, Zenon DEF RetentionKept
<1> QED
  BY <1>1, BackupsInvariant, PTL

-----------------------------------------------------------------------------
(* The purse, for any authorizations, operations and callers: no order of  *)
(* reserving, expiring, settling and releasing promises or spends more     *)
(* than the limits.                                                        *)

AuthStates == {"NONE", "QUOTED", "HELD", "COMMITTED", "RELEASED"}
Plans == [operation : Operations, category : Categories, units : Usages, consent : Consents,
          revision : Nat]
Quotes == [operation : Operations, category : Categories, estimate : Nat, plan : Plans]
Calls == [at : {"admitted", "answered", "settling", "releasing"}, auth : Auths, units : Nat]

PurseTypeOK ==
  /\ revision \in Nat
  /\ state \in [Auths -> AuthStates]
  /\ quote \in [Auths -> {NoQuote} \cup Quotes]
  /\ ttl \in [Auths -> Nat]
  /\ call \in [Callers -> {Resting} \cup Calls]
  /\ IsFiniteSet(ledger)
  /\ \A r \in ledger : r.auth \in Auths /\ r.units \in Nat /\ r.vnd \in Nat
  /\ \A a \in Auths : state[a] # "NONE" => quote[a] \in Quotes

RowsAreSettled ==
  \A r \in ledger : state[r.auth] = "COMMITTED" /\ r.operation = quote[r.auth].operation

\* A call that is billed has a hold that covers the bill, and while it is settled or
\* released the hold stands.
CallOK(c) ==
  /\ call[c].at \in {"admitted", "answered"} => state[call[c].auth] \notin {"NONE", "QUOTED"}
  /\ call[c].at = "admitted" =>
       \A n \in Overruns : call[c].units + n >= 0 => Vnd(call[c].units + n) <= Total(call[c].auth)
  /\ call[c].at \in {"answered", "settling"} => Vnd(call[c].units) <= Total(call[c].auth)
  /\ call[c].at = "settling" => Usable(call[c].auth)
  /\ call[c].at = "releasing" => state[call[c].auth] = "HELD"

\* What is promised or spent under one authorization.
OwedBy(a) ==
  (IF Usable(a) THEN Total(a) ELSE 0) + VndOfRows({r \in ledger : r.auth = a})

InCategory(g) == {a \in Auths : state[a] # "NONE" /\ quote[a].category = g}
Owed == [a \in Auths |-> OwedBy(a)]
OwedIn(g) == [a \in Auths |-> IF a \in InCategory(g) THEN OwedBy(a) ELSE 0]

OwedKept ==
  /\ SumFunctionOnSet(OwedIn("REGULAR"), Auths) <= RegularCap
  /\ \A g \in DOMAIN ReserveLimits : SumFunctionOnSet(OwedIn(g), Auths) <= ReserveLimits[g]
  /\ SumFunctionOnSet(Owed, Auths) <= HardLimit

PurseInv == PurseTypeOK /\ RowsAreSettled /\ (\A c \in Callers : CallOK(c)) /\ OwedKept

\* No two calls write to one authorization at the same time.
OneWriter ==
  \A c, d \in Callers :
    c # d /\ {call[c].at, call[d].at} \subseteq {"settling", "releasing"}
      => call[c].auth # call[d].auth

-----------------------------------------------------------------------------

\* Prices round up to natural numbers.
LEMMA VndIsNatural ==
  /\ \A u \in Nat : Vnd(u) \in Nat
  /\ \A e \in Nat : Contingency(e) \in Nat
<1>1. Price \in Nat
  BY BudgetAssumption
<1>2. ASSUME NEW n \in Nat, NEW d \in Nat \ {0} PROVE CeilDiv(n, d) \in Nat
  BY DEF CeilDiv
<1>3. \A u \in Nat : u * Price \in Nat
  BY <1>1
<1>4. \A e \in Nat : e * 15 \in Nat
  OBVIOUS
<1> QED
  BY <1>2, <1>3, <1>4 DEF Vnd, Contingency

\* What the code writes as max(0, n).
LEMMA MaxOfZero ==
  ASSUME NEW n \in Int
  PROVE  Max({0, n}) = IF n >= 0 THEN n ELSE 0
<1> DEFINE m == IF n >= 0 THEN n ELSE 0
<1>1. m \in {0, n} /\ \A k \in {0, n} : m >= k
  OBVIOUS
<1>2. ASSUME NEW k \in {0, n}, \A l \in {0, n} : k >= l PROVE k = m
  BY <1>1, <1>2
<1> HIDE DEF m
<1>3. Max({0, n}) = m
  BY <1>1, <1>2 DEF Max
<1> QED
  BY <1>3 DEF m

\* The rows of the ledger and what they cost.
LEMMA RowSums ==
  ASSUME PurseTypeOK, NEW rows \in SUBSET ledger
  PROVE  /\ VndOfRows(rows) \in Nat
         /\ VndOfRows(rows) = SumFunctionOnSet([r \in ledger |-> r.vnd], rows)
         /\ \A some \in SUBSET rows : VndOfRows(some) <= VndOfRows(rows)
         /\ rows = {} => VndOfRows(rows) = 0
<1> DEFINE vnd == [r \in ledger |-> r.vnd]
<1>1. IsFiniteSet(ledger) /\ \A r \in ledger : vnd[r] \in Nat /\ vnd[r] = r.vnd
  BY DEF PurseTypeOK
<1> HIDE DEF vnd
<1>2. ASSUME NEW some \in SUBSET ledger
      PROVE  /\ VndOfRows(some) = SumFunctionOnSet(vnd, some)
             /\ VndOfRows(some) \in Nat /\ IsFiniteSet(some)
  <2> DEFINE here == [r \in some |-> r.vnd]
  <2>1. IsFiniteSet(some) /\ \A r \in some : vnd[r] \in Nat /\ vnd[r] = here[r]
    BY <1>1, FS_Subset
  <2>2. DOMAIN here = some
    OBVIOUS
  <2>3. VndOfRows(some) = SumFunctionOnSet(here, some)
    BY <2>2, Zenon DEF VndOfRows, SumFunction
  <2> HIDE DEF here
  <2>4. SumFunctionOnSet(vnd, some) = SumFunctionOnSet(here, some)
    BY <2>1, SumsAgree
  <2>5. SumFunctionOnSet(vnd, some) \in Nat
    BY <1>1, SumIsNatural
  <2> QED
    BY <2>1, <2>3, <2>4, <2>5
<1>3. ASSUME NEW some \in SUBSET rows PROVE VndOfRows(some) <= VndOfRows(rows)
  <2>1. some \in SUBSET ledger /\ \A r \in rows : vnd[r] \in Nat
    BY <1>1
  <2>2. \A r \in some : vnd[r] \in Nat /\ vnd[r] <= vnd[r]
    BY <1>1, <2>1
  <2>3. SumFunctionOnSet(vnd, some) <= SumFunctionOnSet(vnd, rows)
    BY <1>2, <2>1, <2>2, SumOfLess
  <2> QED
    BY <1>2, <2>1, <2>3
<1>4. rows = {} => VndOfRows(rows) = 0
  BY <1>2, SumOfNone
<1> QED
  BY <1>2, <1>3, <1>4 DEF vnd

\* All that is owed is a natural number.
NaturallyOwed ==
  \A a \in Auths : /\ Usable(a) => Total(a) \in Nat
                   /\ VndOfRows({r \in ledger : r.auth = a}) \in Nat
                   /\ OwedBy(a) \in Nat

LEMMA OwedIsNatural ==
  PurseTypeOK => NaturallyOwed
<1> SUFFICES ASSUME PurseTypeOK, NEW a \in Auths
             PROVE  /\ Usable(a) => Total(a) \in Nat
                    /\ VndOfRows({r \in ledger : r.auth = a}) \in Nat
                    /\ OwedBy(a) \in Nat
  BY DEF NaturallyOwed
<1>1. Usable(a) => Total(a) \in Nat
  <2>1. ASSUME Usable(a) PROVE quote[a].estimate \in Nat
    <3>1. quote[a] \in Quotes
      BY <2>1 DEF PurseTypeOK, Usable
    <3> QED
      BY <3>1 DEF Quotes
  <2> QED
    BY <2>1, VndIsNatural DEF Total
<1>2. VndOfRows({r \in ledger : r.auth = a}) \in Nat
  <2>1. {r \in ledger : r.auth = a} \in SUBSET ledger
    OBVIOUS
  <2> QED
    BY <2>1, RowSums
<1>3. OwedBy(a) \in Nat
  BY <1>1, <1>2 DEF OwedBy
<1> QED
  BY <1>1, <1>2, <1>3

\* The same of the state after a step.
LEMMA OwedIsNaturalNext ==
  PurseTypeOK' => NaturallyOwed'
BY OwedIsNatural, PTL

\* A step after which nobody owes more, and what is owed is owed in the category it was.
LEMMA NoMoreIsOwed ==
  ASSUME PurseTypeOK, PurseTypeOK', OwedKept,
         \A a \in Auths : OwedBy(a)' <= OwedBy(a),
         \A a \in Auths : \A g : a \in InCategory(g)' => a \in InCategory(g) \/ OwedBy(a)' = 0
  PROVE  OwedKept'
<1>0. \A a \in Auths : OwedBy(a) \in Nat /\ OwedBy(a)' \in Nat
  BY OwedIsNatural, OwedIsNaturalNext DEF NaturallyOwed
<1>f. IsFiniteSet(Auths)
  BY BudgetAssumption
<1>1. SumFunctionOnSet(Owed', Auths) <= SumFunctionOnSet(Owed, Auths)
  <2>1. \A a \in Auths : Owed'[a] \in Nat /\ Owed[a] \in Nat /\ Owed'[a] <= Owed[a]
    BY <1>0 DEF Owed
  <2> QED
    BY <1>f, <2>1, SumIsMonotone
<1>2. ASSUME NEW g PROVE SumFunctionOnSet(OwedIn(g)', Auths) <= SumFunctionOnSet(OwedIn(g), Auths)
  <2>1. \A a \in Auths : /\ OwedIn(g)'[a] \in Nat /\ OwedIn(g)[a] \in Nat
                         /\ OwedIn(g)'[a] <= OwedIn(g)[a]
    BY <1>0 DEF OwedIn
  <2> QED
    BY <1>f, <2>1, SumIsMonotone
<1>3. ASSUME NEW g PROVE /\ SumFunctionOnSet(OwedIn(g)', Auths) \in Nat
                         /\ SumFunctionOnSet(OwedIn(g), Auths) \in Nat
                         /\ SumFunctionOnSet(Owed', Auths) \in Nat
                         /\ SumFunctionOnSet(Owed, Auths) \in Nat
  <2>1. \A a \in Auths : OwedIn(g)'[a] \in Nat /\ OwedIn(g)[a] \in Nat
    BY <1>0 DEF OwedIn
  <2>2. \A a \in Auths : Owed'[a] \in Nat /\ Owed[a] \in Nat
    BY <1>0 DEF Owed
  <2>3. \A h : (\A a \in Auths : h[a] \in Nat) => SumFunctionOnSet(h, Auths) \in Nat
    BY <1>f, SumIsNatural
  <2> QED
    BY <2>1, <2>2, <2>3
<1> QED
  BY <1>1, <1>2, <1>3 DEF OwedKept, RegularCap, HardLimit, ReserveLimits

\* What is owed under an authorization is counted by the guard.
LEMMA OwedIsCounted ==
  ASSUME PurseTypeOK, PurseTypeOK', RowsAreSettled', UNCHANGED <<quote, ttl, ledger>>,
         NEW b \in Auths
  PROVE  Counted(state', b) \in Nat /\ OwedBy(b)' <= Counted(state', b)
<1> DEFINE rows == {r \in ledger : r.auth = b}
           same == RowsOf(quote[b].operation)
<1>1. OwedBy(b)' = (IF state'[b] = "HELD" /\ ttl[b] > 0 THEN Total(b) ELSE 0) + VndOfRows(rows)
  BY DEF OwedBy, Usable, Total, VndOfRows
<1>2. rows \in SUBSET ledger /\ same \in SUBSET ledger
  BY DEF RowsOf
<1>3. /\ VndOfRows(rows) \in Nat /\ VndOfRows(same) \in Nat
      /\ rows = {} => VndOfRows(rows) = 0
      /\ rows \in SUBSET same => VndOfRows(rows) <= VndOfRows(same)
  BY <1>2, RowSums
<1>4. \A r \in rows : state'[b] = "COMMITTED" /\ r \in same
  BY DEF RowsAreSettled, RowsOf
<1>5. ASSUME state'[b] # "NONE" PROVE Total(b) \in Nat
  <2>1. quote[b] \in Quotes
    BY <1>5 DEF PurseTypeOK
  <2>2. quote[b].estimate \in Nat
    BY <2>1 DEF Quotes
  <2> QED
    BY <2>2, VndIsNatural DEF Total
<1> HIDE DEF rows, same
<1>6. CASE state'[b] = "HELD"
  <2>1. rows = {}
    BY <1>4, <1>6
  <2>2. Counted(state', b) = IF ttl[b] > 0 THEN Total(b) ELSE 0
    BY <1>6 DEF Counted
  <2> QED
    BY <1>1, <1>3, <1>5, <1>6, <2>1, <2>2
<1>7. CASE state'[b] = "COMMITTED"
  <2>1. Counted(state', b) = IF same = {} THEN Total(b) ELSE VndOfRows(same)
    BY <1>7 DEF Counted, same
  <2>2. OwedBy(b)' = VndOfRows(rows)
    BY <1>1, <1>3, <1>7
  <2>3. rows \in SUBSET same
    BY <1>4
  <2>4. CASE same = {}
    <3>1. rows = {}
      BY <2>3, <2>4
    <3> QED
      BY <1>3, <1>5, <1>7, <2>1, <2>2, <2>4, <3>1
  <2>5. CASE same # {}
    BY <1>3, <2>1, <2>2, <2>3, <2>5
  <2> QED
    BY <2>4, <2>5
<1>8. CASE state'[b] \notin {"HELD", "COMMITTED"}
  <2>1. rows = {}
    BY <1>4, <1>8
  <2>2. Counted(state', b) = 0
    BY <1>8 DEF Counted
  <2> QED
    BY <1>1, <1>3, <1>8, <2>1, <2>2
<1> QED
  BY <1>6, <1>7, <1>8

\* A reservation that passed the checks of authorize.
LEMMA HoldKeepsOwed ==
  ASSUME PurseTypeOK, RowsAreSettled, OwedKept, PurseTypeOK', RowsAreSettled',
         NEW a \in Auths, state[a] = "QUOTED",
         state' = [state EXCEPT ![a] = "HELD"], UNCHANGED <<quote, ttl, ledger>>,
         WithinLimits(state', a)
  PROVE  OwedKept'
<1> DEFINE counted == [b \in Auths |-> Counted(state', b)]
           Sum(f) == SumFunctionOnSet(f, Auths)
<1>f. IsFiniteSet(Auths)
  BY BudgetAssumption
<1>0. \A b \in Auths : /\ OwedBy(b) \in Nat /\ OwedBy(b)' \in Nat
                       /\ Counted(state', b) \in Nat /\ OwedBy(b)' <= Counted(state', b)
  BY OwedIsNatural, OwedIsNaturalNext, OwedIsCounted DEF NaturallyOwed
<1>1. /\ Sum(counted) \in Nat /\ CommittedTotal(state') \in Nat
      /\ Sum(counted) <= CommittedTotal(state')
  <2>1. \A b \in Auths : counted[b] \in Nat
    BY <1>0
  <2>2. Sum(counted) \in Nat
    <3> HIDE DEF counted
    <3> QED
      BY <1>f, <2>1, SumIsNatural
  <2>3. SumFunction([b \in Auths |-> Counted(state', b)]) = Sum(counted)
    BY Zenon DEF SumFunction
  <2> DEFINE settled == {quote[b].operation : b \in {d \in Auths : state'[d] = "COMMITTED"}}
             others == {r \in ledger : r.operation \notin settled}
  <2>4. CommittedTotal(state') = Sum(counted) + VndOfRows(others)
    BY <2>3, Zenon DEF CommittedTotal
  <2>5. VndOfRows(others) \in Nat
    <3>1. others \in SUBSET ledger
      OBVIOUS
    <3> HIDE DEF others
    <3> QED
      BY <3>1, RowSums
  <2> HIDE DEF counted, others
  <2> QED
    BY <2>2, <2>4, <2>5
<1>2. ASSUME NEW f, \A b \in Auths : f[b] \in Nat /\ f[b] <= Counted(state', b)
      PROVE  Sum(f) \in Nat /\ Sum(f) <= CommittedTotal(state')
  <2>1. \A b \in Auths : f[b] \in Nat /\ counted[b] \in Nat /\ f[b] <= counted[b]
    BY <1>0, <1>2
  <2> HIDE DEF counted
  <2>2. Sum(f) <= Sum(counted)
    BY <1>f, <2>1, SumIsMonotone
  <2>3. Sum(f) \in Nat
    BY <1>f, <2>1, SumIsNatural
  <2> HIDE DEF Sum
  <2> QED
    BY <1>1, <2>2, <2>3
<1>c. WithinLimits(state', a) /\ a \in Auths
  OBVIOUS
<1>3. SumFunctionOnSet(Owed', Auths) <= HardLimit
  <2>1. \A b \in Auths : Owed'[b] \in Nat /\ Owed'[b] <= Counted(state', b)
    BY <1>0 DEF Owed
  <2>2. Sum(Owed') \in Nat /\ Sum(Owed') <= CommittedTotal(state')
    BY <1>2, <2>1
  <2>3. CommittedTotal(state') <= HardLimit
    BY <1>c DEF WithinLimits
  <2> HIDE DEF counted
  <2> QED
    BY <1>1, <2>2, <2>3 DEF HardLimit
<1>4. ASSUME NEW g, g # quote[a].category
      PROVE  /\ Sum(OwedIn(g)') \in Nat /\ Sum(OwedIn(g)) \in Nat
             /\ Sum(OwedIn(g)') <= Sum(OwedIn(g))
  <2>1. ASSUME NEW b \in Auths, b # a PROVE OwedBy(b)' = OwedBy(b) /\ state'[b] = state[b]
    <3>1. state'[b] = state[b]
      BY <2>1 DEF PurseTypeOK
    <3> QED
      BY <3>1 DEF OwedBy, Usable, Total, VndOfRows
  <2>2. \A b \in Auths : b \in InCategory(g)' => b \in InCategory(g) /\ b # a
    BY <1>4, <2>1 DEF InCategory
  <2>3. \A b \in Auths : /\ OwedIn(g)'[b] \in Nat /\ OwedIn(g)[b] \in Nat
                         /\ OwedIn(g)'[b] <= OwedIn(g)[b]
    BY <1>0, <2>1, <2>2 DEF OwedIn
  <2> HIDE DEF counted
  <2> QED
    BY <1>f, <2>3, SumIsMonotone, SumIsNatural
<1>d. ASSUME NEW g
      PROVE  \A b \in Auths : OwedIn(g)'[b] \in Nat /\ OwedIn(g)'[b] <= Counted(state', b)
  <2> TAKE b \in Auths
  <2>1. OwedIn(g)'[b] \in {OwedBy(b)', 0}
    BY DEF OwedIn
  <2>2. /\ OwedBy(b)' \in Nat /\ Counted(state', b) \in Nat
        /\ OwedBy(b)' <= Counted(state', b)
    BY <1>0
  <2> DEFINE most == Counted(state', b)
  <2> HIDE DEF counted, Sum, most
  <2>3. /\ OwedBy(b)' \in Nat /\ most \in Nat
        /\ OwedBy(b)' <= most
    BY <2>2 DEF most
  <2>4. OwedIn(g)'[b] \in Nat /\ OwedIn(g)'[b] <= most
    BY <2>1, <2>3
  <2> QED
    BY <2>4 DEF most
<1>5. SumFunctionOnSet(OwedIn("REGULAR")', Auths) <= RegularCap
  <2>1. CASE quote[a].category = "REGULAR"
    <3>1. \A b \in Auths : /\ OwedIn("REGULAR")'[b] \in Nat
                           /\ OwedIn("REGULAR")'[b] <= Counted(state', b)
      BY <1>d
    <3>2. /\ Sum(OwedIn("REGULAR")') \in Nat
          /\ Sum(OwedIn("REGULAR")') <= CommittedTotal(state')
      BY <1>2, <3>1
    <3>3. CommittedTotal(state') <= RegularCap
      BY <1>c, <2>1 DEF WithinLimits
    <3> HIDE DEF counted
    <3> QED
      BY <1>1, <3>2, <3>3 DEF RegularCap
  <2>2. CASE quote[a].category # "REGULAR"
    <3>1. /\ Sum(OwedIn("REGULAR")') \in Nat /\ Sum(OwedIn("REGULAR")) \in Nat
          /\ Sum(OwedIn("REGULAR")') <= Sum(OwedIn("REGULAR"))
      BY <1>4, <2>2
    <3>2. Sum(OwedIn("REGULAR")) <= RegularCap
      BY DEF OwedKept
    <3> HIDE DEF counted
    <3> QED
      BY <3>1, <3>2 DEF RegularCap
  <2> QED
    BY <2>1, <2>2
<1>6. ASSUME NEW g \in DOMAIN ReserveLimits
      PROVE  SumFunctionOnSet(OwedIn(g)', Auths) <= ReserveLimits[g]
  <2>0. ReserveLimits[g] \in Nat
    BY DEF ReserveLimits
  <2>1. CASE quote[a].category = g
    <3> DEFINE entries == {b \in Auths : state'[b] # "NONE" /\ quote[b].category = g}
               here == [b \in entries |-> Counted(state', b)]
    <3>1. CategoryTotal(state', g) = SumFunctionOnSet(here, entries)
      BY Zenon DEF CategoryTotal, SumFunction
    <3>2. \A b \in Auths : OwedIn(g)'[b] \in Nat /\ (b \notin entries => OwedIn(g)'[b] = 0)
      BY <1>0 DEF OwedIn, InCategory
    <3>3. \A b \in entries : here[b] \in Nat /\ OwedIn(g)'[b] <= here[b]
      BY <1>0 DEF OwedIn, InCategory
    <3>4. entries \in SUBSET Auths
      OBVIOUS
    <3> HIDE DEF entries, here, counted
    <3>5. SumFunctionOnSet(OwedIn(g)', Auths) <= SumFunctionOnSet(here, entries)
      BY <1>f, <3>2, <3>3, <3>4, SumOfRest
    <3>6. SumFunctionOnSet(OwedIn(g)', Auths) \in Nat
      BY <1>f, <3>2, SumIsNatural
    <3>7. SumFunctionOnSet(here, entries) \in Nat
      BY <1>f, <3>3, <3>4, SumIsNatural, FS_Subset
    <3>8. CategoryTotal(state', g) <= ReserveLimits[g]
      BY <1>c, <2>1 DEF WithinLimits
    <3> QED
      BY <2>0, <3>1, <3>5, <3>6, <3>7, <3>8
  <2>2. CASE quote[a].category # g
    <3>1. /\ Sum(OwedIn(g)') \in Nat /\ Sum(OwedIn(g)) \in Nat
          /\ Sum(OwedIn(g)') <= Sum(OwedIn(g))
      BY <1>4, <2>2
    <3>2. Sum(OwedIn(g)) <= ReserveLimits[g]
      BY DEF OwedKept
    <3> HIDE DEF counted, Sum
    <3>3. Sum(OwedIn(g)') <= ReserveLimits[g]
      BY <2>0, <3>1, <3>2
    <3> QED
      BY <3>3 DEF Sum
  <2> QED
    BY <2>1, <2>2
<1> QED
  BY <1>3, <1>5, <1>6 DEF OwedKept

-----------------------------------------------------------------------------

\* An authorization that is not settled has no rows.
LEMMA NoRowsOwed ==
  ASSUME PurseTypeOK, RowsAreSettled, NEW a \in Auths, state[a] # "COMMITTED"
  PROVE  /\ {r \in ledger : r.auth = a} = {}
         /\ OwedBy(a) = IF Usable(a) THEN Total(a) ELSE 0
<1>1. {r \in ledger : r.auth = a} = {}
  BY DEF RowsAreSettled
<1>2. VndOfRows({r \in ledger : r.auth = a}) = 0
  BY <1>1, RowSums
<1>3. Usable(a) => Total(a) \in Nat
  BY OwedIsNatural DEF NaturallyOwed
<1> QED
  BY <1>1, <1>2, <1>3 DEF OwedBy

\* Nothing is owed at the start.
LEMMA PurseStarts ==
  BudgetInit => PurseInv
<1> SUFFICES ASSUME BudgetInit PROVE PurseInv
  OBVIOUS
<1>1. PurseTypeOK
  BY FS_EmptySet DEF BudgetInit, PurseTypeOK, AuthStates
<1>2. RowsAreSettled /\ \A c \in Callers : CallOK(c)
  BY DEF BudgetInit, RowsAreSettled, CallOK, Resting
<1>3. \A a \in Auths : OwedBy(a) = 0
  BY <1>1, <1>2, NoRowsOwed DEF BudgetInit, Usable
<1>4. ASSUME NEW f, \A a \in Auths : f[a] = 0
      PROVE  SumFunctionOnSet(f, Auths) \in Nat /\ SumFunctionOnSet(f, Auths) <= 0
  <2>1. \A a \in Auths : f[a] \in Nat /\ (a \notin {} => f[a] = 0)
    BY <1>4
  <2>2. IsFiniteSet(Auths) /\ {} \in SUBSET Auths
    BY BudgetAssumption
  <2>3. SumFunctionOnSet(f, Auths) <= SumFunctionOnSet(f, {})
    BY <2>1, <2>2, SumOfRest
  <2> QED
    BY <2>1, <2>2, <2>3, SumOfNone, SumIsNatural
<1>5. \A a \in Auths : Owed[a] = 0
  BY <1>3 DEF Owed
<1>6. \A g : \A a \in Auths : OwedIn(g)[a] = 0
  BY <1>3 DEF OwedIn
<1>7. OwedKept
  BY <1>4, <1>5, <1>6 DEF OwedKept, RegularCap, HardLimit, ReserveLimits
<1> QED
  BY <1>1, <1>2, <1>7 DEF PurseInv

\* A step that leaves the purse alone.
LEMMA PurseUnmoved ==
  ASSUME PurseTypeOK, RowsAreSettled, OwedKept, UNCHANGED purse, revision' \in Nat,
         call' \in [Callers -> {Resting} \cup Calls]
  PROVE  PurseTypeOK' /\ RowsAreSettled' /\ OwedKept'
<1>1. UNCHANGED <<state, quote, ttl, ledger>>
  BY DEF purse
<1>2. PurseTypeOK' /\ RowsAreSettled'
  BY <1>1 DEF PurseTypeOK, RowsAreSettled
<1>3. \A a \in Auths : OwedBy(a)' = OwedBy(a) /\ OwedBy(a) \in Nat
  <2>1. \A a \in Auths : OwedBy(a)' = OwedBy(a)
    BY <1>1 DEF OwedBy, Usable, Total, VndOfRows
  <2> QED
    BY <2>1, OwedIsNatural DEF NaturallyOwed
<1>4. \A a \in Auths : \A g : a \in InCategory(g)' => a \in InCategory(g)
  BY <1>1 DEF InCategory
<1>5. \A a \in Auths : OwedBy(a)' <= OwedBy(a)
  BY <1>3
<1> QED
  BY <1>2, <1>4, <1>5, NoMoreIsOwed

\* A call that waits while its authorization stands.
LEMMA CallStands ==
  ASSUME NEW d \in Callers, CallOK(d), call'[d] = call[d],
         call[d].at \in {"admitted", "answered", "settling", "releasing"} =>
           /\ quote'[call[d].auth] = quote[call[d].auth]
           /\ \/ state'[call[d].auth] = state[call[d].auth]
              \/ /\ call[d].at \in {"admitted", "answered"}
                 /\ state'[call[d].auth] \notin {"NONE", "QUOTED"},
         call[d].at = "settling" => ttl'[call[d].auth] = ttl[call[d].auth]
  PROVE  CallOK(d)'
BY DEF CallOK, Usable, Total

\* A call that goes on has an authorization with a quote.
LEMMA CallHasQuote ==
  ASSUME NEW d \in Callers, CallOK(d),
         call[d].at \in {"admitted", "answered", "settling", "releasing"}
  PROVE  state[call[d].auth] \notin {"NONE", "QUOTED"}
BY DEF CallOK, Usable

\* A quote in memory promises nothing yet.
LEMMA PrepareKeepsPurse ==
  ASSUME PurseInv, NEW a \in Auths, NEW o \in Operations, NEW g \in Categories,
         NEW u \in Usages, NEW k \in Consents, Prepare(a, o, g, u, k)
  PROVE  PurseInv'
<1>1. /\ state[a] = "NONE" /\ UNCHANGED <<revision, ledger, call>>
      /\ quote' = [quote EXCEPT ![a] = QuoteFor(o, g, u, k)]
      /\ state' = [state EXCEPT ![a] = "QUOTED"]
      /\ ttl' = [ttl EXCEPT ![a] = QuoteTtl]
  BY DEF Prepare, terms
<1>2. QuoteFor(o, g, u, k) \in Quotes
  <2>1. \A n \in Int : Max({0, n}) \in Nat
    BY MaxOfZero
  <2>2. Consumed \in Nat
    <3> DEFINE units == [r \in ledger |-> r.units]
    <3>1. IsFiniteSet(ledger) /\ \A r \in ledger : units[r] \in Nat
      BY DEF PurseInv, PurseTypeOK
    <3>2. Consumed = SumFunctionOnSet(units, ledger)
      BY Zenon DEF Consumed, SumFunction
    <3> HIDE DEF units
    <3> QED
      BY <3>1, <3>2, SumIsNatural
  <2>3. u \in Nat /\ FreeUnits \in Nat
    BY BudgetAssumption
  <2>4. Billable(u) \in Nat
    <3>1. Max({0, FreeUnits - Consumed}) \in Nat
      BY <2>1, <2>2, <2>3
    <3> QED
      BY <2>1, <2>3, <3>1 DEF Billable
  <2>5. Vnd(Billable(u)) \in Nat
    BY <2>4, VndIsNatural
  <2>6. revision \in Nat
    BY DEF PurseInv, PurseTypeOK
  <2> QED
    BY <2>5, <2>6 DEF QuoteFor, PlanHash, Quotes, Plans
<1>3. PurseTypeOK' /\ RowsAreSettled'
  <2>1. QuoteTtl \in Nat
    BY BudgetAssumption
  <2> HIDE DEF Quotes
  <2>2. PurseTypeOK'
    BY <1>1, <1>2, <2>1 DEF PurseInv, PurseTypeOK, AuthStates
  <2>3. RowsAreSettled'
    BY <1>1 DEF PurseInv, PurseTypeOK, RowsAreSettled
  <2> QED
    BY <2>2, <2>3
<1>4. \A d \in Callers : CallOK(d)'
  <2> SUFFICES ASSUME NEW d \in Callers PROVE CallOK(d)'
    OBVIOUS
  <2>1. CallOK(d) /\ call'[d] = call[d] /\ call[d] \in {Resting} \cup Calls
    BY <1>1 DEF PurseInv, PurseTypeOK
  <2>2. ASSUME call[d].at \in {"admitted", "answered", "settling", "releasing"}
        PROVE  call[d].auth # a /\ call[d].auth \in Auths
    BY <1>1, <2>1, <2>2, CallHasQuote DEF Calls, Resting
  <2> QED
    BY <1>1, <2>1, <2>2, CallStands DEF PurseInv, PurseTypeOK
<1>5. OwedKept'
  <2>1. OwedBy(a)' = 0 /\ OwedBy(a) = 0
    <3>1. ~Usable(a) /\ state[a] # "COMMITTED"
      BY <1>1 DEF Usable
    <3>2. OwedBy(a) = 0 /\ {r \in ledger : r.auth = a} = {}
      BY <3>1, NoRowsOwed DEF PurseInv
    <3>3. ~Usable(a)' /\ {r \in ledger : r.auth = a}' = {r \in ledger : r.auth = a}
      BY <1>1 DEF Usable, PurseInv, PurseTypeOK
    <3>4. VndOfRows({r \in ledger : r.auth = a})' = 0
      BY <3>2, <3>3, RowSums DEF VndOfRows, PurseInv
    <3> QED
      BY <3>2, <3>3, <3>4 DEF OwedBy
  <2>2. ASSUME NEW b \in Auths, b # a PROVE OwedBy(b)' = OwedBy(b) /\ OwedBy(b) \in Nat
    <3>1. state'[b] = state[b] /\ quote'[b] = quote[b] /\ ttl'[b] = ttl[b] /\ ledger' = ledger
      BY <1>1, <2>2 DEF PurseInv, PurseTypeOK
    <3>2. OwedBy(b)' = OwedBy(b)
      BY <3>1 DEF OwedBy, Usable, Total, VndOfRows
    <3> QED
      BY <3>2, OwedIsNatural DEF NaturallyOwed, PurseInv
  <2>3. \A b \in Auths : OwedBy(b)' <= OwedBy(b)
    BY <2>1, <2>2
  <2>4. \A b \in Auths : \A h : b \in InCategory(h)' => b \in InCategory(h) \/ OwedBy(b)' = 0
    BY <1>1, <2>1 DEF InCategory, PurseInv, PurseTypeOK
  <2> QED
    BY <1>3, <2>3, <2>4, NoMoreIsOwed DEF PurseInv
<1> QED
  BY <1>3, <1>4, <1>5 DEF PurseInv

\* A reservation is held or dropped.
LEMMA AuthorizeKeepsPurse ==
  ASSUME PurseInv, NEW a \in Auths, Authorize(a)
  PROVE  PurseInv'
<1>1. state[a] = "QUOTED" /\ UNCHANGED <<revision, ledger, call>>
  BY DEF Authorize, terms
<1>2. PurseTypeOK /\ RowsAreSettled /\ OwedKept
  BY DEF PurseInv
<1>3. ASSUME \A b \in Auths : b # a => quote'[b] = quote[b] /\ state'[b] = state[b] /\ ttl'[b] = ttl[b]
      PROVE  \A d \in Callers : CallOK(d)'
  <2> SUFFICES ASSUME NEW d \in Callers PROVE CallOK(d)'
    OBVIOUS
  <2>1. CallOK(d) /\ call'[d] = call[d] /\ call[d] \in {Resting} \cup Calls
    BY <1>1 DEF PurseInv, PurseTypeOK
  <2>2. ASSUME call[d].at \in {"admitted", "answered", "settling", "releasing"}
        PROVE  call[d].auth # a /\ call[d].auth \in Auths
    BY <1>1, <2>1, <2>2, CallHasQuote DEF Calls, Resting
  <2> QED
    BY <1>3, <2>1, <2>2, CallStands
<1>4. CASE Hold(a) /\ WithinLimits([state EXCEPT ![a] = "HELD"], a)
  <2>1. state' = [state EXCEPT ![a] = "HELD"] /\ UNCHANGED <<quote, ttl, ledger>>
    BY <1>1, <1>4 DEF Hold
  <2>2. PurseTypeOK'
    BY <1>1, <1>2, <2>1 DEF PurseTypeOK, AuthStates
  <2>3. RowsAreSettled'
    BY <1>1, <1>2, <2>1 DEF PurseTypeOK, RowsAreSettled
  <2>4. OwedKept'
    BY <1>1, <1>2, <1>4, <2>1, <2>2, <2>3, HoldKeepsOwed
  <2>5. \A d \in Callers : CallOK(d)'
    BY <1>2, <1>3, <2>1 DEF PurseTypeOK
  <2> QED
    BY <2>2, <2>3, <2>4, <2>5 DEF PurseInv
<1>5. CASE Drop(a)
  <2>1. /\ state' = [state EXCEPT ![a] = "NONE"] /\ quote' = [quote EXCEPT ![a] = NoQuote]
        /\ ttl' = [ttl EXCEPT ![a] = 0]
    BY <1>5 DEF Drop
  <2>2. PurseTypeOK'
    BY <1>1, <1>2, <2>1 DEF PurseTypeOK, AuthStates
  <2>3. RowsAreSettled'
    BY <1>1, <1>2, <2>1 DEF PurseTypeOK, RowsAreSettled
  <2>4. \A d \in Callers : CallOK(d)'
    BY <1>2, <1>3, <2>1 DEF PurseTypeOK
  <2>5. OwedKept'
    <3>1. \A b \in Auths : OwedBy(b) \in Nat
      BY <1>2, OwedIsNatural DEF NaturallyOwed
    <3>2. OwedBy(a)' = VndOfRows({r \in ledger : r.auth = a})'
      <4>1. ~Usable(a)'
        BY <1>2, <2>1 DEF Usable, PurseTypeOK
      <4>2. VndOfRows({r \in ledger : r.auth = a})' \in Nat
        BY <2>2, OwedIsNaturalNext DEF NaturallyOwed
      <4> QED
        BY <4>1, <4>2 DEF OwedBy
    <3>3. VndOfRows({r \in ledger : r.auth = a})' = VndOfRows({r \in ledger : r.auth = a})
      BY <1>1 DEF VndOfRows
    <3>4. OwedBy(a) = VndOfRows({r \in ledger : r.auth = a})
      BY <1>1, <1>2, NoRowsOwed, RowSums DEF Usable
    <3>5. \A b \in Auths : b # a => OwedBy(b)' = OwedBy(b)
      BY <1>1, <1>2, <2>1 DEF OwedBy, Usable, Total, VndOfRows, PurseTypeOK
    <3>6. \A b \in Auths : OwedBy(b)' <= OwedBy(b)
      BY <3>1, <3>2, <3>3, <3>4, <3>5
    <3>7. \A b \in Auths : \A h : b \in InCategory(h)' => b \in InCategory(h)
      BY <1>2, <2>1 DEF InCategory, PurseTypeOK
    <3> QED
      BY <1>2, <2>2, <3>6, <3>7, NoMoreIsOwed
  <2> QED
    BY <2>2, <2>3, <2>4, <2>5 DEF PurseInv
<1> QED
  BY <1>4, <1>5 DEF Authorize

\* A step after which some authorizations are no longer worth what they were.
LEMMA TickKeepsPurse ==
  ASSUME PurseInv, Tick
  PROVE  PurseInv'
<1>1. /\ UNCHANGED <<revision, state, quote, ledger, call>>
      /\ \A c \in Callers : call[c].at \notin {"settling", "releasing"}
      /\ ttl' = [a \in Auths |-> Max({0, ttl[a] - 1})]
  BY DEF Tick, terms
<1>2. PurseTypeOK /\ RowsAreSettled /\ OwedKept
  BY DEF PurseInv
<1>3. \A a \in Auths : ttl'[a] \in Nat /\ (ttl'[a] > 0 => ttl[a] > 0)
  <2> TAKE a \in Auths
  <2>1. ttl[a] \in Nat /\ ttl[a] - 1 \in Int
    BY <1>2 DEF PurseTypeOK
  <2>2. ttl'[a] = IF ttl[a] - 1 >= 0 THEN ttl[a] - 1 ELSE 0
    BY <1>1, <2>1, MaxOfZero
  <2> QED
    BY <2>1, <2>2
<1>4. PurseTypeOK' /\ RowsAreSettled'
  BY <1>1, <1>2, <1>3 DEF PurseTypeOK, RowsAreSettled
<1>5. \A c \in Callers : CallOK(c)'
  BY <1>1 DEF PurseInv, CallOK, Total
<1>6. OwedKept'
  <2>1. ASSUME NEW a \in Auths PROVE OwedBy(a)' <= OwedBy(a)
    <3> DEFINE total == Total(a)
               rows == VndOfRows({r \in ledger : r.auth = a})
    <3>1. /\ Usable(a)' => Usable(a)
          /\ OwedBy(a)' = (IF Usable(a)' THEN total ELSE 0) + rows
          /\ OwedBy(a) = (IF Usable(a) THEN total ELSE 0) + rows
      BY <1>1, <1>3 DEF OwedBy, Usable, Total, VndOfRows
    <3>2. rows \in Nat /\ (Usable(a) => total \in Nat)
      BY <1>2, OwedIsNatural DEF NaturallyOwed
    <3> HIDE DEF total, rows
    <3> QED
      BY <3>1, <3>2
  <2>2. \A a \in Auths : \A h : a \in InCategory(h)' => a \in InCategory(h)
    BY <1>1 DEF InCategory
  <2> QED
    BY <1>2, <1>4, <2>1, <2>2, NoMoreIsOwed
<1> QED
  BY <1>4, <1>5, <1>6 DEF PurseInv

\* A hold that is settled or released, its rows of the ledger given: no other authorization
\* is touched, and no more is owed under this one.
LEMMA WriteKeepsPurse ==
  ASSUME PurseInv, OneWriter, NEW c \in Callers, call[c].at \in {"settling", "releasing"},
         NEW a \in Auths, call[c].auth = a, NEW status \in {"COMMITTED", "RELEASED"},
         state' = [state EXCEPT ![a] = status],
         call' = [call EXCEPT ![c] = Resting],
         UNCHANGED <<terms, quote, ttl>>, PurseTypeOK', RowsAreSettled',
         \A b \in Auths : b # a => {r \in ledger' : r.auth = b} = {r \in ledger : r.auth = b},
         OwedBy(a)' <= OwedBy(a)
  PROVE  PurseInv'
<1>1. PurseTypeOK /\ RowsAreSettled /\ OwedKept /\ CallOK(c)
  BY DEF PurseInv
<1>2. state[a] = "HELD"
  BY <1>1 DEF CallOK, Usable
<1>3. \A d \in Callers : CallOK(d)'
  <2> SUFFICES ASSUME NEW d \in Callers PROVE CallOK(d)'
    OBVIOUS
  <2>1. CASE d = c
    <3>1. call'[d] = Resting
      BY <1>1, <2>1 DEF PurseTypeOK
    <3> QED
      BY <3>1 DEF CallOK, Resting
  <2>2. CASE d # c
    <3>1. CallOK(d) /\ call'[d] = call[d] /\ call[d] \in {Resting} \cup Calls
      BY <2>2 DEF PurseInv, PurseTypeOK
    <3>2. call[d].at \in {"settling", "releasing"} => call[d].auth # a
      BY <2>2 DEF OneWriter
    <3>3. \A b \in Auths : state'[b] = IF b = a THEN status ELSE state[b]
      BY <1>1 DEF PurseTypeOK
    <3>4. call[d].at \in {"admitted", "answered", "settling", "releasing"} => call[d].auth \in Auths
      BY <3>1 DEF Calls, Resting
    <3>5. call[d].at \in {"admitted", "answered", "settling", "releasing"} =>
           /\ quote'[call[d].auth] = quote[call[d].auth]
           /\ \/ state'[call[d].auth] = state[call[d].auth]
              \/ /\ call[d].at \in {"admitted", "answered"}
                 /\ state'[call[d].auth] \notin {"NONE", "QUOTED"}
      BY <3>2, <3>3, <3>4
    <3>6. call[d].at = "settling" => ttl'[call[d].auth] = ttl[call[d].auth]
      OBVIOUS
    <3> QED
      BY <3>1, <3>5, <3>6, CallStands
  <2> QED
    BY <2>1, <2>2
<1>4. OwedKept'
  <2>1. ASSUME NEW b \in Auths, b # a PROVE OwedBy(b)' <= OwedBy(b)
    <3>1. state'[b] = state[b]
      BY <1>1, <2>1 DEF PurseTypeOK
    <3>2. {r \in ledger' : r.auth = b} = {r \in ledger : r.auth = b}
      BY <2>1
    <3>3. OwedBy(b)' = OwedBy(b)
      BY <3>1, <3>2 DEF OwedBy, Usable, Total, VndOfRows
    <3>4. OwedBy(b) \in Nat
      BY <1>1, OwedIsNatural DEF NaturallyOwed
    <3> QED
      BY <3>3, <3>4
  <2>2. \A b \in Auths : OwedBy(b)' <= OwedBy(b)
    BY <2>1
  <2>3. \A b \in Auths : \A h : b \in InCategory(h)' => b \in InCategory(h)
    BY <1>1, <1>2 DEF InCategory, PurseTypeOK
  <2> QED
    BY <1>1, <2>2, <2>3, NoMoreIsOwed
<1> QED
  BY <1>3, <1>4 DEF PurseInv

\* What a call is charged for fits into its hold.
LEMMA AdmittedIsCovered ==
  ASSUME PurseTypeOK, ContingencyCovers, NEW a \in Auths, NEW o \in Operations,
         NEW g \in Categories, NEW u \in Usages, NEW k \in Consents,
         SameQuote(quote[a], QuoteFor(o, g, u, k)), NEW n \in Overruns, u + n >= 0
  PROVE  Vnd(u + n) <= Total(a)
<1>1. quote[a].estimate = Vnd(Billable(u))
  BY DEF SameQuote, QuoteHash, QuoteFor
<1>2. \E free \in 0..FreeUnits : Billable(u) = Max({0, u - free})
  <2>1. Consumed \in Nat
    <3> DEFINE units == [r \in ledger |-> r.units]
    <3>1. IsFiniteSet(ledger) /\ \A r \in ledger : units[r] \in Nat
      BY DEF PurseTypeOK
    <3>2. Consumed = SumFunctionOnSet(units, ledger)
      BY Zenon DEF Consumed, SumFunction
    <3> HIDE DEF units
    <3> QED
      BY <3>1, <3>2, SumIsNatural
  <2>2. FreeUnits \in Nat
    BY BudgetAssumption
  <2> DEFINE free == Max({0, FreeUnits - Consumed})
  <2>3. free \in 0..FreeUnits
    BY <2>1, <2>2, MaxOfZero
  <2>4. Billable(u) = Max({0, u - free})
    BY DEF Billable
  <2> HIDE DEF free
  <2> QED
    BY <2>3, <2>4
<1>3. PICK free \in 0..FreeUnits : Billable(u) = Max({0, u - free})
  BY <1>2
<1> DEFINE estimate == Vnd(Max({0, u - free}))
<1>4. Vnd(u + n) <= estimate + Contingency(estimate)
  BY DEF ContingencyCovers
<1>5. quote[a].estimate = estimate
  BY <1>1, <1>3
<1> HIDE DEF estimate
<1> QED
  BY <1>4, <1>5 DEF Total

\* The steps of a call, and of who releases a hold.
LEMMA CallStepKeepsPurse ==
  ASSUME ContingencyCovers, PurseInv, OneWriter, NEW c \in Callers, CallStep(c)
  PROVE  PurseInv'
<1>1. PurseTypeOK /\ RowsAreSettled /\ OwedKept /\ CallOK(c)
  BY DEF PurseInv
<1>c. /\ call \in [Callers -> {Resting} \cup Calls] /\ call[c] \in {Resting} \cup Calls
      /\ Resting.at = "idle"
  BY <1>1 DEF PurseTypeOK, Resting
\* Steps that write to nothing but the call.
<1>2. ASSUME NEW next \in {Resting} \cup Calls, UNCHANGED <<terms, purse>>,
             call' = [call EXCEPT ![c] = next], CallOK(c)'
      PROVE  PurseInv'
  <2>1. PurseTypeOK' /\ RowsAreSettled' /\ OwedKept'
    <3>1. call' \in [Callers -> {Resting} \cup Calls] /\ revision' \in Nat
      BY <1>1, <1>2 DEF PurseTypeOK, terms
    <3> QED
      BY <1>1, <1>2, <3>1, PurseUnmoved
  <2>2. ASSUME NEW d \in Callers, d # c PROVE CallOK(d)'
    <3>1. CallOK(d) /\ call'[d] = call[d]
      BY <1>1, <1>2, <2>2 DEF PurseInv, PurseTypeOK
    <3> QED
      BY <1>2, <3>1, CallStands DEF purse
  <2> QED
    BY <1>2, <2>1, <2>2 DEF PurseInv
<1>3. UNCHANGED purse /\ call' = [call EXCEPT ![c] = Resting] => CallOK(c)'
  BY <1>c DEF CallOK, Resting
<1>4. ASSUME NEW a \in Auths, NEW o \in Operations, NEW g \in Categories, NEW u \in Usages,
             NEW k \in Consents, Admit(c, a, o, g, u, k)
      PROVE  PurseInv'
  <2> DEFINE next == [at |-> "admitted", auth |-> a, units |-> u]
  <2>1. /\ call' = [call EXCEPT ![c] = next] /\ UNCHANGED <<terms, purse>>
        /\ state[a] = "HELD" /\ SameQuote(quote[a], QuoteFor(o, g, u, k))
    BY <1>4 DEF Admit, Usable
  <2>2. next \in Calls
    BY BudgetAssumption DEF Calls
  <2>3. \A n \in Overruns : u + n >= 0 => Vnd(u + n) <= Total(a)
    BY <1>1, <2>1, AdmittedIsCovered
  <2>4. CallOK(c)'
    <3>1. call'[c] = next /\ state'[a] = "HELD" /\ quote' = quote
      BY <1>c, <2>1 DEF purse
    <3>2. call'[c].at = "admitted" /\ call'[c].auth = a /\ call'[c].units = u
      BY <3>1
    <3> QED
      BY <2>3, <3>1, <3>2 DEF CallOK, Total
  <2> HIDE DEF next
  <2> QED
    BY <1>2, <2>1, <2>2, <2>4
<1>5. ASSUME NEW n \in Overruns, Charge(c, n) PROVE PurseInv'
  <2> DEFINE measured == call[c].units + n
             next == [call[c] EXCEPT !.at = "answered", !.units = measured]
  <2>1. /\ call[c].at = "admitted" /\ measured >= 0 /\ call' = [call EXCEPT ![c] = next]
        /\ UNCHANGED <<terms, purse>>
    BY <1>5, <1>c DEF Charge
  <2>2. call[c] \in Calls
    BY <1>c, <2>1
  <2>3. next \in Calls
    <3>1. measured \in Nat
      BY <2>1, <2>2, BudgetAssumption DEF Calls
    <3> HIDE DEF measured
    <3> QED
      BY <2>2, <3>1 DEF Calls
  <2>4. CallOK(c)'
    <3>1. /\ call'[c].at = "answered" /\ call'[c].auth = call[c].auth /\ call'[c].units = measured
      BY <1>c, <2>1, <2>2 DEF Calls
    <3>2. Vnd(measured) <= Total(call[c].auth) /\ state[call[c].auth] \notin {"NONE", "QUOTED"}
      BY <1>1, <2>1 DEF CallOK
    <3>3. UNCHANGED <<state, quote>>
      BY <2>1 DEF purse
    <3> HIDE DEF measured, next
    <3> QED
      BY <3>1, <3>2, <3>3 DEF CallOK, Total
  <2> HIDE DEF next
  <2> QED
    BY <1>2, <2>1, <2>3, <2>4
<1>6. ASSUME ReadHold(c) PROVE PurseInv'
  <2>0. call[c].at = "answered" /\ UNCHANGED <<terms, purse>>
    BY <1>6 DEF ReadHold
  <2>1. CASE MaySettle(call[c].auth)
    <3> DEFINE next == [call[c] EXCEPT !.at = "settling"]
    <3>1. call' = [call EXCEPT ![c] = next]
      BY <1>6, <1>c, <2>1 DEF ReadHold
    <3>2. call[c] \in Calls
      BY <1>c, <2>0
    <3>3. next \in Calls
      BY <3>2 DEF Calls
    <3>4. CallOK(c)'
      <4>1. /\ call'[c].at = "settling" /\ call'[c].auth = call[c].auth
            /\ call'[c].units = call[c].units
        BY <1>c, <3>1, <3>2 DEF Calls
      <4>2. UNCHANGED <<state, quote, ttl>>
        BY <2>0 DEF purse
      <4>3. Vnd(call[c].units) <= Total(call[c].auth) /\ Usable(call[c].auth)
        BY <1>1, <2>0, <2>1 DEF CallOK, MaySettle, Usable
      <4> HIDE DEF next
      <4> QED
        BY <4>1, <4>2, <4>3 DEF CallOK, Total, Usable
    <3> HIDE DEF next
    <3> QED
      BY <1>2, <2>0, <3>1, <3>3, <3>4
  <2>2. CASE ~MaySettle(call[c].auth)
    <3>1. call' = [call EXCEPT ![c] = Resting]
      BY <1>6, <2>2 DEF ReadHold
    <3> QED
      BY <1>2, <1>3, <2>0, <3>1
  <2> QED
    BY <2>1, <2>2
<1>7. ASSUME Settle(c) PROVE PurseInv'
  <2>1. call[c] \in Calls /\ Usable(call[c].auth) /\ Vnd(call[c].units) <= Total(call[c].auth)
    BY <1>1, <1>c, <1>7 DEF Settle, CallOK
  <2>2. PICK a \in Auths : a = call[c].auth
    BY <2>1 DEF Calls
  <2>3. PICK entry : /\ entry.auth = a /\ entry.operation = quote[a].operation
                     /\ entry.units = call[c].units /\ entry.vnd = Vnd(call[c].units)
                     /\ ledger' = ledger \cup {entry}
    <3> DEFINE entry == [no |-> Cardinality(ledger) + 1, auth |-> a,
                        operation |-> quote[a].operation, units |-> call[c].units,
                        vnd |-> Vnd(call[c].units)]
    <3>1. ledger' = ledger \cup {entry}
      BY <1>7, <2>2 DEF Settle
    <3>2. /\ entry.auth = a /\ entry.operation = quote[a].operation
          /\ entry.units = call[c].units /\ entry.vnd = Vnd(call[c].units)
      OBVIOUS
    <3> HIDE DEF entry
    <3> QED
      BY <3>1, <3>2
  <2>4. /\ state' = [state EXCEPT ![a] = "COMMITTED"] /\ call' = [call EXCEPT ![c] = Resting]
        /\ UNCHANGED <<terms, quote, ttl>> /\ call[c].at = "settling" /\ state[a] = "HELD"
    BY <1>7, <2>1, <2>2 DEF Settle, Usable
  <2>5. entry.units \in Nat /\ entry.vnd \in Nat
    BY <2>1, <2>3, VndIsNatural DEF Calls
  <2>6. PurseTypeOK'
    <3>1. IsFiniteSet(ledger')
      BY <1>1, <2>3, FS_AddElement DEF PurseTypeOK
    <3>2. /\ revision' \in Nat /\ state' \in [Auths -> AuthStates]
          /\ call' \in [Callers -> {Resting} \cup Calls]
      BY <1>1, <2>4 DEF PurseTypeOK, AuthStates, terms
    <3>3. quote' \in [Auths -> {NoQuote} \cup Quotes] /\ ttl' \in [Auths -> Nat]
      BY <1>1, <2>4 DEF PurseTypeOK
    <3>4. \A r \in ledger' : r.auth \in Auths /\ r.units \in Nat /\ r.vnd \in Nat
      BY <1>1, <2>3, <2>5 DEF PurseTypeOK
    <3>5. \A b \in Auths : state'[b] # "NONE" => quote'[b] \in Quotes
      BY <1>1, <2>4 DEF PurseTypeOK
    <3> QED
      BY <3>1, <3>2, <3>3, <3>4, <3>5 DEF PurseTypeOK
  <2>7. RowsAreSettled'
    <3>1. \A b \in Auths : b # a => state'[b] = state[b]
      BY <1>1, <2>4 DEF PurseTypeOK
    <3>2. state'[a] = "COMMITTED"
      BY <1>1, <2>4 DEF PurseTypeOK
    <3> SUFFICES ASSUME NEW r \in ledger'
                 PROVE  state'[r.auth] = "COMMITTED" /\ r.operation = quote'[r.auth].operation
      BY DEF RowsAreSettled
    <3>3. CASE r = entry
      BY <2>3, <2>4, <3>2, <3>3
    <3>4. CASE r \in ledger
      BY <1>1, <2>4, <3>1, <3>2, <3>4 DEF RowsAreSettled, PurseTypeOK
    <3> QED
      BY <2>3, <3>3, <3>4
  <2>8. \A b \in Auths : b # a => {r \in ledger' : r.auth = b} = {r \in ledger : r.auth = b}
    BY <2>3
  <2>9. OwedBy(a)' <= OwedBy(a)
    <3>1. OwedBy(a) = Total(a) /\ {r \in ledger : r.auth = a} = {}
      BY <1>1, <2>1, <2>2, <2>4, NoRowsOwed
    <3>2. {r \in ledger' : r.auth = a} = {entry}
      BY <2>3, <3>1
    <3>3. OwedBy(a)' = VndOfRows({entry})
      <4>1. ~Usable(a)'
        BY <1>1, <2>4 DEF Usable, PurseTypeOK
      <4>2. OwedBy(a)' = 0 + VndOfRows({r \in ledger' : r.auth = a})
        BY <4>1 DEF OwedBy, VndOfRows
      <4>3. VndOfRows({r \in ledger : r.auth = a})' \in Nat
        BY <2>6, OwedIsNaturalNext DEF NaturallyOwed
      <4>4. VndOfRows({r \in ledger : r.auth = a})' = VndOfRows({entry})
        BY <3>2 DEF VndOfRows
      <4> QED
        BY <3>2, <4>2, <4>3, <4>4
    <3>4. VndOfRows({entry}) = entry.vnd
      <4> DEFINE vnd == [r \in {entry} |-> r.vnd]
      <4>1. VndOfRows({entry}) = SumFunctionOnSet(vnd, {entry})
        BY Zenon DEF VndOfRows, SumFunction
      <4>2. IsFiniteSet({entry}) /\ \A x \in {entry} : vnd[x] \in Nat
        BY <2>5, FS_Singleton
      <4>3. vnd[entry] = entry.vnd /\ {} \in SUBSET {entry} /\ entry \in {entry} \ {} /\ {} \cup {entry} = {entry}
        OBVIOUS
      <4> HIDE DEF vnd
      <4>4. SumFunctionOnSet(vnd, {} \cup {entry}) = SumFunctionOnSet(vnd, {}) + vnd[entry]
        BY <4>2, <4>3, SumWithOneMore
      <4> QED
        BY <2>5, <4>1, <4>3, <4>4, SumOfNone
    <3> QED
      BY <2>1, <2>2, <2>3, <3>1, <3>3, <3>4
  <2> QED
    BY <2>2, <2>4, <2>6, <2>7, <2>8, <2>9, WriteKeepsPurse
<1>8. ASSUME NEW a \in Auths, ReadRelease(c, a) PROVE PurseInv'
  <2> DEFINE next == [at |-> "releasing", auth |-> a, units |-> 0]
  <2>1. call' = [call EXCEPT ![c] = next] /\ UNCHANGED <<terms, purse>> /\ state[a] = "HELD"
    BY <1>8 DEF ReadRelease
  <2>2. next \in Calls
    BY DEF Calls
  <2>3. CallOK(c)'
    BY <1>c, <2>1 DEF CallOK, purse
  <2> HIDE DEF next
  <2> QED
    BY <1>2, <2>1, <2>2, <2>3
<1>9. ASSUME Release(c) PROVE PurseInv'
  <2>1. call[c] \in Calls /\ state[call[c].auth] = "HELD"
    BY <1>1, <1>c, <1>9 DEF Release, CallOK
  <2>2. PICK a \in Auths : a = call[c].auth
    BY <2>1 DEF Calls
  <2>3. /\ state' = [state EXCEPT ![a] = "RELEASED"] /\ call' = [call EXCEPT ![c] = Resting]
        /\ UNCHANGED <<terms, quote, ttl, ledger>> /\ call[c].at = "releasing"
    BY <1>9, <2>2 DEF Release
  <2>4. PurseTypeOK' /\ RowsAreSettled'
    <3>1. /\ revision' \in Nat /\ state' \in [Auths -> AuthStates]
          /\ call' \in [Callers -> {Resting} \cup Calls]
      BY <1>1, <2>3 DEF PurseTypeOK, AuthStates, terms
    <3>2. \A b \in Auths : state'[b] # "NONE" => quote'[b] \in Quotes
      BY <1>1, <2>1, <2>2, <2>3 DEF PurseTypeOK
    <3>3. PurseTypeOK'
      BY <1>1, <2>3, <3>1, <3>2 DEF PurseTypeOK
    <3>4. RowsAreSettled'
      BY <1>1, <2>1, <2>2, <2>3 DEF PurseTypeOK, RowsAreSettled
    <3> QED
      BY <3>3, <3>4
  <2>5. OwedBy(a)' <= OwedBy(a)
    <3>1. ~Usable(a)'
      BY <1>1, <2>3 DEF Usable, PurseTypeOK
    <3> DEFINE rows == VndOfRows({r \in ledger : r.auth = a})
    <3>2. OwedBy(a)' = 0 + rows
      BY <2>3, <3>1 DEF OwedBy, VndOfRows
    <3>3. OwedBy(a) = (IF Usable(a) THEN Total(a) ELSE 0) + rows
      BY DEF OwedBy
    <3>4. rows \in Nat /\ (Usable(a) => Total(a) \in Nat)
      BY <1>1, OwedIsNatural DEF NaturallyOwed
    <3> HIDE DEF rows
    <3> QED
      BY <3>2, <3>3, <3>4
  <2> QED
    BY <2>2, <2>3, <2>4, <2>5, WriteKeepsPurse
<1>10. ASSUME Abandon(c) PROVE PurseInv'
  <2>1. call' = [call EXCEPT ![c] = Resting] /\ UNCHANGED <<terms, purse>>
    BY <1>10 DEF Abandon
  <2> QED
    BY <1>2, <1>3, <2>1
<1> QED
  BY <1>4, <1>5, <1>6, <1>7, <1>8, <1>9, <1>10 DEF CallStep

\* Every step keeps the invariant.
LEMMA NextKeepsPurse ==
  ASSUME ContingencyCovers, PurseInv, OneWriter, [BudgetNext]_budgetVars
  PROVE  PurseInv'
\* Steps that leave the purse and the calls alone.
<1>1. ASSUME UNCHANGED <<purse, call>>, revision' \in Nat PROVE PurseInv'
  <2>1. PurseTypeOK /\ RowsAreSettled /\ OwedKept /\ call' = call
    BY <1>1 DEF PurseInv
  <2>2. PurseTypeOK' /\ RowsAreSettled' /\ OwedKept'
    BY <1>1, <2>1, PurseUnmoved DEF PurseTypeOK
  <2>3. ASSUME NEW c \in Callers PROVE CallOK(c)'
    <3>1. CallOK(c) /\ UNCHANGED <<state, quote, ttl, call>>
      BY <1>1 DEF PurseInv, purse
    <3> QED
      BY <3>1, CallStands
  <2> QED
    BY <2>2, <2>3 DEF PurseInv
<1>2. revision \in Nat
  BY DEF PurseInv, PurseTypeOK
<1>3. ASSUME NEW k \in Consents, Grant(k) \/ Revoke(k) PROVE PurseInv'
  BY <1>1, <1>2, <1>3 DEF Grant, Revoke
<1>4. ASSUME NEW e \in BOOLEAN, EditProfile(e) PROVE PurseInv'
  BY <1>1, <1>2, <1>4 DEF EditProfile
<1>5. ASSUME UNCHANGED budgetVars PROVE PurseInv'
  <2>1. UNCHANGED <<purse, call>> /\ revision' = revision
    BY <1>5 DEF budgetVars, terms
  <2> QED
    BY <1>1, <1>2, <2>1
<1>6. ASSUME NEW a \in Auths, NEW o \in Operations, NEW g \in Categories, NEW u \in Usages,
             NEW k \in Consents, Prepare(a, o, g, u, k)
      PROVE  PurseInv'
  BY <1>6, PrepareKeepsPurse
<1>7. ASSUME NEW a \in Auths, Authorize(a) PROVE PurseInv'
  BY <1>7, AuthorizeKeepsPurse
<1>8. ASSUME NEW c \in Callers, CallStep(c) PROVE PurseInv'
  BY <1>8, CallStepKeepsPurse
<1>9. ASSUME Tick PROVE PurseInv'
  BY <1>9, TickKeepsPurse
<1> QED
  BY <1>3, <1>4, <1>5, <1>6, <1>7, <1>8, <1>9 DEF BudgetNext, ConsentRequest

\* The sum of a category, authorization by authorization.
LEMMA ObligationIsOwed ==
  ASSUME PurseTypeOK, NEW g
  PROVE  /\ Obligation(g) \in Nat
         /\ Obligation(g) <= SumFunctionOnSet(Owed, InCategory(g))
         /\ Obligation(g) <= SumFunctionOnSet(OwedIn(g), Auths)
<1> DEFINE In == InCategory(g)
           held == {b \in In : Usable(b)}
           totals == [a \in held |-> Total(a)]
           holds == [a \in Auths |-> IF Usable(a) THEN Total(a) ELSE 0]
           spent == [a \in Auths |-> VndOfRows({r \in ledger : r.auth = a})]
           rows == {r \in ledger : r.auth \in In}
<1>f. /\ IsFiniteSet(Auths) /\ In \in SUBSET Auths /\ IsFiniteSet(In)
      /\ held \in SUBSET In /\ rows \in SUBSET ledger
  <2>1. IsFiniteSet(Auths) /\ In \in SUBSET Auths
    BY BudgetAssumption DEF InCategory
  <2> QED
    BY <2>1, FS_Subset
<1>0. \A a \in Auths : /\ holds[a] \in Nat /\ spent[a] \in Nat
                       /\ OwedBy(a) \in Nat /\ OwedBy(a) = holds[a] + spent[a]
                       /\ a \in held => totals[a] = holds[a]
  <2>1. \A a \in Auths : /\ Usable(a) => Total(a) \in Nat
                         /\ VndOfRows({r \in ledger : r.auth = a}) \in Nat
                         /\ OwedBy(a) \in Nat
    BY OwedIsNatural DEF NaturallyOwed
  <2> QED
    BY <2>1 DEF OwedBy
<1>1. Obligation(g) = SumFunctionOnSet(totals, held) + VndOfRows(rows)
  BY Zenon DEF Obligation, InCategory, SumFunction
<1>2. VndOfRows(rows) = SumFunctionOnSet(spent, In) /\ VndOfRows(rows) \in Nat
  <2> DEFINE vnd == [r \in ledger |-> r.vnd]
             owner == [r \in ledger |-> r.auth]
             group == [a \in In |-> SumFunctionOnSet(vnd, {r \in ledger : owner[r] = a})]
  <2>1. IsFiniteSet(ledger) /\ \A r \in ledger : vnd[r] \in Nat /\ owner[r] = r.auth
    BY DEF PurseTypeOK
  <2>2. \A some \in SUBSET ledger : /\ VndOfRows(some) = SumFunctionOnSet(vnd, some)
                                    /\ VndOfRows(some) \in Nat
    BY RowSums
  <2>3. rows = {r \in ledger : owner[r] \in In}
    BY <2>1
  <2>4. \A a \in In : {r \in ledger : r.auth = a} = {r \in ledger : owner[r] = a}
    BY <2>1
  <2>5. \A a \in In : group[a] = spent[a]
    <3> TAKE a \in In
    <3>1. {r \in ledger : r.auth = a} \in SUBSET ledger
      OBVIOUS
    <3>2. group[a] = SumFunctionOnSet(vnd, {r \in ledger : r.auth = a})
      BY <2>4
    <3>3. spent[a] = VndOfRows({r \in ledger : r.auth = a})
      BY <1>f
    <3> QED
      BY <2>2, <3>1, <3>2, <3>3
  <2>9. \A a \in Auths : spent[a] \in Nat
    BY <1>0
  <2> HIDE DEF vnd, owner, In, spent
  <2>6. SumFunctionOnSet(vnd, {r \in ledger : owner[r] \in In}) = SumFunctionOnSet(group, In)
    BY <1>f, <2>1, SumByGroups
  <2> HIDE DEF group
  <2>7. SumFunctionOnSet(group, In) = SumFunctionOnSet(spent, In)
    <3>1. \A a \in In : group[a] \in Nat /\ group[a] = spent[a]
      BY <1>f, <2>5, <2>9
    <3> QED
      BY <1>f, <3>1, SumsAgree
  <2>8. VndOfRows(rows) = SumFunctionOnSet(vnd, rows) /\ VndOfRows(rows) \in Nat
    BY <1>f, <2>2
  <2> QED
    BY <2>3, <2>6, <2>7, <2>8
<1> HIDE DEF In, held, totals, holds, spent, rows
<1>3. SumFunctionOnSet(totals, held) \in Nat /\ SumFunctionOnSet(holds, In) \in Nat
      /\ SumFunctionOnSet(totals, held) <= SumFunctionOnSet(holds, In)
  <2>1. IsFiniteSet(held)
    BY <1>f, FS_Subset
  <2>2. \A a \in held : totals[a] \in Nat /\ totals[a] <= holds[a]
    BY <1>f, <1>0
  <2>3. \A a \in In : holds[a] \in Nat
    BY <1>f, <1>0
  <2>4. SumFunctionOnSet(totals, held) <= SumFunctionOnSet(holds, In)
    BY <1>f, <2>2, <2>3, SumOfLess
  <2>5. SumFunctionOnSet(totals, held) \in Nat
    BY <2>1, <2>2, SumIsNatural
  <2>6. SumFunctionOnSet(holds, In) \in Nat
    BY <1>f, <2>3, SumIsNatural
  <2> QED
    BY <2>4, <2>5, <2>6
<1>4. SumFunctionOnSet(Owed, In) = SumFunctionOnSet(holds, In) + SumFunctionOnSet(spent, In)
  <2>1. \A a \in In : holds[a] \in Nat
    BY <1>f, <1>0
  <2>2. \A a \in In : spent[a] \in Nat
    BY <1>f, <1>0
  <2>3. \A a \in In : Owed[a] = holds[a] + spent[a]
    BY <1>f, <1>0 DEF Owed
  <2> QED
    BY <1>f, <2>1, <2>2, <2>3, SumOfSums
<1>5. SumFunctionOnSet(Owed, In) \in Nat
      /\ SumFunctionOnSet(OwedIn(g), Auths) \in Nat
      /\ SumFunctionOnSet(Owed, In) <= SumFunctionOnSet(OwedIn(g), Auths)
  <2>1. \A a \in Auths : OwedIn(g)[a] \in Nat
    BY <1>0 DEF OwedIn
  <2>2. \A a \in In : Owed[a] \in Nat /\ Owed[a] <= OwedIn(g)[a]
    <3> TAKE a \in In
    <3>1. Owed[a] = OwedBy(a) /\ OwedIn(g)[a] = OwedBy(a) /\ OwedBy(a) \in Nat
      BY <1>f, <1>0 DEF Owed, OwedIn, In
    <3> QED
      BY <3>1
  <2>3. SumFunctionOnSet(Owed, In) <= SumFunctionOnSet(OwedIn(g), Auths)
    BY <1>f, <2>1, <2>2, SumOfLess
  <2> QED
    BY <1>f, <2>1, <2>2, <2>3, SumIsNatural
<1> QED
  BY <1>1, <1>2, <1>3, <1>4, <1>5 DEF In

\* The limits in the words of Budget.
LEMMA OwedWithinLimits ==
  PurseInv => LimitsKept
<1> SUFFICES ASSUME PurseInv PROVE LimitsKept
  OBVIOUS
<1>1. PurseTypeOK /\ OwedKept
  BY DEF PurseInv
<1>2. ASSUME NEW g
      PROVE  /\ Obligation(g) \in Nat /\ SumFunctionOnSet(OwedIn(g), Auths) \in Nat
             /\ Obligation(g) <= SumFunctionOnSet(OwedIn(g), Auths)
  <2>1. \A a \in Auths : OwedIn(g)[a] \in Nat
    BY <1>1, OwedIsNatural DEF NaturallyOwed, OwedIn
  <2>2. SumFunctionOnSet(OwedIn(g), Auths) \in Nat
    BY <2>1, BudgetAssumption, SumIsNatural
  <2> QED
    BY <1>1, <2>2, ObligationIsOwed
<1>3. Obligation("REGULAR") <= RegularCap
  BY <1>1, <1>2 DEF OwedKept, RegularCap
<1>4. \A g \in DOMAIN ReserveLimits : Obligation(g) <= ReserveLimits[g]
  BY <1>1, <1>2 DEF OwedKept, ReserveLimits
<1>5. SumFunction([g \in Categories |-> Obligation(g)]) <= HardLimit
  <2> DEFINE all == [g \in Categories |-> Obligation(g)]
             quoted == {a \in Auths : state[a] # "NONE"}
             owner == [a \in quoted |-> quote[a].category]
             group == [g \in Categories |-> SumFunctionOnSet(Owed, {a \in quoted : owner[a] = g})]
  <2>1. IsFiniteSet(Auths) /\ IsFiniteSet(Categories) /\ quoted \in SUBSET Auths /\ IsFiniteSet(quoted)
    <3>1. IsFiniteSet(Auths) /\ IsFiniteSet(Categories) /\ quoted \in SUBSET Auths
      BY BudgetAssumption
    <3> QED
      BY <3>1, FS_Subset
  <2>2. \A a \in Auths : Owed[a] \in Nat
    BY <1>1, OwedIsNatural DEF NaturallyOwed, Owed
  <2>3. SumFunction([g \in Categories |-> Obligation(g)]) = SumFunctionOnSet(all, Categories)
    BY Zenon DEF SumFunction
  <2>4. \A g \in Categories : /\ all[g] \in Nat /\ group[g] \in Nat
                              /\ all[g] <= group[g]
    <3> TAKE g \in Categories
    <3>1. InCategory(g) = {a \in quoted : owner[a] = g} /\ InCategory(g) \in SUBSET Auths
      BY DEF InCategory
    <3>2. /\ Obligation(g) \in Nat
          /\ Obligation(g) <= SumFunctionOnSet(Owed, InCategory(g))
      BY <1>1, ObligationIsOwed
    <3>3. SumFunctionOnSet(Owed, InCategory(g)) \in Nat
      BY <2>1, <2>2, <3>1, SumIsNatural
    <3>4. all[g] = Obligation(g) /\ group[g] = SumFunctionOnSet(Owed, InCategory(g))
      BY <3>1
    <3> HIDE DEF all, group, owner, quoted
    <3> QED
      BY <3>2, <3>3, <3>4
  <2> HIDE DEF all, quoted, owner
  <2>5. SumFunctionOnSet(Owed, {a \in quoted : owner[a] \in Categories})
          = SumFunctionOnSet(group, Categories)
    BY <2>1, <2>2, SumByGroups
  <2> HIDE DEF group
  <2>6. SumFunctionOnSet(all, Categories) <= SumFunctionOnSet(group, Categories)
    BY <2>1, <2>4, SumIsMonotone
  <2>7. SumFunctionOnSet(Owed, {a \in quoted : owner[a] \in Categories})
          <= SumFunctionOnSet(Owed, Auths)
    <3>1. {a \in quoted : owner[a] \in Categories} \in SUBSET Auths
      BY <2>1
    <3>2. \A a \in {a \in quoted : owner[a] \in Categories} : Owed[a] \in Nat /\ Owed[a] <= Owed[a]
      BY <2>1, <2>2
    <3> QED
      BY <2>1, <2>2, <3>1, <3>2, SumOfLess
  <2>8. /\ SumFunctionOnSet(all, Categories) \in Nat /\ SumFunctionOnSet(group, Categories) \in Nat
        /\ SumFunctionOnSet(Owed, Auths) \in Nat
    BY <2>1, <2>2, <2>4, SumIsNatural
  <2> QED
    BY <1>1, <2>3, <2>5, <2>6, <2>7, <2>8 DEF OwedKept, HardLimit
<1> QED
  BY <1>3, <1>4, <1>5 DEF LimitsKept

\* What is promised and spent stays within the share of each category and within the hard
\* limit (authorize, commit_usage and release_authorization of budgets/guard.py), whatever
\* is quoted, expires, is settled late or abandoned: as long as no two calls write to one
\* authorization at the same time, and no bill exceeds the hold it was admitted under.
THEOREM LimitsAreKept ==
  ASSUME ContingencyCovers
  PROVE  BudgetSpec /\ []OneWriter => []LimitsKept
<1>1. BudgetInit => PurseInv
  BY PurseStarts
<1>2. PurseInv /\ OneWriter /\ [BudgetNext]_budgetVars => PurseInv'
  BY NextKeepsPurse
<1>3. PurseInv => LimitsKept
  BY OwedWithinLimits
<1> QED
  BY <1>1, <1>2, <1>3, PTL DEF BudgetSpec
=============================================================================
