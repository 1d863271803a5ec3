----------------------------- MODULE DraftProofs -----------------------------
(***************************************************************************)
(* What TLAPS proves about the draft of a chapter, for any texts, editors, *)
(* callers, provider streams and bounds.                                   *)
(***************************************************************************)
EXTENDS DraftReader, NaturalSets, SequenceTheorems, FiniteSetTheorems, TLAPS

-----------------------------------------------------------------------------
(* With check and write of a save in one step, a revision names one text:  *)
(* whatever row anybody holds is the stored one or has an older revision.  *)
(* It is what compare-and-swap rests on, for a save compares revisions and *)
(* never texts.                                                            *)

Outdated(row) ==
  /\ row.revision \in Nat
  /\ row = draft \/ row.revision < draft.revision

In(request, phases) == request # Idle /\ request.phase \in phases
Checked(e) == In(put[e], {"checked"})

SaveOK(save) ==
  /\ In(save, {"sent", "checked"}) =>
       /\ Outdated(save.basis)
       /\ DOMAIN save = {"phase", "content", "basis", "row"}
  /\ In(save, {"checked"}) => save.row = draft /\ save.basis = draft /\ attempt = NoAttempt
  /\ In(save, {"ok", "read"}) => Outdated(save.row)

OneSaveChecked == \A e, f \in Clients : Checked(e) /\ Checked(f) => e = f

\* The transaction of the worker starts from the stored row, which nobody can write
\* before it ends, and only counts up.
AttemptOK ==
  attempt # NoAttempt =>
    /\ DOMAIN attempt = {"stream", "segment", "next", "text", "draft"}
    /\ attempt.draft.revision \in Nat
    /\ attempt.draft = draft \/ draft.revision < attempt.draft.revision

PageOK(e) ==
  /\ conflict[e] # NoConflict => Outdated(conflict[e].server)
  /\ In(get[e], {"sent"}) => DOMAIN get[e] = {"phase", "asked", "row"}
  /\ In(get[e], {"ok"}) => Outdated(get[e].row)

StoreInv ==
  /\ draft.revision \in Nat /\ Outdated(NoDraft)
  /\ DOMAIN put = Clients /\ DOMAIN known = Clients
  /\ DOMAIN conflict = Editors /\ DOMAIN get = Editors
  /\ AttemptOK
  /\ OneSaveChecked
  /\ \A e \in Clients : SaveOK(put[e]) /\ Outdated(known[e])
  /\ \A e \in Editors : PageOK(e)

LEMMA RevisionIsThere ==
  /\ \A row : RevisionOf(row) = row.revision
  /\ \A row, content : row.revision \in Nat =>
       Written(row, content).revision \in Nat /\ row.revision < Written(row, content).revision
<1>1. NoDraft.revision = 0
  BY DEF NoDraft
<1>2. \A row : RevisionOf(row) = row.revision
  BY <1>1 DEF RevisionOf
<1>3. \A row, content : Written(row, content).revision = row.revision + 1
  BY <1>2 DEF Written
<1> QED
  BY <1>2, <1>3

LEMMA StoreStarts == StoreInit => StoreInv
<1> SUFFICES ASSUME StoreInit PROVE StoreInv
  OBVIOUS
<1>1. draft = NoDraft /\ draft.revision = 0 /\ Outdated(NoDraft)
  BY DEF StoreInit, NoDraft, Outdated
<1>2. /\ \A e \in Clients : put[e] = Idle /\ known[e] = NoDraft
      /\ \A e \in Editors : conflict[e] = NoConflict /\ get[e] = Idle
      /\ DOMAIN put = Clients /\ DOMAIN known = Clients
      /\ DOMAIN conflict = Editors /\ DOMAIN get = Editors
      /\ attempt = NoAttempt
  BY DEF StoreInit
<1> QED
  BY <1>1, <1>2 DEF StoreInv, AttemptOK, OneSaveChecked, Checked, SaveOK, In, PageOK

LEMMA DraftStays ==
  ASSUME UNCHANGED draft
  PROVE  \A row : Outdated(row) => Outdated(row)'
BY DEF Outdated

LEMMA DraftGrows ==
  ASSUME StoreInv, draft'.revision \in Nat, draft' = draft \/ draft.revision < draft'.revision
  PROVE  \A row : Outdated(row) => Outdated(row)'
<1> SUFFICES ASSUME NEW row, Outdated(row) PROVE Outdated(row)'
  OBVIOUS
<1>1. draft.revision \in Nat /\ row.revision \in Nat
  BY DEF StoreInv, Outdated
<1>2. CASE draft' = draft
  BY <1>2 DEF Outdated
<1>3. CASE draft.revision < draft'.revision
  BY <1>1, <1>3 DEF Outdated
<1> QED
  BY <1>2, <1>3

\* The worker writes nothing before it commits.
LEMMA WorkerKeepsInv ==
  ASSUME StoreInv, ~Interleaved, StartRun \/ Delta \/ CacheHit \/ AbortRun
  PROVE  StoreInv'
<1>1. UNCHANGED <<draft, put, known, conflict, get>>
  BY DEF StartRun, Delta, CacheHit, AbortRun, page
<1>2. AttemptOK' /\ (attempt' # NoAttempt => \A e \in Clients : ~Checked(e))
  <2>1. CASE StartRun
    <3>1. PICK stream \in Streams :
            attempt' = [stream |-> stream, segment |-> 1, next |-> 1,
                        text |-> [s \in Segments |-> <<>>], draft |-> draft]
      BY <2>1 DEF StartRun
    <3>2. \A e \in Clients : ~Checked(e)
      BY <2>1 DEF StartRun, NoSaveChecked, Checked, In
    <3> QED
      BY <1>1, <3>1, <3>2 DEF AttemptOK, StoreInv
  <2>2. CASE Delta \/ CacheHit
    <3>1. attempt # NoAttempt
      BY <2>2 DEF Delta, CacheHit
    <3>2. \A e \in Clients : ~Checked(e)
      BY <3>1 DEF StoreInv, SaveOK, Checked
    <3>3. DOMAIN attempt' = DOMAIN attempt
      BY <2>2 DEF Delta, CacheHit
    <3>4. attempt'.draft = attempt.draft \/ \E content : attempt'.draft = Written(attempt.draft, content)
      <4>a. /\ DOMAIN attempt = {"stream", "segment", "next", "text", "draft"}
        BY <3>1 DEF StoreInv, AttemptOK
      <4>b. \A x : DOMAIN x = {"stream", "segment", "next", "text", "draft"} =>
              \A n, m, s, t, d :
                /\ [x EXCEPT !.next = n, !.text[s] = t, !.draft = d].draft = d
                /\ [x EXCEPT !.segment = m, !.next = n].draft = x.draft
                /\ [x EXCEPT !.text[s] = t, !.segment = m].draft = x.draft
        OBVIOUS
      <4>1. CASE CacheHit
        BY <4>a, <4>1 DEF CacheHit
      <4>2. CASE Delta
        <5> DEFINE s == attempt.segment
                   deltas == attempt.stream[s]
                   offset == Len(attempt.text[s])
                   appended == Appended(attempt.draft, s, deltas[attempt.next], offset)
        <5>1. attempt'.draft \in {attempt.draft, appended}
          BY <4>a, <4>2 DEF Delta
        <5>2. appended = attempt.draft \/ \E content : appended = Written(attempt.draft, content)
          BY DEF Appended
        <5> HIDE DEF appended
        <5> QED
          BY <5>1, <5>2
      <4> QED
        BY <2>2, <4>1, <4>2
    <3>5. draft.revision \in Nat /\ attempt.draft.revision \in Nat
          /\ (attempt.draft = draft \/ draft.revision < attempt.draft.revision)
      BY <3>1 DEF StoreInv, AttemptOK
    <3>6. /\ attempt'.draft.revision \in Nat
          /\ attempt'.draft = draft \/ draft.revision < attempt'.draft.revision
      <4>1. CASE attempt'.draft = attempt.draft
        BY <4>1, <3>5
      <4>2. CASE \E content : attempt'.draft = Written(attempt.draft, content)
        BY <4>2, <3>5, RevisionIsThere
      <4> QED
        BY <3>4, <4>1, <4>2
    <3> QED
      BY <1>1, <3>1, <3>2, <3>3, <3>6 DEF AttemptOK, StoreInv
  <2>3. CASE AbortRun
    BY <2>3 DEF AttemptOK, AbortRun
  <2> QED
    BY <2>1, <2>2, <2>3
<1>3. \A row : Outdated(row) => Outdated(row)'
  BY <1>1, DraftStays
<1>4. \A e \in Clients : SaveOK(put[e])' /\ Outdated(known[e])'
  <2>1. \A e \in Clients : SaveOK(put[e]) /\ Outdated(known[e])
    BY DEF StoreInv
  <2> QED
    BY <1>1, <1>2, <1>3, <2>1 DEF SaveOK, Checked
<1>5. \A e \in Editors : PageOK(e)'
  BY <1>1, <1>3 DEF StoreInv, PageOK
<1> QED
  BY <1>1, <1>2, <1>3, <1>4, <1>5 DEF StoreInv, OneSaveChecked, Checked

\* It commits while nobody is between check and write.
LEMMA CommitKeepsInv ==
  ASSUME StoreInv, CommitRun
  PROVE  StoreInv'
<1>1. /\ UNCHANGED <<put, known, conflict, get>> /\ attempt # NoAttempt
      /\ attempt' = NoAttempt /\ draft' = attempt.draft
  BY DEF CommitRun, page
<1>2. draft'.revision \in Nat /\ (draft' = draft \/ draft.revision < draft'.revision)
  BY <1>1 DEF StoreInv, AttemptOK
<1>3. \A row : Outdated(row) => Outdated(row)'
  BY <1>2, DraftGrows
<1>4. \A e \in Clients : ~Checked(e)
  BY <1>1 DEF StoreInv, SaveOK, Checked
<1>5. \A e \in Clients : SaveOK(put[e])' /\ Outdated(known[e])'
  <2>1. \A e \in Clients : SaveOK(put[e]) /\ Outdated(known[e])
    BY DEF StoreInv
  <2> QED
    BY <1>1, <1>3, <1>4, <2>1 DEF SaveOK, Checked
<1>6. \A e \in Editors : PageOK(e)'
  BY <1>1, <1>3 DEF StoreInv, PageOK
<1> QED
  BY <1>1, <1>2, <1>3, <1>4, <1>5, <1>6 DEF StoreInv, AttemptOK, OneSaveChecked, Checked

\* A step of one save that leaves the row alone.
LEMMA SaveMovesKeepsInv ==
  ASSUME StoreInv, NEW e \in Clients, NEW save, put' = [put EXCEPT ![e] = save],
         SaveOK(save), In(save, {"checked"}) => \A f \in Clients : ~Checked(f),
         UNCHANGED <<draft, attempt, get>>,
         DOMAIN known' = Clients, \A f \in Clients : Outdated(known'[f]),
         DOMAIN conflict' = Editors,
         \A f \in Editors : conflict'[f] # NoConflict => Outdated(conflict'[f].server)
  PROVE  StoreInv'
<1>1. DOMAIN put' = Clients /\ \A f \in Clients : put'[f] = IF f = e THEN save ELSE put[f]
  BY DEF StoreInv
<1>2. \A row : Outdated(row) => Outdated(row)'
  BY DraftStays
<1>3. SaveOK(save)'
  BY <1>2 DEF SaveOK
<1>4. \A f \in Clients : SaveOK(put[f])'
  <2>1. \A f \in Clients : f # e => SaveOK(put[f])'
    BY <1>1, <1>2 DEF SaveOK, StoreInv
  <2>2. SaveOK(put[e])'
    BY <1>1, <1>3 DEF SaveOK
  <2> QED
    BY <2>1, <2>2
<1>5. \A f \in Clients : Outdated(known[f])'
  BY DEF Outdated
<1>6. \A f \in Editors : PageOK(f)'
  BY <1>2 DEF StoreInv, PageOK, Outdated
<1>7. OneSaveChecked'
  BY <1>1 DEF StoreInv, OneSaveChecked, Checked
<1>8. AttemptOK'
  BY DEF AttemptOK, StoreInv
<1> QED
  BY <1>1, <1>2, <1>4, <1>5, <1>6, <1>7, <1>8 DEF StoreInv

\* What an answer makes of a save.
LEMMA AnsweredIs ==
  ASSUME NEW e \in DOMAIN put, NEW answer, NEW row, Answer(e, answer, row)
  PROVE  \E save : /\ put' = [put EXCEPT ![e] = save]
                   /\ save.phase = answer /\ save.row = row
<1> DEFINE save == [phase |-> answer, row |-> row,
                    content |-> IF answer \in {"conflict", "read"} THEN put[e].content ELSE Empty]
<1>1. put' = [put EXCEPT ![e] = save]
  BY DEF Answer
<1>2. save.phase = answer /\ save.row = row
  OBVIOUS
<1> QED
  BY <1>1, <1>2

LEMMA RestStays ==
  ASSUME StoreInv
  PROVE  /\ DOMAIN known = Clients /\ \A f \in Clients : Outdated(known[f])
         /\ DOMAIN conflict = Editors
         /\ \A f \in Editors : conflict[f] # NoConflict => Outdated(conflict[f].server)
         /\ DOMAIN put = Clients
         /\ Outdated(draft) /\ Outdated(NoDraft)
BY DEF StoreInv, PageOK, Outdated

LEMMA SavesKeepInv ==
  ASSUME StoreInv, ~Interleaved, NEW e \in Clients,
         \/ SaveCheck(e) \/ SaveFails(e)
         \/ e \in Callers /\ (Call(e) \/ CallAnswered(e))
         \/ e \in Editors /\ (Save(e) \/ Overwrite(e) \/ ReadRefused(e) \/ SaveAnswered(e))
  PROVE  StoreInv'
<1>r. /\ DOMAIN known = Clients /\ \A f \in Clients : Outdated(known[f])
      /\ DOMAIN conflict = Editors
      /\ \A f \in Editors : conflict[f] # NoConflict => Outdated(conflict[f].server)
      /\ DOMAIN put = Clients
      /\ Outdated(draft) /\ Outdated(NoDraft)
  BY RestStays
<1>o. ASSUME NEW answer, NEW row, Answer(e, answer, row), UNCHANGED <<draft, attempt, get, known, conflict>>,
             answer \notin {"sent", "checked"}, answer \in {"ok", "read"} => Outdated(row)
      PROVE  StoreInv'
  <2>1. PICK save : put' = [put EXCEPT ![e] = save] /\ save.phase = answer /\ save.row = row
    BY <1>o, <1>r, AnsweredIs
  <2>2. SaveOK(save) /\ ~In(save, {"checked"})
    BY <2>1, <1>o DEF SaveOK, In
  <2> QED
    BY <2>1, <2>2, <1>o, <1>r, SaveMovesKeepsInv
<1>1. CASE SaveCheck(e)
  <2>1. /\ In(put[e], {"sent"}) /\ UNCHANGED <<draft, attempt, get, known, conflict>>
        /\ \A f \in Clients : ~Checked(f)
        /\ attempt = NoAttempt
    BY <1>1 DEF SaveCheck, In, server, page, NoSaveChecked, Checked
  <2>2. CASE Answer(e, "error", NoDraft) \/ Answer(e, "conflict", NoDraft)
    BY <2>1, <2>2, <1>o
  <2>3. CASE /\ Matches(put[e].basis)
             /\ put' = [put EXCEPT ![e] = [@ EXCEPT !.phase = "checked", !.row = draft]]
    <3> DEFINE save == [put[e] EXCEPT !.phase = "checked", !.row = draft]
    <3>1. put' = [put EXCEPT ![e] = save]
      BY <2>3, <1>r
    <3>2. Outdated(put[e].basis) /\ DOMAIN put[e] = {"phase", "content", "basis", "row"}
      BY <2>1 DEF StoreInv, SaveOK, In
    <3>3. put[e].basis.revision = draft.revision
      BY <2>3, RevisionIsThere DEF Matches
    <3>4. put[e].basis = draft
      BY <3>2, <3>3 DEF Outdated
    <3>5. \A x : DOMAIN x = {"phase", "content", "basis", "row"} =>
            LET y == [x EXCEPT !.phase = "checked", !.row = draft] IN
            /\ y.phase = "checked" /\ y.row = draft /\ y.basis = x.basis /\ DOMAIN y = DOMAIN x
      OBVIOUS
    <3>6. /\ save.phase = "checked" /\ save.row = draft /\ save.basis = draft
          /\ DOMAIN save = {"phase", "content", "basis", "row"}
      BY <3>2, <3>4, <3>5
    <3> HIDE DEF save
    <3>7. SaveOK(save)
      BY <3>6, <1>r, <2>1 DEF SaveOK, In
    <3> QED
      BY <3>1, <3>7, <2>1, <1>r, SaveMovesKeepsInv
  <2> QED
    BY <1>1, <2>2, <2>3 DEF SaveCheck
<1>2. CASE SaveFails(e)
  <2>1. Answer(e, "error", NoDraft) /\ UNCHANGED <<draft, attempt, get, known, conflict>>
    BY <1>2 DEF SaveFails, server, page
  <2> QED
    BY <2>1, <1>o
<1>s. ASSUME NEW content, NEW basis, SendSave(e, content, basis), Outdated(basis),
             UNCHANGED <<draft, attempt, get, known>>, DOMAIN conflict' = Editors,
             \A f \in Editors : conflict'[f] # NoConflict => Outdated(conflict'[f].server)
      PROVE  StoreInv'
  <2> DEFINE save == [phase |-> "sent", content |-> content, basis |-> basis, row |-> NoDraft]
  <2>1. put' = [put EXCEPT ![e] = save]
    BY <1>s DEF SendSave
  <2>2. SaveOK(save) /\ ~In(save, {"checked"})
    BY <1>s DEF SaveOK, In
  <2> HIDE DEF save
  <2> QED
    BY <2>1, <2>2, <1>s, <1>r, SaveMovesKeepsInv
<1>i. ASSUME put' = [put EXCEPT ![e] = Idle], UNCHANGED <<draft, attempt, get>>,
             DOMAIN known' = Clients, \A f \in Clients : Outdated(known'[f]),
             DOMAIN conflict' = Editors,
             \A f \in Editors : conflict'[f] # NoConflict => Outdated(conflict'[f].server)
      PROVE  StoreInv'
  <2>1. SaveOK(Idle) /\ ~In(Idle, {"checked"})
    BY DEF SaveOK, In
  <2> QED
    BY <1>i, <2>1, SaveMovesKeepsInv
<1>3. CASE e \in Callers /\ Call(e)
  <2>1. PICK content : SendSave(e, content, known[e])
    BY <1>3 DEF Call
  <2>2. UNCHANGED <<draft, attempt, get, known, conflict>>
    BY <1>3 DEF Call, server, page
  <2> QED
    BY <2>1, <2>2, <1>r, <1>s
<1>4. CASE e \in Callers /\ CallAnswered(e)
  <2>1. put' = [put EXCEPT ![e] = Idle] /\ UNCHANGED <<draft, attempt, get, known, conflict>>
    BY <1>4 DEF CallAnswered, server, page
  <2> QED
    BY <2>1, <1>r, <1>i
<1>5. CASE e \in Editors /\ Save(e)
  <2>1. SendSave(e, text[e], known[e]) /\ UNCHANGED <<draft, attempt, get, known, conflict>>
    BY <1>5 DEF Save, server, page
  <2> QED
    BY <2>1, <1>r, <1>s
<1>6. CASE e \in Editors /\ Overwrite(e)
  <2>1. /\ conflict[e] # NoConflict /\ SendSave(e, conflict[e].local, conflict[e].server)
        /\ conflict' = [conflict EXCEPT ![e] = NoConflict] /\ UNCHANGED <<draft, attempt, get, known>>
    BY <1>6 DEF Overwrite, server
  <2>2. /\ DOMAIN conflict' = Editors
        /\ \A f \in Editors : conflict'[f] # NoConflict => Outdated(conflict'[f].server)
    BY <2>1, <1>r
  <2> QED
    BY <2>1, <2>2, <1>6, <1>r, <1>s
<1>7. CASE e \in Editors /\ ReadRefused(e)
  <2>1. PICK row \in {draft, NoDraft} : Answer(e, "read", row)
    BY <1>7 DEF ReadRefused
  <2>2. UNCHANGED <<draft, attempt, get, known, conflict>>
    BY <1>7 DEF ReadRefused, server, page
  <2> QED
    BY <2>1, <2>2, <1>r, <1>o
<1>8. CASE e \in Editors /\ SaveAnswered(e)
  <2>1. put' = [put EXCEPT ![e] = Idle] /\ UNCHANGED <<draft, attempt, get>>
    BY <1>8 DEF SaveAnswered, server
  <2>2. In(put[e], {"ok", "read"}) => Outdated(put[e].row)
    BY DEF StoreInv, SaveOK
  <2>3. DOMAIN known' = Clients /\ \A f \in Clients : Outdated(known'[f])
    BY <1>8, <1>r, <2>2 DEF SaveAnswered, Succeeds, In
  <2>4. /\ DOMAIN conflict' = Editors
        /\ \A f \in Editors : conflict'[f] # NoConflict => Outdated(conflict'[f].server)
    BY <1>8, <1>r, <2>2 DEF SaveAnswered, Succeeds, In
  <2> QED
    BY <2>1, <2>3, <2>4, <1>i
<1> QED
  BY <1>1, <1>2, <1>3, <1>4, <1>5, <1>6, <1>7, <1>8

\* A save that was checked writes over the row it checked: the only one that can.
LEMMA WriteKeepsInv ==
  ASSUME StoreInv, NEW e \in Clients, SaveWrite(e)
  PROVE  StoreInv' /\ draft = put[e].basis
<1>1. /\ In(put[e], {"checked"}) /\ Checked(e) /\ UNCHANGED <<attempt, get, known, conflict>>
      /\ attempt = NoAttempt
  BY DEF SaveWrite, In, Checked, page
<1>2. put[e].row = draft /\ put[e].basis = draft
  BY <1>1 DEF StoreInv, SaveOK
<1>3. \A f \in Clients : f # e => ~Checked(f)
  BY <1>1 DEF StoreInv, OneSaveChecked
<1>4. \/ draft' = draft
      \/ draft' = Written(put[e].row, put[e].content)
  BY DEF SaveWrite
<1>5. draft.revision \in Nat /\ draft'.revision \in Nat /\ (draft' = draft \/ draft.revision < draft'.revision)
  BY <1>2, <1>4, RevisionIsThere DEF StoreInv
<1>6. \A row : Outdated(row) => Outdated(row)'
  BY <1>5, DraftGrows
<1>7. PICK answer \in {"ok", "error"}, row \in {draft', NoDraft} :
        Answer(e, answer, row) /\ (answer = "ok" => row = draft')
  BY DEF SaveWrite
<1>8. PICK save : put' = [put EXCEPT ![e] = save] /\ save.phase = answer /\ save.row = row
  <2>1. e \in DOMAIN put
    BY DEF StoreInv
  <2> QED
    BY <2>1, <1>7, AnsweredIs
<1>9. DOMAIN put' = Clients /\ \A f \in Clients : put'[f] = IF f = e THEN save ELSE put[f]
  BY <1>8 DEF StoreInv
<1>10. SaveOK(save)'
  BY <1>5, <1>7, <1>8 DEF SaveOK, In, Outdated
<1>11. \A f \in Clients : SaveOK(put[f])'
  <2>1. \A f \in Clients : f # e => SaveOK(put[f])'
    <3> SUFFICES ASSUME NEW f \in Clients, f # e PROVE SaveOK(put[f])'
      OBVIOUS
    <3>1. put'[f] = put[f] /\ ~In(put[f], {"checked"}) /\ SaveOK(put[f])
      BY <1>3, <1>9 DEF StoreInv, Checked
    <3> QED
      BY <3>1, <1>6 DEF SaveOK
  <2>2. SaveOK(put[e])'
    BY <1>9, <1>10 DEF SaveOK
  <2> QED
    BY <2>1, <2>2
<1>12. \A f \in Clients : ~Checked(f)'
  BY <1>3, <1>7, <1>8, <1>9 DEF Checked, In
<1>13. \A f \in Clients : Outdated(known[f])'
  BY <1>1, <1>6 DEF StoreInv
<1>14. \A f \in Editors : PageOK(f)'
  BY <1>1, <1>6 DEF StoreInv, PageOK
<1>15. AttemptOK'
  BY <1>1 DEF AttemptOK
<1>16. /\ DOMAIN known' = Clients /\ DOMAIN conflict' = Editors /\ DOMAIN get' = Editors
       /\ Outdated(NoDraft)'
  BY <1>1, <1>6 DEF StoreInv
<1> QED
  BY <1>2, <1>5, <1>9, <1>11, <1>12, <1>13, <1>14, <1>15, <1>16 DEF StoreInv, OneSaveChecked

\* What a page does beside its saves.
LEMMA PagesKeepInv ==
  ASSUME StoreInv,
         \/ \E c \in Callers : Look(c)
         \/ \E e \in Editors : \/ OpenPage(e) \/ Type(e) \/ UseServerContent(e) \/ Reload(e)
                               \/ ServeDraft(e) \/ Adopt(e) \/ ReadFails(e)
  PROVE  StoreInv'
<1>r. /\ DOMAIN known = Clients /\ \A f \in Clients : Outdated(known[f])
      /\ DOMAIN conflict = Editors
      /\ \A f \in Editors : conflict[f] # NoConflict => Outdated(conflict[f].server)
      /\ DOMAIN put = Clients
      /\ Outdated(draft) /\ Outdated(NoDraft)
  BY RestStays
<1>g. DOMAIN get = Editors /\ \A f \in Editors : PageOK(f)
  BY DEF StoreInv
<1>1. ASSUME UNCHANGED <<draft, attempt, put>>,
             DOMAIN known' = Clients, \A f \in Clients : Outdated(known'[f]),
             DOMAIN conflict' = Editors,
             \A f \in Editors : conflict'[f] # NoConflict => Outdated(conflict'[f].server),
             DOMAIN get' = Editors,
             \A f \in Editors : /\ In(get'[f], {"sent"}) => DOMAIN get'[f] = {"phase", "asked", "row"}
                                /\ In(get'[f], {"ok"}) => Outdated(get'[f].row)
      PROVE  StoreInv'
  <2>1. \A row : Outdated(row) => Outdated(row)'
    BY <1>1, DraftStays
  <2>2. \A f \in Clients : SaveOK(put[f])' /\ Outdated(known[f])'
    <3>1. \A f \in Clients : SaveOK(put[f])
      BY DEF StoreInv
    <3>2. \A f \in Clients : SaveOK(put[f])'
      BY <1>1, <3>1, <2>1 DEF SaveOK
    <3> QED
      BY <1>1, <3>2 DEF Outdated
  <2>3. \A f \in Editors : PageOK(f)'
    BY <1>1 DEF PageOK, Outdated
  <2>4. AttemptOK' /\ OneSaveChecked' /\ Outdated(NoDraft)'
    BY <1>1, <1>r, <2>1 DEF StoreInv, AttemptOK, OneSaveChecked, Checked
  <2> QED
    BY <1>1, <2>2, <2>3, <2>4 DEF StoreInv
<1>2. ASSUME NEW c \in Callers, Look(c) PROVE StoreInv'
  <2>1. known' = [known EXCEPT ![c] = draft] /\ UNCHANGED <<draft, attempt, put, get, conflict>>
    BY <1>2 DEF Look, server
  <2>2. DOMAIN known' = Clients /\ \A f \in Clients : Outdated(known'[f])
    BY <2>1, <1>r
  <2> QED
    BY <2>1, <2>2, <1>r, <1>g, <1>1 DEF PageOK
<1>3. ASSUME NEW e \in Editors, Type(e) \/ UseServerContent(e) PROVE StoreInv'
  <2>1. /\ UNCHANGED <<draft, attempt, put, get>>
        /\ \/ UNCHANGED <<known, conflict>>
           \/ /\ conflict[e] # NoConflict
              /\ known' = [known EXCEPT ![e] = conflict[e].server]
              /\ conflict' = [conflict EXCEPT ![e] = NoConflict]
    BY <1>3 DEF Type, UseServerContent, server
  <2>2. /\ DOMAIN known' = Clients /\ \A f \in Clients : Outdated(known'[f])
        /\ DOMAIN conflict' = Editors
        /\ \A f \in Editors : conflict'[f] # NoConflict => Outdated(conflict'[f].server)
    BY <2>1, <1>r
  <2> QED
    BY <2>1, <2>2, <1>g, <1>1 DEF PageOK
<1>4. ASSUME NEW e \in Editors, OpenPage(e) \/ Reload(e) \/ ServeDraft(e) \/ Adopt(e) \/ ReadFails(e)
      PROVE  StoreInv'
  <2>1. PICK request : get' = [get EXCEPT ![e] = request]
                       /\ (In(request, {"sent"}) => DOMAIN request = {"phase", "asked", "row"})
                       /\ (In(request, {"ok"}) => Outdated(request.row))
    <3>1. CASE OpenPage(e) \/ Reload(e)
      <4>1. PICK asked : get' = [get EXCEPT ![e] = [phase |-> "sent", asked |-> asked, row |-> NoDraft]]
        BY <3>1 DEF OpenPage, Reload
      <4> DEFINE request == [phase |-> "sent", asked |-> asked, row |-> NoDraft]
      <4>2. request.phase = "sent" /\ DOMAIN request = {"phase", "asked", "row"}
        OBVIOUS
      <4>3. get' = [get EXCEPT ![e] = request]
        BY <4>1
      <4> HIDE DEF request
      <4> QED
        BY <4>2, <4>3 DEF In
    <3>2. CASE ServeDraft(e)
      <4> DEFINE request == [get[e] EXCEPT !.phase = "ok", !.row = draft]
      <4>1. get' = [get EXCEPT ![e] = request] /\ In(get[e], {"sent"})
        BY <3>2, <1>g DEF ServeDraft, In
      <4>2. DOMAIN get[e] = {"phase", "asked", "row"}
        BY <4>1, <1>g DEF PageOK
      <4>3. \A x : DOMAIN x = {"phase", "asked", "row"} =>
              LET y == [x EXCEPT !.phase = "ok", !.row = draft] IN y.phase = "ok" /\ y.row = draft
        OBVIOUS
      <4>4. request.phase = "ok" /\ request.row = draft
        BY <4>2, <4>3
      <4> HIDE DEF request
      <4> QED
        BY <4>1, <4>4, <1>r DEF In
    <3>3. CASE Adopt(e) \/ ReadFails(e)
      BY <3>3 DEF Adopt, ReadFails, In
    <3> QED
      BY <1>4, <3>1, <3>2, <3>3
  <2>2. /\ DOMAIN get' = Editors
        /\ \A f \in Editors : /\ In(get'[f], {"sent"}) => DOMAIN get'[f] = {"phase", "asked", "row"}
                              /\ In(get'[f], {"ok"}) => Outdated(get'[f].row)
    BY <2>1, <1>g DEF PageOK
  <2>3. UNCHANGED <<draft, attempt, put>>
    BY <1>4 DEF OpenPage, Reload, ServeDraft, Adopt, ReadFails, server
  <2>4. /\ DOMAIN known' = Clients /\ \A f \in Clients : Outdated(known'[f])
        /\ DOMAIN conflict' = Editors
        /\ \A f \in Editors : conflict'[f] # NoConflict => Outdated(conflict'[f].server)
    <3>1. /\ UNCHANGED known \/ (In(get[e], {"ok"}) /\ known' = [known EXCEPT ![e] = get[e].row])
          /\ UNCHANGED conflict \/ conflict' = [conflict EXCEPT ![e] = NoConflict]
      BY <1>4 DEF OpenPage, Reload, ServeDraft, Adopt, ReadFails, page, In
    <3>2. In(get[e], {"ok"}) => Outdated(get[e].row)
      BY <1>g DEF PageOK
    <3> QED
      BY <3>1, <3>2, <1>r
  <2> QED
    BY <2>2, <2>3, <2>4, <1>1
<1> QED
  BY <1>2, <1>3, <1>4

LEMMA StoreStepKeepsInv == ~Interleaved /\ StoreInv /\ [StoreNext]_storeVars => StoreInv'
<1> SUFFICES ASSUME ~Interleaved, StoreInv, [StoreNext]_storeVars PROVE StoreInv'
  OBVIOUS
<1>1. CASE UNCHANGED storeVars
  <2>1. UNCHANGED <<draft, attempt, put, known, conflict, get>>
    BY <1>1 DEF storeVars, server, page
  <2>2. \A row : Outdated(row) => Outdated(row)'
    BY <2>1, DraftStays
  <2>3. \A f \in Clients : SaveOK(put[f])' /\ Outdated(known[f])'
    BY <2>1, <2>2 DEF StoreInv, SaveOK
  <2>4. \A f \in Editors : PageOK(f)'
    BY <2>1, <2>2 DEF StoreInv, PageOK
  <2>5. AttemptOK' /\ OneSaveChecked'
    BY <2>1 DEF StoreInv, AttemptOK, OneSaveChecked, Checked
  <2> QED
    BY <2>1, <2>2, <2>3, <2>4, <2>5 DEF StoreInv
<1>2. CASE StartRun \/ Delta \/ CacheHit \/ AbortRun
  BY <1>2, WorkerKeepsInv
<1>3. CASE CommitRun
  BY <1>3, CommitKeepsInv
<1>4. ASSUME NEW e \in Clients,
             \/ SaveCheck(e) \/ SaveFails(e)
             \/ e \in Callers /\ (Call(e) \/ CallAnswered(e))
             \/ e \in Editors /\ (Save(e) \/ Overwrite(e) \/ ReadRefused(e) \/ SaveAnswered(e))
      PROVE  StoreInv'
  BY <1>4, SavesKeepInv
<1>5. ASSUME NEW e \in Clients, SaveWrite(e) PROVE StoreInv'
  BY <1>5, WriteKeepsInv
<1>6. Callers \subseteq Clients /\ Editors \subseteq Clients
  BY DEF Clients
<1> QED
  BY <1>1, <1>2, <1>3, <1>4, <1>5, <1>6, PagesKeepInv DEF StoreNext

\* Were the check and the write of a save one step, no save would replace a text its editor
\* was not shown, whatever is typed, streamed, lost and answered late (drafts.py:9); the run
\* DraftLostUpdate shows what the gap between the two does.
THEOREM ComparedAndSwapped ==
  ASSUME ~Interleaved
  PROVE  StoreSpec => NothingUnseenLost
<1>1. ASSUME StoreInv, [StoreNext]_storeVars
      PROVE  [\A e \in Clients : SaveWrite(e) /\ draft' # draft => draft = put[e].basis]_storeVars
  BY <1>1, WriteKeepsInv
<1>2. ~Interleaved
  OBVIOUS
<1>3. StoreInv /\ [StoreNext]_storeVars => StoreInv'
  BY <1>2, StoreStepKeepsInv
<1>4. StoreSpec => []StoreInv
  BY <1>3, StoreStarts, PTL DEF StoreSpec
<1> QED
  BY <1>1, <1>4, PTL DEF StoreSpec, NothingUnseenLost

\* The view of a job only reads: beside it the store runs as if it were alone
\* (draft_service.py, useJobDraftStream.ts).
THEOREM ViewOnlyReads == ReaderSpec => StoreSpec
<1>1. ReaderInit => StoreInit
  BY DEF ReaderInit
<1>2. [ReaderNext]_allDraftVars => [StoreNext]_storeVars
  BY DEF ReaderNext, allDraftVars, StoreStep, OpenView, SnapRead, SnapArrives, SnapFails, Resync, StreamRead,
     EventArrives, Reconnect
<1> QED
  BY <1>1, <1>2, PTL DEF ReaderSpec, StoreSpec

-----------------------------------------------------------------------------
(* What the page shows.  The texts are typed first: how long a joined text *)
(* is can be said of sequences only.                                       *)

Text == Seq(Letters)
Texts == [Segments -> Text]
Content == [Segments -> Text \cup {NoText}]
Rows == {NoDraft} \cup [revision : Nat, content : Content]

Sending == [phase : {"sent", "checked"}, content : Content, basis : Rows, row : Rows]
Answered == [phase : {"ok", "conflict", "read", "error"}, content : Content, row : Rows]
Attempts == [stream : Streams, segment : Nat, next : Nat \ {0}, text : Texts, draft : Rows]
Conflicts == [server : Rows, local : Content]
Loads == [phase : {"sent", "ok"}, asked : BOOLEAN, row : Rows]

StoreTypeOK ==
  /\ draft \in Rows
  /\ runs \in Seq(Texts)
  /\ attempt \in {NoAttempt} \cup Attempts
  /\ text \in [Editors -> Content]
  /\ known \in [Clients -> Rows]
  /\ conflict \in [Editors -> {NoConflict} \cup Conflicts]
  /\ put \in [Clients -> {Idle} \cup Sending \cup Answered]
  /\ get \in [Editors -> {Idle} \cup Loads]

-----------------------------------------------------------------------------
(* Joining texts.                                                        *)

\* f joins the texts of t one after the other.
Joins(f, t) ==
  f = [i \in 1..Len(t) |-> IF i = 1 THEN t[i] ELSE f[i-1] \o t[i]]

LEMMA JoinFacts ==
  ASSUME NEW t \in Seq(Text), NEW f, Joins(f, t)
  PROVE  /\ DOMAIN f = 1..Len(t)
         /\ Len(t) > 0 => f[1] = t[1]
         /\ \A i \in 2..Len(t) : f[i] = f[i-1] \o t[i]
<1>1. DOMAIN f = 1..Len(t) /\ Len(t) \in Nat
  BY DEF Joins
<1>2. ASSUME NEW i \in 1..Len(t) PROVE f[i] = IF i = 1 THEN t[i] ELSE f[i-1] \o t[i]
  BY Zenon DEF Joins
<1>3. ASSUME Len(t) > 0 PROVE f[1] = t[1]
  <2>1. 1 \in 1..Len(t)
    BY <1>1, <1>3
  <2> QED
    BY <2>1, <1>2, Zenon
<1>4. ASSUME NEW i \in 2..Len(t) PROVE f[i] = f[i-1] \o t[i]
  <2>1. i \in 1..Len(t) /\ i # 1
    BY <1>1
  <2> QED
    BY <2>1, <1>2, Zenon
<1> QED
  BY <1>1, <1>3, <1>4

LEMMA JoinedIsText ==
  ASSUME NEW t \in Seq(Text), NEW f, Joins(f, t)
  PROVE  /\ \A i \in 1..Len(t) : f[i] \in Text
         /\ \A i \in 1..Len(t) : Len(f[i]) =< Len(f[Len(t)])
<1>f. /\ DOMAIN f = 1..Len(t) /\ Len(t) \in Nat
      /\ Len(t) > 0 => f[1] = t[1]
      /\ \A i \in 2..Len(t) : f[i] = f[i-1] \o t[i]
      /\ \A i \in 1..Len(t) : t[i] \in Text
  <2>1. Len(t) \in Nat /\ \A i \in 1..Len(t) : t[i] \in Text
    OBVIOUS
  <2>2. /\ DOMAIN f = 1..Len(t)
        /\ Len(t) > 0 => f[1] = t[1]
        /\ \A i \in 2..Len(t) : f[i] = f[i-1] \o t[i]
    BY JoinFacts, Zenon
  <2> QED
    BY <2>1, <2>2, Zenon
<1> DEFINE S == {n \in Nat : \A i \in 1..n : i =< Len(t) => f[i] \in Text}
<1>1. S = Nat
  <2>1. S \in SUBSET Nat /\ 0 \in S
    OBVIOUS
  <2>2. ASSUME NEW n \in S PROVE n + 1 \in S
    <3>1. n \in Nat /\ \A i \in 1..n : i =< Len(t) => f[i] \in Text
      OBVIOUS
    <3>2. n + 1 =< Len(t) => f[n + 1] \in Text
      <4>1. CASE n = 0
        BY <4>1, <1>f
      <4>2. CASE n # 0 /\ n + 1 =< Len(t)
        <5>1. n + 1 \in 2..Len(t) /\ (n + 1) - 1 = n /\ n \in 1..n /\ n =< Len(t) /\ n + 1 \in 1..Len(t)
          BY <3>1, <4>2, <1>f
        <5>2. f[n + 1] = f[n] \o t[n + 1] /\ f[n] \in Text /\ t[n + 1] \in Text
          BY <5>1, <3>1, <1>f
        <5> QED
          BY <5>2 DEF Text
      <4> QED
        BY <4>1, <4>2
    <3>3. \A i \in 1..(n + 1) : i \in 1..n \/ i = n + 1
      BY <3>1
    <3> QED
      BY <3>1, <3>2, <3>3
  <2> HIDE DEF S
  <2> QED
    BY <2>1, <2>2, SetInduction
<1>2. \A i \in 1..Len(t) : f[i] \in Text
  <2> TAKE i \in 1..Len(t)
  <2>1. i \in S /\ i \in 1..i /\ i =< Len(t)
    BY <1>1, <1>f
  <2> QED
    BY <2>1
<1> HIDE DEF S
<1> DEFINE G == {n \in Nat : \A i \in 1..Len(t) : i + n =< Len(t) => Len(f[i]) =< Len(f[i + n])}
<1>3. G = Nat
  <2>1. G \in SUBSET Nat
    OBVIOUS
  <2>2. 0 \in G
    <3>1. \A i \in 1..Len(t) : i + 0 = i /\ Len(f[i]) \in Nat
      BY <1>2, <1>f DEF Text
    <3> QED
      BY <3>1
  <2>3. ASSUME NEW n \in G PROVE n + 1 \in G
    <3>1. n \in Nat /\ \A i \in 1..Len(t) : i + n =< Len(t) => Len(f[i]) =< Len(f[i + n])
      OBVIOUS
    <3>2. ASSUME NEW i \in 1..Len(t), i + (n + 1) =< Len(t) PROVE Len(f[i]) =< Len(f[i + (n + 1)])
      <4>1. PICK k \in 1..Len(t) : k = i + n
        BY <3>1, <3>2, <1>f
      <4>2. i + (n + 1) = k + 1 /\ k + 1 \in 2..Len(t) /\ (k + 1) - 1 = k /\ k + 1 \in 1..Len(t)
        BY <3>1, <3>2, <4>1, <1>f
      <4>3. f[k + 1] = f[k] \o t[k + 1] /\ f[k] \in Text /\ t[k + 1] \in Text
        BY <4>2, <1>2, <1>f
      <4>4. Len(f[k + 1]) = Len(f[k]) + Len(t[k + 1]) /\ Len(t[k + 1]) \in Nat /\ Len(f[k]) \in Nat
        BY <4>3 DEF Text
      <4>5. Len(f[i]) =< Len(f[k]) /\ Len(f[i]) \in Nat
        <5>1. i + n =< Len(t)
          BY <4>1, <1>f
        <5> QED
          BY <5>1, <4>1, <3>1, <1>2 DEF Text
      <4> DEFINE sum == Len(f[k]) + Len(t[k + 1])
      <4>6. Len(f[i]) =< sum
        <5>1. \A a, b, c \in Nat : a =< b => a =< b + c
          OBVIOUS
        <5> QED
          BY <5>1, <4>4, <4>5, Zenon
      <4>7. Len(f[i + (n + 1)]) = sum
        BY <4>2, <4>4, Zenon
      <4> QED
        BY <4>6, <4>7, Zenon
    <3> QED
      BY <3>1, <3>2
  <2> HIDE DEF G
  <2> QED
    BY <2>1, <2>2, <2>3, SetInduction
<1>4. \A i \in 1..Len(t) : Len(f[i]) =< Len(f[Len(t)])
  <2> TAKE i \in 1..Len(t)
  <2>1. Len(t) - i \in Nat /\ i + (Len(t) - i) = Len(t)
    BY <1>f
  <2>2. Len(t) - i \in G
    BY <2>1, <1>3
  <2> QED
    BY <2>1, <2>2
<1> QED
  BY <1>2, <1>4

\* A prefix is joined the same way.
LEMMA PrefixJoinsAlike ==
  ASSUME NEW t \in Seq(Text), NEW u \in Seq(Text), NEW f, NEW g, Joins(f, t), Joins(g, u),
         Len(u) =< Len(t), \A i \in 1..Len(u) : u[i] = t[i]
  PROVE  \A i \in 1..Len(u) : g[i] = f[i]
<1>f. /\ Len(t) \in Nat /\ Len(u) \in Nat
      /\ Len(t) > 0 => f[1] = t[1]
      /\ \A i \in 2..Len(t) : f[i] = f[i-1] \o t[i]
  <2>1. Len(t) \in Nat /\ Len(u) \in Nat
    OBVIOUS
  <2>2. /\ DOMAIN f = 1..Len(t)
        /\ Len(t) > 0 => f[1] = t[1]
        /\ \A i \in 2..Len(t) : f[i] = f[i-1] \o t[i]
    BY JoinFacts, Zenon
  <2> QED
    BY <2>1, <2>2, Zenon
<1>g. /\ Len(u) > 0 => g[1] = u[1]
      /\ \A i \in 2..Len(u) : g[i] = g[i-1] \o u[i]
  <2>1. /\ DOMAIN g = 1..Len(u)
        /\ Len(u) > 0 => g[1] = u[1]
        /\ \A i \in 2..Len(u) : g[i] = g[i-1] \o u[i]
    BY JoinFacts, Zenon
  <2> QED
    BY <2>1, Zenon
<1> DEFINE S == {n \in Nat : \A i \in 1..n : i =< Len(u) => g[i] = f[i]}
<1>1. S \in SUBSET Nat /\ 0 \in S
  OBVIOUS
<1>2. ASSUME NEW n \in Nat, n \in S PROVE n + 1 \in S
  <2>1. \A i \in 1..n : i =< Len(u) => g[i] = f[i]
    BY <1>2
  <2>2. ASSUME n + 1 =< Len(u) PROVE g[n + 1] = f[n + 1]
    <3>1. CASE n = 0
      <4>1. Len(u) > 0 /\ Len(t) > 0 /\ 1 \in 1..Len(u)
        BY <2>2, <3>1, <1>f
      <4> QED
        BY <3>1, <4>1, <1>f, <1>g
    <3>2. CASE n # 0
      <4>1. PICK m \in 2..Len(u) : m = n + 1
        BY <2>2, <3>2, <1>f
      <4>2. m \in 2..Len(t) /\ m \in 1..Len(u) /\ m - 1 = n /\ n \in 1..n /\ n =< Len(u)
        BY <4>1, <1>f
      <4>3. g[n] = f[n]
        BY <2>1, <4>2
      <4>4. g[m] = g[m - 1] \o u[m] /\ f[m] = f[m - 1] \o t[m] /\ u[m] = t[m]
        BY <4>1, <4>2, <1>f, <1>g
      <4> QED
        BY <4>1, <4>2, <4>3, <4>4, Zenon
    <3> QED
      BY <3>1, <3>2
  <2>3. \A i \in 1..(n + 1) : i \in 1..n \/ i = n + 1
    OBVIOUS
  <2> QED
    BY <2>1, <2>2, <2>3
<1> HIDE DEF S
<1>3. S = Nat
  BY <1>1, <1>2, SetInduction
<1> QED
  <2> TAKE i \in 1..Len(u)
  <2>1. i \in S /\ i \in 1..i /\ i =< Len(u)
    BY <1>3, <1>f
  <2> QED
    BY <2>1 DEF S

\* There is such a function, so the recursive one of FlattenSeq is one.
LEMMA SomethingJoins ==
  ASSUME NEW t \in Seq(Text)
  PROVE  \E f : Joins(f, t)
<1> DEFINE Walk(f, n) == /\ DOMAIN f = 1..n
                         /\ \A i \in 1..n : f[i] = IF i = 1 THEN t[i] ELSE f[i-1] \o t[i]
           S == {n \in Nat : \E f : Walk(f, n)}
<1>1. S \in SUBSET Nat
  OBVIOUS
<1>2. 0 \in S
  <2>1. Walk(<<>>, 0)
    OBVIOUS
  <2> QED
    BY <2>1
<1>3. ASSUME NEW n \in Nat, n \in S PROVE n + 1 \in S
  <2>1. PICK f : Walk(f, n)
    BY <1>3
  <2> DEFINE last == IF n + 1 = 1 THEN t[n + 1] ELSE f[n] \o t[n + 1]
             g == [i \in 1..(n + 1) |-> IF i = n + 1 THEN last ELSE f[i]]
  <2>2. \A i \in 1..(n + 1) : i \in 1..n \/ i = n + 1
    OBVIOUS
  <2>3. \A i \in 1..n : g[i] = f[i]
    OBVIOUS
  <2>4. g[n + 1] = last
    OBVIOUS
  <2>5. DOMAIN g = 1..(n + 1)
    OBVIOUS
  <2> HIDE DEF g
  <2>6. \A i \in 1..(n + 1) : g[i] = IF i = 1 THEN t[i] ELSE g[i-1] \o t[i]
    <3> TAKE i \in 1..(n + 1)
    <3>1. CASE i \in 1..n
      <4>1. f[i] = IF i = 1 THEN t[i] ELSE f[i-1] \o t[i]
        BY <2>1, <3>1
      <4>2. i # 1 => i - 1 \in 1..n
        BY <3>1
      <4>3. g[i] = f[i] /\ (i # 1 => g[i - 1] = f[i - 1])
        BY <2>3, <3>1, <4>2
      <4> QED
        BY <4>1, <4>3, Zenon
    <3>2. CASE i = n + 1
      <4>1. i # 1 => i - 1 = n /\ n \in 1..n
        BY <3>2
      <4>2. i # 1 => g[i - 1] = f[n]
        BY <4>1, <2>3
      <4> QED
        BY <3>2, <4>2, <2>4, Zenon
    <3> QED
      BY <2>2, <3>1, <3>2
  <2>7. Walk(g, n + 1)
    BY <2>5, <2>6, Zenon
  <2> HIDE DEF Walk
  <2> QED
    BY <2>7
<1> HIDE DEF S
<1>4. Len(t) \in S
  BY <1>1, <1>2, <1>3, SetInduction
<1>5. PICK f : Walk(f, Len(t))
  BY <1>4 DEF S
<1> DEFINE g == [i \in 1..Len(t) |-> f[i]]
<1>6. \A i \in 1..Len(t) : g[i] = f[i] /\ (i # 1 => g[i-1] = f[i-1])
  OBVIOUS
<1>7. g = [i \in 1..Len(t) |-> IF i = 1 THEN t[i] ELSE g[i-1] \o t[i]]
  <2>1. \A i \in 1..Len(t) : f[i] = IF i = 1 THEN t[i] ELSE g[i-1] \o t[i]
    <3> TAKE i \in 1..Len(t)
    <3>1. f[i] = IF i = 1 THEN t[i] ELSE f[i-1] \o t[i]
      BY <1>5
    <3> HIDE DEF g
    <3> QED
      BY <3>1, <1>6, Zenon
  <2> DEFINE h == [i \in 1..Len(t) |-> IF i = 1 THEN t[i] ELSE g[i-1] \o t[i]]
  <2>2. g = h
    <3> DEFINE e(i) == IF i = 1 THEN t[i] ELSE g[i-1] \o t[i]
    <3>1. \A i \in 1..Len(t) : f[i] = e(i)
      BY <2>1
    <3>2. h = [i \in 1..Len(t) |-> e(i)]
      OBVIOUS
    <3> HIDE DEF e, h
    <3> QED
      BY <3>1, <3>2
  <2> QED
    BY <2>2
<1> HIDE DEF g
<1>8. Joins(g, t)
  BY <1>7 DEF Joins
<1> QED
  BY <1>8

LEMMA FlattenIs ==
  ASSUME NEW t \in Seq(Text), Len(t) > 0
  PROVE  \E f : Joins(f, t) /\ FlattenSeq(t) = f[Len(t)]
<1> DEFINE flatten == CHOOSE f : f = [i \in 1..Len(t) |-> IF i = 1 THEN t[i] ELSE f[i-1] \o t[i]]
<1>1. FlattenSeq(t) = flatten[Len(t)]
  BY DEF FlattenSeq
<1>2. \E f : f = [i \in 1..Len(t) |-> IF i = 1 THEN t[i] ELSE f[i-1] \o t[i]]
  BY SomethingJoins, Zenon DEF Joins
<1>3. flatten = [i \in 1..Len(t) |-> IF i = 1 THEN t[i] ELSE flatten[i-1] \o t[i]]
  BY <1>2, Zenon
<1> HIDE DEF flatten
<1>4. Joins(flatten, t)
  BY <1>3, Zenon DEF Joins
<1> QED
  BY <1>1, <1>4

\* A joined text is a text, and the join of a prefix is no longer than it.
LEMMA FlattenFacts ==
  ASSUME NEW t \in Seq(Text)
  PROVE  /\ FlattenSeq(t) \in Text
         /\ \A k \in 1..Len(t) : Len(FlattenSeq(SubSeq(t, 1, k))) =< Len(FlattenSeq(t))
<1>1. CASE Len(t) = 0
  <2>1. t = <<>> /\ FlattenSeq(t) = t /\ 1..Len(t) = {}
    BY <1>1 DEF FlattenSeq
  <2>2. \A S : <<>> \in Seq(S)
    OBVIOUS
  <2> QED
    BY <2>1, <2>2 DEF Text
<1>2. CASE Len(t) > 0
  <2>1. PICK f : Joins(f, t) /\ FlattenSeq(t) = f[Len(t)]
    BY <1>2, FlattenIs
  <2>2. /\ \A i \in 1..Len(t) : f[i] \in Text
        /\ \A i \in 1..Len(t) : Len(f[i]) =< Len(f[Len(t)])
    BY <2>1, JoinedIsText
  <2>3. Len(t) \in 1..Len(t)
    BY <1>2
  <2>4. ASSUME NEW k \in 1..Len(t)
        PROVE  Len(FlattenSeq(SubSeq(t, 1, k))) =< Len(FlattenSeq(t))
    <3>a. /\ SubSeq(t, 1, k) \in Seq(Text) /\ Len(SubSeq(t, 1, k)) = k
          /\ \A i \in 1..k : SubSeq(t, 1, k)[i] = t[i]
      BY SubSeqProperties
    <3>1. PICK u \in Seq(Text) : u = SubSeq(t, 1, k)
      BY <3>a
    <3>2. Len(u) = k /\ \A i \in 1..k : u[i] = t[i]
      BY <3>a, <3>1
    <3>3. PICK g : Joins(g, u) /\ FlattenSeq(u) = g[k]
      BY <3>2, FlattenIs
    <3>4. \A i \in 1..Len(u) : g[i] = f[i]
      <4>1. Len(u) =< Len(t) /\ \A i \in 1..Len(u) : u[i] = t[i]
        BY <3>2
      <4> QED
        BY <4>1, <2>1, <3>3, PrefixJoinsAlike
    <3>5. g[k] = f[k]
      BY <3>2, <3>4
    <3> QED
      BY <2>1, <2>2, <3>1, <3>3, <3>5
  <2> QED
    BY <2>1, <2>2, <2>3, <2>4
<1> QED
  BY <1>1, <1>2

-----------------------------------------------------------------------------
(* Types of the store.                                                   *)

LEMMA RowFacts ==
  /\ NoDraft \in Rows /\ Empty \in Content /\ Texts \subseteq Content
  /\ \A row \in Rows : ContentOf(row) \in Content /\ RevisionOf(row) \in Nat
  /\ \A row \in Rows, content \in Content : Written(row, content) \in Rows
  /\ \A t \in Text \cup {NoText} : Blank(t) \in Text
<1>1. NoDraft \in Rows /\ Empty \in Content /\ Texts \subseteq Content
  BY DEF Rows, Empty, Content, Texts
<1>2. \A row \in Rows : ContentOf(row) \in Content /\ RevisionOf(row) \in Nat
  BY <1>1 DEF Rows, ContentOf, RevisionOf
<1>3. \A row \in Rows, content \in Content : Written(row, content) \in Rows
  BY <1>2 DEF Written, Rows
<1>4. \A S : <<>> \in Seq(S)
  OBVIOUS
<1>5. \A t \in Text \cup {NoText} : Blank(t) \in Text
  BY <1>4 DEF Blank, Text
<1> QED
  BY <1>1, <1>2, <1>3, <1>5

LEMMA AppendedIsRow ==
  ASSUME NEW row \in Rows, NEW s \in Segments, NEW delta \in Text, NEW offset
  PROVE  Appended(row, s, delta, offset) \in Rows
<1> DEFINE old == Blank(ContentOf(row)[s])
           content == [ContentOf(row) EXCEPT ![s] = old \o delta]
<1>1. ContentOf(row) \in Content
  BY RowFacts
<1>2. ContentOf(row)[s] \in Text \cup {NoText}
  BY <1>1 DEF Content
<1>3. old \in Text
  BY <1>2, RowFacts
<1>4. old \o delta \in Text
  BY <1>3 DEF Text
<1>5. content \in Content
  BY <1>1, <1>4 DEF Content
<1>6. Written(row, content) \in Rows
  BY <1>5, RowFacts
<1>7. Appended(row, s, delta, offset) \in {row, Written(row, content)}
  BY DEF Appended
<1> QED
  BY <1>6, <1>7

LEMMA RestoredIsContent ==
  ASSUME text \in [Editors -> Content], NEW e \in Editors, NEW content \in Content
  PROVE  Restored(e, content) \in [Editors -> Content]
<1> DEFINE new == [s \in Segments |-> IF content[s] = NoText THEN text[e][s] ELSE content[s]]
<1>1. text[e] \in Content
  OBVIOUS
<1>2. new \in Content
  BY <1>1 DEF Content
<1>3. Restored(e, content) = [text EXCEPT ![e] = new]
  BY DEF Restored
<1> HIDE DEF new
<1> QED
  BY <1>2, <1>3

LEMMA StoreTypesStart == StoreInit => StoreTypeOK
<1> SUFFICES ASSUME StoreInit PROVE StoreTypeOK
  OBVIOUS
<1>1. \A S : <<>> \in Seq(S)
  OBVIOUS
<1> QED
  BY <1>1, RowFacts DEF StoreInit, StoreTypeOK

LEMMA WorkerTypes ==
  ASSUME StoreTypeOK, StartRun \/ Delta \/ CacheHit \/ CommitRun \/ AbortRun
  PROVE  StoreTypeOK'
<1>1. UNCHANGED <<text, known, conflict, put, get>>
  BY DEF StartRun, Delta, CacheHit, CommitRun, AbortRun, page
<1>a. ASSUME attempt # NoAttempt
      PROVE  /\ attempt \in Attempts
             /\ attempt.stream \in [Segments -> Seq(Text)]
             /\ attempt.text \in Texts /\ attempt.draft \in Rows
             /\ attempt.segment \in Nat /\ attempt.next \in Nat \ {0}
  BY <1>a, DraftAssumption DEF StoreTypeOK, Attempts, Text
<1>2. CASE StartRun
  <2>1. PICK stream \in Streams :
          attempt' = [stream |-> stream, segment |-> 1, next |-> 1,
                      text |-> [s \in Segments |-> <<>>], draft |-> draft]
    BY <1>2 DEF StartRun
  <2>2. \A S : <<>> \in Seq(S)
    OBVIOUS
  <2>3. attempt' \in Attempts
    BY <2>1, <2>2 DEF Attempts, Texts, Text, StoreTypeOK
  <2>4. UNCHANGED <<draft, runs>>
    BY <1>2 DEF StartRun
  <2> QED
    BY <1>1, <2>3, <2>4 DEF StoreTypeOK
<1>3. CASE Delta
  <2> DEFINE s == attempt.segment
             deltas == attempt.stream[s]
             offset == Len(attempt.text[s])
             delta == deltas[attempt.next]
  <2>1. attempt # NoAttempt /\ s \in Segments /\ UNCHANGED <<draft, runs>>
    BY <1>3 DEF Delta
  <2>2. /\ attempt \in Attempts /\ attempt.text \in Texts /\ attempt.draft \in Rows
        /\ deltas \in Seq(Text) /\ attempt.text[s] \in Text /\ s \in Nat
        /\ attempt.next \in Nat \ {0}
    BY <2>1, <1>a DEF Texts
  <2>3. \A x \in Attempts : \A t \in Texts, d \in Rows, n \in Nat \ {0}, m \in Nat :
          /\ [x EXCEPT !.next = n, !.text = t, !.draft = d] \in Attempts
          /\ [x EXCEPT !.segment = m, !.next = n] \in Attempts
    BY DEF Attempts
  <2>4. CASE attempt.next <= Len(deltas)
    <3> DEFINE joined == [attempt.text EXCEPT ![s] = attempt.text[s] \o delta]
               row == Appended(attempt.draft, s, delta, offset)
    <3>1. attempt' = [attempt EXCEPT !.next = attempt.next + 1, !.text[s] = attempt.text[s] \o delta,
                                     !.draft = row]
      BY <1>3, <2>4 DEF Delta
    <3>2. delta \in Text
      BY <2>2, <2>4
    <3>3. row \in Rows
      BY <2>1, <2>2, <3>2, AppendedIsRow
    <3>4. joined \in Texts
      <4>1. attempt.text[s] \o delta \in Text
        BY <2>2, <3>2 DEF Text
      <4> QED
        BY <4>1, <2>2 DEF Texts
    <3>5. attempt' = [attempt EXCEPT !.next = attempt.next + 1, !.text = joined, !.draft = row]
      <4>1. \A x \in Attempts : \A n, t, d :
              [x EXCEPT !.next = n, !.text[s] = t, !.draft = d]
                = [x EXCEPT !.next = n, !.text = [x.text EXCEPT ![s] = t], !.draft = d]
        BY DEF Attempts
      <4> QED
        BY <4>1, <2>2, <3>1
    <3>6. attempt.next + 1 \in Nat \ {0}
      BY <2>2
    <3> HIDE DEF joined, row, delta, s
    <3>7. attempt' \in Attempts
      BY <3>3, <3>4, <3>5, <3>6, <2>2, <2>3
    <3> QED
      BY <3>7, <2>1, <1>1 DEF StoreTypeOK
  <2>5. CASE ~(attempt.next <= Len(deltas))
    <3>1. attempt' = [attempt EXCEPT !.segment = s + 1, !.next = 1]
      BY <1>3, <2>5 DEF Delta
    <3>a. s + 1 \in Nat /\ 1 \in Nat \ {0}
      BY <2>2
    <3> HIDE DEF s
    <3>2. attempt' \in Attempts
      BY <3>1, <3>a, <2>2, <2>3
    <3> QED
      BY <3>2, <2>1, <1>1 DEF StoreTypeOK
  <2> QED
    BY <2>4, <2>5
<1>4. CASE CacheHit
  <2> DEFINE s == attempt.segment
             joined == [attempt.text EXCEPT ![s] = FlattenSeq(attempt.stream[s])]
  <2>1. attempt # NoAttempt /\ s \in Segments /\ UNCHANGED <<draft, runs>>
    BY <1>4 DEF CacheHit
  <2>2. /\ attempt \in Attempts /\ attempt.text \in Texts /\ attempt.stream[s] \in Seq(Text) /\ s \in Nat
    BY <2>1, <1>a
  <2>3. FlattenSeq(attempt.stream[s]) \in Text
    BY <2>2, FlattenFacts
  <2>4. joined \in Texts
    BY <2>2, <2>3 DEF Texts
  <2>5. attempt' = [attempt EXCEPT !.text = joined, !.segment = s + 1]
    <3>1. attempt' = [attempt EXCEPT !.text[s] = FlattenSeq(attempt.stream[s]), !.segment = s + 1]
      BY <1>4 DEF CacheHit
    <3>2. \A x \in Attempts : \A t, m :
            [x EXCEPT !.text[s] = t, !.segment = m] = [x EXCEPT !.text = [x.text EXCEPT ![s] = t], !.segment = m]
      BY DEF Attempts
    <3> QED
      BY <3>1, <3>2, <2>2
  <2>6. \A x \in Attempts : \A t \in Texts, m \in Nat : [x EXCEPT !.text = t, !.segment = m] \in Attempts
    BY DEF Attempts
  <2>7. s + 1 \in Nat
    BY <2>2
  <2> HIDE DEF joined, s
  <2>8. attempt' \in Attempts
    BY <2>2, <2>4, <2>5, <2>6, <2>7
  <2> QED
    BY <2>8, <2>1, <1>1 DEF StoreTypeOK
<1>5. CASE CommitRun
  <2>1. /\ attempt.text \in Texts /\ attempt.draft \in Rows
        /\ runs' = Append(runs, attempt.text) /\ draft' = attempt.draft /\ attempt' = NoAttempt
    BY <1>5, <1>a DEF CommitRun
  <2>2. runs' \in Seq(Texts)
    BY <2>1 DEF StoreTypeOK
  <2> QED
    BY <2>1, <2>2, <1>1 DEF StoreTypeOK
<1>6. CASE AbortRun
  BY <1>6, <1>1 DEF AbortRun, StoreTypeOK
<1> QED
  BY <1>2, <1>3, <1>4, <1>5, <1>6

LEMMA SaveTypes ==
  ASSUME StoreTypeOK, NEW e \in Clients,
         \/ SaveCheck(e) \/ SaveWrite(e) \/ SaveFails(e)
         \/ e \in Callers /\ (Call(e) \/ CallAnswered(e))
         \/ e \in Editors /\ (Save(e) \/ Overwrite(e) \/ ReadRefused(e) \/ SaveAnswered(e))
  PROVE  StoreTypeOK'
<1>t. /\ draft \in Rows /\ runs \in Seq(Texts) /\ attempt \in {NoAttempt} \cup Attempts
      /\ text \in [Editors -> Content] /\ known \in [Clients -> Rows]
      /\ conflict \in [Editors -> {NoConflict} \cup Conflicts]
      /\ put \in [Clients -> {Idle} \cup Sending \cup Answered]
      /\ get \in [Editors -> {Idle} \cup Loads]
  BY DEF StoreTypeOK
<1>p. put[e] # Idle => put[e] \in Sending \cup Answered /\ put[e].content \in Content /\ put[e].row \in Rows
  <2>1. put[e] \in {Idle} \cup Sending \cup Answered
    BY <1>t
  <2> QED
    BY <2>1 DEF Sending, Answered
<1>a. ASSUME NEW answer \in {"ok", "conflict", "read", "error"}, NEW row \in Rows, put[e] # Idle,
             Answer(e, answer, row)
      PROVE  put' \in [Clients -> {Idle} \cup Sending \cup Answered]
  <2> DEFINE save == [phase |-> answer, row |-> row,
                      content |-> IF answer \in {"conflict", "read"} THEN put[e].content ELSE Empty]
  <2>1. save \in Answered
    BY <1>a, <1>p, RowFacts DEF Answered
  <2>2. put' = [put EXCEPT ![e] = save]
    BY <1>a, <1>t DEF Answer
  <2> HIDE DEF save
  <2> QED
    BY <2>1, <2>2, <1>t
<1>s. ASSUME NEW content \in Content, NEW basis \in Rows, SendSave(e, content, basis)
      PROVE  put' \in [Clients -> {Idle} \cup Sending \cup Answered]
  <2> DEFINE save == [phase |-> "sent", content |-> content, basis |-> basis, row |-> NoDraft]
  <2>1. save \in Sending
    BY RowFacts DEF Sending
  <2>2. put' = [put EXCEPT ![e] = save]
    BY <1>s DEF SendSave
  <2> HIDE DEF save
  <2> QED
    BY <2>1, <2>2, <1>t
<1>1. CASE SaveCheck(e)
  <2>1. UNCHANGED <<draft, runs, attempt, text, known, conflict, get>> /\ put[e] # Idle /\ put[e].phase = "sent"
    BY <1>1 DEF SaveCheck, server, page
  <2>2. CASE Answer(e, "error", NoDraft) \/ Answer(e, "conflict", NoDraft)
    BY <2>1, <2>2, <1>t, <1>a, RowFacts DEF StoreTypeOK
  <2>3. CASE put' = [put EXCEPT ![e] = [@ EXCEPT !.phase = "checked", !.row = draft]]
    <3> DEFINE save == [put[e] EXCEPT !.phase = "checked", !.row = draft]
    <3>1. put[e] \in Sending
      BY <2>1, <1>p DEF Answered
    <3>2. \A x \in Sending : \A r \in Rows : [x EXCEPT !.phase = "checked", !.row = r] \in Sending
      BY DEF Sending
    <3>3. save \in Sending /\ put' = [put EXCEPT ![e] = save]
      BY <3>1, <3>2, <2>3, <1>t
    <3> HIDE DEF save
    <3> QED
      BY <3>3, <2>1, <1>t DEF StoreTypeOK
  <2> QED
    BY <1>1, <2>2, <2>3 DEF SaveCheck
<1>2. CASE SaveWrite(e)
  <2>1. UNCHANGED <<runs, attempt, text, known, conflict, get>> /\ put[e] # Idle
    BY <1>2 DEF SaveWrite, page
  <2>2. draft' \in Rows
    <3>1. draft' = draft \/ draft' = Written(put[e].row, put[e].content)
      BY <1>2 DEF SaveWrite
    <3> QED
      BY <3>1, <2>1, <1>t, <1>p, RowFacts
  <2>3. Answer(e, "ok", draft') \/ Answer(e, "error", NoDraft)
    BY <1>2 DEF SaveWrite
  <2>4. put' \in [Clients -> {Idle} \cup Sending \cup Answered]
    BY <2>1, <2>2, <2>3, <1>a, RowFacts
  <2> QED
    BY <2>1, <2>2, <2>4, <1>t DEF StoreTypeOK
<1>3. CASE SaveFails(e)
  BY <1>3, <1>a, <1>t, RowFacts DEF SaveFails, StoreTypeOK, server, page
<1>4. CASE e \in Callers /\ Call(e)
  <2>a. PICK s \in Segments : \E t \in Typed[s] :
          SendSave(e, [ContentOf(known[e]) EXCEPT ![s] = t], known[e])
    BY <1>4 DEF Call
  <2>1. PICK t \in Typed[s] : SendSave(e, [ContentOf(known[e]) EXCEPT ![s] = t], known[e])
    BY <2>a
  <2>2. t \in Text /\ known[e] \in Rows
    BY <1>t, DraftAssumption DEF Text
  <2>3. ContentOf(known[e]) \in Content
    BY <2>2, RowFacts
  <2>4. [ContentOf(known[e]) EXCEPT ![s] = t] \in Content
    BY <2>2, <2>3 DEF Content
  <2>5. put' \in [Clients -> {Idle} \cup Sending \cup Answered]
    BY <2>1, <2>2, <2>4, <1>s
  <2> QED
    BY <2>5, <1>4, <1>t DEF StoreTypeOK, Call, server, page
<1>5. CASE e \in Callers /\ CallAnswered(e)
  BY <1>5, <1>t DEF CallAnswered, StoreTypeOK, server, page
<1>6. CASE e \in Editors /\ Save(e)
  <2>1. put' \in [Clients -> {Idle} \cup Sending \cup Answered]
    BY <1>6, <1>t, <1>s DEF Save
  <2> QED
    BY <2>1, <1>6, <1>t DEF StoreTypeOK, Save, server, page
<1>7. CASE e \in Editors /\ Overwrite(e)
  <2>1. conflict[e] \in Conflicts
    BY <1>7, <1>t DEF Overwrite
  <2>2. put' \in [Clients -> {Idle} \cup Sending \cup Answered]
    BY <2>1, <1>7, <1>s DEF Overwrite, Conflicts
  <2>3. conflict' = [conflict EXCEPT ![e] = NoConflict]
    BY <1>7 DEF Overwrite
  <2> QED
    BY <2>2, <2>3, <1>7, <1>t DEF StoreTypeOK, Overwrite, server
<1>8. CASE e \in Editors /\ ReadRefused(e)
  <2>1. PICK row \in {draft, NoDraft} : Answer(e, "read", row)
    BY <1>8 DEF ReadRefused
  <2>2. put' \in [Clients -> {Idle} \cup Sending \cup Answered]
    BY <2>1, <1>8, <1>a, <1>t, RowFacts DEF ReadRefused
  <2> QED
    BY <2>2, <1>8, <1>t DEF StoreTypeOK, ReadRefused, server, page
<1>9. CASE e \in Editors /\ SaveAnswered(e)
  <2>1. put[e] # Idle /\ put' = [put EXCEPT ![e] = Idle] /\ UNCHANGED <<draft, runs, attempt, text, get>>
    BY <1>9 DEF SaveAnswered, server
  <2>2. known' \in [Clients -> Rows]
    BY <1>9, <1>t, <1>p, <2>1 DEF SaveAnswered
  <2>3. conflict' \in [Editors -> {NoConflict} \cup Conflicts]
    <3> DEFINE new == [server |-> put[e].row, local |-> put[e].content]
    <3>1. new \in Conflicts
      BY <2>1, <1>p DEF Conflicts
    <3>2. \E c \in {NoConflict, new, conflict[e]} : conflict' = [conflict EXCEPT ![e] = c]
      BY <1>9 DEF SaveAnswered
    <3> HIDE DEF new
    <3> QED
      BY <3>1, <3>2, <1>9, <1>t
  <2> QED
    BY <2>1, <2>2, <2>3, <1>t DEF StoreTypeOK
<1> QED
  BY <1>1, <1>2, <1>3, <1>4, <1>5, <1>6, <1>7, <1>8, <1>9

LEMMA PageTypes ==
  ASSUME StoreTypeOK,
         \/ \E c \in Callers : Look(c)
         \/ \E e \in Editors : \/ OpenPage(e) \/ Type(e) \/ UseServerContent(e) \/ Reload(e)
                               \/ ServeDraft(e) \/ Adopt(e) \/ ReadFails(e)
  PROVE  StoreTypeOK'
<1>t. /\ draft \in Rows /\ runs \in Seq(Texts) /\ attempt \in {NoAttempt} \cup Attempts
      /\ text \in [Editors -> Content] /\ known \in [Clients -> Rows]
      /\ conflict \in [Editors -> {NoConflict} \cup Conflicts]
      /\ put \in [Clients -> {Idle} \cup Sending \cup Answered]
      /\ get \in [Editors -> {Idle} \cup Loads]
  BY DEF StoreTypeOK
<1>1. ASSUME NEW c \in Callers, Look(c) PROVE StoreTypeOK'
  BY <1>1, <1>t DEF Look, StoreTypeOK, server, Clients
<1> SUFFICES ASSUME NEW e \in Editors,
                    \/ OpenPage(e) \/ Type(e) \/ UseServerContent(e) \/ Reload(e)
                    \/ ServeDraft(e) \/ Adopt(e) \/ ReadFails(e)
             PROVE  StoreTypeOK'
  BY <1>1
<1>g. ASSUME NEW asked \in BOOLEAN PROVE [phase |-> "sent", asked |-> asked, row |-> NoDraft] \in Loads
  BY RowFacts DEF Loads
<1>2. CASE OpenPage(e)
  <2>1. Last(runs) \in Content
    <3>1. Len(runs) \in 1..Len(runs)
      BY <1>2, <1>t DEF OpenPage
    <3>2. Last(runs) \in Texts
      BY <3>1, <1>t DEF Last
    <3> QED
      BY <3>2, RowFacts
  <2>2. text' \in [Editors -> Content]
    BY <2>1, <1>2, <1>t DEF OpenPage
  <2>3. get' \in [Editors -> {Idle} \cup Loads]
    BY <1>2, <1>t, <1>g DEF OpenPage
  <2> QED
    BY <2>2, <2>3, <1>2, <1>t DEF OpenPage, StoreTypeOK, server
<1>3. CASE Type(e)
  <2>a. PICK s \in Segments : \E t \in Typed[s] : text' = [text EXCEPT ![e][s] = t]
    BY <1>3 DEF Type
  <2>1. PICK t \in Typed[s] : text' = [text EXCEPT ![e][s] = t]
    BY <2>a
  <2>2. t \in Text
    BY DraftAssumption DEF Text
  <2>3. [text[e] EXCEPT ![s] = t] \in Content
    BY <2>2, <1>t DEF Content
  <2>4. text' \in [Editors -> Content]
    BY <2>1, <2>3, <1>t
  <2> QED
    BY <2>4, <1>3, <1>t DEF Type, StoreTypeOK, server
<1>4. CASE UseServerContent(e)
  <2>1. conflict[e] \in Conflicts
    BY <1>4, <1>t DEF UseServerContent
  <2>2. conflict[e].server \in Rows
    BY <2>1 DEF Conflicts
  <2>3. text' \in [Editors -> Content]
    BY <2>2, <1>4, <1>t, RowFacts, RestoredIsContent DEF UseServerContent
  <2>4. known' \in [Clients -> Rows]
    BY <2>2, <1>4, <1>t DEF UseServerContent
  <2> QED
    BY <2>3, <2>4, <1>4, <1>t DEF UseServerContent, StoreTypeOK, server
<1>5. CASE Reload(e)
  <2>1. get' \in [Editors -> {Idle} \cup Loads]
    BY <1>5, <1>t, <1>g DEF Reload
  <2> QED
    BY <2>1, <1>5, <1>t DEF Reload, StoreTypeOK, server
<1>6. CASE ServeDraft(e)
  <2>1. \A x \in Loads : \A r \in Rows : [x EXCEPT !.phase = "ok", !.row = r] \in Loads
    BY DEF Loads
  <2>2. get' \in [Editors -> {Idle} \cup Loads]
    BY <2>1, <1>6, <1>t DEF ServeDraft
  <2> QED
    BY <2>2, <1>6, <1>t DEF ServeDraft, StoreTypeOK, server, page
<1>7. CASE Adopt(e)
  <2>1. get[e].row \in Rows
    BY <1>7, <1>t DEF Adopt, Loads
  <2>2. text' \in [Editors -> Content]
    BY <2>1, <1>7, <1>t, RowFacts, RestoredIsContent DEF Adopt
  <2>3. known' \in [Clients -> Rows] /\ get' \in [Editors -> {Idle} \cup Loads]
    BY <2>1, <1>7, <1>t DEF Adopt
  <2> QED
    BY <2>2, <2>3, <1>7, <1>t DEF Adopt, StoreTypeOK, server
<1>8. CASE ReadFails(e)
  BY <1>8, <1>t DEF ReadFails, StoreTypeOK, server, page
<1> QED
  BY <1>2, <1>3, <1>4, <1>5, <1>6, <1>7, <1>8

LEMMA StoreStepTypes == StoreTypeOK /\ [StoreNext]_storeVars => StoreTypeOK'
<1> SUFFICES ASSUME StoreTypeOK, [StoreNext]_storeVars PROVE StoreTypeOK'
  OBVIOUS
<1>1. CASE UNCHANGED storeVars
  BY <1>1 DEF storeVars, server, page, StoreTypeOK
<1>2. ASSUME NEW e \in Clients,
             \/ SaveCheck(e) \/ SaveWrite(e) \/ SaveFails(e)
             \/ e \in Callers /\ (Call(e) \/ CallAnswered(e))
             \/ e \in Editors /\ (Save(e) \/ Overwrite(e) \/ ReadRefused(e) \/ SaveAnswered(e))
      PROVE  StoreTypeOK'
  BY <1>2, SaveTypes
<1>3. Callers \subseteq Clients /\ Editors \subseteq Clients
  BY DEF Clients
<1> QED
  BY <1>1, <1>2, <1>3, WorkerTypes, PageTypes DEF StoreNext

-----------------------------------------------------------------------------
(* What has been read while nobody wrote is what the server has, and what  *)
(* the stream still delivers is not ahead of a snapshot.                   *)

Now == TextsOf(LatestRun)

Frame == [offset : Nat, text : Text]
DraftEvents == [kind : {"gap", "draft", "terminal"}, offset : Nat, text : Text]

NotAhead(event) ==
  event.kind = "terminal" \/ (event.kind = "draft" /\ event.offset =< Snapshot(Now).offset)

Deliverable(events) ==
  /\ events \in Seq(DraftEvents) /\ Len(events) > 0
  /\ events[Len(events)].kind = "terminal"
  /\ \A i \in 1..Len(events) : NotAhead(events[i])

FeedOK ==
  feed \notin {Idle, Closed} =>
    /\ DOMAIN feed = {"phase", "run", "frames", "events"}
    /\ calm => /\ feed.phase \in {"run", "rerun"} => feed.run = LatestRun
               /\ feed.phase \in {"frames", "rerun"} => feed.frames = Frames(Now)
               /\ feed.phase = "open" => Deliverable(feed.events)

SnapOK ==
  snap # Idle =>
    /\ DOMAIN snap = {"phase", "run", "body"}
    /\ calm => /\ snap.phase = "run" => snap.run = LatestRun
               /\ snap.phase = "ok" => snap.body = Snapshot(Now)

ViewInv ==
  /\ StoreTypeOK
  /\ FeedOK
  /\ SnapOK
  /\ calm /\ settled => view = Snapshot(Now)

LEMMA NowIsText ==
  ASSUME StoreTypeOK
  PROVE  Now \in Seq(Text)
<1>1. \A S : <<>> \in Seq(S)
  OBVIOUS
<1>2. CASE LatestRun = NoTexts
  BY <1>1, <1>2 DEF Now, TextsOf, NoTexts
<1>3. CASE LatestRun # NoTexts
  <2>1. runs # <<>> /\ LatestRun = Last(runs)
    BY <1>3 DEF LatestRun
  <2>2. LatestRun \in Texts
    <3>1. Len(runs) \in 1..Len(runs)
      BY <2>1 DEF StoreTypeOK
    <3> QED
      BY <2>1, <3>1 DEF Last, StoreTypeOK
  <2>3. ContentOf(draft) \in Content
    BY RowFacts DEF StoreTypeOK
  <2>4. Now = Overlay(LatestRun, draft)
    BY <1>3 DEF Now, TextsOf
  <2>5. Overlay(LatestRun, draft) \in [Segments -> Text]
    BY <2>2, <2>3 DEF Overlay, Content, Texts
  <2>6. [1..N -> Text] \subseteq Seq(Text)
    BY DraftAssumption, SeqDef
  <2> QED
    BY <2>4, <2>5, <2>6 DEF Segments
<1> QED
  BY <1>2, <1>3

LEMMA LastOfFacts ==
  ASSUME NEW S, NEW s \in Seq(S), NEW k \in Nat
  PROVE  /\ LastOf(s, k) \in Seq(S)
         /\ \A i \in 1..Len(LastOf(s, k)) : \E j \in 1..Len(s) : LastOf(s, k)[i] = s[j]
<1>1. CASE Len(s) <= k
  BY <1>1 DEF LastOf
<1>2. CASE ~(Len(s) <= k)
  <2> DEFINE m == Len(s) - k + 1
  <2>1. m \in 1..(Len(s) + 1) /\ LastOf(s, k) = SubSeq(s, m, Len(s)) /\ Len(s) \in Nat
    BY <1>2 DEF LastOf
  <2>2. \A i \in m..Len(s) : s[i] \in S
    BY <2>1
  <2> HIDE DEF m
  <2>3. /\ SubSeq(s, m, Len(s)) \in Seq(S)
        /\ Len(SubSeq(s, m, Len(s))) = IF m <= Len(s) THEN Len(s) - m + 1 ELSE 0
        /\ \A i \in 1..(Len(s) - m + 1) : SubSeq(s, m, Len(s))[i] = s[m + i - 1]
    BY <2>1, <2>2, SubSeqProperties
  <2>4. ASSUME NEW i \in 1..Len(LastOf(s, k)) PROVE \E j \in 1..Len(s) : LastOf(s, k)[i] = s[j]
    <3>1. i \in 1..(Len(s) - m + 1) /\ m + i - 1 \in 1..Len(s)
      BY <2>1, <2>3
    <3> QED
      BY <2>1, <2>3, <3>1
  <2> QED
    BY <2>1, <2>3, <2>4
<1> QED
  BY <1>1, <1>2

LEMMA FramesFacts ==
  ASSUME NEW t \in Seq(Text)
  PROVE  /\ Frames(t) \in Seq(Frame)
         /\ \A i \in 1..Len(Frames(t)) : Frames(t)[i].offset =< Snapshot(t).offset
         /\ Snapshot(t).offset \in Nat /\ Snapshot(t).text \in Text
<1>1. /\ FlattenSeq(t) \in Text
      /\ \A k \in 1..Len(t) : Len(FlattenSeq(SubSeq(t, 1, k))) =< Len(FlattenSeq(t))
  BY FlattenFacts
<1>2. Snapshot(t).offset = Len(FlattenSeq(t)) /\ Snapshot(t).text = LastOf(FlattenSeq(t), MaxChars)
  BY DEF Snapshot
<1>3. Snapshot(t).offset \in Nat /\ Snapshot(t).text \in Text
  BY <1>1, <1>2, LastOfFacts, ReaderAssumption DEF Text
<1> DEFINE all == [s \in 1..Len(t) |->
                     [offset |-> Len(FlattenSeq(SubSeq(t, 1, s))), text |-> t[s]]]
<1>4. \A s \in 1..Len(t) : all[s] \in Frame /\ all[s].offset =< Snapshot(t).offset
  <2> SUFFICES ASSUME NEW s \in 1..Len(t)
               PROVE  all[s] \in Frame /\ all[s].offset =< Snapshot(t).offset
    OBVIOUS
  <2>1. SubSeq(t, 1, s) \in Seq(Text)
    BY SubSeqProperties
  <2>2. FlattenSeq(SubSeq(t, 1, s)) \in Text
    BY <2>1, FlattenFacts
  <2>3. Len(FlattenSeq(SubSeq(t, 1, s))) \in Nat /\ t[s] \in Text
    BY <2>2 DEF Text
  <2>4. all[s] = [offset |-> Len(FlattenSeq(SubSeq(t, 1, s))), text |-> t[s]]
    OBVIOUS
  <2> HIDE DEF all
  <2>5. all[s] \in Frame /\ all[s].offset = Len(FlattenSeq(SubSeq(t, 1, s)))
    BY <2>3, <2>4 DEF Frame
  <2> QED
    BY <2>5, <1>1, <1>2
<1>5. all \in Seq(Frame) /\ Len(all) = Len(t)
  <2>1. DOMAIN all = 1..Len(t) /\ Len(t) \in Nat
    OBVIOUS
  <2>2. all \in [1..Len(t) -> Frame]
    <3>1. all = [s \in 1..Len(t) |-> all[s]]
      OBVIOUS
    <3> HIDE DEF all
    <3> QED
      BY <1>4, <3>1
  <2> HIDE DEF all
  <2> QED
    BY <2>1, <2>2, SeqDef
<1>6. Frames(t) = LastOf(all, MaxFrames)
  BY DEF Frames
<1> HIDE DEF all
<1>7. /\ LastOf(all, MaxFrames) \in Seq(Frame)
      /\ \A i \in 1..Len(LastOf(all, MaxFrames)) : \E j \in 1..Len(all) : LastOf(all, MaxFrames)[i] = all[j]
  <2>1. MaxFrames \in Nat
    BY ReaderAssumption
  <2>2. \A q \in Seq(Frame), k \in Nat :
          /\ LastOf(q, k) \in Seq(Frame)
          /\ \A i \in 1..Len(LastOf(q, k)) : \E j \in 1..Len(q) : LastOf(q, k)[i] = q[j]
    BY LastOfFacts
  <2> QED
    BY <1>5, <2>1, <2>2, Zenon
<1>8. ASSUME NEW i \in 1..Len(Frames(t)) PROVE Frames(t)[i].offset =< Snapshot(t).offset
  <2>1. PICK j \in 1..Len(all) : Frames(t)[i] = all[j]
    BY <1>6, <1>7
  <2>2. j \in 1..Len(t)
    BY <1>5, <2>1
  <2> QED
    BY <1>4, <2>1, <2>2
<1>9. Frames(t) \in Seq(Frame)
  BY <1>6, <1>7
<1> QED
  BY <1>3, <1>8, <1>9

\* From the first offset on, the stream of what is there is its frames and its end.
LEMMA StreamIsDeliverable ==
  ASSUME StoreTypeOK
  PROVE  Deliverable(StreamEvents(Frames(Now), Snapshot(Now), 0))
<1> DEFINE frames == Frames(Now)
           snapshot == Snapshot(Now)
           count == Cardinality({i \in DOMAIN frames : frames[i].offset > 0})
           fresh == LastOf(frames, count)
           drafts == [i \in DOMAIN fresh |-> Event("draft", fresh[i])]
           end == Event("terminal", snapshot)
<1>1. Now \in Seq(Text)
  BY NowIsText
<1>2. /\ frames \in Seq(Frame)
      /\ \A i \in 1..Len(frames) : frames[i].offset =< snapshot.offset
      /\ snapshot.offset \in Nat /\ snapshot.text \in Text
  BY <1>1, FramesFacts
<1>3. StreamEvents(frames, snapshot, 0) = <<>> \o drafts \o <<end>>
  BY DEF StreamEvents, Closing
<1> HIDE DEF frames, snapshot
<1>4. count \in Nat
  <2>1. IsFiniteSet(1..Len(frames))
    BY <1>2, FS_Interval
  <2>2. {i \in DOMAIN frames : frames[i].offset > 0} \subseteq 1..Len(frames)
    BY <1>2
  <2> QED
    BY <2>1, <2>2, FS_Subset, FS_CardinalityType
<1> HIDE DEF count
<1>5. /\ fresh \in Seq(Frame)
      /\ \A i \in 1..Len(fresh) : fresh[i] \in Frame /\ fresh[i].offset =< snapshot.offset
  BY <1>2, <1>4, LastOfFacts
<1> HIDE DEF fresh
<1>6. /\ drafts \in Seq(DraftEvents) /\ Len(drafts) = Len(fresh) /\ Len(fresh) \in Nat
      /\ \A i \in 1..Len(fresh) : drafts[i].kind = "draft" /\ drafts[i].offset =< snapshot.offset
  <2>1. DOMAIN fresh = 1..Len(fresh) /\ Len(fresh) \in Nat
    BY <1>5
  <2>2. \A i \in 1..Len(fresh) :
          /\ drafts[i] \in DraftEvents
          /\ drafts[i].kind = "draft" /\ drafts[i].offset =< snapshot.offset
    BY <1>5, <2>1 DEF Event, Frame, DraftEvents
  <2>3. drafts = [i \in 1..Len(fresh) |-> drafts[i]]
    BY <2>1
  <2> HIDE DEF drafts
  <2>4. drafts \in [1..Len(fresh) -> DraftEvents]
    BY <2>2, <2>3
  <2>5. drafts \in Seq(DraftEvents) /\ Len(drafts) = Len(fresh)
    BY <2>1, <2>4, SeqDef
  <2> QED
    BY <2>1, <2>2, <2>5
<1> HIDE DEF drafts
<1>7. end \in DraftEvents /\ end.kind = "terminal"
  BY <1>2 DEF Event, DraftEvents
<1> HIDE DEF end
<1> DEFINE events == <<>> \o drafts \o <<end>>
<1>8. /\ events \in Seq(DraftEvents) /\ Len(events) = Len(fresh) + 1
      /\ \A i \in 1..Len(fresh) : events[i] = drafts[i]
      /\ events[Len(fresh) + 1] = end
  <2>1. <<>> \o drafts = drafts
    BY <1>6
  <2>2. drafts \o <<end>> = Append(drafts, end)
    BY <1>6, <1>7
  <2> QED
    BY <2>1, <2>2, <1>6, <1>7
<1> HIDE DEF events
<1>9. Deliverable(events)
  <2>1. \A i \in 1..Len(events) : i \in 1..Len(fresh) \/ i = Len(fresh) + 1
    BY <1>6, <1>8
  <2>2. \A i \in 1..Len(events) : NotAhead(events[i])
    BY <2>1, <1>6, <1>7, <1>8 DEF NotAhead, snapshot
  <2> QED
    BY <2>2, <1>6, <1>7, <1>8 DEF Deliverable
<1> QED
  BY <1>3, <1>9 DEF events, frames, snapshot

-----------------------------------------------------------------------------
(* The invariant of the view.  What is there is a function of the draft and *)
(* of the runs: while they stay, it stays.                                  *)

LEMMA NowStays ==
  ASSUME UNCHANGED <<draft, runs>>
  PROVE  LatestRun' = LatestRun /\ Now' = Now
BY Zenon DEF Now, TextsOf, LatestRun, Overlay

\* An event that is not ahead of what is there stays so.
LEMMA DeliverableStays ==
  ASSUME NEW events, UNCHANGED <<draft, runs>>, Deliverable(events)
  PROVE  Deliverable(events)'
BY NowStays, Zenon DEF Deliverable, NotAhead

LEMMA ViewStarts == ReaderInit => ViewInv
<1> SUFFICES ASSUME ReaderInit PROVE ViewInv
  OBVIOUS
<1>1. StoreTypeOK
  BY StoreTypesStart DEF ReaderInit
<1> QED
  BY <1>1 DEF ReaderInit, ViewInv, FeedOK, SnapOK

\* The parts of the invariant that a step which writes nothing has to restore.
LEMMA ReadsKeepTypes ==
  ASSUME StoreTypeOK, UNCHANGED storeVars
  PROVE  StoreTypeOK' /\ LatestRun' = LatestRun /\ Now' = Now
<1>1. UNCHANGED <<draft, runs>>
  BY DEF storeVars, server
<1> QED
  BY <1>1, NowStays, StoreStepTypes

LEMMA FeedStays ==
  ASSUME FeedOK, UNCHANGED <<draft, runs>>, UNCHANGED feed, calm' => calm
  PROVE  FeedOK'
<1> USE DEF FeedOK
<1> SUFFICES ASSUME feed' \notin {Idle, Closed} PROVE FeedOK'
  OBVIOUS
<1>1. feed \notin {Idle, Closed} /\ feed' = feed
  OBVIOUS
<1>2. calm' /\ feed'.phase = "open" => Deliverable(feed.events)'
  BY <1>1, DeliverableStays
<1>3. LatestRun' = LatestRun /\ Now' = Now
  BY NowStays
<1> QED
  BY <1>1, <1>2, <1>3

LEMMA SnapStays ==
  ASSUME SnapOK, UNCHANGED <<draft, runs>>, UNCHANGED snap, calm' => calm
  PROVE  SnapOK'
BY NowStays, Zenon DEF SnapOK

LEMMA WritesKeepView ==
  ASSUME ViewInv, StoreStep
  PROVE  ViewInv'
<1> USE DEF ViewInv
<1>1. StoreTypeOK'
  BY StoreStepTypes DEF StoreStep
<1>2. CASE draft' = draft /\ runs' = runs
  <2>1. /\ UNCHANGED <<draft, runs>> /\ UNCHANGED feed /\ UNCHANGED snap
        /\ calm' => calm
        /\ view' = view /\ settled' = settled
    BY <1>2 DEF StoreStep
  <2>2. FeedOK' /\ SnapOK'
    BY <2>1, FeedStays, SnapStays
  <2>3. Now' = Now
    BY <2>1, NowStays
  <2> QED
    BY <1>1, <2>1, <2>2, <2>3
<1>3. CASE ~(draft' = draft /\ runs' = runs)
  <2>1. calm' = FALSE /\ feed' = feed /\ snap' = snap
    BY <1>3 DEF StoreStep
  <2>2. FeedOK'
    BY <2>1 DEF FeedOK
  <2>3. SnapOK'
    BY <2>1 DEF SnapOK
  <2> QED
    BY <1>1, <2>1, <2>2, <2>3
<1> QED
  BY <1>2, <1>3

LEMMA SnapshotsKeepView ==
  ASSUME ViewInv, SnapRead \/ SnapArrives \/ SnapFails \/ Resync
  PROVE  ViewInv'
<1> USE DEF ViewInv
<1>1. UNCHANGED storeVars /\ UNCHANGED <<draft, runs>> /\ UNCHANGED feed /\ calm' = calm
  BY DEF SnapRead, SnapArrives, SnapFails, Resync, storeVars, server
<1>2. StoreTypeOK' /\ LatestRun' = LatestRun /\ Now' = Now
  BY <1>1, ReadsKeepTypes
<1>3. FeedOK'
  BY <1>1, FeedStays
<1>4. CASE SnapRead
  <2>1. view' = view /\ settled' = settled
    BY <1>4 DEF SnapRead
  <2>2. SnapOK'
    <3>1. CASE snap.phase = "sent"
      <4>1. snap' = [snap EXCEPT !.phase = "run", !.run = LatestRun]
        BY <1>4, <3>1 DEF SnapRead
      <4>2. DOMAIN snap = {"phase", "run", "body"}
        BY <1>4 DEF SnapRead, SnapOK
      <4>3. \A x : DOMAIN x = {"phase", "run", "body"} =>
              LET y == [x EXCEPT !.phase = "run", !.run = LatestRun]
              IN  DOMAIN y = {"phase", "run", "body"} /\ y.phase = "run" /\ y.run = LatestRun
        OBVIOUS
      <4>4. DOMAIN snap' = {"phase", "run", "body"} /\ snap'.phase = "run" /\ snap'.run = LatestRun
        BY <4>1, <4>2, <4>3
      <4> QED
        BY <4>4, <1>2 DEF SnapOK
    <3>2. CASE snap.phase = "run"
      <4>1. snap' = [phase |-> "ok", run |-> NoTexts, body |-> Snapshot(TextsOf(snap.run))]
        BY <1>4, <3>2 DEF SnapRead
      <4>2. calm => snap.run = LatestRun
        BY <1>4, <3>2 DEF SnapRead, SnapOK
      <4>3. calm => Snapshot(TextsOf(snap.run)) = Snapshot(Now)
        BY <4>2 DEF Now
      <4>4. /\ DOMAIN snap' = {"phase", "run", "body"} /\ snap'.phase = "ok"
            /\ snap'.body = Snapshot(TextsOf(snap.run))
        BY <4>1
      <4> QED
        BY <4>3, <4>4, <1>1, <1>2 DEF SnapOK
    <3> QED
      BY <1>4, <3>1, <3>2 DEF SnapRead
  <2> QED
    BY <1>1, <1>2, <1>3, <2>1, <2>2
<1>5. CASE SnapArrives
  <2>1. view' = snap.body /\ snap' = Idle
    BY <1>5 DEF SnapArrives
  <2>2. calm => snap.body = Snapshot(Now)
    BY <1>5 DEF SnapArrives, SnapOK
  <2>3. SnapOK'
    BY <2>1 DEF SnapOK
  <2> QED
    BY <1>1, <1>2, <1>3, <2>1, <2>2, <2>3
<1>6. CASE SnapFails
  BY <1>1, <1>2, <1>3, <1>6 DEF SnapFails, SnapOK
<1>7. CASE Resync
  <2>1. snap' = [phase |-> "sent", run |-> NoTexts, body |-> Snapshot(NoTexts)]
    BY <1>7 DEF Resync
  <2>2. SnapOK'
    BY <2>1 DEF SnapOK
  <2>3. view' = view /\ settled' = settled
    BY <1>7 DEF Resync
  <2> QED
    BY <1>1, <1>2, <1>3, <2>2, <2>3
<1> QED
  BY <1>4, <1>5, <1>6, <1>7

LEMMA StreamReadsKeepView ==
  ASSUME ViewInv, StreamRead
  PROVE  ViewInv'
<1> USE DEF ViewInv
<1> DEFINE Fields == {"phase", "run", "frames", "events"}
<1>1. /\ UNCHANGED storeVars /\ UNCHANGED <<draft, runs>> /\ UNCHANGED snap
      /\ calm' = calm /\ view' = view /\ settled' = settled
  BY DEF StreamRead, storeVars, server
<1>2. StoreTypeOK' /\ LatestRun' = LatestRun /\ Now' = Now
  BY <1>1, ReadsKeepTypes
<1>3. SnapOK'
  BY <1>1, SnapStays
<1>4. /\ DOMAIN feed = Fields
      /\ (calm /\ feed.phase \in {"run", "rerun"}) => feed.run = LatestRun
      /\ (calm /\ feed.phase \in {"frames", "rerun"}) => feed.frames = Frames(Now)
  BY DEF StreamRead, FeedOK
<1>5. calm /\ feed.phase \in {"run", "rerun"} => TextsOf(feed.run) = Now
  BY <1>4 DEF Now
<1>6. \A x, p, r : DOMAIN x = Fields =>
        LET y == [x EXCEPT !.phase = p, !.run = r]
        IN  DOMAIN y = Fields /\ y.phase = p /\ y.run = r /\ y.frames = x.frames
  OBVIOUS
<1>7. \A x, p, r, q : DOMAIN x = Fields =>
        LET y == [x EXCEPT !.phase = p, !.run = r, !.frames = q]
        IN  DOMAIN y = Fields /\ y.phase = p /\ y.run = r /\ y.frames = q
  OBVIOUS
<1>8. FeedOK'
  <2>1. CASE feed.phase = "sent"
    <3>1. feed' = [feed EXCEPT !.phase = "run", !.run = LatestRun]
      BY <2>1 DEF StreamRead
    <3>2. DOMAIN feed' = Fields /\ feed'.phase = "run" /\ feed'.run = LatestRun
      BY <1>4, <1>6, <3>1
    <3> QED
      BY <1>2, <3>2 DEF FeedOK
  <2>2. CASE feed.phase = "run"
    <3>1. feed' = [feed EXCEPT !.phase = "frames", !.run = NoTexts,
                               !.frames = Frames(TextsOf(feed.run))]
      BY <2>2 DEF StreamRead
    <3>2. /\ DOMAIN feed' = Fields /\ feed'.phase = "frames"
          /\ feed'.frames = Frames(TextsOf(feed.run))
      BY <1>4, <1>7, <3>1
    <3>3. calm => Frames(TextsOf(feed.run)) = Frames(Now)
      BY <1>5, <2>2
    <3> QED
      BY <1>1, <1>2, <3>2, <3>3 DEF FeedOK
  <2>3. CASE feed.phase = "frames"
    <3>1. feed' = [feed EXCEPT !.phase = "rerun", !.run = LatestRun]
      BY <2>3 DEF StreamRead
    <3>2. /\ DOMAIN feed' = Fields /\ feed'.phase = "rerun" /\ feed'.run = LatestRun
          /\ feed'.frames = feed.frames
      BY <1>4, <1>6, <3>1
    <3> QED
      BY <1>1, <1>2, <1>4, <2>3, <3>2 DEF FeedOK
  <2>4. CASE feed.phase = "rerun"
    <3>1. feed' = [phase |-> "open", run |-> NoTexts, frames |-> <<>>,
                   events |-> StreamEvents(feed.frames, Snapshot(TextsOf(feed.run)), 0)]
      BY <2>4 DEF StreamRead
    <3>2. /\ DOMAIN feed' = Fields /\ feed'.phase = "open"
          /\ feed'.events = StreamEvents(feed.frames, Snapshot(TextsOf(feed.run)), 0)
      BY <3>1
    <3>3. ASSUME calm PROVE Deliverable(feed'.events)
      <4>1. feed.frames = Frames(Now) /\ TextsOf(feed.run) = Now
        BY <1>4, <1>5, <2>4, <3>3
      <4>2. feed'.events = StreamEvents(Frames(Now), Snapshot(Now), 0)
        BY <3>2, <4>1
      <4> QED
        BY <4>2, StreamIsDeliverable
    <3>4. calm => Deliverable(feed.events)'
      BY <3>3, <1>2 DEF Deliverable, NotAhead
    <3> QED
      BY <1>1, <3>2, <3>4 DEF FeedOK
  <2> QED
    BY <2>1, <2>2, <2>3, <2>4 DEF StreamRead
<1> QED
  BY <1>1, <1>2, <1>3, <1>8

\* What is left of a stream after an event that is not its last.
LEMMA TailIsDeliverable ==
  ASSUME NEW events, Deliverable(events), Head(events).kind # "terminal"
  PROVE  Deliverable(Tail(events))
<1>1. events \in Seq(DraftEvents) /\ Len(events) \in Nat /\ Len(events) > 0
  BY DEF Deliverable
<1>2. Head(events) = events[1]
  BY <1>1
<1>3. Len(events) > 1
  <2>1. Len(events) # 1
    BY <1>2 DEF Deliverable
  <2>2. \A n \in Nat : (n > 0 /\ n # 1) => n > 1
    OBVIOUS
  <2> QED
    BY <1>1, <2>1, <2>2, Zenon
<1>4. /\ Tail(events) \in Seq(DraftEvents) /\ Len(Tail(events)) = Len(events) - 1
      /\ \A i \in 1..(Len(events) - 1) : Tail(events)[i] = events[i + 1]
  BY <1>1, <1>3
<1>5. Tail(events)[Len(events) - 1] = events[Len(events)]
  <2>1. Len(events) - 1 \in 1..(Len(events) - 1) /\ (Len(events) - 1) + 1 = Len(events)
    BY <1>1, <1>3
  <2> QED
    BY <1>4, <2>1
<1>6. \A i \in 1..(Len(events) - 1) : NotAhead(Tail(events)[i])
  <2> SUFFICES ASSUME NEW i \in 1..(Len(events) - 1) PROVE NotAhead(events[i + 1])
    BY <1>4
  <2>1. i + 1 \in 1..Len(events)
    BY <1>1
  <2> QED
    BY <2>1 DEF Deliverable
<1> QED
  BY <1>1, <1>3, <1>4, <1>5, <1>6 DEF Deliverable

LEMMA EventsKeepView ==
  ASSUME ViewInv, EventArrives
  PROVE  ViewInv'
<1> USE DEF ViewInv
<1>1. /\ UNCHANGED storeVars /\ UNCHANGED <<draft, runs>> /\ UNCHANGED snap
      /\ calm' = calm /\ settled' = settled
  BY DEF EventArrives, storeVars, server
<1>2. StoreTypeOK' /\ LatestRun' = LatestRun /\ Now' = Now
  BY <1>1, ReadsKeepTypes
<1>3. SnapOK'
  BY <1>1, SnapStays
<1>4. /\ DOMAIN feed = {"phase", "run", "frames", "events"} /\ feed.phase = "open"
      /\ calm => Deliverable(feed.events)
  BY DEF EventArrives, FeedOK
<1> DEFINE event == Head(feed.events)
<1>5. CASE event.kind = "terminal"
  <2>1. feed' = Closed /\ view' = view
    BY <1>5 DEF EventArrives
  <2>2. FeedOK'
    BY <2>1 DEF FeedOK
  <2> QED
    BY <1>1, <1>2, <1>3, <2>1, <2>2
<1>6. CASE event.kind # "terminal"
  <2>1. feed' = [feed EXCEPT !.events = Tail(@)]
    BY <1>6 DEF EventArrives
  <2>2. DOMAIN feed' = {"phase", "run", "frames", "events"} /\ feed'.phase = "open"
        /\ feed'.events = Tail(feed.events)
    BY <1>4, <2>1
  <2>3. ASSUME calm PROVE Deliverable(feed'.events)
    BY <1>4, <1>6, <2>2, <2>3, TailIsDeliverable
  <2>4. calm => Deliverable(feed.events)'
    BY <2>3, <1>2 DEF Deliverable, NotAhead
  <2>5. FeedOK'
    BY <1>1, <2>2, <2>4 DEF FeedOK
  <2>6. ASSUME calm, settled PROVE view' = view
    <3>1. /\ feed.events \in Seq(DraftEvents) /\ Len(feed.events) > 0
          /\ NotAhead(feed.events[1])
      BY <1>4, <2>6 DEF Deliverable
    <3>2. event = feed.events[1]
      BY <3>1
    <3>3. event.kind = "draft" /\ event.offset =< Snapshot(Now).offset
      BY <1>6, <3>1, <3>2 DEF NotAhead
    <3>4. view = Snapshot(Now)
      BY <2>6
    <3>5. Replayed(event)
      BY <3>3, <3>4 DEF Replayed
    <3> HIDE DEF event
    <3>6. view' = CASE event.kind = "draft" ->
                         IF Replayed(event) THEN view
                         ELSE [text |-> view.text \o event.text, offset |-> event.offset]
                    [] event.kind = "gap" -> [text |-> event.text, offset |-> event.offset]
                    [] event.kind = "terminal" -> view
      BY DEF EventArrives, event
    <3> QED
      BY <3>3, <3>5, <3>6
  <2> QED
    BY <1>1, <1>2, <1>3, <2>5, <2>6
<1> QED
  BY <1>5, <1>6

LEMMA ConnectsKeepView ==
  ASSUME ViewInv, OpenView \/ Reconnect
  PROVE  ViewInv'
<1> USE DEF ViewInv
<1>1. UNCHANGED storeVars /\ UNCHANGED <<draft, runs>>
  BY DEF OpenView, Reconnect, storeVars, server
<1>2. StoreTypeOK' /\ LatestRun' = LatestRun /\ Now' = Now
  BY <1>1, ReadsKeepTypes
<1>3. feed' = [phase |-> "sent", run |-> NoTexts, frames |-> <<>>, events |-> <<>>]
  BY DEF OpenView, Reconnect
<1>4. FeedOK'
  BY <1>3 DEF FeedOK
<1>5. CASE OpenView
  <2>1. snap' = [phase |-> "sent", run |-> NoTexts, body |-> Snapshot(NoTexts)] /\ settled' = FALSE
    BY <1>5 DEF OpenView
  <2>2. SnapOK'
    BY <2>1 DEF SnapOK
  <2> QED
    BY <1>2, <1>4, <2>1, <2>2
<1>6. CASE Reconnect
  <2>1. UNCHANGED snap /\ calm' = calm /\ view' = view /\ settled' = settled
    BY <1>6 DEF Reconnect
  <2>2. SnapOK'
    BY <1>1, <2>1, SnapStays
  <2> QED
    BY <1>2, <1>4, <2>1, <2>2
<1> QED
  BY <1>5, <1>6

LEMMA ViewStepKeeps == ViewInv /\ [ReaderNext]_allDraftVars => ViewInv'
<1> SUFFICES ASSUME ViewInv, [ReaderNext]_allDraftVars PROVE ViewInv'
  OBVIOUS
<1>1. CASE ReaderNext
  BY <1>1, WritesKeepView, SnapshotsKeepView, StreamReadsKeepView, EventsKeepView,
     ConnectsKeepView DEF ReaderNext
<1>2. CASE UNCHANGED allDraftVars
  <2>1. /\ UNCHANGED storeVars /\ UNCHANGED <<draft, runs>> /\ UNCHANGED feed /\ UNCHANGED snap
        /\ calm' = calm /\ view' = view /\ settled' = settled
    BY <1>2 DEF allDraftVars, readerVars, storeVars, server
  <2>2. StoreTypeOK' /\ Now' = Now
    BY <2>1, ReadsKeepTypes DEF ViewInv
  <2>3. FeedOK' /\ SnapOK'
    BY <2>1, FeedStays, SnapStays DEF ViewInv
  <2> QED
    BY <2>1, <2>2, <2>3 DEF ViewInv
<1> QED
  BY <1>1, <1>2

\* Snapshot and stream race to the page in any order, are repeated, fail and start
\* again (useJobDraftStream.ts); when the last has come and nobody has written since
\* the page opened, it shows what the server has.
THEOREM TheViewSettles == ReaderSpec => []SettledViewIsServerText
<1>1. ViewInv => SettledViewIsServerText
  BY DEF ViewInv, SettledViewIsServerText, Now
<1> QED
  BY <1>1, ViewStarts, ViewStepKeeps, PTL DEF ReaderSpec
=============================================================================
