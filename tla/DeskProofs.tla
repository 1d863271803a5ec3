------------------------------ MODULE DeskProofs ------------------------------
(***************************************************************************)
(* What TLAPS proves about four components that share no state, one after  *)
(* the other: the previews of voices (Preview), the batches (Batch), the   *)
(* credentials of a provider (Credentials) and the audio that is served    *)
(* (ArtifactContent).                                                      *)
(***************************************************************************)
EXTENDS Preview, Batch, Credentials, ArtifactContent, NaturalSets, Integers, SequenceTheorems

-----------------------------------------------------------------------------
(* Previews, for any voices, texts and sounds, any number of requests at the *)
(* same time and any number of crashes: a row never names audio that is not *)
(* there.                                                                  *)

Statuses == Terminal \cup {"NONE", "QUEUED", "RUNNING"}
Stages == Making \cup {"create", "retry", "cancel", "cancelling", "answered", "lost",
                       "timer", "polled", "over"}
Heard == Sounds \cup {Silence}

Served == [at : Stages, key : CacheKeys, status : Statuses, named : BOOLEAN, sound : Heard,
           left : Int, panel : BOOLEAN]

Row == [status : Statuses, named : BOOLEAN, sha : Heard]

ShownOK == shown \in [Voices -> {NothingShown} \cup [status : Statuses, key : CacheKeys]]

PreviewTypeOK ==
  /\ preview \in [CacheKeys -> Row]
  /\ audio \in [CacheKeys -> Heard]
  /\ ask \in [Asks -> {Unasked} \cup Served]
  /\ ShownOK

\* A request that has audio in hand has some; once stored, that is the file's, and
\* the file of a key never changes again: whoever writes the row later is right.
InHand(n) ==
  /\ At(n, "store") => ask[n].sound # Silence
  /\ At(n, "ready") => ask[n].sound # Silence /\ audio[Key(n)] = ask[n].sound

PreviewInv ==
  /\ PreviewTypeOK
  /\ \A n \in Asks : InHand(n)
  /\ NamedAudioIsThere

-----------------------------------------------------------------------------

\* A request under way is a record: only these stages have one.
LEMMA UnderWay ==
  ASSUME PreviewTypeOK, NEW n \in Asks, NEW stage \in Stages, At(n, stage)
  PROVE  ask[n] \in Served
BY DEF PreviewTypeOK, At, Unasked, Stages, Making

LEMMA PreviewStarts == PreviewInit => PreviewInv
<1> SUFFICES ASSUME PreviewInit PROVE PreviewInv
  OBVIOUS
<1>1. NoRow \in Row
  BY DEF NoRow, Row, Statuses, Heard
<1>2. PreviewTypeOK
  BY <1>1 DEF PreviewInit, PreviewTypeOK, ShownOK, Heard
<1>3. \A n \in Asks : InHand(n)
  BY DEF PreviewInit, InHand, At, Unasked
<1>4. NamedAudioIsThere
  BY DEF PreviewInit, NamedAudioIsThere, NoRow
<1> QED
  BY <1>2, <1>3, <1>4 DEF PreviewInv

\* A new ask is at its beginning, and nothing else changes.
LEMMA AskingKeepsInv ==
  ASSUME PreviewInv, NEW what \in {"create", "retry", "cancel"}, NEW k \in CacheKeys,
         NEW fromPanel \in BOOLEAN, Ask(what, k, fromPanel),
         UNCHANGED <<preview, audio, panel, deaths>>
  PROVE  PreviewInv'
<1> DEFINE new == [at |-> what, key |-> k, status |-> "NONE", named |-> FALSE,
                   sound |-> Silence, left |-> 0, panel |-> fromPanel]
<1>1. PICK n \in Asks : ask' = [ask EXCEPT ![n] = new]
  BY DEF Ask, Moves
<1>2. new \in Served
  BY DEF Served, Stages, Statuses, Heard
<1>3. PreviewTypeOK'
  BY <1>1, <1>2 DEF PreviewInv, PreviewTypeOK, ShownOK, panel
<1>4. \A m \in Asks : InHand(m)'
  <2> TAKE m \in Asks
  <2>1. CASE m = n
    BY <1>1, <2>1 DEF PreviewInv, PreviewTypeOK, InHand, At
  <2>2. CASE m # n
    BY <1>1, <2>2 DEF PreviewInv, PreviewTypeOK, InHand, At, Key
  <2> QED
    BY <2>1, <2>2
<1> QED
  BY <1>3, <1>4 DEF PreviewInv, NamedAudioIsThere

\* A request moves on: it must keep what it has in hand, and write no wrong name.
LEMMA MovingKeepsInv ==
  ASSUME PreviewInv, NEW n \in Asks, NEW r \in Served, Moves(n, r),
         UNCHANGED audio, preview' \in [CacheKeys -> Row], NamedAudioIsThere', ShownOK',
         r.at = "store" => r.sound # Silence,
         r.at = "ready" => r.sound # Silence /\ audio[r.key] = r.sound
  PROVE  PreviewInv'
<1>1. PreviewTypeOK'
  BY DEF PreviewInv, PreviewTypeOK, Moves
<1>2. \A m \in Asks : InHand(m)'
  <2> TAKE m \in Asks
  <2>1. CASE m = n
    BY <2>1 DEF PreviewInv, PreviewTypeOK, InHand, At, Moves, Key
  <2>2. CASE m # n
    BY <2>2 DEF PreviewInv, PreviewTypeOK, InHand, At, Moves, Key
  <2> QED
    BY <2>1, <2>2
<1> QED
  BY <1>1, <1>2 DEF PreviewInv

-----------------------------------------------------------------------------

\* A row that only changes its status names what it named.
LEMMA StatusKeepsName ==
  ASSUME PreviewInv, NEW k \in CacheKeys, NEW status \in Statuses,
         preview' = [preview EXCEPT ![k].status = status], UNCHANGED audio
  PROVE  preview' \in [CacheKeys -> Row] /\ NamedAudioIsThere'
BY DEF PreviewInv, PreviewTypeOK, NamedAudioIsThere, Row

LEMMA RequestsKeepInv ==
  ASSUME PreviewInv, NEW n \in Asks, Request(n)
  PROVE  PreviewInv'
<1> DEFINE r == ask[n]
           k == Key(n)
<1>a. r \in Served /\ k \in CacheKeys /\ preview[k] \in Row /\ audio[k] \in Heard
  <2>1. r \in Served
    BY UnderWay DEF PreviewInv, Request, LookCreate, EnterNew, EnterKnown, LookRetry, LookCancel,
       Cancel, Run, Synthesize, StoreAudio, Ready, Fail, Stages, Making
  <2> QED
    BY <2>1 DEF PreviewInv, PreviewTypeOK, Served, Key
<1>b. preview \in [CacheKeys -> Row] /\ NamedAudioIsThere /\ ShownOK
  BY DEF PreviewInv, PreviewTypeOK
<1>c. ShownOK'
  BY <1>b DEF ShownOK, panel, Request, LookCreate, EnterNew, EnterKnown, LookRetry, LookCancel,
       Cancel, Run, Synthesize, StoreAudio, Ready, Fail
<1>d. \A stage \in Stages :
        /\ [r EXCEPT !.at = stage] \in Served /\ [r EXCEPT !.at = stage].at = stage
        /\ [Loaded(n) EXCEPT !.at = stage] \in Served /\ [Loaded(n) EXCEPT !.at = stage].at = stage
  BY <1>a DEF Loaded, Served, Row
<1>1. ASSUME NEW stage \in Stages \ {"store", "ready"},
             Moves(n, [r EXCEPT !.at = stage]) \/ Moves(n, [Loaded(n) EXCEPT !.at = stage]),
             preview' \in [CacheKeys -> Row], NamedAudioIsThere', UNCHANGED audio
      PROVE  PreviewInv'
  BY <1>1, <1>c, <1>d, MovingKeepsInv
<1>2. NamedAudioIsThere /\ UNCHANGED <<preview, audio>> => NamedAudioIsThere'
  BY DEF NamedAudioIsThere
<1>3. CASE LookCreate(n) \/ LookRetry(n) \/ LookCancel(n)
  <2>1. PICK stage \in {"answered", "enter", "queued", "cancelling"} :
          Moves(n, [Loaded(n) EXCEPT !.at = stage])
    BY <1>3 DEF LookCreate, LookRetry, LookCancel
  <2> QED
    BY <1>b, <1>1, <1>2, <1>3, <2>1 DEF LookCreate, LookRetry, LookCancel, Stages, Making
<1>4. CASE EnterNew(n)
  <2>1. CASE preview[k] = NoRow
    BY <1>a, <1>1, <1>4, <2>1, StatusKeepsName DEF EnterNew, Stages, Making, Statuses
  <2>2. CASE preview[k] # NoRow
    <3>1. PICK stage \in {"answered", "enter"} : Moves(n, [Loaded(n) EXCEPT !.at = stage])
      BY <1>4, <2>2 DEF EnterNew
    <3> QED
      BY <1>b, <1>1, <1>2, <1>4, <2>2, <3>1 DEF EnterNew, Stages, Making
  <2> QED
    BY <2>1, <2>2
<1>5. CASE EnterKnown(n)
  <2>1. PICK status \in Statuses : preview' = [preview EXCEPT ![k].status = status]
    <3>1. preview[k].status \in Statuses
      BY <1>a DEF Row
    <3> QED
      BY <1>5, <3>1 DEF EnterKnown, Statuses
  <2> QED
    BY <1>a, <1>1, <1>5, <2>1, StatusKeepsName DEF EnterKnown, Stages, Making
<1>6. CASE Run(n)
  BY <1>a, <1>1, <1>6, StatusKeepsName DEF Run, Stages, Making, Statuses
<1>7. CASE Cancel(n)
  <2> DEFINE q == [r EXCEPT !.at = "answered", !.status = "CANCELLED"]
  <2>1. q \in Served /\ q.at = "answered"
    BY <1>a DEF Served, Stages, Statuses, Terminal
  <2> QED
    BY <1>a, <1>c, <1>7, <2>1, StatusKeepsName, MovingKeepsInv
       DEF Cancel, Answers, Statuses, Terminal
<1>8. ASSUME NEW sound \in Heard, Synthesize(n, sound) PROVE PreviewInv'
  <2> DEFINE q == [r EXCEPT !.at = IF sound = Silence THEN "fail" ELSE "store", !.sound = sound]
  <2>1. q \in Served /\ (q.at = "store" => q.sound # Silence) /\ q.at # "ready"
    BY <1>a DEF Served, Stages, Making
  <2> HIDE DEF q
  <2> QED
    BY <1>b, <1>c, <1>2, <1>8, <2>1, MovingKeepsInv DEF Synthesize, q
<1>9. CASE StoreAudio(n)
  <2> DEFINE q == [r EXCEPT !.at = IF audio'[k] = r.sound THEN "ready" ELSE "fail"]
  <2>1. q \in Served /\ q.key = k /\ q.sound = r.sound /\ q.at # "store"
        /\ (q.at = "ready" => audio'[k] = r.sound)
    BY <1>a DEF Served, Stages, Making, Key
  <2>2. r.sound # Silence /\ r.sound \in Heard /\ UNCHANGED preview
    BY <1>9, <1>a DEF StoreAudio, PreviewInv, InHand, Served
  <2>3. audio' = [audio EXCEPT ![k] = IF @ = Silence THEN r.sound ELSE @]
        /\ ask' = [ask EXCEPT ![n] = q]
    BY <1>9 DEF StoreAudio, Moves
  <2>4. \A m \in CacheKeys : audio[m] # Silence => audio'[m] = audio[m]
    BY <2>3 DEF PreviewInv, PreviewTypeOK
  <2> HIDE DEF q
  <2>5. PreviewTypeOK'
    BY <1>a, <1>b, <1>c, <2>1, <2>2, <2>3 DEF PreviewInv, PreviewTypeOK
  <2>6. NamedAudioIsThere'
    BY <1>b, <2>2, <2>4 DEF NamedAudioIsThere
  <2>7. \A m \in Asks : InHand(m)'
    <3> TAKE m \in Asks
    <3>1. CASE m = n
      BY <2>1, <2>2, <2>3, <3>1 DEF PreviewInv, PreviewTypeOK, InHand, At, Key
    <3>2. CASE m # n
      <4>1. ask'[m] = ask[m]
        BY <2>3, <3>2 DEF PreviewInv, PreviewTypeOK
      <4>2. At(m, "ready") => Key(m) \in CacheKeys
        BY UnderWay DEF PreviewInv, Stages, Making, Served, Key
      <4> QED
        BY <2>4, <4>1, <4>2 DEF PreviewInv, InHand, At, Key
    <3> QED
      BY <3>1, <3>2
  <2> QED
    BY <2>5, <2>6, <2>7 DEF PreviewInv
<1>10. CASE Ready(n)
  <2> DEFINE q == [r EXCEPT !.at = "answered", !.status = "READY"]
  <2>1. q \in Served /\ q.at = "answered"
    BY <1>a DEF Served, Stages, Statuses, Terminal
  <2>2. r.sound # Silence /\ audio[k] = r.sound /\ UNCHANGED audio
    BY <1>10 DEF Ready, PreviewInv, InHand
  <2>3. preview' \in [CacheKeys -> Row] /\ NamedAudioIsThere'
    <3>1. CASE r.named
      BY <1>10, <3>1, <1>a, StatusKeepsName DEF Ready, Statuses, Terminal
    <3>2. CASE ~r.named
      BY <1>10, <3>2, <1>a, <1>b, <2>2 DEF Ready, Row, Statuses, Terminal, NamedAudioIsThere, Served
    <3> QED
      BY <3>1, <3>2
  <2> QED
    BY <1>a, <1>c, <1>10, <2>1, <2>2, <2>3, MovingKeepsInv DEF Ready, Answers
<1>11. CASE Fail(n)
  <2> DEFINE q == [r EXCEPT !.at = "answered", !.status = "FAILED"]
  <2>1. q \in Served /\ q.at = "answered"
    BY <1>a DEF Served, Stages, Statuses, Terminal
  <2>2. preview' \in [CacheKeys -> Row] /\ NamedAudioIsThere'
    <3>1. CASE r.named
      BY <1>11, <3>1, <1>a, <1>b DEF Fail, NoRow, Row, Statuses, Terminal, Heard, NamedAudioIsThere
    <3>2. CASE ~r.named
      BY <1>11, <3>2, <1>a, StatusKeepsName DEF Fail, Statuses, Terminal
    <3> QED
      BY <3>1, <3>2
  <2> QED
    BY <1>a, <1>c, <1>11, <2>1, <2>2, MovingKeepsInv DEF Fail, Answers
<1> QED
  BY <1>3, <1>4, <1>5, <1>6, <1>7, <1>8, <1>9, <1>10, <1>11 DEF Request, Heard

\* The panel shows and polls, and writes neither row nor file.
LEMMA PanelKeepsInv ==
  ASSUME PreviewInv, NEW n \in Asks, Panel(n)
  PROVE  PreviewInv'
<1> DEFINE r == ask[n]
<1>a. /\ preview \in [CacheKeys -> Row] /\ NamedAudioIsThere' /\ ShownOK
      /\ UNCHANGED <<preview, audio>>
  BY DEF PreviewInv, PreviewTypeOK, NamedAudioIsThere, Panel, Answered, PollRead, Polled, Unanswered
<1>b. r \in Served
  <2>1. r.at \in Stages
    BY DEF Panel, At, Answered, PollRead, Polled, Unanswered, Stages
  <2> QED
    BY <2>1, UnderWay DEF PreviewInv, At
<1>c. Voice(n) \in Voices /\ r.key \in CacheKeys /\ preview[r.key].status \in Statuses
  BY <1>a, <1>b DEF Served, Voice, CacheKeys, Row
<1>d. ShownOK'
  BY <1>a, <1>b, <1>c DEF ShownOK, Panel, panel, Shows, Answered, PollRead, Polled, Unanswered, Served
<1>e. \A left \in Int : PollAfter(n, left) \in Served /\ PollAfter(n, left).at \in {"over", "timer"}
  <2> TAKE left \in Int
  <2>1. \A stage \in {"over", "timer"}, l \in Int :
          /\ [r EXCEPT !.at = stage, !.left = l] \in Served
          /\ [r EXCEPT !.at = stage, !.left = l].at = stage
    BY <1>b DEF Served, Stages
  <2>2. 0 \in Int
    OBVIOUS
  <2>3. PollAfter(n, left) \in {[r EXCEPT !.at = "over", !.left = 0], [r EXCEPT !.at = "timer", !.left = left]}
    BY Zenon DEF PollAfter
  <2> HIDE DEF r
  <2> QED
    BY <2>1, <2>2, <2>3, Zenon
<1>1. CASE Answered(n)
  BY <1>1, <1>a, <1>d, <1>e, MovingKeepsInv, PreviewAssumption DEF Answered
<1>2. CASE Polled(n)
  <2>1. r.left - 1 \in Int
    BY <1>b DEF Served
  <2> QED
    BY <1>2, <1>a, <1>d, <1>e, <2>1, MovingKeepsInv DEF Polled
<1>3. CASE PollRead(n)
  <2> DEFINE q == [r EXCEPT !.at = "polled", !.status = preview[Key(n)].status]
  <2>1. q \in Served /\ q.at = "polled"
    BY <1>b, <1>c DEF Served, Stages, Key
  <2> QED
    BY <1>3, <1>a, <1>d, <2>1, MovingKeepsInv DEF PollRead
<1>4. CASE Unanswered(n)
  <2> DEFINE q == [r EXCEPT !.at = "over"]
  <2>1. q \in Served /\ q.at = "over"
    BY <1>b DEF Served, Stages
  <2> QED
    BY <1>4, <1>a, <1>d, <2>1, MovingKeepsInv DEF Unanswered
<1> QED
  BY <1>1, <1>2, <1>3, <1>4 DEF Panel

\* A crash loses what requests have in hand, and leaves what they wrote.
LEMMA CrashKeepsInv == ASSUME PreviewInv, Crash PROVE PreviewInv'
<1>1. \A n \in Asks : ask'[n] = ask[n] \/ (ask[n] \in Served /\ ask'[n] = [ask[n] EXCEPT !.at = "lost"])
  BY DEF Crash, PreviewInv, PreviewTypeOK, Unasked, Making
<1>2. \A n \in Asks : ask[n] \in Served =>
        [ask[n] EXCEPT !.at = "lost"] \in Served /\ [ask[n] EXCEPT !.at = "lost"].at = "lost"
  BY DEF Served, Stages
<1>3. PreviewTypeOK'
  BY <1>1, <1>2 DEF PreviewInv, PreviewTypeOK, ShownOK, Crash, panel
<1>4. \A n \in Asks : InHand(n)'
  BY <1>1, <1>2 DEF PreviewInv, InHand, At, Key, Crash
<1> QED
  BY <1>3, <1>4 DEF PreviewInv, NamedAudioIsThere, Crash

LEMMA PreviewNextKeepsInv == PreviewInv /\ [PreviewNext]_previewVars => PreviewInv'
<1> SUFFICES ASSUME PreviewInv, [PreviewNext]_previewVars PROVE PreviewInv'
  OBVIOUS
<1>1. ASSUME NEW k \in CacheKeys, AskPreview(k) PROVE PreviewInv'
  BY <1>1, AskingKeepsInv DEF AskPreview
<1>2. ASSUME NEW k \in CacheKeys, NEW what \in {"create", "retry", "cancel"}, AskElsewhere(what, k)
      PROVE  PreviewInv'
  BY <1>2, AskingKeepsInv DEF AskElsewhere
<1>3. ASSUME NEW v \in Voices, AskRetry(v) \/ AskCancel(v) PROVE PreviewInv'
  <2>1. shown[v].key \in CacheKeys
    <3>1. shown[v] \in {NothingShown} \cup [status : Statuses, key : CacheKeys]
      BY DEF PreviewInv, PreviewTypeOK, ShownOK
    <3>2. shown[v].status # NothingShown.status
      BY <1>3 DEF AskRetry, AskCancel, NothingShown
    <3> QED
      BY <3>1, <3>2
  <2> QED
    BY <1>3, <2>1, AskingKeepsInv DEF AskRetry, AskCancel
<1>4. CASE UNCHANGED previewVars
  <2>1. \A n \in Asks : InHand(n)'
    BY <1>4 DEF PreviewInv, InHand, At, Key, previewVars
  <2> QED
    BY <1>4, <2>1 DEF PreviewInv, PreviewTypeOK, ShownOK, NamedAudioIsThere, previewVars
<1> QED
  BY <1>1, <1>2, <1>3, <1>4, RequestsKeepInv, PanelKeepsInv, CrashKeepsInv DEF PreviewNext

\* However many requests make, cancel, retry or lose the same preview side by side, a row
\* that names audio names the audio of its file (modules/voices/preview.py).
THEOREM AudioStaysNamed == PreviewSpec => []NamedAudioIsThere
<1>1. PreviewInv => NamedAudioIsThere
  BY DEF PreviewInv
<1> QED
  BY <1>1, PreviewStarts, PreviewNextKeepsInv, PTL DEF PreviewSpec

-----------------------------------------------------------------------------
\* What is queued or running has a request that will end it, or the process died; what
\* the panel shows as such has a poll ahead, or the panel has given up.
PendingIsMade ==
  \A k \in CacheKeys : preview[k].status \in {"QUEUED", "RUNNING"} =>
    deaths > 0 \/ \E n \in Asks : ask[n].at \in Making /\ Key(n) = k

PendingIsPolled ==
  \A v \in Voices : shown[v].status \in {"QUEUED", "RUNNING"} =>
    gaveUp \/ \E n \in Asks : ask[n].at \in {"timer", "polled"} /\ Voice(n) = v

HangsInv == PreviewInv /\ deaths \in Nat /\ PendingIsMade /\ PendingIsPolled

\* One ask moves and writes no row but that of k: it goes on making, leaves the row at its
\* end, or never was the one to make it.
LEMMA MoverKeepsMade ==
  ASSUME PendingIsMade, NEW n \in Asks, NEW k \in CacheKeys, UNCHANGED deaths,
         \A m \in Asks \ {n} : ask'[m] = ask[m],
         \A l \in CacheKeys \ {k} : preview'[l] = preview[l],
         ask[n].at \in Making => Key(n) = k,
         \/ ask'[n].at \in Making /\ ask'[n].key = k
         \/ preview'[k].status \notin {"QUEUED", "RUNNING"}
         \/ ask[n].at \notin Making /\ preview'[k] = preview[k]
  PROVE  PendingIsMade'
<1> SUFFICES ASSUME NEW l \in CacheKeys, preview'[l].status \in {"QUEUED", "RUNNING"}, ~(deaths > 0)
             PROVE  \E m \in Asks : ask'[m].at \in Making /\ ask'[m].key = l
  BY DEF PendingIsMade, Key
<1>1. CASE l # k
  <2>1. PICK m \in Asks : ask[m].at \in Making /\ ask[m].key = l
    BY <1>1 DEF PendingIsMade, Key
  <2>2. m # n
    BY <1>1, <2>1 DEF Key
  <2> QED
    BY <2>1, <2>2
<1>2. CASE l = k /\ ask'[n].at \in Making /\ ask'[n].key = k
  BY <1>2
<1>3. CASE l = k /\ ask[n].at \notin Making /\ preview'[k] = preview[k]
  <2>1. PICK m \in Asks : ask[m].at \in Making /\ ask[m].key = l
    BY <1>3 DEF PendingIsMade, Key
  <2>2. m # n
    BY <1>3, <2>1
  <2> QED
    BY <2>1, <2>2
<1> QED
  BY <1>1, <1>2, <1>3

\* One ask moves that no poll is ahead for, and the panel shows what it showed.
LEMMA MoverKeepsPolled ==
  ASSUME PendingIsPolled, NEW n \in Asks, ask[n].at \notin {"timer", "polled"}, UNCHANGED shown,
         gaveUp => gaveUp',
         \A m \in Asks \ {n} : ask'[m] = ask[m]
  PROVE  PendingIsPolled'
<1> SUFFICES ASSUME NEW v \in Voices, shown[v].status \in {"QUEUED", "RUNNING"}, ~gaveUp
             PROVE  \E m \in Asks : ask'[m].at \in {"timer", "polled"} /\ ask'[m].key[1] = v
  BY DEF PendingIsPolled, Voice
<1>1. PICK m \in Asks : ask[m].at \in {"timer", "polled"} /\ ask[m].key[1] = v
  BY DEF PendingIsPolled, Voice
<1> QED
  BY <1>1

LEMMA AskingHangsNothing ==
  ASSUME HangsInv, NEW what \in {"create", "retry", "cancel"}, NEW k \in CacheKeys,
         NEW fromPanel \in BOOLEAN, Ask(what, k, fromPanel),
         UNCHANGED <<preview, audio, panel, deaths>>
  PROVE  PendingIsMade' /\ PendingIsPolled'
<1>1. PICK n \in Asks : ask[n] = Unasked /\ \E r : ask' = [ask EXCEPT ![n] = r]
  <2>1. PICK n \in Asks :
          /\ \A m \in Asks : (m < n) = (ask[m] # Unasked)
          /\ \E r : ask' = [ask EXCEPT ![n] = r]
    BY DEF Ask, Moves
  <2>2. ~(n < n)
    BY PreviewAssumption DEF Asks
  <2> QED
    BY <2>1, <2>2
<1>2. \A m \in Asks \ {n} : ask'[m] = ask[m]
  BY <1>1 DEF HangsInv, PreviewInv, PreviewTypeOK
<1>3. ask[n].at \notin Making /\ ask[n].at \notin {"timer", "polled"}
  BY <1>1 DEF Unasked, Making
<1>4. PendingIsMade'
  BY <1>2, <1>3, MoverKeepsMade DEF HangsInv
<1> QED
  BY <1>2, <1>3, <1>4, MoverKeepsPolled DEF HangsInv, panel

LEMMA RequestsHangNothing ==
  ASSUME HangsInv, NEW n \in Asks, Request(n)
  PROVE  PendingIsMade' /\ PendingIsPolled' /\ UNCHANGED deaths
<1> DEFINE r == ask[n]
           k == Key(n)
<1>a. r \in Served /\ k \in CacheKeys /\ preview \in [CacheKeys -> Row] /\ k = r.key
  <2>1. r \in Served
    BY UnderWay DEF HangsInv, PreviewInv, Request, LookCreate, EnterNew, EnterKnown, LookRetry,
       LookCancel, Cancel, Run, Synthesize, StoreAudio, Ready, Fail, Stages, Making
  <2> QED
    BY <2>1 DEF HangsInv, PreviewInv, PreviewTypeOK, Served, Key
<1>b. UNCHANGED <<panel, deaths>> /\ r.at \notin {"timer", "polled"}
  BY DEF Request, LookCreate, EnterNew, EnterKnown, LookRetry, LookCancel, Cancel, Run,
     Synthesize, StoreAudio, Ready, Fail, At, panel
<1>c. \E q : ask' = [ask EXCEPT ![n] = q]
  BY DEF Request, LookCreate, EnterNew, EnterKnown, LookRetry, LookCancel, Cancel, Run,
     Synthesize, StoreAudio, Ready, Fail, Moves, Answers
<1>d. \A m \in Asks \ {n} : ask'[m] = ask[m]
  BY <1>c DEF HangsInv, PreviewInv, PreviewTypeOK
<1> SUFFICES PendingIsMade'
  BY <1>b, <1>d, MoverKeepsPolled DEF HangsInv, panel
<1>e. \A q : Moves(n, q) => ask'[n] = q
  BY DEF HangsInv, PreviewInv, PreviewTypeOK, Moves
<1>f. \A l \in CacheKeys \ {k} : preview'[l] = preview[l]
  BY <1>a DEF Request, LookCreate, EnterNew, EnterKnown, LookRetry, LookCancel, Cancel, Run,
     Synthesize, StoreAudio, Ready, Fail
<1>g. \A stage \in Stages :
        /\ [r EXCEPT !.at = stage].key = k /\ [r EXCEPT !.at = stage].at = stage
        /\ [Loaded(n) EXCEPT !.at = stage].key = k /\ [Loaded(n) EXCEPT !.at = stage].at = stage
  BY <1>a DEF Loaded, Served, Row
<1>1. ASSUME \/ ask'[n].at \in Making /\ ask'[n].key = k
             \/ preview'[k].status \notin {"QUEUED", "RUNNING"}
             \/ ask[n].at \notin Making /\ preview'[k] = preview[k]
      PROVE  PendingIsMade'
  BY <1>1, <1>a, <1>b, <1>d, <1>f, MoverKeepsMade DEF HangsInv
<1>h. ASSUME NEW stage \in Making,
             Moves(n, [r EXCEPT !.at = stage]) \/ Moves(n, [Loaded(n) EXCEPT !.at = stage])
      PROVE  PendingIsMade'
  <2>1. stage \in Stages
    BY DEF Stages
  <2>2. ask'[n] \in {[r EXCEPT !.at = stage], [Loaded(n) EXCEPT !.at = stage]}
    BY <1>h, <1>e
  <2>3. ask'[n].key = k /\ ask'[n].at = stage
    BY <1>g, <2>1, <2>2
  <2> QED
    BY <1>1, <2>3
<1>2. CASE LookCreate(n) \/ LookRetry(n) \/ LookCancel(n)
  BY <1>1, <1>2 DEF LookCreate, LookRetry, LookCancel, At, Making
<1>3. CASE EnterNew(n)
  <2>1. CASE preview[k] = NoRow
    BY <1>3, <1>h, <2>1 DEF EnterNew, Making
  <2>2. CASE preview[k].status = "READY"
    BY <1>1, <1>3, <2>2 DEF EnterNew, NoRow
  <2>3. CASE preview[k] # NoRow /\ preview[k].status # "READY"
    BY <1>3, <1>h, <2>3 DEF EnterNew, Making
  <2> QED
    BY <2>1, <2>2, <2>3
<1>4. CASE EnterKnown(n)
  BY <1>4, <1>h DEF EnterKnown, Making
<1>5. CASE Run(n)
  BY <1>5, <1>h DEF Run, Making
<1>6. CASE Cancel(n)
  BY <1>1, <1>6, <1>a DEF Cancel, Row
<1>7. ASSUME NEW sound \in Heard, Synthesize(n, sound) PROVE PendingIsMade'
  <2> DEFINE q == [r EXCEPT !.at = IF sound = Silence THEN "fail" ELSE "store", !.sound = sound]
  <2>1. q.key = k /\ q.at \in Making
    BY <1>a DEF Served, Making
  <2>2. ask'[n] = q
    BY <1>7, <1>e DEF Synthesize
  <2> QED
    BY <1>1, <2>1, <2>2
<1>8. CASE StoreAudio(n)
  <2>1. PICK stage \in {"ready", "fail"} : Moves(n, [r EXCEPT !.at = stage])
    BY <1>8 DEF StoreAudio
  <2> QED
    BY <1>h, <2>1 DEF Making
<1>9. CASE Ready(n)
  BY <1>1, <1>9, <1>a DEF Ready, Row
<1>10. CASE Fail(n)
  BY <1>1, <1>10, <1>a DEF Fail, Row, NoRow
<1> QED
  BY <1>2, <1>3, <1>4, <1>5, <1>6, <1>7, <1>8, <1>9, <1>10 DEF Request, Heard

LEMMA PanelHangsNothing ==
  ASSUME HangsInv, NEW n \in Asks, Panel(n)
  PROVE  PendingIsMade' /\ PendingIsPolled' /\ UNCHANGED deaths
<1> DEFINE r == ask[n]
           v == Voice(n)
<1>a. r.at \in {"answered", "timer", "polled", "lost"} /\ r \in Served
  <2>1. r.at \in {"answered", "timer", "polled", "lost"}
    BY DEF Panel, At, Answered, PollRead, Polled, Unanswered
  <2> QED
    BY <2>1, UnderWay DEF HangsInv, PreviewInv, At, Stages
<1>b. UNCHANGED <<preview, deaths>>
  BY DEF Panel, Answered, PollRead, Polled, Unanswered
<1>c. \E q : ask' = [ask EXCEPT ![n] = q]
  BY DEF Panel, Answered, PollRead, Polled, Unanswered, Moves
<1>d. \A m \in Asks \ {n} : ask'[m] = ask[m]
  BY <1>c DEF HangsInv, PreviewInv, PreviewTypeOK
<1>e. \A q : Moves(n, q) => ask'[n] = q
  BY DEF HangsInv, PreviewInv, PreviewTypeOK, Moves
<1>f. r.key \in CacheKeys /\ v \in Voices /\ r.left \in Int /\ v = r.key[1] /\ r.status \in Statuses
  BY <1>a DEF Served, Voice, CacheKeys
<1>1. PendingIsMade'
  BY <1>a, <1>b, <1>d, <1>f, MoverKeepsMade DEF HangsInv, Making
<1> SUFFICES PendingIsPolled'
  BY <1>1, <1>b
\* A voice is polled for by whom it was, or by this ask.
<1>2. ASSUME gaveUp => gaveUp',
             \A w \in Voices \ {v} : shown'[w] = shown[w],
             gaveUp' \/ shown'[v].status \notin {"QUEUED", "RUNNING"}
               \/ (ask'[n].at \in {"timer", "polled"} /\ ask'[n].key = r.key)
      PROVE  PendingIsPolled'
  <2> SUFFICES ASSUME NEW w \in Voices, shown'[w].status \in {"QUEUED", "RUNNING"}, ~gaveUp'
               PROVE  \E m \in Asks : ask'[m].at \in {"timer", "polled"} /\ ask'[m].key[1] = w
    BY DEF PendingIsPolled, Voice
  <2>1. CASE w = v
    BY <1>2, <1>f, <2>1
  <2>2. CASE w # v
    <3>1. PICK m \in Asks : ask[m].at \in {"timer", "polled"} /\ ask[m].key[1] = w
      BY <1>2, <2>2 DEF HangsInv, PendingIsPolled, Voice
    <3>2. m # n
      BY <1>f, <2>2, <3>1
    <3> QED
      BY <1>d, <3>1, <3>2
  <2> QED
    BY <2>1, <2>2
<1>g. Shows(n) => /\ shown'[v].status = r.status
                  /\ \A w \in Voices \ {v} : shown'[w] = shown[w]
  BY <1>f DEF HangsInv, PreviewInv, PreviewTypeOK, ShownOK, Shows
<1>h. ASSUME NEW left \in Int, left # 0, r.status \in {"QUEUED", "RUNNING"}
      PROVE  PollAfter(n, left).at = "timer" /\ PollAfter(n, left).key = r.key
  BY <1>a, <1>h DEF PollAfter, Terminal, Served
<1>3. CASE Answered(n)
  <2>1. PollAttempts \in Int /\ PollAttempts # 0
    BY PreviewAssumption
  <2> QED
    BY <1>2, <1>3, <1>e, <1>g, <1>h, <2>1 DEF Answered
<1>4. CASE Polled(n)
  <2>1. CASE r.left = 1 /\ r.status \in {"QUEUED", "RUNNING"}
    BY <1>2, <1>4, <1>g, <2>1 DEF Polled, Terminal
  <2>2. CASE r.left # 1 /\ r.status \in {"QUEUED", "RUNNING"}
    <3>1. r.left - 1 \in Int /\ r.left - 1 # 0
      BY <1>f, <2>2
    <3>2. gaveUp => gaveUp'
      BY <1>4 DEF Polled
    <3>3. ask'[n].at = "timer" /\ ask'[n].key = r.key
      BY <1>4, <1>e, <1>h, <2>2, <3>1 DEF Polled
    <3> QED
      BY <1>2, <1>4, <1>g, <3>2, <3>3 DEF Polled
  <2>3. CASE r.status \notin {"QUEUED", "RUNNING"}
    <3>1. gaveUp => gaveUp'
      BY <1>4 DEF Polled
    <3> QED
      BY <1>2, <1>4, <1>g, <2>3, <3>1 DEF Polled
  <2> QED
    BY <2>1, <2>2, <2>3
<1>5. CASE PollRead(n)
  <2> DEFINE q == [r EXCEPT !.at = "polled", !.status = preview[Key(n)].status]
  <2>1. q.at = "polled" /\ q.key = r.key
    BY <1>a DEF Served
  <2>2. ask'[n] = q /\ UNCHANGED <<shown, gaveUp>>
    BY <1>5, <1>e DEF PollRead, panel
  <2> QED
    BY <1>2, <2>1, <2>2
<1>6. CASE Unanswered(n)
  <2>1. CASE r.at \in {"timer", "polled"}
    BY <1>2, <1>6, <2>1 DEF Unanswered
  <2>2. CASE r.at \notin {"timer", "polled"}
    BY <1>6, <1>d, <2>2, MoverKeepsPolled DEF Unanswered, HangsInv
  <2> QED
    BY <2>1, <2>2
<1> QED
  BY <1>3, <1>4, <1>5, <1>6 DEF Panel

\* A crash is known to have happened, and the panel lives on in its browser.
LEMMA CrashHangsNothing ==
  ASSUME HangsInv, Crash
  PROVE  PendingIsMade' /\ PendingIsPolled' /\ deaths' \in Nat
<1>1. deaths' \in Nat /\ deaths' > 0
  BY DEF HangsInv, Crash
<1>2. \A n \in Asks : ask[n].at \in {"timer", "polled"} => ask'[n] = ask[n]
  BY DEF Crash, Making
<1>3. PendingIsPolled'
  <2> SUFFICES ASSUME NEW v \in Voices, shown[v].status \in {"QUEUED", "RUNNING"}, ~gaveUp
               PROVE  \E n \in Asks : ask'[n].at \in {"timer", "polled"} /\ ask'[n].key[1] = v
    BY DEF PendingIsPolled, Crash, Voice, panel
  <2>1. PICK n \in Asks : ask[n].at \in {"timer", "polled"} /\ ask[n].key[1] = v
    BY DEF HangsInv, PendingIsPolled, Voice
  <2> QED
    BY <1>2, <2>1
<1> QED
  BY <1>1, <1>3 DEF PendingIsMade

LEMMA NextHangsNothing == HangsInv /\ [PreviewNext]_previewVars => HangsInv'
<1> SUFFICES ASSUME HangsInv, [PreviewNext]_previewVars PROVE HangsInv'
  OBVIOUS
<1>0. PreviewInv'
  BY PreviewNextKeepsInv DEF HangsInv
<1> DEFINE Good == PendingIsMade' /\ PendingIsPolled' /\ deaths' \in Nat
<1>1. ASSUME NEW k \in CacheKeys, AskPreview(k) PROVE Good
  BY <1>1, AskingHangsNothing DEF AskPreview, HangsInv
<1>2. ASSUME NEW k \in CacheKeys, NEW what \in {"create", "retry", "cancel"}, AskElsewhere(what, k)
      PROVE  Good
  BY <1>2, AskingHangsNothing DEF AskElsewhere, HangsInv
<1>3. ASSUME NEW v \in Voices, AskRetry(v) \/ AskCancel(v) PROVE Good
  <2>1. shown[v].key \in CacheKeys
    <3>1. shown[v] \in {NothingShown} \cup [status : Statuses, key : CacheKeys]
      BY DEF HangsInv, PreviewInv, PreviewTypeOK, ShownOK
    <3>2. shown[v].status # NothingShown.status
      BY <1>3 DEF AskRetry, AskCancel, NothingShown
    <3> QED
      BY <3>1, <3>2
  <2> QED
    BY <1>3, <2>1, AskingHangsNothing DEF AskRetry, AskCancel, HangsInv
<1>4. ASSUME UNCHANGED previewVars PROVE Good
  BY <1>4 DEF HangsInv, PendingIsMade, PendingIsPolled, previewVars, panel, Key, Voice
<1>5. ASSUME NEW n \in Asks, Request(n) \/ Panel(n) PROVE Good
  BY <1>5, RequestsHangNothing, PanelHangsNothing DEF HangsInv
<1>6. Good
  BY <1>1, <1>2, <1>3, <1>4, <1>5, CrashHangsNothing DEF PreviewNext
<1> QED
  BY <1>0, <1>6 DEF HangsInv

\* Whatever requests make, lose or cancel side by side, a preview that is pending has a
\* request that will end it unless the process died, and one the panel shows as pending has
\* a poll ahead unless the panel has given up (modules/voices/preview.py,
\* VoicePreviewPanel.tsx).
THEOREM PreviewsDoNotHang == PreviewSpec => []NoPreviewHangs
<1>1. PreviewInit => HangsInv
  <2>1. PreviewInit => PendingIsMade /\ PendingIsPolled /\ deaths \in Nat
    BY DEF PreviewInit, PendingIsMade, PendingIsPolled, NoRow, NothingShown
  <2> QED
    BY <2>1, PreviewStarts DEF HangsInv
<1>2. HangsInv => NoPreviewHangs
  BY DEF HangsInv, PendingIsMade, PendingIsPolled, NoPreviewHangs
<1> QED
  BY <1>1, <1>2, NextHangsNothing, PTL DEF PreviewSpec

-----------------------------------------------------------------------------
(* Batches, for any chapters, selections and batches: an answered batch is *)
(* complete, and asked for again it has the same jobs.                     *)

Elements(s) == {s[k] : k \in DOMAIN s}

\* One job for one key, and the job says what its key says.
JobsOK ==
  /\ job \in Seq(Elements(job))
  /\ \A k, l \in DOMAIN job : job[k].key = job[l].key => k = l
  /\ \A k \in DOMAIN job :
       /\ job[k].chapter = job[k].key.chapter
       /\ job[k].plan = [operation |-> job[k].key.batch[2], revision |-> job[k].key.revision]

BatchStages == {"asked", "enqueuing", "answered", "refused", "dead"}

\* A request, whatever its chapters and their revisions are.
IsRequest(p) ==
  \E I, O, R : p \in [at : BatchStages, ids : I, operation : O, revisions : R, jobs : Seq(Nat)]

\* The jobs a request has so far are those of its first chapters.
PostOK(p) ==
  \/ p = Unposted
  \/ /\ IsRequest(p)
     /\ \A i \in DOMAIN p.jobs : p.jobs[i] \in DOMAIN job /\ job[p.jobs[i]].key = ChildKey(p, i)
     /\ p.at = "asked" => p.jobs = <<>>
     /\ p.at = "answered" => DOMAIN p.jobs = DOMAIN p.ids

BatchInv ==
  /\ JobsOK
  /\ post = [n \in Posts |-> post[n]]
  /\ \A n \in Posts : PostOK(post[n])

-----------------------------------------------------------------------------

LEMMA AppendFacts ==
  ASSUME NEW s, s \in Seq(Elements(s)), NEW e
  PROVE  LET t == Append(s, e) IN
         /\ t \in Seq(Elements(t)) /\ Len(s) \in Nat /\ DOMAIN s = 1..Len(s)
         /\ DOMAIN t = 1..(Len(s) + 1) /\ t[Len(s) + 1] = e /\ Len(t) = Len(s) + 1
         /\ \A k \in 1..Len(s) : t[k] = s[k]
<1> DEFINE t == Append(s, e)
           S == Elements(s) \cup {e}
<1>1. s \in Seq(S) /\ e \in S
  <2>1. \A k \in 1..Len(s) : s[k] \in S
    BY DEF Elements
  <2>2. Len(s) \in Nat /\ s \in [1..Len(s) -> S]
    BY <2>1
  <2> QED
    BY <2>2
<1> HIDE DEF S
<1>2. /\ t \in Seq(S) /\ Len(s) \in Nat /\ DOMAIN s = 1..Len(s)
      /\ DOMAIN t = 1..(Len(s) + 1) /\ t[Len(s) + 1] = e /\ Len(t) = Len(s) + 1
      /\ \A k \in 1..Len(s) : t[k] = s[k]
  BY <1>1
<1> HIDE DEF t
<1>3. t \in Seq(Elements(t))
  <2>1. \A k \in 1..Len(t) : t[k] \in Elements(t)
    BY <1>2 DEF Elements
  <2>2. Len(t) \in Nat /\ t \in [1..Len(t) -> Elements(t)]
    BY <1>2, <2>1
  <2> QED
    BY <2>2
<1> QED
  BY <1>2, <1>3 DEF t

\* The three changes of a request.
WithJobs(p, jobs) == [p EXCEPT !.jobs = jobs]
WithRevisions(p, revisions) == [p EXCEPT !.at = "enqueuing", !.revisions = revisions]
AtStage(p, at) == [p EXCEPT !.at = at]

LEMMA WithJobsFacts ==
  ASSUME NEW p, IsRequest(p), NEW jobs \in Seq(Nat)
  PROVE  LET q == WithJobs(p, jobs) IN
         /\ IsRequest(q)
         /\ q.at = p.at /\ q.ids = p.ids /\ q.operation = p.operation
         /\ q.revisions = p.revisions /\ q.jobs = jobs
<1> DEFINE q == WithJobs(p, jobs)
<1>1. PICK I, O, R : p \in [at : BatchStages, ids : I, operation : O, revisions : R, jobs : Seq(Nat)]
  BY DEF IsRequest
<1>2. q \in [at : BatchStages, ids : I, operation : O, revisions : R, jobs : Seq(Nat)]
  BY <1>1 DEF WithJobs
<1>3. /\ q.at = p.at /\ q.ids = p.ids /\ q.operation = p.operation
      /\ q.revisions = p.revisions /\ q.jobs = jobs
  BY <1>1 DEF WithJobs
<1> HIDE DEF q
<1>4. IsRequest(q)
  BY <1>2 DEF IsRequest
<1> QED
  BY <1>3, <1>4 DEF q

LEMMA WithRevisionsFacts ==
  ASSUME NEW p, IsRequest(p), NEW revisions
  PROVE  LET q == WithRevisions(p, revisions) IN
         /\ IsRequest(q)
         /\ q.at = "enqueuing" /\ q.ids = p.ids /\ q.operation = p.operation
         /\ q.revisions = revisions /\ q.jobs = p.jobs
<1> DEFINE q == WithRevisions(p, revisions)
<1>1. PICK I, O, R : p \in [at : BatchStages, ids : I, operation : O, revisions : R, jobs : Seq(Nat)]
  BY DEF IsRequest
<1>2. q \in [at : BatchStages, ids : I, operation : O, revisions : {revisions}, jobs : Seq(Nat)]
  BY <1>1 DEF WithRevisions, BatchStages
<1>3. /\ q.at = "enqueuing" /\ q.ids = p.ids /\ q.operation = p.operation
      /\ q.revisions = revisions /\ q.jobs = p.jobs
  BY <1>1 DEF WithRevisions
<1> HIDE DEF q
<1>4. IsRequest(q)
  BY <1>2 DEF IsRequest
<1> QED
  BY <1>3, <1>4 DEF q

LEMMA AtStageFacts ==
  ASSUME NEW p, IsRequest(p), NEW at \in BatchStages
  PROVE  LET q == AtStage(p, at) IN
         /\ IsRequest(q)
         /\ q.at = at /\ q.ids = p.ids /\ q.operation = p.operation
         /\ q.revisions = p.revisions /\ q.jobs = p.jobs
<1> DEFINE q == AtStage(p, at)
<1>1. PICK I, O, R : p \in [at : BatchStages, ids : I, operation : O, revisions : R, jobs : Seq(Nat)]
  BY DEF IsRequest
<1>2. q \in [at : BatchStages, ids : I, operation : O, revisions : R, jobs : Seq(Nat)]
  BY <1>1 DEF AtStage
<1>3. /\ q.at = at /\ q.ids = p.ids /\ q.operation = p.operation
      /\ q.revisions = p.revisions /\ q.jobs = p.jobs
  BY <1>1 DEF AtStage
<1> HIDE DEF q
<1>4. IsRequest(q)
  BY <1>2 DEF IsRequest
<1> QED
  BY <1>3, <1>4 DEF q

\* What is known of a request.
LEMMA PostFacts ==
  ASSUME BatchInv, NEW n \in Posts, post[n].at \in BatchStages
  PROVE  LET p == post[n] IN
         /\ IsRequest(p) /\ p.jobs \in Seq(Nat)
         /\ \A i \in DOMAIN p.jobs : p.jobs[i] \in DOMAIN job /\ job[p.jobs[i]].key = ChildKey(p, i)
         /\ p.at = "asked" => p.jobs = <<>>
         /\ p.at = "answered" => DOMAIN p.jobs = DOMAIN p.ids
<1>1. PostOK(post[n]) /\ post[n] # Unposted
  BY DEF BatchInv, BatchStages, Unposted
<1>2. IsRequest(post[n])
  BY <1>1 DEF PostOK
<1>3. post[n].jobs \in Seq(Nat)
  BY <1>2 DEF IsRequest
<1> QED
  BY <1>1, <1>2, <1>3 DEF PostOK

LEMMA BatchStart == BatchInit => BatchInv
<1> SUFFICES ASSUME BatchInit PROVE BatchInv
  OBVIOUS
<1>1. job = <<>> /\ post = [n \in Posts |-> Unposted]
  BY DEF BatchInit
<1>2. JobsOK
  BY <1>1 DEF JobsOK, Elements
<1> QED
  BY <1>1, <1>2 DEF BatchInv, PostOK

\* Steps that change one request alone.
LEMMA PostStep ==
  ASSUME BatchInv, UNCHANGED job, NEW n \in Posts, NEW p,
         post' = [post EXCEPT ![n] = p], PostOK(p)
  PROVE  BatchInv'
<1>1. JobsOK'
  BY DEF BatchInv, JobsOK
<1>2. post' = [m \in Posts |-> post'[m]] /\ \A m \in Posts : post'[m] = IF m = n THEN p ELSE post[m]
  BY DEF BatchInv
<1>3. \A m \in Posts : PostOK(post'[m])
  BY <1>2 DEF BatchInv
<1>4. \A m \in Posts : PostOK(post[m])'
  BY <1>3 DEF PostOK
<1> QED
  BY <1>1, <1>2, <1>4 DEF BatchInv

\* A child gets the job of its key, a new one when there is none.
LEMMA EnqueueKeepsInv ==
  ASSUME BatchInv, NEW n \in Posts, EnqueueChild(n)
  PROVE  BatchInv'
<1> DEFINE p == post[n]
           i == Len(p.jobs) + 1
           known == {j \in DOMAIN job : job[j].key = ChildKey(p, i)}
           child == [key |-> ChildKey(p, i), chapter |-> p.ids[i],
                     plan |-> [operation |-> p.operation, revision |-> p.revisions[i]]]
           found == IF known = {} THEN Len(job') ELSE CHOOSE j \in known : TRUE
           new == WithJobs(p, Append(p.jobs, found))
<1>a. /\ p.at = "enqueuing" /\ i \in DOMAIN p.ids
      /\ job' = IF known = {} THEN Append(job, child) ELSE job
      /\ post' = [post EXCEPT ![n] = new]
  BY DEF EnqueueChild, WithJobs
<1>b. /\ IsRequest(p) /\ p.jobs \in Seq(Nat)
      /\ \A k \in DOMAIN p.jobs : p.jobs[k] \in DOMAIN job /\ job[p.jobs[k]].key = ChildKey(p, k)
  BY <1>a, PostFacts DEF BatchStages
<1>c. /\ child.key = ChildKey(p, i) /\ child.chapter = child.key.chapter
      /\ child.plan = [operation |-> child.key.batch[2], revision |-> child.key.revision]
  BY DEF ChildKey, BatchInput
<1> DEFINE key == ChildKey(p, i)
<1>d. /\ JobsOK /\ Len(job) \in Nat /\ DOMAIN job = 1..Len(job)
  BY DEF BatchInv, JobsOK
<1> HIDE DEF child, p, i
\* What there was stays, and the child has its job.
<1>1. /\ JobsOK' /\ found \in DOMAIN job' /\ job'[found].key = key /\ found \in Nat
      /\ \A k \in DOMAIN job : k \in DOMAIN job' /\ job'[k] = job[k]
  <2>1. CASE known # {}
    <3>1. found \in known /\ job' = job
      BY <1>a, <2>1
    <3> QED
      BY <1>d, <3>1 DEF JobsOK
  <2>2. CASE known = {}
    <3>1. /\ job' = Append(job, child) /\ \A k \in DOMAIN job : job[k].key # key
      BY <1>a, <2>2
    <3>2. /\ job' \in Seq(Elements(job')) /\ DOMAIN job' = 1..(Len(job) + 1)
          /\ job'[Len(job) + 1] = child /\ found = Len(job) + 1
          /\ \A k \in 1..Len(job) : job'[k] = job[k]
      BY <1>d, <2>2, <3>1, AppendFacts DEF JobsOK
    <3>3. \A k, l \in DOMAIN job' : job'[k].key = job'[l].key => k = l
      BY <1>c, <1>d, <3>1, <3>2 DEF JobsOK
    <3>4. \A k \in DOMAIN job' :
             /\ job'[k].chapter = job'[k].key.chapter
             /\ job'[k].plan = [operation |-> job'[k].key.batch[2], revision |-> job'[k].key.revision]
      BY <1>c, <1>d, <3>2 DEF JobsOK
    <3>5. JobsOK'
      BY <3>2, <3>3, <3>4 DEF JobsOK, Elements
    <3> QED
      BY <1>c, <1>d, <3>2, <3>5
  <2> QED
    BY <2>1, <2>2
<1> HIDE DEF found
<1>2. /\ IsRequest(new) /\ new.at = "enqueuing" /\ new.jobs = Append(p.jobs, found)
      /\ new.ids = p.ids /\ new.operation = p.operation /\ new.revisions = p.revisions
  <2>1. Append(p.jobs, found) \in Seq(Nat)
    BY <1>1, <1>b
  <2> QED
    BY <1>a, <1>b, <2>1, WithJobsFacts
<1> HIDE DEF new
<1>3. /\ new.jobs \in Seq(Nat) /\ Len(p.jobs) \in Nat /\ DOMAIN p.jobs = 1..Len(p.jobs)
      /\ DOMAIN new.jobs = 1..(Len(p.jobs) + 1)
      /\ new.jobs[Len(p.jobs) + 1] = found /\ \A k \in 1..Len(p.jobs) : new.jobs[k] = p.jobs[k]
  BY <1>1, <1>b, <1>2
<1>4. \A k : ChildKey(new, k) = ChildKey(p, k)
  BY <1>2 DEF ChildKey, BatchInput
<1>5. \A k \in DOMAIN new.jobs :
         new.jobs[k] \in DOMAIN job' /\ job'[new.jobs[k]].key = ChildKey(new, k)
  <2> TAKE k \in DOMAIN new.jobs
  <2>1. CASE k = i
    BY <1>1, <1>3, <1>4, <2>1 DEF i
  <2>2. CASE k # i
    <3>1. k \in DOMAIN p.jobs /\ new.jobs[k] = p.jobs[k]
      BY <1>3, <2>2 DEF i
    <3> QED
      BY <1>1, <1>4, <1>b, <3>1
  <2> QED
    BY <2>1, <2>2
<1>6. post' = [m \in Posts |-> post'[m]] /\ \A m \in Posts : post'[m] = IF m = n THEN new ELSE post[m]
  BY <1>a DEF BatchInv
<1>7. ASSUME NEW m \in Posts PROVE PostOK(post[m])'
  <2>1. CASE m = n
    BY <1>2, <1>3, <1>5, <1>6, <2>1 DEF PostOK, ChildKey, BatchInput
  <2>2. CASE m # n
    <3>1. post'[m] = post[m] /\ PostOK(post[m])
      BY <1>6, <2>2 DEF BatchInv
    <3> QED
      BY <1>1, <3>1 DEF PostOK, ChildKey, BatchInput
  <2> QED
    BY <2>1, <2>2
<1> QED
  BY <1>1, <1>6, <1>7 DEF BatchInv

LEMMA BatchKeepsInv == BatchInv /\ [BatchNext]_batchVars => BatchInv'
<1> SUFFICES ASSUME BatchInv, [BatchNext]_batchVars PROVE BatchInv'
  OBVIOUS
<1>1. ASSUME UNCHANGED <<job, post>> PROVE BatchInv'
  BY <1>1 DEF BatchInv, JobsOK, PostOK, Elements
<1>2. CASE UNCHANGED batchVars
  BY <1>1, <1>2 DEF batchVars
<1>3. ASSUME NEW c \in Chapters, Import(c) \/ \E s \in States : MoveOn(c, s) PROVE BatchInv'
  BY <1>1, <1>3 DEF Import, MoveOn, Changed
<1>4. CASE List
  BY <1>1, <1>4 DEF List, ChangeFilter, LoadMore, Serve, Deliver, LoadFails, Toggle
<1>5. CASE Track \/ LoseAnswer \/ ClearTracking
  BY <1>1, <1>5 DEF Track, LoseAnswer, ClearTracking
<1>6. ASSUME NEW operation \in BatchIds, QueueTranslation(operation) PROVE BatchInv'
  <2>1. PICK n \in Posts :
          post' = [post EXCEPT ![n] = [at |-> "asked", ids |-> selected, operation |-> operation,
                                       revisions |-> <<>>, jobs |-> <<>>]]
    BY <1>6 DEF QueueTranslation
  <2> DEFINE p == [at |-> "asked", ids |-> selected, operation |-> operation,
                   revisions |-> <<>>, jobs |-> <<>>]
  <2>2. PostOK(p)
    <3>1. p \in [at : BatchStages, ids : {selected}, operation : {operation}, revisions : {<<>>}, jobs : Seq(Nat)]
      BY DEF BatchStages
    <3>2. p.jobs = <<>> /\ p.at = "asked"
      OBVIOUS
    <3> HIDE DEF p
    <3>3. IsRequest(p)
      BY <3>1 DEF IsRequest
    <3> QED
      BY <3>2, <3>3 DEF PostOK
  <2> HIDE DEF p
  <2>3. UNCHANGED job
    BY <1>6 DEF QueueTranslation
  <2> QED
    BY <2>1, <2>2, <2>3, PostStep DEF p
<1>7. ASSUME NEW n \in Posts, Examine(n) PROVE BatchInv'
  <2> DEFINE p == post[n]
             revisions == [i \in DOMAIN p.ids |-> chapter[p.ids[i]].revision]
             q == WithRevisions(p, revisions)
  <2>1. p.at = "asked" /\ post' = [post EXCEPT ![n] = q] /\ UNCHANGED job
    BY <1>7 DEF Examine, WithRevisions
  <2> HIDE DEF revisions
  <2>2. IsRequest(p) /\ p.jobs = <<>> /\ p.jobs \in Seq(Nat)
    BY <2>1, PostFacts DEF BatchStages
  <2>3. IsRequest(q) /\ q.at = "enqueuing" /\ q.jobs = <<>>
    BY <2>2, WithRevisionsFacts
  <2> HIDE DEF q
  <2>4. PostOK(q)
    BY <2>3 DEF PostOK
  <2> QED
    BY <2>1, <2>4, PostStep
<1>8. ASSUME NEW n \in Posts, Refuse(n) \/ Answer(n) PROVE BatchInv'
  <2> DEFINE p == post[n]
  <2>1. PICK at \in {"refused", "answered"} :
          /\ post' = [post EXCEPT ![n].at = at] /\ UNCHANGED job
          /\ p.at \in {"asked", "enqueuing"}
          /\ at = "answered" => DOMAIN p.jobs = DOMAIN p.ids
    BY <1>8 DEF Refuse, Answer
  <2> DEFINE q == AtStage(p, at)
  <2>2. /\ IsRequest(p) /\ p.jobs \in Seq(Nat)
        /\ \A i \in DOMAIN p.jobs : p.jobs[i] \in DOMAIN job /\ job[p.jobs[i]].key = ChildKey(p, i)
    BY <2>1, PostFacts DEF BatchStages
  <2>3. /\ IsRequest(q) /\ q.at = at /\ q.jobs = p.jobs /\ q.ids = p.ids
        /\ q.operation = p.operation /\ q.revisions = p.revisions
    BY <2>2, AtStageFacts DEF BatchStages
  <2>4. post' = [post EXCEPT ![n] = q]
    BY <2>1 DEF AtStage
  <2> HIDE DEF q, p
  <2>5. PostOK(q)
    BY <2>1, <2>2, <2>3 DEF PostOK, ChildKey, BatchInput
  <2> QED
    BY <2>1, <2>4, <2>5, PostStep
<1>9. ASSUME NEW n \in Posts, EnqueueChild(n) PROVE BatchInv'
  BY <1>9, EnqueueKeepsInv
<1>10. CASE ApiDies
  <2>1. /\ UNCHANGED job
        /\ post' = [n \in Posts |-> IF post[n].at \in {"asked", "enqueuing"}
                                    THEN [post[n] EXCEPT !.at = "dead"] ELSE post[n]]
    BY <1>10 DEF ApiDies
  <2>2. ASSUME NEW n \in Posts PROVE PostOK(post'[n])
    <3>1. PostOK(post[n])
      BY DEF BatchInv
    <3>2. CASE post[n].at \notin {"asked", "enqueuing"}
      BY <2>1, <3>1, <3>2
    <3>3. CASE post[n].at \in {"asked", "enqueuing"}
      <4> DEFINE p == post[n]
                 q == AtStage(p, "dead")
      <4>1. /\ IsRequest(p) /\ p.jobs \in Seq(Nat)
            /\ \A i \in DOMAIN p.jobs : p.jobs[i] \in DOMAIN job /\ job[p.jobs[i]].key = ChildKey(p, i)
        BY <3>3, PostFacts DEF BatchStages
      <4>2. /\ IsRequest(q) /\ q.at = "dead" /\ q.jobs = p.jobs /\ q.ids = p.ids
            /\ q.operation = p.operation /\ q.revisions = p.revisions
        BY <4>1, AtStageFacts DEF BatchStages
      <4>3. post'[n] = q
        BY <2>1, <3>3 DEF AtStage
      <4> HIDE DEF p, q
      <4>4. PostOK(q)
        BY <4>1, <4>2 DEF PostOK, ChildKey, BatchInput
      <4> QED
        BY <4>3, <4>4
    <3> QED
      BY <3>2, <3>3
  <2>3. \A n \in Posts : PostOK(post[n])'
    BY <2>1, <2>2 DEF PostOK
  <2> QED
    BY <2>1, <2>3 DEF BatchInv, JobsOK, Elements
<1> QED
  BY <1>2, <1>3, <1>4, <1>5, <1>6, <1>7, <1>8, <1>9, <1>10 DEF BatchNext

\* An answered batch is complete, and the same batch asked for again is the same jobs
\* (modules/jobs/batch.py).
THEOREM AnsweredBatchIsComplete == BatchSpec => []BatchIsComplete
<1>1. ASSUME BatchInv, NEW n \in Posts, post[n].at = "answered"
      PROVE  /\ post[n].jobs \in Seq(Nat) /\ DOMAIN post[n].jobs = DOMAIN post[n].ids
             /\ \A i \in DOMAIN post[n].ids :
                  /\ post[n].jobs[i] \in DOMAIN job
                  /\ job[post[n].jobs[i]].key = ChildKey(post[n], i)
  BY <1>1, PostFacts DEF BatchStages
<1>2. ASSUME BatchInv, NEW n \in Posts, post[n].at = "answered", NEW i \in DOMAIN post[n].ids
      PROVE  /\ job[post[n].jobs[i]].chapter = post[n].ids[i]
             /\ job[post[n].jobs[i]].plan = [operation |-> post[n].operation,
                                              revision |-> post[n].revisions[i]]
  <2>1. post[n].jobs[i] \in DOMAIN job /\ job[post[n].jobs[i]].key = ChildKey(post[n], i)
    BY <1>1, <1>2
  <2> QED
    BY <1>2, <2>1 DEF BatchInv, JobsOK, ChildKey, BatchInput
<1>3. ASSUME BatchInv, NEW n \in Posts, NEW m \in Posts, post[n].at = "answered", post[m].at = "answered",
             BatchInput(post[m]) = BatchInput(post[n]), post[m].revisions = post[n].revisions
      PROVE  post[m].jobs = post[n].jobs
  <2>1. post[m].ids = post[n].ids /\ post[m].operation = post[n].operation
    BY <1>3 DEF BatchInput
  <2>2. \A i \in DOMAIN post[n].ids : ChildKey(post[m], i) = ChildKey(post[n], i)
    BY <1>3, <2>1 DEF ChildKey
  <2>3. ASSUME NEW i \in DOMAIN post[n].ids PROVE post[m].jobs[i] = post[n].jobs[i]
    <3>1. post[n].jobs[i] \in DOMAIN job /\ job[post[n].jobs[i]].key = ChildKey(post[n], i)
      BY <1>1, <1>3, <2>3
    <3>2. post[m].jobs[i] \in DOMAIN job /\ job[post[m].jobs[i]].key = ChildKey(post[m], i)
      BY <1>1, <1>3, <2>1, <2>3
    <3>3. ChildKey(post[m], i) = ChildKey(post[n], i)
      BY <2>2, <2>3
    <3> QED
      BY <1>3, <3>1, <3>2, <3>3 DEF BatchInv, JobsOK
  <2>4. /\ post[m].jobs \in Seq(Nat) /\ DOMAIN post[m].jobs = DOMAIN post[n].ids
        /\ post[n].jobs \in Seq(Nat) /\ DOMAIN post[n].jobs = DOMAIN post[n].ids
    BY <1>1, <1>3, <2>1
  <2> QED
    BY <2>3, <2>4
<1>4. BatchInv => BatchIsComplete
  BY <1>2, <1>3 DEF BatchIsComplete
<1> QED
  BY <1>4, BatchStart, BatchKeepsInv, PTL DEF BatchSpec

-----------------------------------------------------------------------------
(* The list chapters are picked from, for any number of them, any pages and *)
(* any changes meanwhile.                                                  *)

\* What is read in order is what there is, and each once.
LEMMA InOrderFacts ==
  ASSUME NEW these \in SUBSET Nat, IsFiniteSet(these)
  PROVE  LET order == InOrder(these) IN
         /\ order \in Seq(these)
         /\ \A i, j \in DOMAIN order : order[i] = order[j] => i = j
         /\ \A c \in these : \E i \in DOMAIN order : order[i] = c
<1> DEFINE n == Cardinality(these)
           place(c) == Cardinality(UpTo(these, c))
           f == [c \in these |-> place(c)]
           order == InOrder(these)
<1>1. n \in Nat /\ IsFiniteSet(1..n) /\ Cardinality(1..n) = n
  <2>1. n \in Nat
    BY FS_CardinalityType
  <2>2. \A m \in Nat : IsFiniteSet(1..m) /\ Cardinality(1..m) = m
    <3> TAKE m \in Nat
    <3>1. IsFiniteSet(1..m) /\ Cardinality(1..m) = IF 1 > m THEN 0 ELSE m - 1 + 1
      BY FS_Interval
    <3> QED
      BY <3>1
  <2> QED
    BY <2>1, <2>2
<1>2. ASSUME NEW c \in these
      PROVE  IsFiniteSet(UpTo(these, c)) /\ place(c) \in 1..n
  <2>1. UpTo(these, c) \in SUBSET these /\ c \in UpTo(these, c)
    BY DEF UpTo
  <2>2. IsFiniteSet(UpTo(these, c)) /\ place(c) <= n
    BY <2>1, FS_Subset
  <2>3. place(c) \in Nat /\ place(c) # 0
    BY <2>1, <2>2, FS_CardinalityType, FS_EmptySet
  <2> HIDE DEF place, n
  <2> QED
    BY <1>1, <2>2, <2>3
<1>3. ASSUME NEW c \in these, NEW d \in these, c < d PROVE place(c) < place(d)
  <2>1. UpTo(these, c) \union {d} \in SUBSET UpTo(these, d) /\ d \notin UpTo(these, c)
    <3>1. \A e \in these : e \in Nat
      OBVIOUS
    <3>2. \A e \in these : e <= c => e <= d
      BY <1>3, <3>1
    <3>3. ~(d <= c) /\ d <= d
      BY <1>3, <3>1
    <3> QED
      BY <3>2, <3>3 DEF UpTo
  <2>2. Cardinality(UpTo(these, c) \union {d}) = place(c) + 1
    BY <1>2, <2>1, FS_AddElement
  <2>3. Cardinality(UpTo(these, c) \union {d}) <= place(d)
    BY <1>2, <2>1, FS_Subset
  <2>4. place(c) \in Nat /\ place(d) \in Nat
    BY <1>2
  <2> HIDE DEF place
  <2> QED
    BY <2>2, <2>3, <2>4
<1>a. \A c \in these : place(c) \in 1..n
  BY <1>2
<1>b. \A c, d \in these : c < d => place(c) < place(d)
  BY <1>3
<1>c. order = [i \in 1..n |-> CHOOSE c \in these : place(c) = i]
  BY DEF InOrder
<1> HIDE DEF n, place, order
<1>4. \A c, d \in these : place(c) = place(d) => c = d
  BY <1>1, <1>a, <1>b
<1>5. f \in Surjection(these, 1..n)
  <2>1. f \in Injection(these, 1..n)
    BY <1>a, <1>4 DEF Injection, IsInjective
  <2> QED
    BY <1>1, <2>1, FS_Injection DEF n
<1>6. ASSUME NEW i \in 1..n PROVE order[i] \in these /\ place(order[i]) = i
  <2>1. PICK c \in these : f[c] = i
    BY <1>5 DEF Surjection
  <2>2. \E d \in these : place(d) = i
    BY <2>1
  <2> QED
    BY <1>c, <2>2
<1>7. order \in Seq(these) /\ DOMAIN order = 1..n
  <2>1. order \in [1..n -> these]
    BY <1>c, <1>6
  <2> QED
    BY <1>1, <2>1, SeqDef
<1>8. \A i, j \in DOMAIN order : order[i] = order[j] => i = j
  BY <1>6, <1>7
<1>9. ASSUME NEW c \in these PROVE \E i \in DOMAIN order : order[i] = c
  <2>1. place(c) \in 1..n
    BY <1>a
  <2>2. order[place(c)] \in these /\ place(order[place(c)]) = place(c)
    BY <1>6, <2>1
  <2> QED
    BY <1>4, <1>7, <2>1, <2>2
<1> QED
  BY <1>7, <1>8, <1>9 DEF order

\* A page has every row up to the cursor it gives out, or all when it gives out none.
LEMMA PageFacts ==
  ASSUME NEW found \in SUBSET (Nat \ {0}), IsFiniteSet(found)
  PROVE  /\ Page(found) \subseteq found
         /\ NextCursor(found) \in Nat
         /\ \A c \in found : NextCursor(found) = 0 \/ c <= NextCursor(found) => c \in Page(found)
<1>1. Page(found) \subseteq found /\ Cardinality(found) \in Nat /\ PageLimit \in Nat \ {0}
  BY FS_CardinalityType, BatchAssumption DEF Page
<1>2. \A c \in found : /\ UpTo(found, c) \in SUBSET found /\ IsFiniteSet(UpTo(found, c))
                       /\ Cardinality(UpTo(found, c)) \in Nat
                       /\ Cardinality(UpTo(found, c)) <= Cardinality(found)
  BY FS_Subset, FS_CardinalityType DEF UpTo
<1>3. CASE ~(Cardinality(found) > PageLimit)
  <2>1. \A c \in found : c \in Page(found)
    BY <1>1, <1>2, <1>3 DEF Page
  <2>2. NextCursor(found) = 0
    BY <1>3 DEF NextCursor
  <2> QED
    BY <1>1, <2>1, <2>2
<1>4. CASE Cardinality(found) > PageLimit
  <2> DEFINE m == Max(Page(found))
  <2>1. PICK first \in found : \A c \in found : first <= c
    <3>1. found # {} /\ found \in SUBSET Nat
      BY <1>1, <1>4, FS_EmptySet
    <3> QED
      BY <3>1, SomeHaveLeast
  <2>2. first \in Page(found)
    <3>1. \A c \in found : c <= first <=> c = first
      BY <2>1
    <3>2. UpTo(found, first) = {first}
      BY <3>1 DEF UpTo
    <3>3. Cardinality({first}) = 1
      BY FS_Singleton
    <3> QED
      BY <1>1, <3>2, <3>3 DEF Page
  <2>3. m \in Page(found) /\ \A c \in Page(found) : m >= c
    <3>1. IsFiniteSet(Page(found)) /\ Page(found) \in SUBSET Nat
      BY <1>1, FS_Subset
    <3>2. \E x \in Page(found) : \A c \in Page(found) : c <= x
      BY <2>2, <3>1, FiniteHasMax
    <3>3. \A S \in SUBSET Nat : (\E x \in S : \A c \in S : c <= x) => Max(S) \in S /\ \A c \in S : Max(S) >= c
      BY DEF Max
    <3> QED
      BY <3>1, <3>2, <3>3
  <2>4. NextCursor(found) = m
    BY <1>4 DEF NextCursor
  <2> HIDE DEF m
  <2>5. m \in found /\ m \in Nat \ {0} /\ Cardinality(UpTo(found, m)) <= PageLimit
    BY <1>1, <2>3 DEF Page
  <2>6. ASSUME NEW c \in found, c <= m PROVE c \in Page(found)
    <3>a. \A d \in found : d <= c => d <= m
      BY <2>5, <2>6
    <3>1. UpTo(found, c) \in SUBSET UpTo(found, m)
      BY <3>a DEF UpTo
    <3>2. Cardinality(UpTo(found, c)) <= Cardinality(UpTo(found, m))
      BY <1>2, <2>5, <3>1, FS_Subset
    <3>3. Cardinality(UpTo(found, c)) \in Nat /\ Cardinality(UpTo(found, m)) \in Nat
      BY <1>2, <2>5
    <3>4. Cardinality(UpTo(found, c)) <= PageLimit
      BY <1>1, <2>5, <3>2, <3>3
    <3> QED
      BY <3>4 DEF Page
  <2> QED
    BY <1>1, <2>4, <2>5, <2>6
<1> QED
  BY <1>3, <1>4

-----------------------------------------------------------------------------

ChapterRows == [state : States, revision : Nat]
Wants == [at : {"sent", "served"}, after : Nat, page : SUBSET Chapters, next : Nat]
ListRows == [chapter : Chapters, under : Nat]

ListTypeOK ==
  /\ chapter \in [Chapters -> {Nobody} \cup ChapterRows]
  /\ filters \in Seq(Filters) /\ Generation \in 1..MaxGenerations
  /\ load \in [1..MaxGenerations -> {Idle} \cup Wants]
  /\ items \in Seq(ListRows) /\ selected \in Seq(Chapters)
  /\ cursor \in Nat /\ listed \in BOOLEAN

\* The page the list waits for begins where the list ends, and when it is served it has
\* every steady chapter up to its own end.
WantOK(want) ==
  want # Idle =>
    /\ want.after = cursor
    /\ want.at = "served" =>
         \A c \in steady : c > want.after /\ (want.next = 0 \/ c <= want.next) => c \in want.page

SteadyListed ==
  listed => \A c \in steady : (cursor = 0 \/ c <= cursor) => c \in ListedChapters

ListInv ==
  /\ ListTypeOK
  /\ \A i \in DOMAIN items : items[i].under = Generation
  /\ \A i, j \in DOMAIN items : items[i].chapter = items[j].chapter => i = j
  /\ Range(selected) \subseteq ListedChapters
  /\ steady \subseteq Matching(filters[Generation])
  /\ cursor # 0 => listed
  /\ WantOK(load[Generation])
  /\ SteadyListed

LEMMA ChaptersAreFinite ==
  ASSUME NEW some \in SUBSET Chapters
  PROVE  IsFiniteSet(some) /\ some \in SUBSET (Nat \ {0})
<1>1. NChapters \in Nat
  BY BatchAssumption
<1>2. IsFiniteSet(1..NChapters)
  BY <1>1, FS_Interval
<1>3. some \in SUBSET (1..NChapters) /\ \A c \in 1..NChapters : c \in Nat \ {0}
  BY <1>1 DEF Chapters
<1>4. IsFiniteSet(some)
  BY <1>2, <1>3, FS_Subset
<1> QED
  BY <1>3, <1>4

LEMMA ListStarts == BatchInit => ListInv
<1> SUFFICES ASSUME BatchInit PROVE ListInv
  OBVIOUS
<1>1. filters = <<Nobody>> /\ Len(filters) = 1 /\ filters[1] = Nobody /\ filters \in Seq(Filters)
  BY DEF BatchInit, Filters
<1>2. MaxGenerations \in Nat /\ MaxGenerations > 0
  BY BatchAssumption
<1>3. Wanted(0) \in Wants /\ Wanted(0).after = 0 /\ Wanted(0).at = "sent"
  BY DEF Wanted, Wants
<1>4. load \in [1..MaxGenerations -> {Idle} \cup Wants] /\ load[1] = Wanted(0)
  BY <1>2, <1>3 DEF BatchInit
<1>5. chapter \in [Chapters -> {Nobody} \cup ChapterRows]
  BY DEF BatchInit, ChapterRows
<1>6. ListTypeOK
  <2>1. items \in Seq(ListRows) /\ selected \in Seq(Chapters)
    BY EmptySeq DEF BatchInit
  <2>2. cursor \in Nat /\ listed \in BOOLEAN
    BY DEF BatchInit
  <2>3. Generation \in 1..MaxGenerations
    BY <1>1, <1>2 DEF Generation
  <2> QED
    BY <1>1, <1>4, <1>5, <2>1, <2>2, <2>3 DEF ListTypeOK
<1>7. WantOK(load[Generation])
  BY <1>1, <1>3, <1>4 DEF BatchInit, WantOK, Generation
<1>8. steady = Matching(filters[Generation]) /\ Range(selected) = {} /\ items = <<>> /\ cursor = 0 /\ ~listed
  BY <1>1 DEF BatchInit, Generation, Range
<1> QED
  BY <1>6, <1>7, <1>8 DEF ListInv, SteadyListed

\* A chapter that changes stays steady only if it still matches.
LEMMA ChangesKeepList ==
  ASSUME ListInv, NEW c \in Chapters, NEW new \in ChapterRows, Changed(c, new)
  PROVE  ListInv'
<1> DEFINE f == filters[Generation]
<1>1. UNCHANGED <<filters, load, items, cursor, selected, listed>>
  BY DEF Changed
<1>2. steady' \subseteq steady /\ \A d \in steady' : d # c \/ new.state = f \/ f = Nobody
  BY DEF Changed
<1>3. /\ chapter' \in [Chapters -> {Nobody} \cup ChapterRows]
      /\ chapter'[c] = new /\ \A d \in Chapters \ {c} : chapter'[d] = chapter[d]
  BY DEF ListInv, ListTypeOK, Changed
<1>4. new # Nobody
  BY BatchAssumption DEF ChapterRows
<1>5. \A d \in steady' : d \in Chapters /\ chapter'[d] # Nobody /\ (f = Nobody \/ chapter'[d].state = f)
  BY <1>2, <1>3, <1>4 DEF ListInv, Matching, Matches
<1>6. (steady \subseteq Matching(filters[Generation]))'
  BY <1>1, <1>5 DEF Matching, Matches, Generation
<1>7. ListTypeOK'
  BY <1>1, <1>3 DEF ListInv, ListTypeOK, Generation
<1>8. WantOK(load[Generation])' /\ SteadyListed'
  BY <1>1, <1>2 DEF ListInv, WantOK, SteadyListed, Generation, ListedChapters
<1> QED
  BY <1>1, <1>6, <1>7, <1>8 DEF ListInv, Generation, ListedChapters

LEMMA FilterKeepsList ==
  ASSUME ListInv, NEW f \in Filters, ChangeFilter(f)
  PROVE  ListInv'
<1> DEFINE g == Generation + 1
<1>1. /\ filters' = Append(filters, f) /\ filters' \in Seq(Filters)
      /\ Len(filters') = g /\ filters'[g] = f /\ g \in 1..MaxGenerations
  <2>1. Generation \in Nat /\ Generation < MaxGenerations /\ MaxGenerations \in Nat
    BY BatchAssumption DEF ListInv, ListTypeOK, ChangeFilter
  <2>2. filters' = Append(filters, f) /\ filters \in Seq(Filters)
    BY DEF ListInv, ListTypeOK, ChangeFilter
  <2> QED
    BY <2>1, <2>2, AppendProperties DEF Generation
<1>2. Wanted(0) \in Wants /\ Wanted(0).after = 0 /\ Wanted(0).at = "sent"
  BY DEF Wanted, Wants
<1>3. load' = [load EXCEPT ![g] = Wanted(0)] /\ UNCHANGED chapter
  BY DEF ChangeFilter
<1>4. /\ items' = <<>> /\ cursor' = 0 /\ selected' = <<>> /\ listed' = FALSE
      /\ steady' = Matching(f)
  BY DEF ChangeFilter
<1>5. load' \in [1..MaxGenerations -> {Idle} \cup Wants] /\ load'[g] = Wanted(0)
  BY <1>1, <1>2, <1>3 DEF ListInv, ListTypeOK
<1>6. ListTypeOK'
  <2>1. items' \in Seq(ListRows) /\ selected' \in Seq(Chapters)
    BY <1>4, EmptySeq
  <2>2. chapter' \in [Chapters -> {Nobody} \cup ChapterRows]
    BY <1>3 DEF ListInv, ListTypeOK
  <2> QED
    BY <1>1, <1>4, <1>5, <2>1, <2>2 DEF ListTypeOK, Generation
<1>7. WantOK(load[Generation])'
  BY <1>1, <1>2, <1>4, <1>5 DEF WantOK, Generation
<1>8. (steady \subseteq Matching(filters[Generation]))'
  BY <1>1, <1>3, <1>4 DEF Matching, Matches, Generation
<1> QED
  BY <1>4, <1>6, <1>7, <1>8 DEF ListInv, SteadyListed, Range

\* A load of any generation changes; the one of this generation stays as it should be.
LEMMA LoadKeepsList ==
  ASSUME ListInv, NEW g \in 1..MaxGenerations, NEW want \in {Idle} \cup Wants,
         load' = [load EXCEPT ![g] = want], g = Generation => WantOK(want),
         UNCHANGED <<chapter, filters, items, cursor, selected, listed, steady>>
  PROVE  ListInv'
<1>1. ListTypeOK'
  BY DEF ListInv, ListTypeOK, Generation
<1>2. load'[Generation] = IF g = Generation THEN want ELSE load[Generation]
  BY DEF ListInv, ListTypeOK
<1>3. WantOK(load'[Generation])
  BY <1>2 DEF ListInv
<1>4. WantOK(load[Generation])'
  BY <1>3 DEF WantOK, Generation
<1>5. SteadyListed' /\ (steady \subseteq Matching(filters[Generation]))'
  BY DEF ListInv, SteadyListed, ListedChapters, Matching, Matches, Generation
<1> QED
  BY <1>1, <1>4, <1>5 DEF ListInv, Generation, ListedChapters

LEMMA LoadMoreKeepsList == ASSUME ListInv, LoadMore PROVE ListInv'
<1>1. /\ Wanted(cursor) \in Wants /\ Wanted(cursor).after = cursor /\ Wanted(cursor).at = "sent"
  BY DEF Wanted, Wants, ListInv, ListTypeOK
<1>2. WantOK(Wanted(cursor))
  BY <1>1 DEF WantOK
<1>3. Generation \in 1..MaxGenerations
  BY DEF ListInv, ListTypeOK
<1> QED
  BY <1>1, <1>2, <1>3, LoadKeepsList DEF LoadMore

LEMMA ServeKeepsList ==
  ASSUME ListInv, NEW g \in 1..MaxGenerations, Serve(g)
  PROVE  ListInv'
<1> DEFINE l == load[g]
           found == {c \in Matching(filters[g]) : c > l.after}
           want == [l EXCEPT !.at = "served", !.page = Page(found), !.next = NextCursor(found)]
<1>1. l \in Wants
  <2>1. l.at = "sent"
    BY DEF Serve
  <2> QED
    BY <2>1 DEF ListInv, ListTypeOK, Idle
<1>2. found \in SUBSET Chapters
  BY DEF Matching
<1>3. /\ Page(found) \subseteq found /\ NextCursor(found) \in Nat
      /\ \A c \in found : NextCursor(found) = 0 \/ c <= NextCursor(found) => c \in Page(found)
  BY <1>2, ChaptersAreFinite, PageFacts
<1>4. load' = [load EXCEPT ![g] = want]
  BY DEF Serve
<1>5. /\ want \in Wants /\ want.after = l.after /\ want.page = Page(found)
      /\ want.next = NextCursor(found)
  <2> DEFINE p == Page(found)
             k == NextCursor(found)
  <2>1. p \in SUBSET Chapters /\ k \in Nat
    BY <1>2, <1>3
  <2> HIDE DEF p, k, found
  <2>2. [l EXCEPT !.at = "served", !.page = p, !.next = k] \in Wants
        /\ [l EXCEPT !.at = "served", !.page = p, !.next = k].after = l.after
        /\ [l EXCEPT !.at = "served", !.page = p, !.next = k].page = p
        /\ [l EXCEPT !.at = "served", !.page = p, !.next = k].next = k
    BY <1>1, <2>1 DEF Wants
  <2> QED
    BY <2>2 DEF p, k
<1>6. ASSUME g = Generation PROVE WantOK(want)
  <2>1. want.after = cursor
    BY <1>1, <1>5, <1>6 DEF ListInv, WantOK, Wants, Idle
  <2>2. \A c \in steady : c > want.after => c \in found
    BY <1>5, <1>6 DEF ListInv
  <2> HIDE DEF want, found
  <2>3. \A c \in steady : c > want.after /\ (want.next = 0 \/ c <= want.next) => c \in want.page
    BY <1>3, <1>5, <2>2
  <2> QED
    BY <2>1, <2>3 DEF WantOK
<1> HIDE DEF want
<1> QED
  BY <1>4, <1>5, <1>6, LoadKeepsList DEF Serve

\* What comes in is added to the list, each chapter once and under this generation.
LEMMA ShowAdds ==
  ASSUME ListInv, NEW page \in SUBSET Chapters,
         items' = items \o Rows(Generation, InOrder(page \ ListedChapters))
  PROVE  /\ items' \in Seq(ListRows)
         /\ \A i \in DOMAIN items' : items'[i].under = Generation
         /\ \A i, j \in DOMAIN items' : items'[i].chapter = items'[j].chapter => i = j
         /\ ListedChapters' = ListedChapters \cup page
<1> DEFINE fresh == page \ ListedChapters
           order == InOrder(fresh)
           more == Rows(Generation, order)
           n == Len(items)
<1>1. /\ order \in Seq(fresh) /\ \A i, j \in DOMAIN order : order[i] = order[j] => i = j
      /\ \A c \in fresh : \E i \in DOMAIN order : order[i] = c
  <2>1. fresh \in SUBSET Nat /\ IsFiniteSet(fresh)
    BY ChaptersAreFinite
  <2> HIDE DEF fresh
  <2> QED
    BY <2>1, InOrderFacts
<1>2. Generation \in Nat /\ items \in Seq(ListRows) /\ n \in Nat /\ DOMAIN items = 1..n
  BY LenProperties DEF ListInv, ListTypeOK
<1> HIDE DEF order
<1>3. Len(order) \in Nat /\ DOMAIN order = 1..Len(order) /\ \A i \in 1..Len(order) : order[i] \in fresh
  BY <1>1, LenProperties, ElementOfSeq
<1>4. /\ more = [i \in 1..Len(order) |-> [chapter |-> order[i], under |-> Generation]]
  BY <1>3 DEF Rows
<1>5. more \in Seq(ListRows) /\ Len(more) = Len(order)
  <2>1. \A i \in 1..Len(order) : [chapter |-> order[i], under |-> Generation] \in ListRows
    BY <1>2, <1>3 DEF ListRows
  <2>2. more \in [1..Len(order) -> ListRows]
    BY <1>4, <2>1
  <2> HIDE DEF more
  <2>3. more \in Seq(ListRows)
    BY <1>3, <2>2, SeqDef
  <2> QED
    BY <1>3, <2>2, <2>3, LenProperties
<1>6. \A i \in 1..Len(order) : more[i].chapter = order[i] /\ more[i].under = Generation
  BY <1>4
<1> HIDE DEF more
<1>7. items' = items \o more
  BY DEF more, order, fresh
<1>8. /\ items' \in Seq(ListRows) /\ Len(items') = n + Len(order)
      /\ \A i \in 1..(n + Len(order)) : items'[i] = IF i <= n THEN items[i] ELSE more[i - n]
  <2>1. /\ items \o more \in Seq(ListRows) /\ Len(items \o more) = Len(items) + Len(more)
        /\ \A i \in 1..(Len(items) + Len(more)) :
             (items \o more)[i] = IF i <= Len(items) THEN items[i] ELSE more[i - Len(items)]
    BY <1>2, <1>5, ConcatProperties
  <2> QED
    BY <1>5, <1>7, <2>1
<1>9. DOMAIN items' = 1..(n + Len(order))
  BY <1>8, LenProperties
<1>10. /\ \A i \in 1..n : i \in DOMAIN items' /\ items'[i] = items[i]
       /\ \A k \in 1..Len(order) : n + k \in DOMAIN items' /\ items'[n + k] = more[k]
       /\ \A i \in DOMAIN items' : i \in 1..n \/ \E k \in 1..Len(order) : i = n + k
  <2>1. \A i \in 1..n : i \in DOMAIN items' /\ items'[i] = items[i]
    BY <1>2, <1>3, <1>8, <1>9
  <2>2. ASSUME NEW k \in 1..Len(order) PROVE n + k \in DOMAIN items' /\ items'[n + k] = more[k]
    <3> HIDE DEF n
    <3>1. PICK i : i = n + k
      OBVIOUS
    <3>2. i \in 1..(n + Len(order)) /\ ~(i <= n) /\ i - n = k
      BY <1>2, <1>3, <3>1
    <3>3. items'[i] = more[i - n]
      BY <1>8, <3>2
    <3> QED
      BY <1>9, <3>1, <3>2, <3>3
  <2>3. ASSUME NEW i \in DOMAIN items', i \notin 1..n PROVE \E k \in 1..Len(order) : i = n + k
    <3>1. i - n \in 1..Len(order) /\ i = n + (i - n)
      BY <1>2, <1>3, <1>9, <2>3
    <3> QED
      BY <3>1
  <2> QED
    BY <2>1, <2>2, <2>3
<1>11. ASSUME NEW i \in DOMAIN items' PROVE items'[i].under = Generation
  <2>1. CASE i \in 1..n
    BY <1>2, <1>10, <2>1 DEF ListInv
  <2>2. CASE i \notin 1..n
    <3>1. PICK k \in 1..Len(order) : i = n + k
      BY <1>10, <2>2
    <3> QED
      BY <1>6, <1>10, <3>1
  <2> QED
    BY <2>1, <2>2
<1>12. /\ \A i \in 1..n : items'[i].chapter \in ListedChapters
       /\ \A k \in 1..Len(order) : items'[n + k].chapter = order[k] /\ order[k] \notin ListedChapters
  <2>1. \A i \in 1..n : items[i].chapter \in ListedChapters
    BY <1>2 DEF ListedChapters
  <2> QED
    BY <1>3, <1>6, <1>10, <2>1
<1>13. ASSUME NEW i \in DOMAIN items', NEW j \in DOMAIN items', items'[i].chapter = items'[j].chapter
       PROVE  i = j
  <2>1. CASE i \in 1..n /\ j \in 1..n
    BY <1>2, <1>10, <1>13, <2>1 DEF ListInv
  <2>2. CASE i \notin 1..n /\ j \notin 1..n
    <3>1. PICK k \in 1..Len(order) : i = n + k
      BY <1>10, <2>2
    <3>2. PICK l \in 1..Len(order) : j = n + l
      BY <1>10, <2>2
    <3>3. order[k] = order[l]
      BY <1>12, <1>13, <3>1, <3>2
    <3>4. k = l
      BY <1>1, <1>3, <3>3
    <3> QED
      BY <3>1, <3>2, <3>4
  <2>3. ASSUME NEW a \in 1..n, NEW b \in DOMAIN items', b \notin 1..n
        PROVE  items'[a].chapter # items'[b].chapter
    <3>1. PICK k \in 1..Len(order) : b = n + k
      BY <1>10, <2>3
    <3> QED
      BY <1>12, <3>1
  <2> QED
    BY <1>13, <2>1, <2>2, <2>3
<1>14. ListedChapters' = ListedChapters \cup page
  <2>1. ListedChapters' = {items'[i].chapter : i \in DOMAIN items'}
    BY DEF ListedChapters
  <2>2. \A c \in ListedChapters' : c \in ListedChapters \cup page
    <3> SUFFICES ASSUME NEW i \in DOMAIN items' PROVE items'[i].chapter \in ListedChapters \cup page
      BY <2>1
    <3>1. CASE i \in 1..n
      BY <1>12, <3>1
    <3>2. CASE i \notin 1..n
      <4>1. PICK k \in 1..Len(order) : i = n + k
        BY <1>10, <3>2
      <4> QED
        BY <1>3, <1>12, <4>1
    <3> QED
      BY <3>1, <3>2
  <2>3. \A c \in ListedChapters : c \in ListedChapters'
    <3> TAKE c \in ListedChapters
    <3>1. PICK i \in 1..n : items[i].chapter = c
      BY <1>2 DEF ListedChapters
    <3>2. i \in DOMAIN items' /\ items'[i].chapter = c
      BY <1>10, <3>1
    <3> QED
      BY <2>1, <3>2
  <2>4. \A c \in fresh : c \in ListedChapters'
    <3> TAKE c \in fresh
    <3>1. PICK k \in 1..Len(order) : order[k] = c
      BY <1>1, <1>3
    <3>2. PICK i : i = n + k
      OBVIOUS
    <3>3. i \in DOMAIN items' /\ items'[i].chapter = c
      BY <1>10, <1>12, <3>1, <3>2
    <3> QED
      BY <2>1, <3>3
  <2> QED
    BY <2>2, <2>3, <2>4
<1> QED
  BY <1>8, <1>11, <1>13, <1>14

LEMMA DeliverKeepsList ==
  ASSUME ListInv, NEW g \in 1..MaxGenerations, Deliver(g)
  PROVE  ListInv'
<1> DEFINE l == load[g]
<1>1. /\ l \in Wants /\ l.at = "served" /\ load' = [load EXCEPT ![g] = Idle]
      /\ UNCHANGED <<chapter, filters, selected, steady>>
  <2>1. l.at = "served"
    BY DEF Deliver
  <2> QED
    BY <2>1 DEF ListInv, ListTypeOK, Idle, Deliver
<1>2. CASE g # Generation
  BY <1>1, <1>2, LoadKeepsList DEF Deliver
<1>3. CASE g = Generation
  <2>1. /\ items' = items \o Rows(Generation, InOrder(l.page \ ListedChapters))
        /\ cursor' = l.next /\ listed' = TRUE
    BY <1>3 DEF Deliver, Show
  <2>2. /\ items' \in Seq(ListRows)
        /\ \A i \in DOMAIN items' : items'[i].under = Generation
        /\ \A i, j \in DOMAIN items' : items'[i].chapter = items'[j].chapter => i = j
        /\ ListedChapters' = ListedChapters \cup l.page
    <3>1. l.page \in SUBSET Chapters
      BY <1>1 DEF Wants
    <3> HIDE DEF l
    <3> QED
      BY <2>1, <3>1, ShowAdds
  <2>3. l.next \in Nat /\ load' \in [1..MaxGenerations -> {Idle} \cup Wants] /\ load'[g] = Idle
    BY <1>1 DEF ListInv, ListTypeOK, Wants
  <2>4. Generation' = Generation
    BY <1>1 DEF Generation
  <2>5. ListTypeOK'
    BY <1>1, <2>1, <2>2, <2>3, <2>4 DEF ListInv, ListTypeOK
  <2>6. WantOK(load[Generation])'
    BY <1>3, <2>3, <2>4 DEF WantOK
  \* What is steady was listed before, or is on the page.
  <2>7. SteadyListed'
    <3>1. /\ l.after = cursor /\ cursor \in Nat
          /\ \A c \in steady : c > l.after /\ (l.next = 0 \/ c <= l.next) => c \in l.page
      BY <1>1, <1>3 DEF ListInv, ListTypeOK, WantOK, Wants, Idle
    <3>2. ASSUME NEW c \in steady, l.next = 0 \/ c <= l.next PROVE c \in ListedChapters \cup l.page
      <4>1. c \in Nat /\ c # 0
        BY ChaptersAreFinite DEF ListInv, Matching
      <4>2. CASE c > cursor
        BY <3>1, <3>2, <4>2
      <4>3. CASE c <= cursor
        <5>1. listed
          BY <3>1, <4>1, <4>3 DEF ListInv
        <5> QED
          BY <4>3, <5>1 DEF ListInv, SteadyListed
      <4> QED
        BY <3>1, <4>1, <4>2, <4>3
    <3> QED
      BY <1>1, <2>1, <2>2, <3>2 DEF SteadyListed
  <2>8. (steady \subseteq Matching(filters[Generation]))'
    BY <1>1 DEF ListInv, Matching, Matches, Generation
  <2>9. (Range(selected) \subseteq ListedChapters)'
    BY <1>1, <2>2 DEF ListInv, Range
  <2> QED
    BY <2>1, <2>2, <2>4, <2>5, <2>6, <2>7, <2>8, <2>9 DEF ListInv
<1> QED
  BY <1>2, <1>3

LEMMA TickKeepsList ==
  ASSUME ListInv, NEW c \in Chapters, Toggle(c)
  PROVE  ListInv'
<1>1. UNCHANGED <<chapter, filters, load, items, cursor, listed, steady>>
  BY DEF Toggle
<1>2. selected \in Seq(Chapters) /\ Range(selected) \subseteq ListedChapters /\ c \in ListedChapters
  BY DEF ListInv, ListTypeOK, Toggle
<1>3. selected' \in Seq(Chapters) /\ Range(selected') \subseteq ListedChapters
  <2>a. Len(selected) \in Nat /\ DOMAIN selected = 1..Len(selected)
        /\ \A k \in 1..Len(selected) : selected[k] \in Chapters
    BY <1>2, LenProperties
  <2> DEFINE S == Chapters \cap ListedChapters
  <2>b. selected \in Seq(S) /\ c \in S /\ \A k \in 1..Len(selected) : selected[k] \in S
    <3>1. \A k \in 1..Len(selected) : selected[k] \in S
      BY <1>2, <2>a DEF Range
    <3>2. selected \in [1..Len(selected) -> S]
      BY <1>2, <2>a, <3>1, LenProperties
    <3> QED
      BY <1>2, <2>a, <3>1, <3>2, SeqDef
  <2> HIDE DEF S
  <2>1. selected' \in Seq(S)
    <3>1. CASE selected' = selected \/ selected' = Append(selected, c)
      BY <2>b, <3>1, AppendProperties
    <3>2. ASSUME NEW i \in DOMAIN selected, selected' = RemoveAt(selected, i)
          PROVE  selected' \in Seq(S)
      <4>1. /\ 1 \in Int /\ i - 1 \in Int /\ i + 1 \in Int /\ Len(selected) \in Int
            /\ \A k \in 1..(i - 1) : selected[k] \in S
            /\ \A k \in (i + 1)..Len(selected) : selected[k] \in S
        BY <2>a, <2>b
      <4>2. SubSeq(selected, 1, i - 1) \in Seq(S)
        BY <4>1, SubSeqProperties
      <4>3. SubSeq(selected, i + 1, Len(selected)) \in Seq(S)
        BY <4>1, SubSeqProperties
      <4>4. selected' = SubSeq(selected, 1, i - 1) \o SubSeq(selected, i + 1, Len(selected))
        BY <3>2 DEF RemoveAt
      <4> QED
        BY <4>2, <4>3, <4>4, ConcatProperties
    <3> QED
      BY <3>1, <3>2 DEF Toggle
  <2>2. \A k \in DOMAIN selected' : selected'[k] \in S
    BY <2>1, LenProperties, ElementOfSeq
  <2>3. S \subseteq Chapters /\ S \subseteq ListedChapters
    BY DEF S
  <2>4. selected' \in Seq(Chapters)
    <3>1. selected' \in [1..Len(selected') -> Chapters] /\ Len(selected') \in Nat
      BY <2>1, <2>3, LenProperties
    <3> QED
      BY <3>1, SeqDef
  <2> QED
    BY <2>2, <2>3, <2>4 DEF Range
<1>4. ListTypeOK'
  BY <1>1, <1>3 DEF ListInv, ListTypeOK, Generation
<1>5. WantOK(load[Generation])' /\ SteadyListed' /\ (steady \subseteq Matching(filters[Generation]))'
  BY <1>1 DEF ListInv, WantOK, SteadyListed, ListedChapters, Matching, Matches, Generation
<1> QED
  BY <1>1, <1>3, <1>4, <1>5 DEF ListInv, Generation, ListedChapters

LEMMA NextKeepsList == ListInv /\ [BatchNext]_batchVars => ListInv'
<1> SUFFICES ASSUME ListInv, [BatchNext]_batchVars PROVE ListInv'
  OBVIOUS
<1>1. ASSUME UNCHANGED <<chapter, listVars>> PROVE ListInv'
  <2>1. UNCHANGED <<chapter, filters, load, items, cursor, selected, listed, steady>>
    BY <1>1 DEF listVars
  <2>2. ListTypeOK'
    BY <2>1 DEF ListInv, ListTypeOK, Generation
  <2>3. WantOK(load[Generation])' /\ SteadyListed' /\ (steady \subseteq Matching(filters[Generation]))'
    BY <2>1 DEF ListInv, WantOK, SteadyListed, ListedChapters, Matching, Matches, Generation
  <2> QED
    BY <2>1, <2>2, <2>3 DEF ListInv, Generation, ListedChapters
<1>2. CASE UNCHANGED batchVars
  BY <1>1, <1>2 DEF batchVars
<1>3. ASSUME NEW c \in Chapters, Import(c) PROVE ListInv'
  <2> DEFINE new == [state |-> "NORMALIZED",
                     revision |-> IF chapter[c] = Nobody THEN 1 ELSE chapter[c].revision + 1]
  <2>1. new \in ChapterRows
    BY BatchAssumption DEF ChapterRows, ListInv, ListTypeOK
  <2> QED
    BY <1>3, <2>1, ChangesKeepList DEF Import
<1>4. ASSUME NEW c \in Chapters, NEW s \in States, MoveOn(c, s) PROVE ListInv'
  <2>1. [chapter[c] EXCEPT !.state = s] \in ChapterRows
    BY <1>4 DEF MoveOn, ChapterRows, ListInv, ListTypeOK
  <2> QED
    BY <1>4, <2>1, ChangesKeepList DEF MoveOn
<1>5. CASE List
  <2>1. 1..Generation \subseteq 1..MaxGenerations
    BY BatchAssumption DEF ListInv, ListTypeOK
  <2>2. ASSUME NEW g \in 1..MaxGenerations, LoadFails(g) PROVE ListInv'
    <3>1. WantOK(Idle)
      BY DEF WantOK
    <3> QED
      BY <2>2, <3>1, LoadKeepsList DEF LoadFails
  <2> QED
    BY <1>5, <2>1, <2>2, FilterKeepsList, LoadMoreKeepsList, ServeKeepsList, DeliverKeepsList,
       TickKeepsList DEF List
<1>6. ASSUME NEW n \in Posts, Examine(n) \/ Refuse(n) \/ EnqueueChild(n) \/ Answer(n) PROVE ListInv'
  BY <1>1, <1>6 DEF Examine, Refuse, EnqueueChild, Answer
<1>7. ASSUME NEW o \in BatchIds, QueueTranslation(o) PROVE ListInv'
  BY <1>1, <1>7 DEF QueueTranslation
<1>8. CASE Track \/ LoseAnswer \/ ApiDies \/ ClearTracking
  BY <1>1, <1>8 DEF Track, LoseAnswer, ApiDies, ClearTracking
<1> QED
  BY <1>2, <1>3, <1>4, <1>5, <1>6, <1>7, <1>8 DEF BatchNext

\* Whatever page arrives late, the list has only rows of the filter it shows, and what is
\* ticked is listed (frontend/src/features/batch/BatchQueue.tsx).
THEOREM ListIsOfOneFilter == BatchSpec => []RowsOfOneFilter
<1>1. ListInv => RowsOfOneFilter
  BY DEF ListInv, RowsOfOneFilter
<1> QED
  BY <1>1, ListStarts, NextKeepsList, PTL DEF BatchSpec

\* However chapters come, go and move between the pages, one that matched all the time is
\* listed once the list has got that far, and none is listed twice
\* (modules/projects/queries.py, BatchQueue.tsx).
THEOREM PagingSkipsNothing == BatchSpec => []NoChapterSkipped
<1>1. ASSUME ListInv PROVE Cardinality(ListedChapters) = Len(items)
  <2> DEFINE n == Len(items)
             f == [i \in 1..n |-> items[i].chapter]
  <2>1. n \in Nat /\ DOMAIN items = 1..n
    BY <1>1, LenProperties DEF ListInv, ListTypeOK
  <2>2. IsFiniteSet(1..n) /\ Cardinality(1..n) = n
    <3>1. IsFiniteSet(1..n) /\ Cardinality(1..n) = IF 1 > n THEN 0 ELSE n - 1 + 1
      BY <2>1, FS_Interval
    <3> HIDE DEF n
    <3> QED
      BY <2>1, <3>1
  <2> HIDE DEF n
  <2>3. \A i \in 1..n : f[i] \in ListedChapters
    BY <2>1 DEF ListedChapters
  <2>4. f \in Injection(1..n, ListedChapters)
    BY <1>1, <2>1, <2>3 DEF ListInv, Injection, IsInjective
  <2>5. f \in Surjection(1..n, ListedChapters)
    BY <2>1, <2>3 DEF Surjection, ListedChapters
  <2> HIDE DEF f
  <2>6. Cardinality(ListedChapters) = Cardinality(1..n)
    BY <2>2, <2>4, <2>5, FS_Surjection
  <2> QED
    BY <2>2, <2>6 DEF n
<1>2. ListInv => NoChapterSkipped
  BY <1>1 DEF ListInv, SteadyListed, NoChapterSkipped
<1> QED
  BY <1>2, ListStarts, NextKeepsList, PTL DEF BatchSpec

-----------------------------------------------------------------------------
(* Credentials, for any secrets and any number of requests at the same time: *)
(* what a request that had the credential to itself answered of it is so.  *)

CredentialsTypeOK ==
  /\ profile \in ProfileRows \cup {Missing}
  /\ keyring \in [Places -> KeptSecrets]
  /\ request \in [Threads -> Requests \cup {NoRequest}]
  /\ told \in [configured : BOOLEAN, secret : KeptSecrets, certain : BOOLEAN]

\* Only the request that creates a profile comes before it.
ComesAfterProfile(t) ==
  request[t] # NoRequest =>
    (request[t].op = "create" <=> profile = Missing) /\ (request[t].op = "create" => request[t].alone)

\* What a request that is alone has read is still so, but for what it changed itself.
KnowsItsChange(t) ==
  LET work == request[t] IN
  Changing(t) /\ work.alone =>
    /\ \A u \in Threads \ {t} : ~Changing(u)
    /\ work.op = "create" => work.at = "changed" /\ (work.secret # Missing => keyring["own"] = work.secret)
    /\ work.op # "create" =>
         /\ work.ref = profile.secret_ref
         /\ work.ref = Missing => work.before = Missing
         /\ work.at = "read" => work.before = Resolve(keyring, work.ref)
    /\ work.op = "put" /\ work.at = "changed" =>
         /\ keyring["own"] = work.secret
         /\ work.ref = "legacy" => keyring["legacy"] = work.before
    /\ work.op = "delete" /\ work.at = "changed" /\ work.ref # Missing => keyring[work.ref] = Missing

Consistent ==
  /\ told.configured <=> profile.secret_ref # Missing
  /\ told.secret = Resolve(keyring, profile.secret_ref)

\* What is certain is so as long as nobody has changed the keyring, and what a request that
\* is alone has changed is what it will put back.
ToldOK ==
  told.certain /\ profile # Missing =>
    /\ (\A t \in Threads : Changing(t) => request[t].at = "read") => Consistent
    /\ \A t \in Threads :
         Changing(t) /\ request[t].alone /\ request[t].at = "changed" =>
           /\ told.configured <=> request[t].ref # Missing
           /\ told.secret = request[t].before

CredentialsInv ==
  /\ CredentialsTypeOK
  /\ \A t \in Threads : ComesAfterProfile(t) /\ KnowsItsChange(t)
  /\ ToldOK

-----------------------------------------------------------------------------

LEMMA CredentialsStart == CredentialsInit => CredentialsInv
<1> SUFFICES ASSUME CredentialsInit PROVE CredentialsInv
  OBVIOUS
<1>1. profile \in ProfileRows \cup {Missing} /\ keyring \in [Places -> KeptSecrets]
  BY DEF CredentialsInit, ProviderProfile, ProfileRows, Refs, KeptSecrets
<1>2. CredentialsTypeOK
  BY <1>1 DEF CredentialsInit, CredentialsTypeOK, ProfileRows, Resolve, KeptSecrets, Refs
<1>3. \A t \in Threads : ~Changing(t) /\ request[t] = NoRequest
  BY DEF CredentialsInit, Changing
<1> QED
  BY <1>2, <1>3 DEF CredentialsInit, CredentialsInv, ComesAfterProfile, KnowsItsChange, ToldOK, Consistent

\* A request begins: whoever else is changing the credential is alone no more.
LEMMA BeginKeepsInv ==
  ASSUME CredentialsInv, NEW t \in Threads, NEW op \in {"put", "delete", "patch"}, NEW secret \in KeptSecrets,
         Begin(t, op, secret)
  PROVE  CredentialsInv'
<1> DEFINE work == Work(op, secret)
<1>a. /\ profile \in ProfileRows /\ profile # Missing /\ request[t] = NoRequest
      /\ UNCHANGED <<profile, keyring, told>> /\ request' = Started(t, work)
  BY DEF Begin, CredentialsInv, CredentialsTypeOK
<1>b. /\ work \in Requests /\ work # NoRequest /\ work.op = op /\ work.at = "read"
      /\ work.ref = profile.secret_ref /\ work.before = Resolve(keyring, profile.secret_ref)
      /\ work.alone <=> Quiet
  <2>1. Resolve(keyring, profile.secret_ref) \in KeptSecrets /\ profile.secret_ref \in Refs
        /\ profile.revision \in Nat
    BY <1>a DEF CredentialsInv, CredentialsTypeOK, ProfileRows, Resolve, Refs, KeptSecrets
  <2>2. Quiet \in BOOLEAN
    BY DEF Quiet
  <2> DEFINE q == Quiet
             before == Resolve(keyring, profile.secret_ref)
  <2>3. work = [op |-> op, secret |-> secret, ref |-> profile.secret_ref,
                revision |-> profile.revision, before |-> before, at |-> "read", alone |-> q]
    BY DEF Work
  <2> HIDE DEF q, before, work
  <2>4. q \in BOOLEAN /\ before \in KeptSecrets
    BY <2>1, <2>2 DEF q, before
  <2>5. work \in Requests /\ work.op = op /\ work.at = "read" /\ work.ref = profile.secret_ref
        /\ work.before = before /\ work.alone = q
    BY <2>1, <2>3, <2>4 DEF Requests
  <2> QED
    BY <2>5, CredentialsAssumption DEF q, before
<1> HIDE DEF work
<1>1. request'[t] = work
  BY <1>a DEF Started
<1>2. ASSUME NEW u \in Threads, u # t
      PROVE  \/ request'[u] = request[u] /\ (op = "patch" \/ ~Changing(u))
             \/ /\ request[u] \in Requests /\ op # "patch"
                /\ request'[u] = [request[u] EXCEPT !.alone = FALSE]
  BY <1>a, <1>b, <1>2 DEF Started, Changing, CredentialsInv, CredentialsTypeOK
<1>3. \A u \in Threads : request[u] \in Requests =>
        LET less == [request[u] EXCEPT !.alone = FALSE] IN
        /\ less \in Requests /\ less # NoRequest /\ ~less.alone
        /\ less.op = request[u].op /\ less.at = request[u].at
  BY CredentialsAssumption DEF Requests
<1>4. CredentialsTypeOK'
  <2>1. request' \in [Threads -> Requests \cup {NoRequest}]
    <3>1. \A u \in Threads : request'[u] \in Requests \cup {NoRequest}
      BY <1>b, <1>1, <1>2, <1>3 DEF CredentialsInv, CredentialsTypeOK
    <3>2. request' = [u \in Threads |-> request'[u]]
      BY <1>a DEF Started
    <3> QED
      BY <3>1, <3>2
  <2> QED
    BY <1>a, <2>1 DEF CredentialsInv, CredentialsTypeOK
<1>5. \A u \in Threads : u # t => (Changing(u)' <=> Changing(u)) /\ (Changing(u)' => request'[u].at = request[u].at)
  BY <1>2, <1>3, CredentialsAssumption DEF Changing
<1>6. ASSUME NEW u \in Threads PROVE ComesAfterProfile(u)' /\ KnowsItsChange(u)'
  <2>1. CASE u = t
    <3>1. work.alone => \A v \in Threads \ {t} : ~Changing(v)'
      BY <1>b, <1>5 DEF Quiet
    <3>2. work.ref = Missing => work.before = Missing
      BY <1>b DEF Resolve
    <3> QED
      BY <1>a, <1>b, <1>1, <2>1, <3>1, <3>2 DEF ComesAfterProfile, KnowsItsChange
  <2>2. CASE u # t /\ request'[u] = request[u] /\ (op = "patch" \/ ~Changing(u))
    <3>1. ~Changing(t)' \/ ~Changing(u)
      BY <1>b, <1>1, <2>2 DEF Changing
    <3>2. ComesAfterProfile(u) /\ KnowsItsChange(u)
      BY DEF CredentialsInv
    <3> QED
      BY <1>a, <1>5, <2>2, <3>1, <3>2 DEF ComesAfterProfile, KnowsItsChange
  <2>3. CASE u # t /\ request[u] \in Requests /\ request'[u] = [request[u] EXCEPT !.alone = FALSE]
    <3>1. ComesAfterProfile(u) /\ request[u] # NoRequest
      BY <2>3, CredentialsAssumption DEF CredentialsInv
    <3> QED
      BY <1>a, <1>3, <2>3, <3>1 DEF ComesAfterProfile, KnowsItsChange
  <2> QED
    BY <1>2, <2>1, <2>2, <2>3
<1>7. ToldOK'
  <2>1. (\A u \in Threads : Changing(u)' => request'[u].at = "read")
           => \A u \in Threads : Changing(u) => request[u].at = "read"
    BY <1>a, <1>5 DEF Changing
  <2>2. ASSUME NEW u \in Threads, Changing(u)', request'[u].alone, request'[u].at = "changed"
        PROVE  Changing(u) /\ request'[u] = request[u]
    BY <1>b, <1>1, <1>2, <1>3, <1>5, <2>2
  <2> QED
    BY <1>a, <2>1, <2>2 DEF CredentialsInv, ToldOK, Consistent
<1> QED
  BY <1>4, <1>6, <1>7 DEF CredentialsInv

\* The keyring is changed for a put or a delete.
LEMMA ChangeKeepsInv ==
  ASSUME CredentialsInv, NEW t \in Threads, SetSecret(t) \/ DeleteSecret(t)
  PROVE  CredentialsInv'
<1> DEFINE r == request[t]
           q == [r EXCEPT !.at = "changed"]
<1>a. /\ r \in Requests /\ r # NoRequest /\ r.op \in {"put", "delete"} /\ r.at = "read"
      /\ request' = [request EXCEPT ![t] = q] /\ UNCHANGED <<profile, told>>
  BY DEF SetSecret, DeleteSecret, CredentialsInv, CredentialsTypeOK
<1>b. /\ q \in Requests /\ q # NoRequest /\ q.at = "changed" /\ q.op = r.op /\ q.secret = r.secret
      /\ q.ref = r.ref /\ q.before = r.before /\ q.alone = r.alone /\ q.op # "create" /\ q.op # "patch"
  BY <1>a, CredentialsAssumption DEF Requests
<1>c. profile # Missing /\ profile \in ProfileRows /\ keyring \in [Places -> KeptSecrets]
  BY <1>a DEF CredentialsInv, CredentialsTypeOK, ComesAfterProfile
<1>d. /\ r.op = "put" => keyring' = [keyring EXCEPT !["own"] = r.secret]
      /\ r.op = "delete" => keyring' = IF r.ref = Missing THEN keyring
                                       ELSE [keyring EXCEPT ![r.ref] = Missing]
  BY DEF SetSecret, DeleteSecret
<1>e. r.ref \in Refs /\ r.secret \in KeptSecrets /\ Missing \in KeptSecrets
  BY <1>a DEF Requests, KeptSecrets
<1> HIDE DEF q, r
<1>1. request'[t] = q /\ \A u \in Threads \ {t} : request'[u] = request[u]
  BY <1>a DEF CredentialsInv, CredentialsTypeOK
<1>2. /\ \A u \in Threads : Changing(u)' <=> Changing(u)
      /\ Changing(t)
  BY <1>a, <1>b, <1>1 DEF Changing, r
<1>3. CredentialsTypeOK'
  <2>1. keyring' \in [Places -> KeptSecrets]
    BY <1>a, <1>c, <1>d, <1>e
  <2>2. request' \in [Threads -> Requests \cup {NoRequest}]
    BY <1>a, <1>b DEF CredentialsInv, CredentialsTypeOK
  <2> QED
    BY <1>a, <2>1, <2>2 DEF CredentialsInv, CredentialsTypeOK
<1>4. KnowsItsChange(t)'
  <2>1. KnowsItsChange(t)
    BY DEF CredentialsInv
  <2>2. r.op = "put" => keyring'["own"] = r.secret /\ keyring'["legacy"] = keyring["legacy"]
    BY <1>c, <1>d DEF Places
  <2>3. r.op = "delete" /\ r.ref # Missing => keyring'[r.ref] = Missing
    BY <1>c, <1>d, <1>e DEF Refs
  <2>4. r.op = "put" /\ r.alone /\ r.ref = "legacy" => r.before = keyring["legacy"]
    BY <1>2, <1>a, <2>1, CredentialsAssumption DEF KnowsItsChange, Resolve, r, Places
  <2> QED
    BY <1>a, <1>b, <1>1, <1>2, <2>1, <2>2, <2>3, <2>4 DEF KnowsItsChange, r
<1>5. ASSUME NEW u \in Threads PROVE ComesAfterProfile(u)' /\ KnowsItsChange(u)'
  <2>1. CASE u = t
    <3>1. ComesAfterProfile(t)'
      BY <1>a, <1>b, <1>c, <1>1 DEF ComesAfterProfile
    <3> QED
      BY <1>4, <2>1, <3>1
  <2>2. CASE u # t
    <3>1. KnowsItsChange(u) /\ ComesAfterProfile(u)
      BY DEF CredentialsInv
    <3>2. Changing(u)' => ~request'[u].alone
      BY <1>1, <1>2, <2>2, <3>1 DEF KnowsItsChange
    <3> QED
      BY <1>a, <1>1, <2>2, <3>1, <3>2 DEF KnowsItsChange, ComesAfterProfile
  <2> QED
    BY <2>1, <2>2
<1>6. ToldOK'
  <2>1. ~(\A u \in Threads : Changing(u)' => request'[u].at = "read")
    BY <1>b, <1>1, <1>2
  <2>2. ASSUME told.certain, NEW u \in Threads, Changing(u), request'[u].alone
        PROVE  (told.configured <=> request'[u].ref # Missing) /\ told.secret = request'[u].before
    <3>1. u = t
      BY <1>1, <1>2, <2>2 DEF CredentialsInv, KnowsItsChange
    <3>2. r.alone /\ \A v \in Threads \ {t} : ~Changing(v)
      BY <1>1, <1>b, <1>2, <2>2, <3>1 DEF CredentialsInv, KnowsItsChange, r
    <3>3. Consistent
      BY <1>a, <1>c, <2>2, <3>2 DEF CredentialsInv, ToldOK, r
    <3>4. r.ref = profile.secret_ref /\ r.before = Resolve(keyring, r.ref)
      BY <1>a, <1>2, <3>2 DEF CredentialsInv, KnowsItsChange, r
    <3> QED
      BY <1>b, <1>1, <3>1, <3>3, <3>4 DEF Consistent
  <2> QED
    BY <1>a, <1>2, <2>1, <2>2 DEF ToldOK
<1> QED
  BY <1>3, <1>5, <1>6 DEF CredentialsInv

\* A request is over: the others know what they knew, for one that changes the credential
\* has left nobody alone.
LEMMA OverKeepsInv ==
  ASSUME CredentialsInv, NEW t \in Threads, request[t] # NoRequest, Over(t),
         CredentialsTypeOK', ToldOK',
         request[t].op # "create" => (profile' = Missing <=> profile = Missing),
         ~Changing(t) => UNCHANGED keyring /\ profile'.secret_ref = profile.secret_ref
  PROVE  CredentialsInv'
<1>1. /\ request'[t] = NoRequest /\ ~Changing(t)'
      /\ \A u \in Threads \ {t} : request'[u] = request[u] /\ (Changing(u)' <=> Changing(u))
  BY DEF Over, Changing, CredentialsInv, CredentialsTypeOK
<1>2. ASSUME NEW u \in Threads \ {t} PROVE ComesAfterProfile(u)'
  <2>1. ComesAfterProfile(u) /\ ComesAfterProfile(t) /\ KnowsItsChange(t)
    BY DEF CredentialsInv
  <2>2. request[t].op = "create" => request[u] = NoRequest
    BY <2>1 DEF ComesAfterProfile, KnowsItsChange, Changing
  <2> QED
    BY <1>1, <2>1, <2>2 DEF ComesAfterProfile
<1>3. ASSUME NEW u \in Threads \ {t} PROVE KnowsItsChange(u)'
  <2>1. KnowsItsChange(u)
    BY DEF CredentialsInv
  <2>2. CASE Changing(t)
    BY <1>1, <2>1, <2>2 DEF KnowsItsChange
  <2>3. CASE ~Changing(t)
    <3>1. UNCHANGED keyring /\ profile'.secret_ref = profile.secret_ref
      BY <2>3
    <3> QED
      BY <1>1, <2>1, <3>1 DEF KnowsItsChange, Resolve
  <2> QED
    BY <2>2, <2>3
<1>4. ComesAfterProfile(t)' /\ KnowsItsChange(t)'
  BY <1>1 DEF ComesAfterProfile, KnowsItsChange
<1> QED
  BY <1>2, <1>3, <1>4 DEF CredentialsInv

\* What is certain afterwards.
LEMMA OverTold ==
  ASSUME CredentialsInv, NEW t \in Threads, request[t] # NoRequest, Over(t),
         told'.certain /\ profile' # Missing =>
           \/ Changing(t) /\ request[t].alone /\ Consistent'
           \/ /\ ~Changing(t) \/ request[t].at = "read"
              /\ profile # Missing /\ profile'.secret_ref = profile.secret_ref
              /\ UNCHANGED <<keyring, told>>
  PROVE  ToldOK'
<1>1. /\ ~Changing(t)'
      /\ \A u \in Threads \ {t} : request'[u] = request[u] /\ (Changing(u)' <=> Changing(u))
  BY DEF Over, Changing, CredentialsInv, CredentialsTypeOK
<1>2. CASE Changing(t) /\ request[t].alone /\ Consistent'
  <2>1. \A u \in Threads : ~Changing(u)'
    BY <1>1, <1>2 DEF CredentialsInv, KnowsItsChange
  <2> QED
    BY <1>2, <2>1 DEF ToldOK
<1>3. ASSUME told'.certain, profile # Missing, ~Changing(t) \/ request[t].at = "read",
             profile'.secret_ref = profile.secret_ref, UNCHANGED <<keyring, told>>
      PROVE  ToldOK'
  <2>1. (\A u \in Threads : Changing(u)' => request'[u].at = "read")
           => \A u \in Threads : Changing(u) => request[u].at = "read"
    BY <1>1, <1>3
  <2>2. ToldOK
    BY DEF CredentialsInv
  <2>3. Consistent => Consistent'
    BY <1>3 DEF Consistent, Resolve
  <2> QED
    BY <1>1, <1>3, <2>1, <2>2, <2>3 DEF ToldOK
<1>4. CASE ~(told'.certain /\ profile' # Missing)
  BY <1>4 DEF ToldOK
<1> QED
  BY <1>2, <1>3, <1>4

LEMMA RequestFacts ==
  ASSUME CredentialsInv, NEW t \in Threads, request[t] # NoRequest
  PROVE  /\ request[t] \in Requests
         /\ ComesAfterProfile(t) /\ KnowsItsChange(t)
         /\ Over(t) => request' \in [Threads -> Requests \cup {NoRequest}]
BY DEF CredentialsInv, CredentialsTypeOK, Over

LEMMA CreateKeepsInv ==
  ASSUME CredentialsInv, NEW t \in Threads, NEW secret \in KeptSecrets, CreateProfile(t, secret)
  PROVE  CredentialsInv'
<1> DEFINE new == [op |-> "create", secret |-> secret, ref |-> Missing, revision |-> 0,
                   before |-> Missing, at |-> "changed", alone |-> TRUE]
<1>a. /\ new \in Requests /\ new.op = "create" /\ new.at = "changed" /\ new.alone
      /\ new.secret = secret /\ new # NoRequest
  <2>1. new \in Requests
    BY DEF Requests, Refs, KeptSecrets
  <2> QED
    BY <2>1, CredentialsAssumption
<1>b. /\ request' = [request EXCEPT ![t] = new] /\ UNCHANGED <<profile, told>>
      /\ profile = Missing /\ \A u \in Threads : ~Changing(u)
      /\ keyring' = IF secret = Missing THEN keyring ELSE [keyring EXCEPT !["own"] = secret]
  BY DEF CreateProfile, Quiet
<1> HIDE DEF new
<1>1. CredentialsTypeOK'
  <2>1. keyring' \in [Places -> KeptSecrets]
    BY <1>b DEF CredentialsInv, CredentialsTypeOK
  <2>2. request' \in [Threads -> Requests \cup {NoRequest}]
    BY <1>a, <1>b DEF CredentialsInv, CredentialsTypeOK
  <2> QED
    BY <1>b, <2>1, <2>2 DEF CredentialsInv, CredentialsTypeOK
<1>2. /\ request'[t] = new /\ \A u \in Threads \ {t} : request'[u] = request[u] /\ ~Changing(u)'
      /\ secret # Missing => keyring'["own"] = secret
  BY <1>a, <1>b DEF CredentialsInv, CredentialsTypeOK, Changing, Places
<1>3. ASSUME NEW u \in Threads PROVE ComesAfterProfile(u)' /\ KnowsItsChange(u)'
  <2>1. CASE u = t
    BY <1>a, <1>b, <1>2, <2>1 DEF ComesAfterProfile, KnowsItsChange
  <2>2. CASE u # t
    BY <1>b, <1>2, <2>2 DEF CredentialsInv, ComesAfterProfile, KnowsItsChange
  <2> QED
    BY <2>1, <2>2
<1> QED
  BY <1>b, <1>1, <1>3 DEF CredentialsInv, ToldOK

LEMMA CommitKeepsInv ==
  ASSUME CredentialsInv, NEW t \in Threads, Commit(t)
  PROVE  CredentialsInv'
<1> DEFINE r == request[t]
<1>a. /\ r # NoRequest /\ r \in Requests /\ ComesAfterProfile(t) /\ KnowsItsChange(t)
      /\ Over(t) /\ UNCHANGED keyring /\ request' \in [Threads -> Requests \cup {NoRequest}]
  BY RequestFacts DEF Commit
<1>b. /\ profile \in ProfileRows \cup {Missing} /\ keyring \in [Places -> KeptSecrets]
      /\ told \in [configured : BOOLEAN, secret : KeptSecrets, certain : BOOLEAN]
  BY DEF CredentialsInv, CredentialsTypeOK
<1>c. /\ r.secret \in KeptSecrets /\ r.alone \in BOOLEAN /\ r.revision \in Nat /\ r.ref \in Refs
      /\ Missing \in KeptSecrets /\ Missing \in Refs /\ "own" \in Refs
  BY <1>a DEF Requests, KeptSecrets, Refs, Places
<1>d. \A ref \in Refs, revision \in Nat :
        /\ ProviderProfile(ref, revision) \in ProfileRows /\ ProviderProfile(ref, revision) # Missing
        /\ ProviderProfile(ref, revision).secret_ref = ref
  BY CredentialsAssumption DEF ProviderProfile, ProfileRows
<1>e. \A configured \in BOOLEAN, secret \in KeptSecrets :
        AnswerOf(t, configured, secret) =>
          /\ told' \in [configured : BOOLEAN, secret : KeptSecrets, certain : BOOLEAN]
          /\ told'.configured = configured /\ told'.secret = secret /\ told'.certain = r.alone
  BY <1>c DEF AnswerOf
<1>f. Missing \notin Places /\ Missing \notin Secrets
  BY CredentialsAssumption
<1>1. CASE r.op = "create"
  <2> DEFINE ref == IF r.secret = Missing THEN Missing ELSE "own"
  <2>1. profile' = ProviderProfile(ref, 1) /\ AnswerOf(t, r.secret # Missing, r.secret)
    BY <1>1 DEF Commit
  <2>2. ref \in Refs /\ (r.secret # Missing) \in BOOLEAN
    BY <1>c
  <2> DEFINE configured == r.secret # Missing
  <2>3. configured \in BOOLEAN /\ AnswerOf(t, configured, r.secret)
    BY <2>1
  <2>4. profile' \in ProfileRows /\ profile'.secret_ref = ref
    BY <1>d, <2>1, <2>2
  <2>5. Changing(t) /\ r.alone /\ (r.secret # Missing => keyring["own"] = r.secret)
    BY <1>1, <1>a DEF Changing, ComesAfterProfile, KnowsItsChange
  <2>6. told' \in [configured : BOOLEAN, secret : KeptSecrets, certain : BOOLEAN]
        /\ told'.configured = configured /\ told'.secret = r.secret
    BY <1>c, <1>e, <2>3
  <2>7. Consistent'
    BY <1>a, <1>f, <2>4, <2>5, <2>6 DEF Consistent, Resolve, Places
  <2> QED
    BY <1>1, <1>a, <1>b, <2>4, <2>5, <2>6, <2>7, OverTold, OverKeepsInv DEF CredentialsTypeOK
<1>2. CASE r.op \in {"put", "delete"} /\ r.at = "changed"
  <2>1. profile # Missing /\ profile \in ProfileRows /\ profile.secret_ref \in Refs /\ Changing(t)
    BY <1>2, <1>a, <1>b DEF ComesAfterProfile, ProfileRows, Changing
  <2>2. PICK ref \in Refs, configured \in BOOLEAN, secret \in KeptSecrets :
          /\ profile' = ProviderProfile(ref, r.revision + 1) /\ AnswerOf(t, configured, secret)
          /\ r.op = "put" => ref = PutRef(r) /\ configured /\ secret = r.secret
          /\ r.op = "delete" => ref = DeleteRef(r) /\ ~configured /\ secret = Missing
    BY <1>2, <1>c, <2>1 DEF Commit, PutRef, DeleteRef
  <2>3. profile' \in ProfileRows /\ profile' # Missing /\ profile'.secret_ref = ref
    BY <1>c, <1>d, <2>2
  <2>4. /\ told' \in [configured : BOOLEAN, secret : KeptSecrets, certain : BOOLEAN]
        /\ told'.configured = configured /\ told'.secret = secret /\ told'.certain = r.alone
    BY <1>e, <2>2
  <2>5. r.alone => Consistent'
    <3> SUFFICES ASSUME r.alone PROVE Consistent'
      OBVIOUS
    <3>1. CASE r.op = "put"
      <4>1. ref = "own" /\ configured /\ secret = r.secret /\ keyring["own"] = r.secret
        BY <1>2, <1>a, <2>1, <2>2, <3>1 DEF KnowsItsChange, PutRef
      <4> QED
        BY <1>a, <1>f, <2>3, <2>4, <4>1 DEF Consistent, Resolve, Places
    <3>2. CASE r.op = "delete"
      <4>1. ref = Missing /\ ~configured /\ secret = Missing
        BY <1>2, <1>a, <2>1, <2>2, <3>2 DEF KnowsItsChange, DeleteRef
      <4> QED
        BY <1>a, <2>3, <2>4, <4>1 DEF Consistent, Resolve
    <3> QED
      BY <1>2, <3>1, <3>2
  <2> QED
    BY <1>2, <1>a, <1>b, <2>1, <2>3, <2>4, <2>5, OverTold, OverKeepsInv DEF CredentialsTypeOK
<1>3. CASE r.op = "patch"
  <2>1. profile # Missing /\ profile \in ProfileRows /\ profile.secret_ref \in Refs /\ ~Changing(t)
    BY <1>3, <1>a, <1>b DEF ComesAfterProfile, ProfileRows, Changing
  <2>2. profile' = ProviderProfile(profile.secret_ref, r.revision + 1) /\ UNCHANGED told
    BY <1>3 DEF Commit
  <2>3. profile' \in ProfileRows /\ profile' # Missing /\ profile'.secret_ref = profile.secret_ref
    BY <1>c, <1>d, <2>1, <2>2
  <2> QED
    BY <1>3, <1>a, <1>b, <2>1, <2>2, <2>3, OverTold, OverKeepsInv DEF CredentialsTypeOK
<1> QED
  BY <1>1, <1>2, <1>3 DEF Commit

LEMMA KeyringUnavailableKeepsInv ==
  ASSUME CredentialsInv, NEW t \in Threads, KeyringUnavailable(t)
  PROVE  CredentialsInv'
<1>1. /\ request[t] # NoRequest /\ request[t].at = "read" /\ Changing(t)
      /\ Over(t) /\ UNCHANGED <<profile, keyring, told>>
  BY DEF KeyringUnavailable, Changing
<1>2. CredentialsTypeOK'
  BY <1>1, RequestFacts DEF CredentialsInv, CredentialsTypeOK
<1>3. ToldOK'
  BY <1>1, OverTold
<1> QED
  BY <1>1, <1>2, <1>3, OverKeepsInv

\* What is put back is what was there before.
LEMMA CommitFailsKeepsInv ==
  ASSUME CredentialsInv, NEW t \in Threads, CommitFails(t)
  PROVE  CredentialsInv'
<1> DEFINE r == request[t]
<1>a. /\ r # NoRequest /\ r.at = "changed" /\ r \in Requests
      /\ ComesAfterProfile(t) /\ KnowsItsChange(t) /\ Over(t) /\ UNCHANGED profile
      /\ keyring' = Compensation(r) /\ Unsure(t) /\ request' \in [Threads -> Requests \cup {NoRequest}]
  BY RequestFacts DEF CommitFails
<1>b. /\ profile \in ProfileRows \cup {Missing} /\ keyring \in [Places -> KeptSecrets]
      /\ told \in [configured : BOOLEAN, secret : KeptSecrets, certain : BOOLEAN]
  BY DEF CredentialsInv, CredentialsTypeOK
<1>c. /\ r.secret \in KeptSecrets /\ r.before \in KeptSecrets /\ r.alone \in BOOLEAN /\ r.ref \in Refs
      /\ Missing \in KeptSecrets /\ r.op \in {"create", "put", "delete", "patch"}
  BY <1>a DEF Requests, KeptSecrets
<1>d. /\ told' \in [configured : BOOLEAN, secret : KeptSecrets, certain : BOOLEAN]
      /\ told'.configured = told.configured /\ told'.secret = told.secret
      /\ told'.certain = (told.certain /\ r.alone)
  <2> DEFINE certain == told.certain /\ r.alone
  <2>1. told' = [told EXCEPT !.certain = certain] /\ certain \in BOOLEAN
    BY <1>a DEF Unsure
  <2> HIDE DEF certain
  <2>2. /\ told' \in [configured : BOOLEAN, secret : KeptSecrets, certain : BOOLEAN]
        /\ told'.configured = told.configured /\ told'.secret = told.secret /\ told'.certain = certain
    BY <1>b, <2>1
  <2> QED
    BY <2>2 DEF certain
<1>e. Missing \notin Places /\ Missing \notin Secrets
  BY CredentialsAssumption
<1>1. keyring' \in [Places -> KeptSecrets]
  BY <1>a, <1>b, <1>c DEF Compensation, DeleteNewSecret, RestoreOrDelete, RestoreDeletedSecret
<1>2. CredentialsTypeOK'
  BY <1>a, <1>b, <1>d, <1>1 DEF CredentialsTypeOK
<1>3. CASE r.op = "patch"
  <2>1. ~Changing(t) /\ profile # Missing /\ keyring' = keyring
    BY <1>3, <1>a DEF Changing, ComesAfterProfile, Compensation
  <2>2. told'.certain => UNCHANGED told
    <3>1. \A v \in [configured : BOOLEAN, secret : KeptSecrets, certain : BOOLEAN] :
            v = [configured |-> v.configured, secret |-> v.secret, certain |-> v.certain]
      OBVIOUS
    <3> QED
      BY <1>b, <1>d, <3>1
  <2>3. ToldOK'
    BY <1>a, <2>1, <2>2, OverTold
  <2> QED
    BY <1>2, <1>a, <2>1, <2>3, OverKeepsInv
<1>4. CASE r.op # "patch"
  <2>1. Changing(t)
    BY <1>4, <1>a DEF Changing
  <2>2. ASSUME told'.certain, profile' # Missing PROVE r.alone /\ Consistent'
    <3>1. /\ r.alone /\ profile # Missing /\ r.op \in {"put", "delete"}
          /\ (told.configured <=> r.ref # Missing) /\ told.secret = r.before
      BY <1>4, <1>a, <1>c, <1>d, <2>1, <2>2 DEF ComesAfterProfile, CredentialsInv, ToldOK
    <3>2. r.ref = profile.secret_ref /\ (r.ref = Missing => r.before = Missing)
      BY <1>a, <2>1, <3>1 DEF KnowsItsChange
    <3>3. Resolve(keyring', r.ref) = r.before
      <4>1. CASE r.ref = Missing
        BY <3>2, <4>1 DEF Resolve
      <4>2. CASE r.ref \in Places /\ r.before # Missing
        BY <1>a, <1>e, <3>1, <4>2 DEF Resolve, Compensation, RestoreOrDelete, RestoreDeletedSecret
      <4>3. CASE r.ref \in Places /\ r.before = Missing /\ r.op = "put"
        <5>1. r.ref = "legacy" => keyring["legacy"] = Missing
          BY <1>a, <2>1, <3>1, <4>3 DEF KnowsItsChange
        <5>2. keyring' = RestoreOrDelete(r)
          BY <1>a, <4>3 DEF Compensation
        <5>3. keyring'[r.ref] = IF r.ref = "own" THEN Missing ELSE keyring[r.ref]
          BY <4>3, <5>2 DEF RestoreOrDelete
        <5> QED
          BY <1>e, <4>3, <5>1, <5>3 DEF Resolve, Places
      <4>4. CASE r.ref \in Places /\ r.before = Missing /\ r.op = "delete"
        <5>1. keyring[r.ref] = Missing
          BY <1>a, <1>e, <2>1, <3>1, <4>4 DEF KnowsItsChange
        <5>2. keyring' = RestoreDeletedSecret(r)
          BY <1>a, <4>4 DEF Compensation
        <5> QED
          BY <1>e, <4>4, <5>1, <5>2 DEF Resolve, RestoreDeletedSecret
      <4> QED
        BY <1>c, <3>1, <4>1, <4>2, <4>3, <4>4 DEF Refs
    <3> QED
      BY <1>a, <1>d, <3>1, <3>2, <3>3 DEF Consistent
  <2>3. ToldOK'
    BY <1>a, <2>1, <2>2, OverTold
  <2> QED
    BY <1>2, <1>a, <2>1, <2>3, OverKeepsInv
<1> QED
  BY <1>3, <1>4

LEMMA CompensationFailsKeepsInv ==
  ASSUME CredentialsInv, NEW t \in Threads, CompensationFails(t)
  PROVE  CredentialsInv'
<1>1. /\ request[t] # NoRequest /\ Over(t) /\ UNCHANGED <<profile, keyring>>
      /\ told' = [told EXCEPT !.certain = FALSE]
      /\ request' \in [Threads -> Requests \cup {NoRequest}]
  BY RequestFacts DEF CompensationFails
<1>2. told' \in [configured : BOOLEAN, secret : KeptSecrets, certain : BOOLEAN] /\ ~told'.certain
  BY <1>1 DEF CredentialsInv, CredentialsTypeOK
<1>3. CredentialsTypeOK'
  BY <1>1, <1>2 DEF CredentialsInv, CredentialsTypeOK
<1>4. ToldOK'
  BY <1>2 DEF ToldOK
<1> QED
  BY <1>1, <1>3, <1>4, OverKeepsInv

LEMMA KilledKeepsInv ==
  ASSUME CredentialsInv, ApiIsKilled
  PROVE  CredentialsInv'
<1> DEFINE untouched == \A t \in Threads : ~(Changing(t) /\ request[t].at = "changed")
           certain == told.certain /\ untouched
<1>1. /\ \A t \in Threads : request'[t] = NoRequest /\ ~Changing(t)'
      /\ request' \in [Threads -> Requests \cup {NoRequest}] /\ UNCHANGED <<profile, keyring>>
  BY DEF ApiIsKilled, Changing
<1>2. told' = [told EXCEPT !.certain = certain]
  BY DEF ApiIsKilled
<1>3. certain \in BOOLEAN
  BY DEF CredentialsInv, CredentialsTypeOK
<1>4. certain => told.certain /\ \A t \in Threads : Changing(t) => request[t].at # "changed"
  OBVIOUS
<1> HIDE DEF certain
<1>5. /\ told' \in [configured : BOOLEAN, secret : KeptSecrets, certain : BOOLEAN]
      /\ told'.configured = told.configured /\ told'.secret = told.secret /\ told'.certain = certain
  BY <1>2, <1>3 DEF CredentialsInv, CredentialsTypeOK
<1>6. \A t \in Threads : Changing(t) => request[t].at \in {"read", "changed"}
  BY DEF CredentialsInv, CredentialsTypeOK, Changing, Requests
<1>7. ToldOK'
  BY <1>1, <1>4, <1>5, <1>6 DEF CredentialsInv, ToldOK, Consistent, Resolve
<1>8. CredentialsTypeOK'
  BY <1>1, <1>5 DEF CredentialsInv, CredentialsTypeOK
<1> QED
  BY <1>1, <1>7, <1>8 DEF CredentialsInv, ComesAfterProfile, KnowsItsChange

LEMMA CredentialsStep == CredentialsInv /\ [CredentialsNext]_credentialVars => CredentialsInv'
<1> SUFFICES ASSUME CredentialsInv, [CredentialsNext]_credentialVars PROVE CredentialsInv'
  OBVIOUS
<1>1. CASE UNCHANGED credentialVars
  BY <1>1 DEF credentialVars, CredentialsInv, CredentialsTypeOK, ComesAfterProfile, KnowsItsChange,
              Changing, ToldOK, Consistent, Resolve
<1>2. ASSUME NEW t \in Threads, NEW secret \in KeptSecrets, CreateProfile(t, secret)
      PROVE  CredentialsInv'
  BY <1>2, CreateKeepsInv
<1>3. ASSUME NEW t \in Threads, NEW op \in {"put", "delete", "patch"}, NEW secret \in KeptSecrets,
             Begin(t, op, secret)
      PROVE  CredentialsInv'
  BY <1>3, BeginKeepsInv
<1>4. ASSUME NEW t \in Threads,
             \/ SetSecret(t) \/ DeleteSecret(t) \/ KeyringUnavailable(t)
             \/ Commit(t) \/ CommitFails(t) \/ CompensationFails(t)
      PROVE  CredentialsInv'
  BY <1>4, ChangeKeepsInv, KeyringUnavailableKeepsInv, CommitKeepsInv, CommitFailsKeepsInv,
     CompensationFailsKeepsInv
<1>5. CASE ApiIsKilled
  BY <1>5, KilledKeepsInv
<1> QED
  BY <1>1, <1>2, <1>3, <1>4, <1>5 DEF CredentialsNext, KeptSecrets, PutCredential, DeleteCredential, PatchProfile

THEOREM CredentialsKeepInv == CredentialsSpec => []CredentialsInv
BY CredentialsStart, CredentialsStep, PTL DEF CredentialsSpec

\* An answer about the credential is so, until another request changes it
\* (cloud_profiles.py:214-223, 240-249).
THEOREM AnswersHold == CredentialsSpec => []CredentialAnswerHolds
<1>1. CredentialsInv => CredentialAnswerHolds
  BY DEF CredentialsInv, ToldOK, Consistent, CredentialAnswerHolds, Quiet
<1> QED
  BY <1>1, CredentialsKeepInv, PTL

-----------------------------------------------------------------------------
(* Served audio, for files of any size, chunks of any length and every Range *)
(* header: a player is answered what it asked for, and what it puts together *)
(* is one file.                                                            *)

Decisions == [code : {200, 206, 304, 416}, start : Nat, length : Nat]

ContentTypeOK ==
  /\ size \in [Files -> 0..MaxSize]
  /\ served \subseteq Files
  /\ answer # Silent =>
       answer \in [file : Files, range : Ranges, decision : Decisions, sent : Nat]

\* An answer stays within its file, and the player has made room for its bytes.
AnswerFits ==
  answer # Silent =>
    /\ answer.decision.start + answer.decision.length =< size[answer.file]
    /\ answer.decision.length > 0 => held.of = answer.file

\* Every answer under way fits, and has what was asked for.
ContentInv ==
  /\ ContentTypeOK
  /\ held = [of |-> held.of, bytes |-> held.bytes]
  /\ AnswerFits /\ AnswerIsTheRange /\ HeldIsOneFile

-----------------------------------------------------------------------------

\* The places of an answer to a header, of a file of this size.
PlacesOf(decision) == {p \in 0..MaxSize : decision.start =< p /\ p < decision.start + decision.length}

\* Whatever the header says, the answer lies within the file; and a part is what was
\* asked for.
LEMMA RangeIsDecided ==
  ASSUME NEW range \in Ranges, NEW total \in 0..MaxSize
  PROVE  LET decision == DecideRange(range, total) IN
         /\ decision \in Decisions /\ decision.start + decision.length =< total
         /\ decision.code # 304
         /\ range \in {NoRange, Multi} => decision.code = 200
         /\ decision.code = 416 => decision.length = 0
         /\ decision.code \in {206, 416} =>
              /\ Asked(range, total) = PlacesOf(decision)
              /\ decision.code = 416 <=> decision.length = 0
<1> DEFINE decision == DecideRange(range, total)
<1>0. total \in Nat /\ MaxSize \in Nat
  BY ContentAssumption
<1>1. CASE range \in {NoRange, Multi}
  <2>1. decision = [code |-> 200, start |-> 0, length |-> total]
    BY <1>1, ContentAssumption DEF DecideRange, Full
  <2> QED
    BY <1>0, <1>1, <2>1 DEF Decisions
<1>2. CASE range \notin {NoRange, Multi} /\ range = Malformed
  <2>1. decision = [code |-> 416, start |-> 0, length |-> 0]
    BY <1>2 DEF DecideRange, Unsatisfiable
  <2>2. Asked(range, total) = {}
    BY <1>2 DEF Asked
  <2> QED
    BY <1>0, <1>2, <2>1, <2>2 DEF Decisions, PlacesOf
<1>3. CASE range \notin {NoRange, Multi, Malformed} /\ range.first = Open
  <2>1. range.last \in 0..MaxSize /\ range.last \in Nat
    <3>1. Open \notin Nat
      BY ContentAssumption
    <3>2. range \in SingleRange
      BY <1>3 DEF Ranges
    <3>3. range.last \in 0..MaxSize
      BY <1>0, <1>3, <3>1, <3>2 DEF SingleRange
    <3> QED
      BY <1>0, <3>3
  <2>2. decision = SuffixRange(range.last, total)
    BY <1>3 DEF DecideRange
  <2>3. Asked(range, total) = {p \in 0..MaxSize : p < total /\ total =< p + range.last}
    BY <1>3 DEF Asked
  <2>4. CASE range.last = 0 \/ total = 0
    <3>1. decision = [code |-> 416, start |-> 0, length |-> 0]
      BY <2>2, <2>4 DEF SuffixRange, Unsatisfiable
    <3>2. Asked(range, total) = {}
      BY <1>0, <2>1, <2>3, <2>4
    <3> QED
      BY <1>0, <1>3, <3>1, <3>2 DEF Decisions, PlacesOf
  <2>5. CASE range.last > 0 /\ total > 0
    <3> DEFINE start == IF range.last > total THEN 0 ELSE total - range.last
    <3>1. start \in Nat /\ start < total /\ total - 1 - start + 1 = total - start
      BY <1>0, <2>1, <2>5
    <3>2. decision = [code |-> 206, start |-> start, length |-> total - 1 - start + 1]
      BY <2>1, <2>2, <2>5 DEF SuffixRange, Partial
    <3>3. \A p \in 0..MaxSize : p < total => (total =< p + range.last <=> start =< p)
      BY <1>0, <2>1, <2>5
    <3> HIDE DEF start
    <3>4. /\ decision.code = 206 /\ decision.start = start /\ decision.length = total - start
          /\ total - start \in Nat /\ start + (total - start) = total /\ total - start > 0
      BY <1>0, <3>1, <3>2
    <3>5. decision \in Decisions
      BY <3>1, <3>2, <3>4 DEF Decisions
    <3>6. Asked(range, total) = PlacesOf(decision)
      BY <1>0, <2>3, <3>3, <3>4 DEF PlacesOf
    <3> QED
      BY <1>3, <3>4, <3>5, <3>6
  <2> QED
    BY <1>0, <2>1, <2>4, <2>5
<1>4. CASE range \notin {NoRange, Multi, Malformed} /\ range.first # Open
  <2>1. range.first \in Nat /\ (range.last = Open \/ range.last \in Nat)
    BY <1>0, <1>4 DEF Ranges, SingleRange
  <2>2. decision = IntervalRange(range.first, range.last, total)
    BY <1>4 DEF DecideRange
  <2>3. Asked(range, total) = {p \in 0..MaxSize : p < total /\ range.first =< p
                                                 /\ (range.last = Open \/ p =< range.last)}
    BY <1>4 DEF Asked
  <2> DEFINE end == IF range.last = Open \/ range.last > total - 1 THEN total - 1 ELSE range.last
  <2>4. end \in Int /\ end < total
    BY <1>0, <2>1
  <2>5. \A p \in 0..MaxSize : p < total /\ (range.last = Open \/ p =< range.last) <=> p =< end
    BY <1>0, <2>1
  <2>6. decision = IF range.first >= total \/ end < range.first
                   THEN [code |-> 416, start |-> 0, length |-> 0]
                   ELSE [code |-> 206, start |-> range.first, length |-> end - range.first + 1]
    BY <2>2 DEF IntervalRange, Partial, Unsatisfiable
  <2> HIDE DEF end
  <2>7. CASE end < range.first
    <3>1. decision = [code |-> 416, start |-> 0, length |-> 0]
      BY <2>6, <2>7
    <3>2. Asked(range, total) = {}
      BY <1>0, <2>1, <2>3, <2>4, <2>5, <2>7
    <3> QED
      BY <1>0, <1>4, <3>1, <3>2 DEF Decisions, PlacesOf
  <2>8. CASE ~(end < range.first)
    <3>1. decision = [code |-> 206, start |-> range.first, length |-> end - range.first + 1]
      BY <1>0, <2>1, <2>4, <2>6, <2>8
    <3>2. /\ end - range.first + 1 \in Nat /\ end - range.first + 1 > 0
          /\ range.first + (end - range.first + 1) = end + 1 /\ end + 1 =< total
      BY <1>0, <2>1, <2>4, <2>8
    <3>3. decision \in Decisions
      BY <2>1, <3>1, <3>2 DEF Decisions
    <3>4. Asked(range, total) = PlacesOf(decision)
      <4>1. PlacesOf(decision) = {p \in 0..MaxSize : range.first =< p /\ p < end + 1}
        BY <3>1, <3>2 DEF PlacesOf
      <4> QED
        BY <1>0, <2>1, <2>3, <2>4, <2>5, <4>1
    <3> QED
      BY <1>4, <3>1, <3>2, <3>3, <3>4
  <2> QED
    BY <2>7, <2>8
<1> QED
  BY <1>1, <1>2, <1>3, <1>4

LEMMA ContentStart == ContentInit => ContentInv
BY DEF ContentInit, ContentInv, ContentTypeOK, Nothing, AnswerFits, AnswerIsTheRange, HeldIsOneFile

LEMMA GetKeepsInv ==
  ASSUME ContentInv, NEW f \in Files, NEW range \in Ranges, NEW ifNoneMatch, NEW ifRange,
         GetContent(f, range, ifNoneMatch, ifRange)
  PROVE  ContentInv'
<1> DEFINE decision == Decision(f, range, ifNoneMatch, ifRange)
           used == IF IfRangeMatches(ifRange, f) THEN range ELSE NoRange
<1>a. /\ answer' = [file |-> f, range |-> range, decision |-> decision, sent |-> 0]
      /\ held' = Kept(f, decision.code, ifRange) /\ UNCHANGED size /\ served' = served
      /\ ifRange \in {Silent, held.of} /\ size[f] \in 0..MaxSize /\ MaxSize \in Nat
      /\ held = [of |-> held.of, bytes |-> held.bytes]
  BY ContentAssumption DEF GetContent, Validators, ContentInv, ContentTypeOK
<1>b. used \in Ranges /\ size[f] \in Nat
  BY <1>a DEF Ranges
<1>1. /\ decision \in Decisions /\ decision.start + decision.length =< size[f]
      /\ decision.code = 206 => ifRange \in {Silent, f}
      /\ decision.code = 304 => decision.length = 0
      /\ decision.code = 416 => decision.length = 0
      /\ decision.code \in {206, 416} => Asked(range, size[f]) = PlacesOf(decision)
      /\ decision.code \in {206, 416} => (decision.code = 416 <=> decision.length = 0)
  <2>1. CASE ifNoneMatch = f
    <3>1. decision = [code |-> 304, start |-> 0, length |-> 0]
      BY <2>1 DEF Decision, EtagMatches, NotModified
    <3> QED
      BY <1>b, <3>1 DEF Decisions
  <2>2. CASE ifNoneMatch # f
    <3>1. decision = DecideRange(used, size[f])
      BY <2>2 DEF Decision, EtagMatches
    <3>2. LET d == DecideRange(used, size[f]) IN
            /\ d \in Decisions /\ d.start + d.length =< size[f] /\ d.code # 304
            /\ used \in {NoRange, Multi} => d.code = 200
            /\ d.code = 416 => d.length = 0
            /\ d.code \in {206, 416} =>
                 /\ Asked(used, size[f]) = PlacesOf(d)
                 /\ d.code = 416 <=> d.length = 0
      BY <1>a, <1>b, RangeIsDecided
    <3>3. used = range \/ used = NoRange
      OBVIOUS
    <3>4. ifRange \notin {Silent, f} => used = NoRange
      BY DEF IfRangeMatches
    <3> HIDE DEF decision, used
    <3> QED
      BY <3>1, <3>2, <3>3, <3>4
  <2> QED
    BY <2>1, <2>2
<1> HIDE DEF decision
<1>2. ContentTypeOK'
  BY <1>a, <1>1 DEF ContentInv, ContentTypeOK
<1>3. decision.length > 0 => held'.of = f
  BY <1>a, <1>1 DEF Kept, Nothing, Decisions
<1>4. held' = held \/ held' = [of |-> f, bytes |-> {}]
  BY <1>a DEF Kept, Nothing
<1>5. held' = [of |-> held'.of, bytes |-> held'.bytes] /\ HeldIsOneFile'
  BY <1>a, <1>4 DEF ContentInv, HeldIsOneFile
<1>6. AnswerFits'
  BY <1>a, <1>1, <1>3 DEF AnswerFits
<1>7. AnswerIsTheRange'
  BY <1>a, <1>1 DEF AnswerIsTheRange, PlacesOf
<1> QED
  BY <1>2, <1>5, <1>6, <1>7 DEF ContentInv

\* The bytes a chunk has.
LEMMA ChunkIsOfTheFile ==
  ASSUME ContentTypeOK, NEW f \in Files, NEW at \in Nat, NEW remaining \in Nat,
         at + remaining =< size[f]
  PROVE  LET chunk == FileSlice(f, at, remaining) IN
         /\ Len(chunk) \in Nat /\ DOMAIN chunk = 1..Len(chunk)
         /\ \A n \in DOMAIN chunk : chunk[n] = <<f, at + n - 1>>
<1> DEFINE length == IF remaining < ChunkBytes THEN remaining ELSE ChunkBytes
           all == Bytes(f)
<1>1. length \in Nat /\ length =< remaining /\ size[f] \in Nat
  BY ContentAssumption DEF ContentTypeOK
<1>2. all = [n \in 1..size[f] |-> <<f, n - 1>>]
  BY DEF Bytes
<1>3. all \in Seq({<<f, n>> : n \in Int}) /\ Len(all) = size[f]
  BY <1>1, <1>2
<1> HIDE DEF all, length
<1> DEFINE chunk == SubSeq(all, at + 1, at + length)
<1>4. FileSlice(f, at, remaining) = chunk
  BY DEF FileSlice, all, length
<1>5. chunk = [n \in 1..length |-> all[at + n]] /\ Len(chunk) = length
  BY <1>1, <1>3
<1>6. \A n \in 1..length : at + n \in 1..size[f] /\ at + n - 1 = (at + n) - 1
  BY <1>1
<1>7. \A n \in 1..length : chunk[n] = <<f, at + n - 1>>
  BY <1>2, <1>5, <1>6
<1>8. DOMAIN chunk = 1..length
  BY <1>5
<1> QED
  BY <1>1, <1>4, <1>5, <1>7, <1>8

LEMMA SliceKeepsInv ==
  ASSUME ContentInv, IterFileSlice
  PROVE  ContentInv'
<1> DEFINE at == answer.decision.start + answer.sent
           remaining == answer.decision.length - answer.sent
           chunk == FileSlice(answer.file, at, remaining)
           more == {<<at + n - 1, chunk[n]>> : n \in DOMAIN chunk}
<1>a. /\ answer # Silent /\ answer.sent < answer.decision.length
      /\ held' = [held EXCEPT !.bytes = @ \cup more]
      /\ answer' = [answer EXCEPT !.sent = @ + Len(chunk)]
      /\ UNCHANGED <<size, served>>
  BY DEF IterFileSlice
<1>b. /\ answer \in [file : Files, range : Ranges, decision : Decisions, sent : Nat]
      /\ held = [of |-> held.of, bytes |-> held.bytes]
  BY <1>a DEF ContentInv, ContentTypeOK
<1>c. /\ answer.file \in Files /\ at \in Nat /\ remaining \in Nat /\ answer.decision.length > 0
      /\ size[answer.file] \in Nat /\ at + remaining =< size[answer.file] /\ held.of = answer.file
  BY <1>a, <1>b, ContentAssumption DEF ContentInv, ContentTypeOK, AnswerFits, Decisions
<1> HIDE DEF at, remaining
<1>1. /\ Len(chunk) \in Nat
      /\ \A n \in DOMAIN chunk : n \in Nat /\ chunk[n] = <<answer.file, at + n - 1>>
  BY <1>c, ChunkIsOfTheFile DEF ContentInv
<1> HIDE DEF chunk
<1>2. /\ answer' \in [file : Files, range : Ranges, decision : Decisions, sent : Nat]
      /\ answer'.file = answer.file /\ answer'.decision = answer.decision /\ answer'.range = answer.range
  BY <1>a, <1>b, <1>1
<1>3. \A b \in more : b[2] = <<held.of, b[1]>>
  BY <1>c, <1>1
<1> HIDE DEF more
<1>4. held'.of = held.of /\ held'.bytes = held.bytes \cup more
      /\ held' = [of |-> held'.of, bytes |-> held'.bytes]
  BY <1>a, <1>b
<1>5. HeldIsOneFile'
  BY <1>3, <1>4 DEF ContentInv, HeldIsOneFile
<1> QED
  BY <1>a, <1>2, <1>4, <1>5 DEF ContentInv, ContentTypeOK, AnswerFits, AnswerIsTheRange

LEMMA ContentStep == ContentInv /\ [ContentNext]_contentVars => ContentInv'
<1> SUFFICES ASSUME ContentInv, [ContentNext]_contentVars PROVE ContentInv'
  OBVIOUS
<1> USE DEF ContentInv, ContentTypeOK, AnswerFits, AnswerIsTheRange, HeldIsOneFile
<1>1. CASE UNCHANGED contentVars
  BY <1>1 DEF contentVars
<1>2. ASSUME NEW f \in Files, NEW range \in Ranges, NEW tag, NEW condition,
             GetContent(f, range, tag, condition)
      PROVE  ContentInv'
  BY <1>2, GetKeepsInv
<1>3. CASE IterFileSlice
  BY <1>3, SliceKeepsInv
<1>4. CASE ContentOver
  BY <1>4 DEF ContentOver
<1>5. ASSUME NEW f \in Files, Withdraw(f) PROVE ContentInv'
  BY <1>5 DEF Withdraw
<1> QED
  BY <1>1, <1>2, <1>3, <1>4, <1>5 DEF ContentNext

\* A player that seeks, is cut off and comes back holds one file
\* (api/audio.py:277-291).
THEOREM PlayerIsServed == ContentSpec => []PlayerHoldsTheFile
<1>1. ContentInv => PlayerHoldsTheFile
  BY DEF ContentInv, PlayerHoldsTheFile
<1> QED
  BY <1>1, ContentStart, ContentStep, PTL DEF ContentSpec

=============================================================================
