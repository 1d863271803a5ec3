-------------------------------- MODULE Preview --------------------------------
(***************************************************************************)
(* Listening to a voice before it is chosen: VoicePreviewService of        *)
(* backend/app/modules/voices/preview.py behind the routes of              *)
(* api/voices.py, and the panel that asks, polls and shows                 *)
(* (frontend/src/features/voices/VoicePreviewPanel.tsx).                   *)
(*                                                                         *)
(* A preview is made by the request that asks for it, in a thread of its   *)
(* own; nothing keeps two requests from making the same one.  There is one *)
(* row and one file per cache key, which stands for the voice with its     *)
(* settings and the text.  A session writes the columns whose value        *)
(* differs from what it loaded, and does not load a row again after a      *)
(* commit (expire_on_commit is off).                                       *)
(***************************************************************************)
EXTENDS Naturals

CONSTANTS
  Voices, Scripts, \* presets of the catalog, texts to be read
  Sounds,          \* audio an engine may make of one text
  MaxAsks,         \* bound on what users ask for
  PollAttempts,    \* POLL_ATTEMPTS
  MaxCrashes,      \* bound on deaths of the API process
  Silence          \* no audio

ASSUME PreviewAssumption ==
  /\ MaxAsks \in Nat /\ MaxCrashes \in Nat /\ PollAttempts \in Nat \ {0}
  /\ Silence \notin Sounds

CacheKeys == Voices \X Scripts
Asks == 1..MaxAsks
Terminal == {"READY", "FAILED", "CANCELLED"}

VARIABLES
  preview,  \* voice_preview_jobs by cache key: status, and whether it names its audio
  audio,    \* the file under voice-previews/ by cache key
  ask,      \* each ask: the request that serves it, then the panel's polls for it
  shown,    \* what the panel shows of each voice
  gaveUp,   \* history: a poll got no answer, or ended before its preview did
  deaths    \* how much of MaxCrashes is used up

previewVars == <<preview, audio, ask, shown, gaveUp, deaths>>
panel == <<shown, gaveUp>>

NoRow == [status |-> "NONE", named |-> FALSE, sha |-> Silence]
Unasked == [at |-> "unasked"]
NothingShown == [status |-> "NONE", key |-> <<>>]

\* The stages of a request that is going to write its row again.
Making == {"enter", "queued", "synthesize", "store", "ready", "fail"}

At(n, stage) == ask[n].at = stage
Moves(n, r) == ask' = [ask EXCEPT ![n] = r]
Key(n) == ask[n].key

\* The answer of a request is what its own session holds.
Answers(n, status) == Moves(n, [ask[n] EXCEPT !.at = "answered", !.status = status])

-----------------------------------------------------------------------------
(* What users ask for.                                                   *)

Ask(what, k, fromPanel) ==
  \E n \in Asks :
    /\ \A m \in Asks : (m < n) = (ask[m] # Unasked)
    /\ Moves(n, [at |-> what, key |-> k, status |-> "NONE", named |-> FALSE,
                 sound |-> Silence, left |-> 0, panel |-> fromPanel])

\* Preview, or play of a preview that is not ready.
AskPreview(k) ==
  /\ Ask("create", k, TRUE)
  /\ UNCHANGED <<preview, audio, panel, deaths>>

AskRetry(v) ==
  /\ shown[v].status \in {"FAILED", "CANCELLED"}
  /\ Ask("retry", shown[v].key, TRUE)
  /\ UNCHANGED <<preview, audio, panel, deaths>>

AskCancel(v) ==
  /\ shown[v].status = "QUEUED"
  /\ Ask("cancel", shown[v].key, TRUE)
  /\ UNCHANGED <<preview, audio, panel, deaths>>

\* Another page, or a comparison, which asks for several previews and polls for none.
AskElsewhere(what, k) ==
  /\ what = "create" \/ preview[k] # NoRow
  /\ Ask(what, k, FALSE)
  /\ UNCHANGED <<preview, audio, panel, deaths>>

-----------------------------------------------------------------------------
(* The request.                                                          *)

\* The row as the session loads it: a READY one is the answer.
Loaded(n) == [ask[n] EXCEPT !.status = preview[Key(n)].status, !.named = preview[Key(n)].named]

LookCreate(n) ==
  /\ At(n, "create")
  /\ Moves(n, [Loaded(n) EXCEPT !.at = IF preview[Key(n)].status = "READY" THEN "answered"
                                       ELSE "enter"])
  /\ UNCHANGED <<preview, audio, panel, deaths>>

\* The unique cache key turns a second insert away; the row of the first is used.
EnterNew(n) ==
  /\ At(n, "enter")
  /\ ask[n].status = "NONE"
  /\ IF preview[Key(n)] = NoRow
     THEN /\ preview' = [preview EXCEPT ![Key(n)].status = "QUEUED"]
          /\ Moves(n, [ask[n] EXCEPT !.at = "queued"])
     ELSE /\ Moves(n, [Loaded(n) EXCEPT !.at = IF preview[Key(n)].status = "READY"
                                               THEN "answered" ELSE "enter"])
          /\ UNCHANGED preview
  /\ UNCHANGED <<audio, panel, deaths>>

EnterKnown(n) ==
  /\ At(n, "enter")
  /\ ask[n].status # "NONE"
  /\ preview' = [preview EXCEPT ![Key(n)].status = IF ask[n].status = "QUEUED" THEN @ ELSE "QUEUED"]
  /\ Moves(n, [ask[n] EXCEPT !.at = "queued"])
  /\ UNCHANGED <<audio, panel, deaths>>

\* A retry is for what failed or was cancelled.
LookRetry(n) ==
  /\ At(n, "retry")
  /\ Moves(n, [Loaded(n) EXCEPT !.at = IF preview[Key(n)].status \in {"FAILED", "CANCELLED"}
                                       THEN "queued" ELSE "answered"])
  /\ UNCHANGED <<preview, audio, panel, deaths>>

LookCancel(n) ==
  /\ At(n, "cancel")
  /\ Moves(n, [Loaded(n) EXCEPT !.at = IF preview[Key(n)].status \in {"QUEUED", "RUNNING"}
                                       THEN "cancelling" ELSE "answered"])
  /\ UNCHANGED <<preview, audio, panel, deaths>>

Cancel(n) ==
  /\ At(n, "cancelling")
  /\ preview' = [preview EXCEPT ![Key(n)].status = "CANCELLED"]
  /\ Answers(n, "CANCELLED")
  /\ UNCHANGED <<audio, panel, deaths>>

Run(n) ==
  /\ At(n, "queued")
  /\ preview' = [preview EXCEPT ![Key(n)].status = "RUNNING"]
  /\ Moves(n, [ask[n] EXCEPT !.at = "synthesize"])
  /\ UNCHANGED <<audio, panel, deaths>>

\* The engine makes audio, or there is no model, no adapter, a time-out, no sound.
Synthesize(n, sound) ==
  /\ At(n, "synthesize")
  /\ Moves(n, [ask[n] EXCEPT !.at = IF sound = Silence THEN "fail" ELSE "store",
                             !.sound = sound])
  /\ UNCHANGED <<preview, audio, panel, deaths>>

StoreAudioUnverified(n) ==
  /\ At(n, "store")
  /\ audio' = [audio EXCEPT ![Key(n)] = IF @ = Silence THEN ask[n].sound ELSE @]
  /\ Moves(n, [ask[n] EXCEPT !.at = "ready"])
  /\ UNCHANGED <<preview, panel, deaths>>

\* A file that is there already must be the same audio.
StoreAudio(n) ==
  /\ At(n, "store")
  /\ audio' = [audio EXCEPT ![Key(n)] = IF @ = Silence THEN ask[n].sound ELSE @]
  /\ Moves(n, [ask[n] EXCEPT !.at = IF audio'[Key(n)] = ask[n].sound THEN "ready" ELSE "fail"])
  /\ UNCHANGED <<preview, panel, deaths>>

\* A session that loaded a row with its audio named does not name it again.
Ready(n) ==
  /\ At(n, "ready")
  /\ preview' = [preview EXCEPT ![Key(n)] =
       IF ask[n].named THEN [@ EXCEPT !.status = "READY"]
       ELSE [status |-> "READY", named |-> TRUE, sha |-> ask[n].sound]]
  /\ Answers(n, "READY")
  /\ UNCHANGED <<audio, panel, deaths>>

\* Nor does one that loaded a row without it take the name away.
Fail(n) ==
  /\ At(n, "fail")
  /\ preview' = [preview EXCEPT ![Key(n)] =
       IF ask[n].named THEN [NoRow EXCEPT !.status = "FAILED"]
       ELSE [@ EXCEPT !.status = "FAILED"]]
  /\ Answers(n, "FAILED")
  /\ UNCHANGED <<audio, panel, deaths>>

\* The API process dies with its requests.
Crash ==
  /\ deaths < MaxCrashes
  /\ deaths' = deaths + 1
  /\ ask' = [n \in Asks |-> IF ask[n].at \in Making \cup {"create", "retry", "cancel", "cancelling"}
                            THEN [ask[n] EXCEPT !.at = "lost"] ELSE ask[n]]
  /\ UNCHANGED <<preview, audio, panel>>

-----------------------------------------------------------------------------
(* The panel.                                                            *)

Voice(n) == ask[n].key[1]
Shows(n) == shown' = [shown EXCEPT ![Voice(n)] = [status |-> ask[n].status, key |-> ask[n].key]]

PollAfter(n, left) ==
  IF ask[n].status \in Terminal \/ left = 0 THEN [ask[n] EXCEPT !.at = "over", !.left = 0]
  ELSE [ask[n] EXCEPT !.at = "timer", !.left = left]

AnsweredUnwatched(n) ==
  /\ At(n, "answered") /\ ask[n].panel
  /\ Shows(n)
  /\ Moves(n, [ask[n] EXCEPT !.at = "over"])
  /\ UNCHANGED <<preview, audio, gaveUp, deaths>>

\* What is answered is shown; what is not at its end yet is polled for.
Answered(n) ==
  /\ At(n, "answered") /\ ask[n].panel
  /\ Shows(n)
  /\ Moves(n, PollAfter(n, PollAttempts))
  /\ UNCHANGED <<preview, audio, gaveUp, deaths>>

PollRead(n) ==
  /\ At(n, "timer")
  /\ Moves(n, [ask[n] EXCEPT !.at = "polled", !.status = preview[Key(n)].status])
  /\ UNCHANGED <<preview, audio, panel, deaths>>

Polled(n) ==
  /\ At(n, "polled")
  /\ Shows(n)
  /\ Moves(n, PollAfter(n, ask[n].left - 1))
  /\ gaveUp' = (gaveUp \/ (ask[n].left = 1 /\ ask[n].status \notin Terminal))
  /\ UNCHANGED <<preview, audio, deaths>>

\* No answer, or one the browser cannot use: the panel shows an error.
Unanswered(n) ==
  /\ ask[n].at \in {"lost", "answered", "timer", "polled"}
  /\ Moves(n, [ask[n] EXCEPT !.at = "over"])
  /\ gaveUp' = (gaveUp \/ ask[n].at \in {"timer", "polled"})
  /\ UNCHANGED <<preview, audio, shown, deaths>>

-----------------------------------------------------------------------------

PreviewInit ==
  /\ preview = [k \in CacheKeys |-> NoRow] /\ audio = [k \in CacheKeys |-> Silence]
  /\ ask = [n \in Asks |-> Unasked]
  /\ shown = [v \in Voices |-> NothingShown] /\ gaveUp = FALSE
  /\ deaths = 0

Request(n) ==
  \/ LookCreate(n) \/ EnterNew(n) \/ EnterKnown(n) \/ LookRetry(n) \/ LookCancel(n) \/ Cancel(n)
  \/ Run(n) \/ (\E s \in Sounds \cup {Silence} : Synthesize(n, s))
  \/ StoreAudio(n) \/ Ready(n) \/ Fail(n)

Panel(n) == Answered(n) \/ PollRead(n) \/ Polled(n) \/ Unanswered(n)

PreviewNext ==
  \/ \E k \in CacheKeys : AskPreview(k) \/ \E what \in {"create", "retry", "cancel"} : AskElsewhere(what, k)
  \/ \E v \in Voices : AskRetry(v) \/ AskCancel(v)
  \/ \E n \in Asks : Request(n) \/ Panel(n)
  \/ Crash

PreviewSpec == PreviewInit /\ [][PreviewNext]_previewVars

-----------------------------------------------------------------------------

\* A row that names audio names the audio that is there, whichever of several
\* requests made it, lost it or failed beside it: the route never serves a preview
\* it must refuse for its checksum.
NamedAudioIsThere ==
  \A k \in CacheKeys : preview[k].named => preview[k].sha # Silence /\ preview[k].sha = audio[k]

\* A preview that is queued or running has a request that will end it, unless the
\* process died; and one the panel shows as such is polled for, unless a poll got
\* no answer, which shows an error, or the panel has asked as often as it may.
NoPreviewHangs ==
  /\ \A k \in CacheKeys : preview[k].status \in {"QUEUED", "RUNNING"} =>
       deaths > 0 \/ \E n \in Asks : ask[n].at \in Making /\ Key(n) = k
  /\ \A v \in Voices : shown[v].status \in {"QUEUED", "RUNNING"} =>
       \/ gaveUp
       \/ \E n \in Asks : ask[n].at \in {"timer", "polled"} /\ Voice(n) = v
=============================================================================
