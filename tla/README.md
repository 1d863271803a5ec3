# Truyen Audio Studio: a TLA+ model

The studio translates novels chapter by chapter and renders them as audio. It is
one user's program on one machine: a FastAPI process that serves the browser (its
routes run in threads), one worker process that carries out jobs, a SQLite database
(WAL) and a directory of artifacts they share, and a React front end. What is hard
about it is the same everywhere: requests, the worker and the browser act on the same
rows at the same time; a read outside of a transaction is stale when it is used; a
row and a file never change together; either process may die at any step; and a
request to a provider that is sent twice is paid twice.

## Inventory

Paths are below `src/backend/app/` unless they begin with `frontend/`.

| part | source | state | operations | modelled in |
|---|---|---|---|---|
| job queue | `modules/jobs/runner.py` | `jobs`, `job_attempts`, markers in `event_log` | enqueue, claim, heartbeat, request_cancel, retry_failed, acknowledge_cancel, complete, fail, defer, mark_provider_sent, recover_expired | JobQueue |
| retry classifier | `modules/jobs/retry.py` | none | classify_retry | JobRetry |
| worker, job handlers | `worker.py`, `modules/jobs/handlers.py`, `execution_handlers.py`, `recovery.py` | the lease in hand, the heartbeat, the handler's session | run_once, heartbeats, translate, synthesize, review, summarize, restart | JobWorker |
| job routes, event feed | `api/jobs.py`, `api/events.py` | `event_log` | snapshot, cancel, retry, replay with backfill | JobQueue, JobFeed |
| job list of the browser | `frontend/.../jobs/jobStore.ts` | list, cursor, stream, timer | subscribe, refresh, reconnect, append | JobFeed |
| budgets, cloud guard | `modules/budgets/*.py`, `modules/compliance/*.py` | authorizations, ledger, consents | quote, authorize, admit, commit_usage, release | Budget |
| batch | `modules/jobs/batch.py`, `projects/queries.py`, `frontend/.../batch/BatchQueue.tsx` | the list and the ticked chapters | filter, page, enqueue a batch | Batch |
| drafts | `modules/translation/draft*.py`, `api/drafts.py`, `frontend/.../useChapterDraft.ts`, `useJobDraftStream.ts` | `workspace_drafts`, the pages | save, append deltas, snapshot, stream | DraftStore, DraftReader |
| translation | `modules/translation/workflow.py`, `repair.py`, `qa.py`, `projects/workflow.py`, `invalidation.py`, `state_machine.py` | chapters, runs, segments, issues | import, translate, revise, repair, approve | ChapterText |
| knowledge | `glossary.py`, `story_memory.py`, `memory_index.py`, `translation_memory.py`, `characters.py`, `context_trace.py` | revisions and their approval | upsert a term, decide, import an index, retrieve, trace | Knowledge |
| speech | `modules/speech/*.py`, `modules/audio/*.py`, `voices/roles.py`, `api/audio.py` | voice plans, artifacts, issues | plan, render, job, approve | ChapterAudio, Mastering, ArtifactContent |
| exports | `modules/exports/*.py` | bundles | build, review | ChapterAudio |
| voices | `modules/voices/preview.py`, `frontend/.../VoicePreviewPanel.tsx` | preview rows and files | make, cancel, retry, poll | Preview |
| artifacts, storage | `modules/artifacts/*.py`, `modules/storage/*.py` | files, their rows, backups | write, look up, supersede, clean up, back up, verify | Vault |
| provider profiles | `api/cloud_profiles.py`, `modules/security/credentials.py` | the row, the keyring | create, patch, put and delete a credential | Credentials |
| sources, settings, diagnostics, workspace, providers, database, rest of the front end | the modules of these names | configuration, text, I/O | parsing, configuration, presentation | not modelled, see below |

How the parts interact. The browser asks the API; the API reads and writes the
database and puts long work in the *queue*; the *worker* claims it under a lease, calls
providers through the *cloud guard* (which reserves from the *budget*), and commits
runs, segments and *artifacts*; every transition leaves a marker in the *feed*, from
which the browser follows along. A chapter goes from its import over a *translation*
(made with the *knowledge*, shown as a *draft* while it is streamed) to its approval,
from there over a voice plan and a render to an approved master, and from there into
an *export*; every change of something earlier must make stale what was made of it.
Cleanup and backups walk the same files while all that goes on.

`PROJECT.json` lists every component with what of it is modelled, and the hazards of
the code, each at its line with the properties that cover it.

## Modules

    JobRetry         the classifier, a pure function
    JobLifecycle     what the queue promises about one job (abstract)
    JobQueue         the queue: extends JobRetry, implements JobLifecycle
    JobWorker        the worker and its handlers around JobQueue, with crashes
    JobFeed          the feed and its reader around JobQueue
    Budget           reservations, admission of calls and settlement
    DraftStore       the draft, its editors and the stream that writes it
    DraftReader      the view of a draft, around DraftStore
    ChapterText      a chapter from its import to its approved translation
    ChapterAudio     from there to its bundle, around ChapterText
    Mastering        one render in detail: parts, joins, subtitles
    ArtifactContent  the route that serves audio, and the player
    Vault            files, their rows, cleanup and backups
    Knowledge        glossary, memories, index, characters, translation memory
    Preview          previews of voices and the panel that waits for them
    Batch            the list chapters are picked from, and batches
    Credentials      a secret in two places
    MC*              the instances TLC checks
    NaturalSets      induction, least and largest numbers, sums, for the proofs
    JobQueueProofs   theorems about JobQueue
    JobWorkerProofs  theorems about JobWorker, on top of those
    JobFeedProofs    theorems about JobFeed
    ChapterProofs    theorems about ChapterText and ChapterAudio
    DraftProofs      theorems about DraftStore and DraftReader
    StudioProofs     theorems about Knowledge, Vault and Budget
    DeskProofs       theorems about Preview, Batch, Credentials and ArtifactContent

Two modules refine abstract ones: JobQueue implements JobLifecycle under the mapping
at its end (`LifecycleSpec`), and JobWorker, with all its crashes, implements JobQueue
(`QueueSpec`). Four compose: JobWorker and JobFeed extend the queue they act on,
DraftReader the store it reads, ChapterAudio the text it speaks.

Throughout, one action is one transaction where the code has one. Sessions here read
outside of a transaction (`BEGIN` comes with the first write, pysqlite), so a handler
that reads, works for long and then writes is two actions with anything in between; a
session writes the columns whose value differs from what it loaded. A call whose guard
fails raises or returns and changes nothing; it is not a step. Hashes are the values
they are hashes of, unless a property is about what a hash leaves out.

### JobQueue

`status`, `key`, `plan`, `priority`, `owner`, `lease`, `backoff`, `cancelAsked` and
`errorCode` are columns of `jobs`; `attempts[j]` is the job's rows of `job_attempts`
in order of `attempt_no`, each with its outcome (`OPEN` while `finished_at` is NULL)
and whether `provider_request_id` is set; `eventLog` is the rows of `event_log` for
jobs. Every method of `JobRunner` is one write transaction, so each is one action. Any
worker may present any attempt of any job at any time: the module is the queue under
arbitrary callers, and so are its theorems.

Time is a count-down. `lease[j]` is `lease_expires_at - now`, `backoff[j]` is
`next_run_at - now`, and `Tick` decrements them. The code reads the clock before it
waits for SQLite's write lock, so its `now` may be older than the transaction by up
to the busy time-out of 5 s; with a lease of 60 s and recovery after 90 s more, the
model takes the two for the same moment. Left out: progress counters, error summaries,
`redacted_detail`, the result artifact id.

### JobWorker

`pc` is where `run_once` is, `task` the lease it holds, `beat` the heartbeat task, and
`stage`, `seg`, `fresh`, `writing` are the handler: how far it is with which segment,
what it finished in its open transaction, and whether that transaction holds the
write lock. `done` and `rows` are what is committed, `calls` is the history of provider
requests, `granted` the retries a route has classified and not carried out yet, `fate`
what the process ended with. The kinds of handler differ in the order of cancel check,
transaction, mark, request and commit, as the header says; `CHECKPOINTED` is the method
of the recovery context that the integration tests drive.

`run_once` is a coroutine whose queue calls are synchronous, so a heartbeat comes in
only while the handler's thread runs. Heartbeats may come at any moment, or never,
which covers every interval. A heartbeat that meets a taken write lock may fail; its
error surfaces when the job is over (`AfterJob`). `Crash` takes the process at any
step; `Restart` starts the next one. A refused transition ends the process too. Not
modelled: the second process that the startup lock turns away, a thread that lives on
after Ctrl-C, and translations that the API carries out in its own process.

### JobFeed

A replay is served by four steps, `SyncFeed`, `InsertMissing`, `ReadMarkers` and
`ReadRows`, and what they read may change between any two. The store is
`JobEventStore`, callback by callback; `req` holds the requests the browser has under
way, each answered by the server at its own pace. Connection labels and the
`truncated` flag are left out, as are audit and usage events, which take the same way.

### Budget

`state`, `quote` and `ttl` are the rows of `budget_authorizations` (`ttl[a]` is
`expires_at - now`), `ledger` is `usage_ledger`, `call[c]` is where a session is with an
adapter's `synthesize`. `Prepare` and `Authorize` are `reserve`, `Admit` is `evaluate`,
`Charge` the request with its answer, `ReadHold` and `Settle` are `commit_usage`,
`Abandon` is every way an adapter raises, a crash included. `authorize` inserts the hold
before it adds up, so it holds the write lock while it does: one action.

A quote is `operation`, `category`, `estimate` and the plan of the call; `PlanHash` is
what the plan hash is a hash of, `QuoteHash` what the quote hash is. `Admit` quotes the
call again and compares (`SameQuote`), so a call whose terms, consent or units changed
since its hold is refused.

Three things the code leaves to its environment and the instance fixes. Gemini also
bills audio tokens that no quote mentions, and a settlement may then exceed its hold
(`Overruns` holds nothing above 0). Settlements bill all measured units, while quotes
leave out the free quota; `FreeUnits` is small enough for the contingency to cover
it. `ContingencyCovers` says both, and MCDesk assumes it of the instance.
Categories are strings of the caller's choice; one that is not REGULAR and has no
reserve is held to the hard limit alone, which is why the instance has `OTHER`.

### DraftStore and DraftReader

A save is `SaveCheck` (the read and the comparison of revisions) and `SaveWrite`;
`Interleaved` says whether anything may come between them. In the code it may, which is
the finding `DraftLostUpdate`; the passing run closes that window to show that the rest
of the protocol (conflicts, keeping one's text, lost answers, reloads, deltas of a run)
loses nothing unseen. The worker's open transaction is `attempt`: it holds the one
write lock from the insert of its run to its commit. The reader asks for a snapshot and
a stream at once and joins what comes by offset.

### ChapterText, ChapterAudio, Mastering

`chapter` is the row with its state and its pointers to the approved run, plan, master
and export; `runs` has each run with its segments (`cells`: text, cache key, was it
edited, was it a cache hit), its base, its status and its blocking issues. A page may be
arbitrarily old: it names any run it once saw. `context` is the revision of what a
translation is made with, `proposal` the repair a preview left in the server's memory.

ChapterAudio adds plans, segment artifacts (`clips`), masters, subtitles, rights and
bundles, and the three requests that work for long on what they read first: a render
until it writes, an approval while it probes the file, an export while it packs. The
SYNTHESIZE job commits after every segment and checks its pins when it starts.
`RenderCommit` is one step there; Mastering opens it: parts are cut by count and
estimated duration, reused when their segments are what they were made of, and joined,
and the subtitles are laid along real durations. Time is a number, and the encoder may
make a file longer than what it is fed.

### ArtifactContent

`DecideRange` is the decision of the route for every header the grammar tells apart,
`Decision` adds the validators, `IterFileSlice` serves a chunk at a time; the player
seeks, is cut off and comes back for the rest, and another artifact may take the place.

### Vault

A file is a name for an inode, so that a backup which links a file of an earlier one
holds that one's inode and shares its damage. Cleanup moves a file, commits its row and
erases the file in three steps; a backup copies the database, then files, then
publishes; the process may die between any two, and `BackupVerify` reads as the code
does. Backups come in the order of the times of their manifests (`stamp`). Restore needs locks that the running API holds, so its routes always answer 409;
it is not modelled.

### Knowledge

A chapter is its ordinal and a hash is the set of what is hashed. An upsert, a decision
about a memory, a revision of a character and a translation read first (`doing`) and
write in one transaction later, with other users in between. `Shown...` is the trace of
what a run was made with.

### Preview, Batch, Credentials

In Preview a request makes a preview in a thread of its own, and nothing keeps two from
making the same; `ask[n]` is the request, then the panel's polls. In Batch each change
of the filter is a generation of the list, a page is read when served and applied when
it arrives, and the children of a batch are enqueued in one transaction each. In
Credentials a request changes the keyring first and commits the row after; `told` is
what the last answer said, and whether the request had the credential to itself.

## What is checked

| run | question | instance |
|---|---|---|
| `JobQueue` | the queue under every sequence of calls | one job with 2 workers, 4 kinds of error and up to 5 attempts, so that every automatic retry and two by hand fit; or two jobs of two priorities with 2 attempts each, claimed by one worker id and recovered together |
| `WorkerAlone` | one job of any kind: what is recorded, every step one of the queue, liveness | 5 kinds of handler, 2 segments, none forced, 2 crashes, 3 attempts, user actions at every step |
| `WorkerDrafts` | a translation and a synthesis share the worker; editor, API caller, worker and reader of one draft | 1 segment, forced, 1 crash, 1 attempt, leases that expire at the next tick; 2 segments, 2 runs, frames of 1 character, snapshots of 2, 2 revisions by saves |
| `FeedLive` | a cancel comes to be shown | 1 job, 1 refresh, 1 failure, a buffer of 1 event |
| `Chapter` | from the approved text to the bundle | 2 segments, 2 voices, 2 runs, 2 plans, 2 masters, 1 bundle, 1 long request beside the job |
| `Studio` | files; knowledge | 2 artifacts, 2 makers, 3 backups with a retention of 1, 1 fault; 2 chapters, 1 term with 2 renderings, 2 users, 2 runs |
| `Desk` | purse; previews; batches; credentials; served audio | see below |
| `Texts` | job list; text; master | 2 jobs and 2 requests at a time with 2 failures, one mount and no refresh; 2 sources, 3 runs, 1 change of the knowledge, repairs; 4 segments in parts of 2, estimates and lengths that differ, padding |
| `CancelKillsWorker`, `DraftLostUpdate`, `PauseDoubled`, `RefreshHidesJob` | the findings | the smallest instance that shows each |

`Studio`, `Desk`, `Texts` and `WorkerDrafts` check components that share no variable. A
variable `turn`, chosen in the initial state, says which component moves while the others
stay in an initial state, so each behaviour is one of one component: interleaving steps that touch nothing in common would multiply
the states and reach nothing new. All properties there are invariants of one component,
or (`NothingUnseenLost`) say what one step of one component may do, so nothing is lost.
`Desk` has: 2 authorizations of 3 categories with calls of 20 and 120
units (a unit costs 2000 VND, so that two large calls do not fit the regular cap, a small
one fills a reserve, and the hard limit is within reach of two); 3 requests for one
preview, or 2 and the death of the API process (`CrashAmongTwo`), 1 poll; 3 chapters in pages of 1, selections of 2, 2 filters, 2
batches; 2 requests on one profile with 2 secrets and 3 revisions; files of up to 3
bytes in chunks of 2, every range over them.

The properties and why they matter:

- `NoZombie`: status, owner and open attempt agree; a job that broke it would hold a
  lease that nobody can renew, end or recover.
- `SentNeverResent`: a request that may have been sent is never repeated, neither by a
  retry nor by recovery nor by hand.
- `StatusMatchesHistory`: row and attempts tell the same story through retries by hand.
- `CancelSticks`, `WorkerOwnsItsJob`, `CancelStopsRequests`: an accepted cancel is never
  lost, never takes a job from under the thread at work, and stops a rendering within
  one segment.
- `RecordedOnce`, `ResumesWhereItStopped`: an attempt that died costs at most the segment
  in flight, and what is done again is recorded once.
- `EveryJobEnds`: every job comes to an end under `Fairness`.
- `UserActionsPublished`, `CursorHidesNoJob`, `CancelMarkerShowsCancel`,
  `CancelComesToBeShown`: what a user did reaches readers who have seen everything, and
  what the browser makes of it, whatever is lost or late. `CursorHidesNoJob` is checked
  without refreshes: an answer to one may hide a job, which is the finding
  `RefreshHidesJob`.
- `LimitsKept`: what is promised and spent, each counted once, stays within the share of
  every category and within the hard limit. It is stated of holds and ledger rows and not
  with the sums the guard computes.
- `NothingUnseenLost`, `SettledViewIsServerText`: a save replaces only what its editor was
  shown; a view that has settled shows the text of the server.
- `ApprovalStands`, `CachedTextIsProviderText`: the approved pointer names a run that is
  approved and has no open issue, though three modules clear it in code of their own;
  the cache gives back what a provider answered under the same knowledge.
- `PlanReadsApprovedRun`, `BundleOfOnePiece`, `FreshBundleIsApproved`: plan, audio,
  subtitles and text of a bundle belong together and to what is approved.
- `CuesFollowTheVoice`, `OnlyTouchedPartsRebuilt`: subtitles lie where their segment is
  heard, and a part is made again exactly when one of its segments was.
- `PlayerHoldsTheFile`: an answer is the range that was asked for, and what a player puts
  together is one file.
- `NamedFileExists`, `ListedVerifies`, `RetentionKept`: no row names a file that is gone,
  a listed backup verifies, retention keeps what it promises.
- `LiveRunsKnowTheirTerms`, `RetrievalWithinApproved`, `OneTranslationOffered`,
  `OldContextShown`: no live run is of an older locked term, only approved memory of the
  chapter is retrieved, one translation of a text is offered, and what changed since a run
  is shown.
- `NamedAudioIsThere`, `NoPreviewHangs`: a row that names audio names the audio that is
  there; a preview shown as under way has somebody who will end it.
- `RowsOfOneFilter`, `NoChapterSkipped`, `BatchIsComplete`: the list and the selection are
  of the filter that is shown, paging loses nothing, and a batch has each of its jobs once
  however often it is sent.
- `CredentialAnswerHolds`: the answer to a request that had the credential to itself is
  what row and keyring hold, whatever failed on the way.
- `LifecycleSpec`, `QueueSpec`: the refinements.

Bounds. `MaxAttempts`, `MaxSequence`, `MaxCrashes`, `MaxRuns` and the other `Max...`
constants are guards of the environment's actions and count what their names say; nothing
the code does by itself is bounded. The `MCHistory` constraints trade bounds against each
other and say so beside them. Symmetry is over values nothing tells apart (voices,
sources, keys, threads, users, files), and no run with a liveness property has any. Where
a run stops for lack of requests left, the cfg says `CHECK_DEADLOCK FALSE`.

Fairness. `Fairness` in JobWorker assumes that the loop of the worker goes on (a provider
request ends by its time-out, `worker_loop` has no exit but an error), that the clock
advances, and that a studio that stopped is started again. Nothing is assumed of
heartbeats, users or the absence of crashes. `FeedFairness` assumes that the server
answers and that the browser runs callbacks and timers; a browser's own reconnection of a
stream is possible and never relied on. The other modules have no liveness property and
no fairness; `NoPreviewHangs` says instead, as an invariant, who is left to end a preview.

## What is proved

All theorems hold for every value of the constants that satisfies the named assumption of
the module; the bounds of the models are among these constants, so a theorem about the
specification with its bounds is one for every choice of them. A property of a theorem is
the one a run checks, by name, unless it is said otherwise. Sums, orders and sequences
are where the proofs are long: `SetInduction` in NaturalSets is induction over a set of
numbers, since one over a predicate cannot be instantiated, `SubsetInduction` the same over the
subsets of a finite set, and everything said about a joined text, a served file, a newest run
or what is owed goes through one of them or through a lemma on maxima.

*JobQueueProofs.* `TypeCorrect`, `NeverZombie`, `AtMostOneDispatch`, `StatusFollowsHistory`,
`RetriesAndCancels`, `FeedKeepsOneMarker`, `FeedOnlyAdvances`, `UserIsPublished`,
`EndedIsFinal`, `HistoryOnlyGrows`, `QueueKeepsLifecycle`, from one inductive invariant,
`IInv`. `TypeOK` is not enough for any of them: that recovery never requeues a sent attempt
needs that the current attempt is the last one; that a completion cannot undo a cancel needs
that a live job without a cancel is RUNNING; that the next sequence is larger than all others
needs that the feed has a newest marker at all (`FeedHasTop`), since nothing bounds the set of
jobs. What is said of one job is `JobOK(j)`, so that a step is proved once for the job it
touches.

*JobWorkerProofs.* `WorkerKeepsQueue`: every step of the worker, its crashes included, is
a step of the queue or leaves it alone; with it, `WorkerNeverResends` carries the queue's
theorems over. `JobStaysWithItsWorker`, `CancelStops` and `NothingRecordedTwice` rest on
`WorkerInv`, the queue's invariant with: the handler is at work only on a job whose lease it
holds; a job with a request sent after its cancel (`LateCalls`) has stopped, and its handler
sends no other before its next check. `RendersOnlyWhatIsMissing` is `ResumesWhereItStopped`
with the assumption `Forced = {}`, as in the run: a forced segment is rendered again by every
attempt, as the code means it. Its invariant counts (`CountInv`): a request was paid for by
the segment it finished or by the attempt that wasted it, a job at work that has not sent the
request of its segment has wasted none in this attempt, and that segment is one that is
missing.

*JobFeedProofs.* `CanceledIsShown`. `FeedInv` says of everything outside of the log, whether a
replay has read it, it is on its way to the page or it is shown there, that no marker
published later has its number, and that what has the number of a marker of the log is of that
marker's job and shows its cancel if the marker does. It does not rest on one marker per job,
which the backfill of a replay can break. `OneConnectionHidesNoJob` states `CursorHidesNoJob`
for as long as one request of the store is under way at a time (`OneConnection`, what the
header of jobStore.ts:5-6 promises): a replay has every marker between where it began and the
last one it read (`Covers`, which later markers leave alone, for they are newer), a stream goes
on no later than the cursor, and the list is cut only when it is full. Neither failing
requests, nor the browser's own reconnects, nor consumers that come and go can hide a job then.
`OneVisitHidesNoJob` discharges the condition for a consumer that is mounted once and never
refreshes; with a refresh it fails, which is what `RefreshHidesJob` shows.

*ChapterProofs.* `ApprovedTextStands` and `CacheGivesProviderText` of the text. The first needs
that the pointer names a run there is; the second that a segment served from the cache still
has the run it came from (`HitsHaveOrigin`), through edits that take the key with them, and that
any set of runs has a newest, which is what the code's ORDER BY relies on. Of the audio,
`PlanOfApprovedText`, `BundlesAreOfOnePiece` and `FreshBundlesAreApproved`, from `AudioInv`: a
plan was made of a run without an open issue; a clip speaks the text it is kept under; a master
is made of clips of its plan, one is READY, and the subtitles are of that one; and what a
request at work for long has read is still there, and of one piece, when it commits.
`PassServes` is the induction over the segments of a pass: whatever a pass finds or renders,
each segment is served a clip of its own key.

Of the master, `PartsAreReused` and `SubtitlesFollow`, both of `MasteringSpec` and for any
segments, pauses, encoder and limits of a part. Where the parts are cut depends on estimates
only (`GroupsStay`), and each cut is a partition in order (`Cut`); the recursive functions
that cut and lay out are shown to have their values by `RecursionIsThere` of NaturalSets.
`PartsInv` says that parts are only added; that a part is of a state the plan was in, is no
shorter than the audio it was made of, and is the only READY one of its input; that every
final master is of the parts of one such state (`Renews` is how one state comes from another:
new audio has a new version); and that the parts of the last master are READY, since the pass
that superseded the others kept them. A part with no new audio therefore has the input of a
part that is READY, and is that one. `CuesInv` adds that the subtitles kept are those of the
last master, each cue where `Laid` puts its segment: `CuesAreRight` is the induction over the
segments, in which a part is left for the next one at its last segment (`NextPlace`), and no
cue is cut short because a part is never shorter than its audio nor the master than its
parts (`VoiceFits`). A pass that uses a master again keeps its subtitles, which are right
for the plan only as long as the master is: that is the hypothesis `UpToDate`.

*DraftProofs.* `ComparedAndSwapped` states `NothingUnseenLost` with the assumption
`~Interleaved`: as long as check and write of a save are one step, a save never replaces a row
its editor was not shown, for whatever row anybody holds is the stored one or has an older
revision. In the code they are two, and `DraftLostUpdate` shows what comes of it; the theorem
says that nothing else in the protocol loses text. `ViewOnlyReads`: beside the view of a job
the store runs as if it were alone. `TheViewSettles`: a view that has settled while nobody
wrote shows the server's text, since what the stream still delivers is never ahead of the
snapshot (`NotAhead`).

*StudioProofs.* `FilesOutliveRows` of Vault: the invariant adds that the row of a file moved
aside, once committed as DELETED, stays so until the file is erased.

`ListedBackupsVerify` and `RetentionIsKept` of Vault, from `BackupsKept`. A backup is made in
eight steps by one thread while others make, prune and damage theirs, so `MakerOK` says what a
thread may still rely on at each: nobody else has an inode it wrote before it is listed
(`Unlent`), what it read back is good or counted as rotten, what it publishes nobody prunes
(`MakersApart`), and what it prunes was beyond the retention when it was chosen. That stays
so (`BeyondStays`): a later manifest only pushes a backup further back, and what is removed
was itself beyond, with enough newer ones before it. Retention is a matter of counting:
`AnsweredAreListed` says that the retention is full, or that the backups of all who were
answered and of all who only wait for their answer are listed; since a manifest is removed
only while enough newer ones are there, no step leaves that. The first `Retention` of the
listed ones are then good by the other invariant, and there are that many of them
(`FrontIsFull`, by induction over finite sets). Neither needs that a thread ever ends or that
at most one runs.

`TermsAreKnown`,
`RetrievalIsWithinApproved`, `OneIsOffered` and `OldContextIsShown` of Knowledge, from
`KnowledgeInv`: an approved memory has its evidence, whoever decides about it a second time; a
pair is the one its run left and the only one of its fingerprint; what a request read before it
writes is still there; and `LiveRunsKnowTheirTerms` itself, which is inductive only with the
types of all these rows.

`LimitsAreKept` of Budget. What a limit bounds is a sum over a set that reserving, expiring and
settling change, so the invariant, `PurseInv`, splits it by authorization: what is owed under
one (`OwedBy`) is its hold while that can be settled, and its rows of the ledger afterwards.
The guard of a reservation adds up at least as much (`OwedIsCounted`), although it counts by
operation and not by authorization, since a settled row carries the operation of its hold. No
other step lets anybody owe more (`NoMoreIsOwed`), because a call that has been admitted, has
been answered or is being settled has a hold that covers its bill (`CallOK`); this is where
`SameQuote` and the second check of the clock are needed. Two conditions are named.
`OneWriter`: no two calls settle or release one authorization at the same time. The code
checks the status before its transaction and not in it, so that two that did would write two
bills under one hold; nothing in the program calls two adapters under one authorization at a
time, and the run has one caller. `ContingencyCovers`: a bill fits into the hold of its quote, which the code leaves to
the price and the free quota. The lemmas on sums are in NaturalSets: a sum grows by the
element added (`SumWithOneMore`), with its elements (`SumIsMonotone`), and adds up over groups
(`SumByGroups`).

*DeskProofs.* `AudioStaysNamed` (once stored, the file of a key never changes again, so that
whichever of two racing requests writes the row last is right), `AnsweredBatchIsComplete` (no
two jobs have one key, and the jobs a request has so far are those of its first chapters),
`CredentialsKeepInv` with `AnswersHold` (a request that is alone has read what is still so, and
the last answer will be replaced or restored by the request now at work), and `PlayerIsServed`,
from `RangeIsDecided`: for every header and size the decision lies within the file and is
exactly the bytes that were asked for.

Only model-checked:

- liveness (`EveryJobEnds`, `CancelComesToBeShown`), out of the prover's reach.

## Findings

- `CancelKillsWorker`: a cancel that lands after the last cancel check, or before an
  exception is recorded, makes the queue refuse `complete` or `fail`; the refusal leaves
  `run_once` and the process ends. Recovery cancels the job later.
- `DraftLostUpdate`: a save reads the row in one statement and writes it in a later one
  whose UPDATE names only the id; a save or a run that commits in between is overwritten,
  against the compare-and-swap `drafts.py:5-9` describes.
- `RefreshHidesJob`: a refresh reads its snapshot, the open stream delivers a job, and then
  the older snapshot takes the place of the list; the next event of the stream moves the
  cursor past the job that is missing, so that no reconnect asks for it
  (`jobStore.ts:152-170`).
- `PauseDoubled`: two parts of a master meet with twice the pause of the segment between
  them, against the docstring of `_run_master_request`.

### Noted while modelling

These disagreements and races were met on the way and have no run of their own.

Jobs, feed, budget:
- No translation handler marks its attempt before it sends (`execution_handlers.py:287`), so
  a crash while it waits has the request sent again, against
  `docs/operations/operations-guide.md:63-64`; a lost answer ends as FAILED.
- A page that leaves while the request for a stream is out, comes back and leaves again keeps
  a stream nobody closes, against "never multiplies listeners or connections"
  (`jobStore.ts:5-6`).
- Two replays may both insert the marker of a job (`events.py:98`). The retry route
  classifies one error and may put back another, when an attempt comes in between
  (`api/jobs.py:103`).
- Settled calls of one operation are each counted with the spending of all of them
  (`guard.py:418`), and usage measured after its hold expired is never recorded
  (`guard.py:240`). Two settlers of one hold would overdraw; one worker settles.
- The breaker's failures are flushed and never committed by its only caller
  (`execution_handlers.py:322-334`), so it never opens.
- A translation keeps its write transaction open across all its requests
  (`translation/workflow.py:178-250`), and so does a forced segment
  (`speech/workflow.py:499-528`). A REVIEW that read its run before an approval writes its
  issues onto the approved run.

Drafts:
- A first load that arrives late overwrites typed text (against `DraftControls.tsx:17`); a
  frame is appended whole when the draft changed between snapshot and frames; a second run
  that streams over an older draft mixes two texts. No route mounts the editor at present.

Chapter:
- `revise` and `approve` never compare the source revision of the run
  (`docs/specs/translation-spec.md:29`): an old text can be approved after a new import.
- `exports/review.py` does not compare the voices of a bundle (docstring 70-76), and
  `approve_audio` accepts a master whose issue was raised after it was read
  (`speech/workflow.py:800-823`).
- Audio QA flags every final master longer than 120 s as MAJOR, and nothing dismisses an
  audio issue: such chapters cannot be approved.
- A forced segment is paid for again after a crash (`speech/workflow.py:348-358`). A revise
  from a superseded run loses the other edit. The export reads master and subtitles in two
  statements. The audio status says approved for a stale master. A render that is asked for
  again while its job is under way gets that job though its pins are stale
  (`api/audio.py:175`). `request_transition` moves the state and no pointer.

Files:
- A missing or CORRUPT artifact, or an interrupted cleanup, blocks every later backup. A
  crash leaves files nothing names: quarantined files, source snapshots (the next import then
  fails with SOURCE_SNAPSHOT_ALREADY_EXISTS), unlisted backups.
- Two backups made at the same time can prune one that was answered; the progress of one is
  hidden by the end of another (`backup.py:161-177`).
- The ETag of served audio is the digest of its row and the file is not verified: a file
  altered on disk would be resumed under the same ETag.

Knowledge:
- A fresh run can be shown as stale, for run and trace hash the memory differently
  (`context_trace.py:49-72`, `story_memory.py:81-101`). A narrowed term keeps the runs of
  chapters it no longer covers. Two upserts at the same time leave two active entries of a
  term; styles and memories have no unique revision number either. Approve and reject of one
  candidate: the last writer wins. A second approval leaves the earlier run APPROVED, and an
  approval repeated writes the translation memory anew. Relationships stay after a character
  is demoted. A change of the story memory invalidates nothing.

Previews, batches, credentials:
- A preview can be READY without audio for ever (a cancel that races the commit, or two
  retries of which one fails). A crash between file and row of an engine that is not
  deterministic refuses that preview for ever. An older poll chain of the same voice
  overwrites the newer preview; polls stop after 12 s while a synthesis may take 60 s.
- The same chapters ticked in another order are another batch, and each is queued twice. A
  page that is lost leaves the list empty until the filter changes.
- Two credential requests at the same time can leave row and keyring disagreeing, and so can
  a crash between the two or a compensation that fails. Two edits that read one revision give
  out the same next one (`cloud_profiles.py:106`). A put over a legacy reference leaves the
  old entry in the keyring.

## Not modelled

- Restore of a backup (its locks are held by the running API), `purge_events_before` and
  `rebuild_feed` (no caller), the circuit breaker (never opens), `pause_requested` of a batch
  and `run_inline=False` of a preview (no caller in the front end).
- Pure conversions without state of their own: parsing and normalisation of sources, prompts,
  segmentation, Han-Viet readings, the wording of findings, execution plans, loudness.
- Input and output and configuration: providers' payloads, settings, diagnostics, the
  workspace, migrations, offline evaluation, presentation.
- Parts of modelled components: style profiles and relationships, the reviewer, dialogue
  splitting, speech recognition, evidence and policy snapshots of the cloud guard, the files
  of a bundle and its report.

## Plan

What would be worth doing next, in this order:

1. Mastering shown to implement the `RenderCommit` of ChapterAudio.
2. Style profiles and relationships in Knowledge, the preview of a term, the fate of
   quarantined files in Vault.
