--------------------------------- MODULE Batch ---------------------------------
(***************************************************************************)
(* Translating many chapters at once: the list a user picks them from      *)
(* (frontend/src/features/batch/BatchQueue.tsx over ChapterQueries of      *)
(* backend/app/modules/projects/queries.py), and BatchCoordinator of       *)
(* modules/jobs/batch.py behind api/batches.py.                            *)
(*                                                                         *)
(* A chapter is its ordinal, which never changes.  Each change of the      *)
(* filter is a generation of the list with a first page of its own; a page *)
(* is read when the server serves it and applied when it arrives, if ever. *)
(* The children of a batch are enqueued in a transaction each.             *)
(***************************************************************************)
EXTENDS Integers, Sequences, FiniteSets, SequencesExt

CONSTANTS
  NChapters, States, \* chapters of the project, ChapterState
  BatchIds,          \* what users enter as batch operation id
  PageLimit,         \* pageLimit
  MaxSelection,      \* maxSelection
  MaxGenerations,    \* bound on changes of the filter
  MaxChanges,        \* bound on what happens to chapters meanwhile
  MaxPosts,          \* bound on batches asked for
  Nobody             \* no chapter there; no filter; no batch tracked

ASSUME BatchAssumption ==
  /\ {NChapters, MaxGenerations, MaxChanges, MaxPosts} \subseteq Nat
  /\ {PageLimit, MaxSelection} \subseteq Nat \ {0}
  /\ MaxGenerations > 0 /\ "NORMALIZED" \in States
  /\ Nobody \notin States \cup [state : States, revision : Nat]

Chapters == 1..NChapters
Filters == States \cup {Nobody}
Posts == 1..MaxPosts

VARIABLES
  chapter,   \* state and active source revision of each chapter, or Nobody
  changes,   \* how much of MaxChanges is used up
  filters,   \* the filter of each generation of the list, the current one last
  load,      \* the page each generation waits for
  items,     \* the rows of the list, each with the generation it was read for
  cursor,    \* nextCursor, 0 when there is none
  selected,  \* the ticked chapters in the order they were ticked
  listed,    \* history: the first page of this generation has arrived
  steady,    \* history: chapters that matched all through this generation
  job,       \* jobs of batches: the key and the plan of each, in order of creation
  post,      \* the requests to enqueue a batch
  waiting,   \* the request the browser waits for (busy), 0 for none
  tracked    \* the jobs of the batch the screen follows

listVars == <<filters, load, items, cursor, selected, listed, steady>>
batchVars == <<chapter, changes, listVars, job, post, waiting, tracked>>

Generation == Len(filters)
Idle == [at |-> "idle"]
Unposted == [at |-> "unposted"]

Matches(c, f) == chapter[c] # Nobody /\ (f = Nobody \/ chapter[c].state = f)
Matching(f) == {c \in Chapters : Matches(c, f)}
ListedChapters == {items[i].chapter : i \in DOMAIN items}

-----------------------------------------------------------------------------
(* Meanwhile: imports, and whatever moves a chapter on.                  *)

Changed(c, new) ==
  /\ changes < MaxChanges
  /\ changes' = changes + 1
  /\ chapter' = [chapter EXCEPT ![c] = new]
  /\ steady' = {d \in steady : d # c \/ new.state = filters[Generation] \/ filters[Generation] = Nobody}
  /\ UNCHANGED <<filters, load, items, cursor, selected, listed, job, post, waiting, tracked>>

Import(c) ==
  Changed(c, [state |-> "NORMALIZED",
              revision |-> IF chapter[c] = Nobody THEN 1 ELSE chapter[c].revision + 1])

MoveOn(c, s) ==
  /\ chapter[c] # Nobody
  /\ Changed(c, [chapter[c] EXCEPT !.state = s])

-----------------------------------------------------------------------------
(* The list.                                                             *)

Wanted(after) == [at |-> "sent", after |-> after, page |-> {}, next |-> 0]

UpTo(these, c) == {d \in these : d <= c}

\* Chapters by their ordinal (ORDER BY).
InOrder(these) ==
  [i \in 1..Cardinality(these) |-> CHOOSE c \in these : Cardinality(UpTo(these, c)) = i]

\* The effect of a new filter clears the screen and asks for the first page.
ChangeFilter(f) ==
  /\ f # filters[Generation]
  /\ Generation < MaxGenerations
  /\ filters' = Append(filters, f)
  /\ load' = [load EXCEPT ![Generation + 1] = Wanted(0)]
  /\ items' = <<>> /\ cursor' = 0 /\ selected' = <<>> /\ tracked' = Nobody
  /\ listed' = FALSE /\ steady' = Matching(f)
  /\ UNCHANGED <<chapter, changes, job, post, waiting>>

\* The button is disabled while a page is on its way.
LoadMore ==
  /\ cursor # 0
  /\ load[Generation] = Idle
  /\ load' = [load EXCEPT ![Generation] = Wanted(cursor)]
  /\ UNCHANGED <<chapter, changes, filters, items, cursor, selected, listed, steady,
                 job, post, waiting, tracked>>

\* The first rows found (LIMIT).
Page(found) == {c \in found : Cardinality(UpTo(found, c)) <= PageLimit}

\* Variant: the cursor names the first row that did not fit.
NextPastPage(found) == IF Cardinality(found) > PageLimit THEN Min(found \ Page(found)) ELSE 0

\* One row more than the page holds is read, to know whether there is a next one.
NextCursor(found) == IF Cardinality(found) > PageLimit THEN Max(Page(found)) ELSE 0

Serve(g) ==
  LET found == {c \in Matching(filters[g]) : c > load[g].after}
  IN  /\ load[g].at = "sent"
      /\ load' = [load EXCEPT ![g] = [@ EXCEPT !.at = "served", !.page = Page(found),
                                               !.next = NextCursor(found)]]
      /\ UNCHANGED <<chapter, changes, filters, items, cursor, selected, listed, steady,
                     job, post, waiting, tracked>>

Rows(g, page) == [i \in DOMAIN page |-> [chapter |-> page[i], under |-> g]]

\* A first page replaces the list, which is empty; a later one adds what is new.
Show(g) ==
  /\ items' = items \o Rows(g, InOrder(load[g].page \ ListedChapters))
  /\ cursor' = load[g].next
  /\ listed' = TRUE

\* Variant: whatever arrives is shown.
DeliverAny(g) ==
  /\ load[g].at = "served"
  /\ load' = [load EXCEPT ![g] = Idle]
  /\ Show(g)
  /\ UNCHANGED <<chapter, changes, filters, selected, steady, job, post, waiting, tracked>>

\* What an older generation asked for is dropped.
Deliver(g) ==
  /\ load[g].at = "served"
  /\ load' = [load EXCEPT ![g] = Idle]
  /\ IF g = Generation THEN Show(g) ELSE UNCHANGED <<items, cursor, listed>>
  /\ UNCHANGED <<chapter, changes, filters, selected, steady, job, post, waiting, tracked>>

\* No answer: an error is shown, the list stays as it is.
LoadFails(g) ==
  /\ load[g] # Idle
  /\ load' = [load EXCEPT ![g] = Idle]
  /\ UNCHANGED <<chapter, changes, filters, items, cursor, selected, listed, steady,
                 job, post, waiting, tracked>>

\* Only what is listed can be ticked, and no more than fits.
Toggle(c) ==
  /\ c \in ListedChapters
  /\ IF c \in Range(selected)
     THEN \E i \in DOMAIN selected : selected[i] = c /\ selected' = RemoveAt(selected, i)
     ELSE selected' = IF Len(selected) < MaxSelection THEN Append(selected, c) ELSE selected
  /\ UNCHANGED <<chapter, changes, filters, load, items, cursor, listed, steady,
                 job, post, waiting, tracked>>

-----------------------------------------------------------------------------
(* The batch.                                                            *)

\* The button is disabled while a request is under way.
QueueTranslation(operation) ==
  /\ selected # <<>>
  /\ waiting = 0
  /\ \E n \in Posts :
       /\ \A m \in Posts : (m < n) = (post[m] # Unposted)
       /\ post' = [post EXCEPT ![n] = [at |-> "asked", ids |-> selected, operation |-> operation,
                                       revisions |-> <<>>, jobs |-> <<>>]]
       /\ waiting' = n
  /\ UNCHANGED <<chapter, changes, listVars, job, tracked>>

\* The chapters are read once, all of them, and the authorization is judged.
Examine(n) ==
  LET p == post[n] IN
  /\ p.at = "asked"
  /\ post' = [post EXCEPT ![n] =
       [p EXCEPT !.at = "enqueuing",
                 !.revisions = [i \in DOMAIN p.ids |-> chapter[p.ids[i]].revision]]]
  /\ UNCHANGED <<chapter, changes, listVars, job, waiting, tracked>>

Refuse(n) ==
  /\ post[n].at = "asked"
  /\ post' = [post EXCEPT ![n].at = "refused"]
  /\ UNCHANGED <<chapter, changes, listVars, job, waiting, tracked>>

\* The hash of the batch is over the ids in the order they were ticked.
BatchInput(p) == <<p.ids, p.operation>>

\* Variant: the children of a batch differ by their revision only.
ChildKeyOfRevision(p, i) == [batch |-> BatchInput(p), chapter |-> 0, revision |-> p.revisions[i]]

ChildKey(p, i) == [batch |-> BatchInput(p), chapter |-> p.ids[i], revision |-> p.revisions[i]]

\* A key that is there already is the job, whatever has become of it.
EnqueueChild(n) ==
  LET p == post[n]
      i == Len(p.jobs) + 1
      known == {j \in DOMAIN job : job[j].key = ChildKey(p, i)}
      child == [key |-> ChildKey(p, i), chapter |-> p.ids[i],
                plan |-> [operation |-> p.operation, revision |-> p.revisions[i]]]
  IN  /\ p.at = "enqueuing" /\ i \in DOMAIN p.ids
      /\ job' = IF known = {} THEN Append(job, child) ELSE job
      /\ post' = [post EXCEPT ![n].jobs =
           Append(@, IF known = {} THEN Len(job') ELSE CHOOSE j \in known : TRUE)]
      /\ UNCHANGED <<chapter, changes, listVars, waiting, tracked>>

Answer(n) ==
  /\ post[n].at = "enqueuing" /\ DOMAIN post[n].jobs = DOMAIN post[n].ids
  /\ post' = [post EXCEPT ![n].at = "answered"]
  /\ UNCHANGED <<chapter, changes, listVars, job, waiting, tracked>>

\* The answer of the request arrives, whatever has become of the list.
Track ==
  /\ waiting # 0
  /\ post[waiting].at \in {"answered", "refused"}
  /\ tracked' = IF post[waiting].at = "answered" THEN post[waiting].jobs ELSE tracked
  /\ waiting' = 0
  /\ UNCHANGED <<chapter, changes, listVars, job, post>>

\* The browser gives up; the request may go on without it.
LoseAnswer ==
  /\ waiting # 0
  /\ waiting' = 0
  /\ UNCHANGED <<chapter, changes, listVars, job, post, tracked>>

\* The API process dies between two children.
ApiDies ==
  /\ \E n \in Posts : post[n].at \in {"asked", "enqueuing"}
  /\ post' = [n \in Posts |-> IF post[n].at \in {"asked", "enqueuing"}
                              THEN [post[n] EXCEPT !.at = "dead"] ELSE post[n]]
  /\ UNCHANGED <<chapter, changes, listVars, job, waiting, tracked>>

\* Every job followed has come to its end.
ClearTracking ==
  /\ tracked # Nobody
  /\ tracked' = Nobody
  /\ UNCHANGED <<chapter, changes, listVars, job, post, waiting>>

-----------------------------------------------------------------------------

BatchInit ==
  /\ chapter \in [Chapters -> {Nobody} \cup [state : States, revision : {1}]]
  /\ changes = 0
  /\ filters = <<Nobody>>
  /\ load = [g \in 1..MaxGenerations |-> IF g = 1 THEN Wanted(0) ELSE Idle]
  /\ items = <<>> /\ cursor = 0 /\ selected = <<>>
  /\ listed = FALSE /\ steady = Matching(Nobody)
  /\ job = <<>> /\ post = [n \in Posts |-> Unposted] /\ waiting = 0 /\ tracked = Nobody

List ==
  \/ \E f \in Filters : ChangeFilter(f)
  \/ LoadMore
  \/ \E g \in 1..Generation : Serve(g) \/ Deliver(g) \/ LoadFails(g)
  \/ \E c \in Chapters : Toggle(c)

BatchNext ==
  \/ \E c \in Chapters : Import(c) \/ \E s \in States : MoveOn(c, s)
  \/ List
  \/ \E o \in BatchIds : QueueTranslation(o)
  \/ \E n \in Posts : Examine(n) \/ Refuse(n) \/ EnqueueChild(n) \/ Answer(n)
  \/ Track \/ LoseAnswer \/ ApiDies \/ ClearTracking

BatchSpec == BatchInit /\ [][BatchNext]_batchVars

-----------------------------------------------------------------------------

\* The rows of the list were all read under the filter it shows, and what is ticked is
\* listed: no chapter of another filter gets into a batch somebody pays for.
RowsOfOneFilter ==
  /\ \A i \in DOMAIN items : filters[items[i].under] = filters[Generation]
  /\ Range(selected) \subseteq ListedChapters

\* Paging loses nothing: a chapter that matched the filter ever since it was chosen is
\* listed as soon as the list has got that far, whatever was imported, moved on or
\* filtered in between; and no chapter is listed twice.
NoChapterSkipped ==
  /\ listed => \A c \in steady : (cursor = 0 \/ c <= cursor) => c \in ListedChapters
  /\ Cardinality(ListedChapters) = Len(items)

\* An answered batch has one job for each chapter that was ticked, in that order and for
\* the revision that was read, and asking again after a lost answer or a crash finds
\* the same jobs.
BatchIsComplete ==
  \A n \in Posts : post[n].at = "answered" =>
    /\ \A i \in DOMAIN post[n].ids :
         /\ job[post[n].jobs[i]].chapter = post[n].ids[i]
         /\ job[post[n].jobs[i]].plan = [operation |-> post[n].operation,
                                          revision |-> post[n].revisions[i]]
    /\ \A m \in Posts :
         post[m].at = "answered" /\ BatchInput(post[m]) = BatchInput(post[n])
             /\ post[m].revisions = post[n].revisions
           => post[m].jobs = post[n].jobs
=============================================================================
