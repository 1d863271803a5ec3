-------------------------------- MODULE Vault --------------------------------
(***************************************************************************)
(* Where the studio keeps its files: the artifact store and its rows       *)
(* (backend/app/modules/artifacts/store.py, cache.py), the cleanup of what *)
(* may go (storage/cleanup.py) and the backups (storage/backup.py,         *)
(* api/storage.py).  A file and the row that names it never change in one  *)
(* step, the process may die between any two, and the storage routes run   *)
(* in as many threads as there are requests.                               *)
(*                                                                         *)
(* A file is a name for an inode.  An artifact is written once, at a path  *)
(* of its own, so an inode is named by the artifact and by who wrote it:   *)
(* Live, or the backup that copied it.  A backup that links a file of an   *)
(* earlier one holds the earlier one's inode.                              *)
(***************************************************************************)
EXTENDS Naturals, Sequences, FiniteSets, SequencesExt

CONSTANTS
  Artifacts,   \* each with its kind, its path and its content
  Caches,      \* those of them cleanup may delete once they are superseded
  Wavs,        \* WAV masters: deletable while an MP3 of their chapter is approved
  Makers,      \* threads that may run a backup
  Retention,   \* how many backups are kept
  MaxBackups,  \* bound on backups started
  MaxFaults,   \* bound on crashes and on damaged files together
  Nil, Live

Statuses == {"READY", "SUPERSEDED", "CORRUPT", "DELETED"}

ASSUME VaultAssumption ==
  /\ Caches \subseteq Artifacts /\ Wavs \subseteq Artifacts \ Caches
  /\ Retention \in Nat \ {0} /\ MaxBackups \in Nat /\ MaxFaults \in Nat
  /\ Nil \notin Nat \cup Statuses \cup {Live} /\ Live \notin Nat
  /\ Nil \notin [Artifacts -> Statuses \cup Nat \cup {Nil}]
  /\ IsFiniteSet(Makers)

Backups == 1..MaxBackups

VARIABLES
  row,      \* what the database says of each artifact, Nil before its row is committed
  live,     \* artifacts whose file is at its path in the data root
  aside,    \* artifacts whose file cleanup moved aside
  mp3,      \* does the chapter of the WAV masters have an approved, READY MP3
  plan,     \* the artifacts of the cleanup plan kept in memory, or Nil
  cleaning, \* the cleanup that executes it: what is left and how far the first is
  damaged,  \* inodes whose content is no longer what was written
  disk,     \* per backup: its database (the rows), its files, has it a manifest
  stamp,    \* per backup: when its manifest was written, 0 before
  maker,    \* per thread: the backup being made
  started,  \* backups started
  faults,   \* crashes and damages so far
  answered, \* how many requests for a backup were answered
  rotten    \* backups with a file damaged after they had checked it

vaultVars == <<row, live, aside, mp3, plan, cleaning, damaged, disk, stamp, maker,
               started, faults, answered, rotten>>
files == <<row, live, aside, mp3>>
backups == <<disk, stamp, maker, started, answered, rotten>>

Free == [at |-> "free", todo |-> <<>>]
NoBackup == [db |-> Nil, files |-> Nil, listed |-> FALSE]
NoMaker == [at |-> "free", id |-> Nil, db |-> Nil, base |-> Nil, files |-> Nil,
            doomed |-> {}]

-----------------------------------------------------------------------------
(* Artifacts.                                                            *)

Intact(a) == a \in live /\ <<a, Live>> \notin damaged

\* The writer links its finished file under the final path, which must be free;
\* the row is committed with the work it belongs to.
WriteFile(a) ==
  /\ row[a] = Nil
  /\ a \notin live \cup aside
  /\ live' = live \cup {a}
  /\ UNCHANGED <<row, aside, mp3, plan, cleaning, damaged, faults, backups>>

WriteRow(a) ==
  /\ row[a] = Nil
  /\ a \in live
  /\ row' = [row EXCEPT ![a] = "READY"]
  /\ UNCHANGED <<live, aside, mp3, plan, cleaning, damaged, faults, backups>>

\* A newer segment, preview or master takes its place.
Supersede(a) ==
  /\ row[a] = "READY"
  /\ row' = [row EXCEPT ![a] = "SUPERSEDED"]
  /\ UNCHANGED <<live, aside, mp3, plan, cleaning, damaged, faults, backups>>

\* A lookup that finds the file of a READY row missing or changed gives the row up.
Lookup(a) ==
  /\ row[a] = "READY"
  /\ ~Intact(a)
  /\ row' = [row EXCEPT ![a] = "CORRUPT"]
  /\ UNCHANGED <<live, aside, mp3, plan, cleaning, damaged, faults, backups>>

\* The MP3 of the WAV's chapter is approved, or an edit takes the approval back.
MasterApproval ==
  /\ Wavs # {}
  /\ mp3' = ~mp3
  /\ UNCHANGED <<row, live, aside, plan, cleaning, damaged, faults, backups>>

-----------------------------------------------------------------------------
(* Cleanup.                                                              *)

\* A voice preview goes like a WAV whose MP3 stays approved.
Deletable(a) ==
  \/ a \in Caches /\ row[a] = "SUPERSEDED"
  \/ a \in Wavs /\ row[a] = "READY" /\ mp3

\* The plan lives in the memory of the API, found again by its hash.
Preview ==
  /\ plan' = {a \in Artifacts : Deletable(a) /\ Intact(a)}
  /\ UNCHANGED <<files, cleaning, damaged, faults, backups>>

Execute ==
  /\ cleaning = Free
  /\ plan \notin {Nil, {}}
  /\ cleaning' = [at |-> "next", todo |-> SetToSeq(plan)]
  /\ UNCHANGED <<files, plan, damaged, faults, backups>>

Candidate == Head(cleaning.todo)
Cleaned == IF Len(cleaning.todo) = 1 THEN Free
           ELSE [at |-> "next", todo |-> Tail(cleaning.todo)]

\* The candidate is looked at again, and skipped if it is not what the plan says.
CleanupSkip ==
  /\ cleaning.at = "next"
  /\ ~(Deletable(Candidate) /\ Intact(Candidate))
  /\ cleaning' = Cleaned
  /\ UNCHANGED <<files, plan, damaged, faults, backups>>

CleanupMoveErasing ==
  /\ cleaning.at = "next"
  /\ Deletable(Candidate) /\ Intact(Candidate)
  /\ live' = live \ {Candidate}
  /\ cleaning' = [cleaning EXCEPT !.at = "moved"]
  /\ UNCHANGED <<row, aside, mp3, plan, damaged, faults, backups>>

\* Else its file is moved aside,
CleanupMove ==
  /\ cleaning.at = "next"
  /\ Deletable(Candidate) /\ Intact(Candidate)
  /\ live' = live \ {Candidate}
  /\ aside' = aside \cup {Candidate}
  /\ cleaning' = [cleaning EXCEPT !.at = "moved"]
  /\ UNCHANGED <<row, mp3, plan, damaged, faults, backups>>

\* the audit event and the row are committed together,
CleanupCommit ==
  /\ cleaning.at = "moved"
  /\ row' = [row EXCEPT ![Candidate] = "DELETED"]
  /\ cleaning' = [cleaning EXCEPT !.at = "committed"]
  /\ UNCHANGED <<live, aside, mp3, plan, damaged, faults, backups>>

CleanupFailsCopying ==
  /\ cleaning.at = "moved"
  /\ live' = live \cup {Candidate}
  /\ cleaning' = Free
  /\ UNCHANGED <<row, aside, mp3, plan, damaged, faults, backups>>

\* or, if that fails, the file is moved back and the rest of the plan is left;
CleanupFails ==
  /\ cleaning.at = "moved"
  /\ live' = live \cup {Candidate}
  /\ aside' = aside \ {Candidate}
  /\ cleaning' = Free
  /\ UNCHANGED <<row, mp3, plan, damaged, faults, backups>>

\* then the file goes for good.
CleanupErase ==
  /\ cleaning.at = "committed"
  /\ aside' = aside \ {Candidate}
  /\ cleaning' = Cleaned
  /\ UNCHANGED <<row, live, mp3, plan, damaged, faults, backups>>

-----------------------------------------------------------------------------
(* Backups.                                                              *)

Needed(db) == {a \in Artifacts : db[a] \notin {Nil, "DELETED"}}

Sound(db, held) ==
  \A a \in Needed(db) : held[a] # Nil /\ <<a, held[a]>> \notin damaged

Verifies(b) ==
  /\ disk[b].listed /\ disk[b].db # Nil /\ disk[b].files # Nil
  /\ Sound(disk[b].db, disk[b].files)

\* Backups are listed by their manifests, newest first; what comes after the first
\* Retention of them is beyond the retention.
Listed == {b \in Backups : disk[b].listed}
Newer(b) == {c \in Listed : stamp[c] > stamp[b]}
Beyond(b) == Cardinality(Newer(b)) >= Retention
NewestOf(these) == CHOOSE b \in these : \A c \in these : stamp[c] =< stamp[b]

\* The newest backup with files it may lend.
LinkBase ==
  LET lenders == {b \in Listed : /\ disk[b].files # Nil
                                 /\ \E a \in Artifacts : disk[b].files[a] # Nil}
  IN  IF lenders = {} THEN Nil ELSE NewestOf(lenders)

Makes(t, at) == maker[t].at = at
Moves(t, m) == maker' = [maker EXCEPT ![t] = m]

\* The database is copied as of one moment, and every file its rows name is
\* read where it lies; one that is missing or changed ends the backup.  (One step:
\* all that could come back between the two is the file of a cleanup that failed.)
BackupDatabase(t) ==
  /\ Makes(t, "free")
  /\ started < MaxBackups
  /\ started' = started + 1
  /\ IF \A a \in Needed(row) : Intact(a)
     THEN Moves(t, [NoMaker EXCEPT !.at = "copy", !.id = started + 1, !.db = row,
                                   !.base = LinkBase])
     ELSE UNCHANGED maker
  /\ UNCHANGED <<files, plan, cleaning, damaged, faults, disk, stamp, answered, rotten>>

\* Files the base has (its manifest says so) are linked, the others copied: the
\* inode of a copy has the damage of its original.
Held(t) ==
  LET m == maker[t]
      Lent(a) == m.base # Nil /\ disk[m.base].files # Nil /\ disk[m.base].files[a] # Nil
  IN  [a \in Artifacts |-> IF a \notin Needed(m.db) THEN Nil
                           ELSE IF Lent(a) THEN disk[m.base].files[a] ELSE m.id]

Copied(t, held) == {a \in Needed(maker[t].db) : held[a] = maker[t].id}
CopyOf(b, these) == {<<a, b>> : a \in {c \in these : <<c, Live>> \in damaged}}

BackupFiles(t) ==
  /\ Makes(t, "copy")
  /\ LET held == Held(t) IN
       /\ Copied(t, held) \subseteq live
       /\ damaged' = damaged \cup CopyOf(maker[t].id, Copied(t, held))
       /\ Moves(t, [maker[t] EXCEPT !.at = "check", !.files = held])
  /\ UNCHANGED <<files, plan, cleaning, faults, disk, stamp, started, answered, rotten>>

\* Every file is read back; linked ones that do not match are copied after all.
\* Then the manifest is written, under a name nobody looks for.
BackupCheck(t) ==
  LET m == maker[t]
      torn == {a \in Needed(m.db) : <<a, m.files[a]>> \in damaged}
      held == [a \in Artifacts |-> IF a \in torn THEN m.id ELSE m.files[a]] IN
  /\ Makes(t, "check")
  /\ \A a \in torn : m.files[a] # m.id /\ Intact(a)
  /\ stamp' = [stamp EXCEPT ![m.id] = Max({stamp[b] : b \in Backups}) + 1]
  /\ Moves(t, [m EXCEPT !.at = "database", !.files = held])
  /\ UNCHANGED <<files, plan, cleaning, damaged, faults, disk, started, answered, rotten>>

PublishDatabaseListed(t) ==
  /\ Makes(t, "database")
  /\ disk' = [disk EXCEPT ![maker[t].id].db = maker[t].db, ![maker[t].id].listed = TRUE]
  /\ Moves(t, [maker[t] EXCEPT !.at = "files"])
  /\ UNCHANGED <<files, plan, cleaning, damaged, faults, stamp, started, answered, rotten>>

\* The three parts get their names one after the other, the manifest last.
PublishDatabase(t) ==
  /\ Makes(t, "database")
  /\ disk' = [disk EXCEPT ![maker[t].id].db = maker[t].db]
  /\ Moves(t, [maker[t] EXCEPT !.at = "files"])
  /\ UNCHANGED <<files, plan, cleaning, damaged, faults, stamp, started, answered, rotten>>

PublishFiles(t) ==
  /\ Makes(t, "files")
  /\ disk' = [disk EXCEPT ![maker[t].id].files = maker[t].files]
  /\ Moves(t, [maker[t] EXCEPT !.at = "manifest"])
  /\ UNCHANGED <<files, plan, cleaning, damaged, faults, stamp, started, answered, rotten>>

PublishManifest(t) ==
  /\ Makes(t, "manifest")
  /\ disk' = [disk EXCEPT ![maker[t].id].listed = TRUE]
  /\ Moves(t, [maker[t] EXCEPT !.at = "verify"])
  /\ UNCHANGED <<files, plan, cleaning, damaged, faults, stamp, started, answered, rotten>>

BackupVerifyEager(t) ==
  /\ Makes(t, "verify")
  /\ Verifies(maker[t].id)
  /\ Moves(t, [maker[t] EXCEPT !.at = "prune database",
                 !.doomed = {b \in Listed : Cardinality(Newer(b)) + 1 >= Retention}])
  /\ UNCHANGED <<files, plan, cleaning, damaged, faults, disk, stamp, started, answered, rotten>>

\* What was published is verified, and what is beyond the retention is chosen.
BackupVerify(t) ==
  /\ Makes(t, "verify")
  /\ Verifies(maker[t].id)
  /\ Moves(t, [maker[t] EXCEPT !.at = "prune database",
                 !.doomed = {b \in Listed : Beyond(b)}])
  /\ UNCHANGED <<files, plan, cleaning, damaged, faults, disk, stamp, started, answered, rotten>>

\* The newest of them first, each in three steps, its manifest last.
Prune(t) ==
  LET m == maker[t]  b == NewestOf(maker[t].doomed) IN
  /\ m.doomed # {}
  /\ \/ /\ m.at = "prune database"
        /\ disk' = [disk EXCEPT ![b].db = Nil]
        /\ Moves(t, [m EXCEPT !.at = "prune files"])
     \/ /\ m.at = "prune files"
        /\ disk' = [disk EXCEPT ![b].files = Nil]
        /\ Moves(t, [m EXCEPT !.at = "prune manifest"])
     \/ /\ m.at = "prune manifest"
        /\ disk' = [disk EXCEPT ![b].listed = FALSE]
        /\ Moves(t, [m EXCEPT !.at = "prune database", !.doomed = @ \ {b}])
  /\ UNCHANGED <<files, plan, cleaning, damaged, faults, stamp, started, answered, rotten>>

Answer(t) ==
  /\ Makes(t, "prune database") /\ maker[t].doomed = {}
  /\ answered' = answered + 1
  /\ Moves(t, NoMaker)
  /\ UNCHANGED <<files, plan, cleaning, damaged, faults, disk, stamp, started, rotten>>

\* A file is gone, does not match, cannot be written or renamed: what has no
\* name yet is removed, what has one stays.
BackupFails(t) ==
  /\ ~Makes(t, "free")
  /\ Moves(t, NoMaker)
  /\ UNCHANGED <<files, plan, cleaning, damaged, faults, disk, stamp, started, answered, rotten>>

-----------------------------------------------------------------------------
(* Faults.                                                               *)

\* The process dies, and with it every request and the plan.
Crash ==
  /\ faults < MaxFaults
  /\ plan' = Nil
  /\ cleaning' = Free
  /\ maker' = [t \in Makers |-> NoMaker]
  /\ faults' = faults + 1
  /\ UNCHANGED <<files, damaged, disk, stamp, started, answered, rotten>>

Holders(a, owner) ==
  {b \in Backups : \/ disk[b].files # Nil /\ disk[b].files[a] = owner
                   \/ \E t \in Makers : /\ maker[t].id = b /\ maker[t].files # Nil
                                        /\ ~Makes(t, "check") /\ maker[t].files[a] = owner}

\* The content of a stored file changes: every name of it shows the damage.
Damage(a, owner) ==
  /\ faults < MaxFaults
  /\ <<a, owner>> \notin damaged
  /\ IF owner = Live THEN a \in live
     ELSE \E b \in Backups : disk[b].files # Nil /\ disk[b].files[a] = owner
  /\ damaged' = damaged \cup {<<a, owner>>}
  /\ rotten' = rotten \cup Holders(a, owner)
  /\ faults' = faults + 1
  /\ UNCHANGED <<files, plan, cleaning, disk, stamp, maker, started, answered>>

-----------------------------------------------------------------------------

VaultInit ==
  /\ row = [a \in Artifacts |-> Nil] /\ live = {} /\ aside = {} /\ mp3 = FALSE
  /\ plan = Nil /\ cleaning = Free
  /\ damaged = {} /\ disk = [b \in Backups |-> NoBackup] /\ stamp = [b \in Backups |-> 0]
  /\ maker = [t \in Makers |-> NoMaker] /\ started = 0 /\ faults = 0
  /\ answered = 0 /\ rotten = {}

Store(a) == WriteFile(a) \/ WriteRow(a) \/ Supersede(a) \/ Lookup(a)

Cleanup == Preview \/ Execute \/ CleanupSkip \/ CleanupMove \/ CleanupCommit
           \/ CleanupFails \/ CleanupErase

Backup(t) == \/ BackupDatabase(t) \/ BackupFiles(t) \/ BackupCheck(t)
             \/ PublishDatabase(t) \/ PublishFiles(t) \/ PublishManifest(t)
             \/ BackupVerify(t) \/ Prune(t) \/ Answer(t) \/ BackupFails(t)

VaultNext ==
  \/ \E a \in Artifacts : Store(a)
  \/ MasterApproval
  \/ Cleanup
  \/ \E t \in Makers : Backup(t)
  \/ Crash
  \/ \E a \in Artifacts, owner \in Backups \cup {Live} : Damage(a, owner)

VaultSpec == VaultInit /\ [][VaultNext]_vaultVars

-----------------------------------------------------------------------------
(* What keeps the files.                                                 *)

\* A row that is not DELETED names a file that still exists, at its path or
\* beside it: cleanup erases a file only when the database no longer asks for it,
\* wherever the process dies, and no row is committed before its file has its name.
NamedFileExists ==
  \A a \in Artifacts : row[a] \notin {Nil, "DELETED"} => a \in live \cup aside

\* A backup that is listed verifies, unless it is beyond the retention (and may be
\* half removed) or a file was damaged after the backup had read it: a crash or a
\* failure leaves none half made, two requests do not disturb each other, cleanup
\* takes no file of it, and damage of the backup it links from is not inherited.
ListedVerifies == \A b \in Listed : Beyond(b) \/ b \in rotten \/ Verifies(b)

\* As many backups as were answered, up to the retention, are listed and within it:
\* pruning for one request never takes the last of another.
RetentionKept ==
  LET kept == {b \in Listed : ~Beyond(b) /\ (Verifies(b) \/ b \in rotten)}
      least == IF answered < Retention THEN answered ELSE Retention
  IN  Cardinality(kept) >= least
=============================================================================
