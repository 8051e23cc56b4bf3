------------------------------ MODULE BlobStore ------------------------------
(***************************************************************************)
(* The content store (api/internal/storage) and everything that removes    *)
(* from it: the sweeper and the purge of api/internal/asset, and the       *)
(* backup job (api/cmd/backup) that must not see bytes go.                 *)
(*                                                                         *)
(* Bytes live in a file named by their digest, their record in the table   *)
(* blobs.  The two cannot change in one transaction, so each transaction   *)
(* that touches a file is several steps here, with the locks it holds      *)
(* between them; a transaction that only touches the database is one step. *)
(* Digests are the blobs: a row's id is distinguished from that of an      *)
(* earlier row of the same digest by the uploads that hold it going stale. *)
(***************************************************************************)
EXTENDS Integers, FiniteSets

CONSTANTS
    Blobs,       \* digests
    Purgeable,   \* digests a moderator orders removed
    Uploads,     \* uploads, each with the reference it ends in
    Faults,      \* bound: times the server dies or a statement fails
    Backups      \* bound: times the backup job runs

Sweeper == "sweeper"
Purger == "purger"
Removers == {Sweeper, Purger}
NoBlob == "no blob"

ASSUME StoreAssumption ==
    /\ Purgeable \subseteq Blobs /\ NoBlob \notin Blobs
    /\ Faults \in Nat /\ Backups \in Nat

VARIABLES
    file,     \* digests whose canonical file exists
    row,      \* digests with a row in blobs
    mark,     \* blob_sweep_marks of each digest: "none", "fresh", "ripe"
    tomb,     \* blob_tombstones
    upload,   \* per upload: how far it is, and its digest
    phase,    \* the part of Sweep the sweeper is in
    todo,     \* digests that part has still to visit
    job,      \* per remover, the digest it is deleting and how far it is
    backup,   \* "idle", "locked" (exclusive lock held), "copying"
    dumped,   \* digests with a live reference in the dump being made
    copied,   \* digests whose file restic has read
    uncopied, \* digests whose place in the directory restic has not reached
    faults, backups

store  == <<file, row, mark, tomb>>
sweep  == <<phase, todo>>
saving == <<backup, dumped, copied, uncopied, backups>>
vars   == <<store, upload, sweep, job, saving, faults>>

(* An upload: no request; Put's transaction open with the file installed;  *)
(* stored, holding the id of its row; stale, holding the id of a row since *)
(* deleted; a pending or processing ingest operation; a revision or media  *)
(* row of an asset in use or recoverable; one of an asset past recovery.   *)
Steps == {"idle", "installing", "stored", "stale", "operation", "record", "expired"}

Idle == [step |-> "idle", blob |-> NoBlob]
At(step, b) == [step |-> step, blob |-> b]

Of(b, steps) == {u \in Uploads : upload[u].blob = b /\ upload[u].step \in steps}

(* liveBlobReferenceExpression *)
Referenced(b) == Of(b, {"operation", "record"}) # {}
(* The rows whose foreign key on blobs (id) names b. *)
Holders(b) == Of(b, {"operation", "record", "expired"})

(* pg_advisory_xact_lock on the digest: Put between its file and its       *)
(* commit, and a removal between its opening and its commit.               *)
DigestFree(b) ==
    /\ Of(b, {"installing"}) = {}
    /\ \A r \in Removers : job[r].blob = b => job[r].step \notin {"opened", "removed"}
(* select ... from blobs for update in deletePurgedBlob: an insert that    *)
(* names the row waits for it.                                             *)
RowFree(b) ==
    \A r \in Removers : job[r].blob = b =>
        \/ job[r].step \notin {"opened", "removed"}
        \/ r = Sweeper /\ phase = "delete"

(* A statement or a commit fails, for no reason the model knows. *)
Fault == faults < Faults /\ faults' = faults + 1

Init ==
    /\ file = {} /\ row = {} /\ tomb = {}
    /\ mark = [b \in Blobs |-> "none"]
    /\ upload = [u \in Uploads |-> Idle]
    /\ phase = "idle" /\ todo = {}
    /\ job = [r \in Removers |-> Idle]
    /\ backup = "idle" /\ dumped = {} /\ copied = {} /\ uncopied = {}
    /\ faults = 0 /\ backups = 0

(***************************************************************************)
(* Uploads.                                                                *)
(***************************************************************************)
Moves(u, step) == upload' = [upload EXCEPT ![u] = At(step, upload[u].blob)]

(* Mutant: Put without the tombstone check. *)
PutInstallsTombstoned(u, b) ==
    /\ upload[u] = Idle
    /\ \A v \in Uploads : upload[v].step # "installing"
    /\ DigestFree(b)
    /\ file' = file \cup {b}
    /\ upload' = [upload EXCEPT ![u] = At("installing", b)]
    /\ UNCHANGED <<row, mark, tomb, sweep, job, saving, faults>>

(* Put, to the installed file: writes serialises it within the server, the *)
(* digest is locked, and a tombstoned digest is refused before its file.   *)
PutInstalls(u, b) ==
    /\ upload[u] = Idle
    /\ \A v \in Uploads : upload[v].step # "installing"
    /\ DigestFree(b)
    /\ b \notin tomb
    /\ file' = file \cup {b}
    /\ upload' = [upload EXCEPT ![u] = At("installing", b)]
    /\ UNCHANGED <<row, mark, tomb, sweep, job, saving, faults>>

(* Mutant: Put leaves the sweep mark of bytes it found already there. *)
PutCommitsMarked(u) ==
    /\ upload[u].step = "installing"
    /\ row' = row \cup {upload[u].blob}
    /\ Moves(u, "stored")
    /\ UNCHANGED <<file, mark, tomb, sweep, job, saving, faults>>

(* UpsertBlob, the mark cleared, commit. *)
PutCommits(u) ==
    LET b == upload[u].blob IN
    /\ upload[u].step = "installing"
    /\ row' = row \cup {b}
    /\ mark' = [mark EXCEPT ![b] = "none"]
    /\ Moves(u, "stored")
    /\ UNCHANGED <<file, tomb, sweep, job, saving, faults>>

(* A statement of the transaction fails: the file stays without its row.   *)
PutFails(u) ==
    /\ upload[u].step = "installing" /\ Fault
    /\ upload' = [upload EXCEPT ![u] = Idle]
    /\ UNCHANGED <<store, sweep, job, saving>>

(* The reference an upload is for: the ingest operation of AcceptIngest    *)
(* and AcceptRevision, or the asset_media row of AddMedia and of a file's  *)
(* extracted images.  None of them locks the digest or asks for a          *)
(* tombstone; the foreign key wants the row.                               *)
InsertReference(u) ==
    /\ upload[u].step = "stored"
    /\ RowFree(upload[u].blob)
    /\ \E step \in {"operation", "record"} : Moves(u, step)
    /\ UNCHANGED <<store, sweep, job, saving, faults>>

(* No reference after all: the storage cap, an asset gone or frozen, an    *)
(* image that will not render, or the foreign key of a stale id.           *)
UploadRefused(u) ==
    /\ upload[u].step \in {"stored", "stale"}
    /\ upload' = [upload EXCEPT ![u] = Idle]
    /\ UNCHANGED <<store, sweep, job, saving, faults>>

(* finalizeIngest hands the operation's reference to a revision, under the *)
(* digest lock.                                                            *)
FinalizeIngest(u) ==
    /\ upload[u].step = "operation"
    /\ DigestFree(upload[u].blob) /\ RowFree(upload[u].blob)
    /\ Moves(u, "record")
    /\ UNCHANGED <<store, sweep, job, saving, faults>>

(* failIngest.  A revision or a media row gives its reference up only past *)
(* recovery or to a purge: a newer file leaves the rows of an older one.   *)
DropReference(u) ==
    /\ upload[u].step = "operation"
    /\ upload' = [upload EXCEPT ![u] = Idle]
    /\ UNCHANGED <<store, sweep, job, saving, faults>>

(* The asset was deleted and its recovery window has passed. *)
RecoveryEnds(u) ==
    /\ upload[u].step = "record"
    /\ Moves(u, "expired")
    /\ UNCHANGED <<store, sweep, job, saving, faults>>

(***************************************************************************)
(* Sweep, its parts in order.                                              *)
(***************************************************************************)
(* RecordOrphans lists the recorded digests, then walks the directory.     *)
SweepStarts ==
    /\ phase = "idle" /\ job[Sweeper] = Idle
    /\ phase' = "orphans" /\ todo' = Blobs \ row
    /\ UNCHANGED <<store, upload, job, saving, faults>>

(* One file of the walk: passed over when it is not there, deleted when    *)
(* tombstoned (once no backup runs), recorded otherwise.                   *)
VisitOrphan(b) ==
    /\ phase = "orphans" /\ b \in todo
    /\ todo' = todo \ {b}
    /\ b \in file => DigestFree(b)
    /\ IF b \in file /\ b \in tomb
       THEN backup = "idle" /\ file' = file \ {b} /\ row' = row
       ELSE file' = file /\ row' = (IF b \in file THEN row \cup {b} ELSE row)
    /\ UNCHANGED <<mark, tomb, upload, phase, job, saving, faults>>

(* Sweep returns the error and the ticker starts it again: a statement     *)
(* fails, or the walk waits for a backup past the statement timeout.       *)
SweepFails ==
    /\ phase # "idle" /\ job[Sweeper] = Idle
    /\ \/ Fault
       \/ /\ phase = "orphans" /\ backup # "idle" /\ todo \cap file \cap tomb # {}
          /\ faults' = faults
    /\ phase' = "idle" /\ todo' = {}
    /\ UNCHANGED <<store, upload, job, saving>>

(* Mutant: the sweep does not resume purges. *)
ListPurgesNone ==
    /\ phase = "orphans" /\ todo = {}
    /\ phase' = "purges" /\ todo' = {}
    /\ UNCHANGED <<store, upload, job, saving, faults>>

(* resumePurges lists the tombstoned digests that still have a row. *)
ListPurges ==
    /\ phase = "orphans" /\ todo = {}
    /\ phase' = "purges" /\ todo' = row \cap tomb
    /\ UNCHANGED <<store, upload, job, saving, faults>>

ResumePurge(b) ==
    /\ phase = "purges" /\ b \in todo /\ job[Sweeper] = Idle
    /\ todo' = todo \ {b}
    /\ job' = [job EXCEPT ![Sweeper] = At("prepared", b)]
    /\ UNCHANGED <<store, upload, phase, saving, faults>>

(* Mark what nothing refers to, then list the marks older than sweepDelay. *)
MarkUnreferenced ==
    /\ phase = "purges" /\ todo = {} /\ job[Sweeper] = Idle
    /\ mark' = [b \in Blobs |->
                  IF b \in row /\ mark[b] = "none" /\ ~Referenced(b)
                  THEN "fresh" ELSE mark[b]]
    /\ phase' = "delete" /\ todo' = {b \in row : mark[b] = "ripe"}
    /\ UNCHANGED <<file, row, tomb, upload, job, saving, faults>>

(* prepareMarkedBlob: a mark taken away or a reference come back spares    *)
(* the blob; otherwise the expired references are committed as broken      *)
(* before any byte goes.                                                   *)
PrepareMarked(b) ==
    /\ phase = "delete" /\ b \in todo /\ job[Sweeper] = Idle
    /\ todo' = todo \ {b}
    /\ b \in row => DigestFree(b)
    /\ \/ /\ b \notin row \/ mark[b] # "ripe"
          /\ UNCHANGED <<mark, upload, job>>
       \/ /\ b \in row /\ mark[b] = "ripe" /\ Referenced(b)
          /\ mark' = [mark EXCEPT ![b] = "none"]
          /\ UNCHANGED <<upload, job>>
       \/ /\ b \in row /\ mark[b] = "ripe" /\ ~Referenced(b)
          /\ upload' = [u \in Uploads |->
                          IF u \in Of(b, {"expired"}) THEN Idle ELSE upload[u]]
          /\ job' = [job EXCEPT ![Sweeper] = At("prepared", b)]
          /\ UNCHANGED mark
    /\ UNCHANGED <<file, row, tomb, phase, saving, faults>>

(* deleteMarkedBlob's own transaction, which checks everything again. *)
OpenMarked ==
    LET b == job[Sweeper].blob IN
    /\ phase = "delete" /\ job[Sweeper].step = "prepared"
    /\ b \in row => DigestFree(b)
    /\ \/ /\ b \in row /\ mark[b] = "ripe" /\ ~Referenced(b)
          /\ job' = [job EXCEPT ![Sweeper] = At("opened", b)]
          /\ UNCHANGED mark
       \/ /\ b \in row /\ mark[b] = "ripe" /\ Referenced(b)
          /\ mark' = [mark EXCEPT ![b] = "none"]
          /\ job' = [job EXCEPT ![Sweeper] = Idle]
       \/ /\ b \notin row \/ mark[b] # "ripe"
          /\ job' = [job EXCEPT ![Sweeper] = Idle]
          /\ UNCHANGED mark
    /\ UNCHANGED <<file, row, tomb, upload, sweep, saving, faults>>

SweepEnds ==
    /\ phase = "delete" /\ todo = {} /\ job[Sweeper] = Idle
    /\ phase' = "idle"
    /\ UNCHANGED <<store, upload, todo, job, saving, faults>>

(***************************************************************************)
(* Purge.                                                                  *)
(***************************************************************************)
(* preparePurge: the tombstone and the broken references commit together.  *)
PreparePurge(b) ==
    /\ job[Purger] = Idle /\ b \in Purgeable
    /\ b \in row /\ DigestFree(b)
    /\ tomb' = tomb \cup {b}
    /\ upload' = [u \in Uploads |-> IF u \in Holders(b) THEN Idle ELSE upload[u]]
    /\ job' = [job EXCEPT ![Purger] = At("prepared", b)]
    /\ UNCHANGED <<file, row, mark, sweep, saving, faults>>

(* deletePurgedBlob, called by Purge and by resumePurges: under the digest *)
(* lock and a lock on the row, if there still is one.                      *)
OpenPurged(r) ==
    LET b == job[r].blob IN
    /\ job[r].step = "prepared" /\ (r = Sweeper => phase = "purges")
    /\ DigestFree(b)
    /\ job' = [job EXCEPT ![r] = IF b \in row THEN At("opened", b) ELSE Idle]
    /\ UNCHANGED <<store, upload, sweep, saving, faults>>

(* Mutant: bytes are deleted without the lock against the backup. *)
RemoveBytesUnlocked(r) ==
    /\ job[r].step = "opened"
    /\ file' = file \ {job[r].blob}
    /\ job' = [job EXCEPT ![r] = At("removed", job[r].blob)]
    /\ UNCHANGED <<row, mark, tomb, upload, sweep, saving, faults>>

(***************************************************************************)
(* Either removal, from the bytes on.                                      *)
(***************************************************************************)
(* LockBlobDeletionAgainstBackup, then Delete: the file goes while the     *)
(* transaction is still open.                                              *)
RemoveBytes(r) ==
    /\ job[r].step = "opened"
    /\ backup = "idle"
    /\ file' = file \ {job[r].blob}
    /\ job' = [job EXCEPT ![r] = At("removed", job[r].blob)]
    /\ UNCHANGED <<row, mark, tomb, upload, sweep, saving, faults>>

(* delete from blobs, commit.  The mark goes with the row; an upload that  *)
(* holds the row's id now holds nothing.                                   *)
DeleteRow(r) ==
    LET b == job[r].blob IN
    /\ job[r].step = "removed" /\ Holders(b) = {}
    /\ row' = row \ {b}
    /\ mark' = [mark EXCEPT ![b] = "none"]
    /\ upload' = [u \in Uploads |->
                    IF u \in Of(b, {"stored"}) THEN At("stale", b) ELSE upload[u]]
    /\ job' = [job EXCEPT ![r] = Idle]
    /\ UNCHANGED <<file, tomb, sweep, saving, faults>>

(* The removal is rolled back, but for its file: the backup holds the lock *)
(* past the statement timeout, the foreign key refuses the row's deletion, *)
(* or a statement fails.  Purge returns the error; so does Sweep, the rest *)
(* of it undone.                                                           *)
RemovalFails(r) ==
    /\ job[r].step # "idle"
    /\ \/ job[r].step = "opened" /\ backup # "idle" /\ faults' = faults
       \/ job[r].step = "removed" /\ Holders(job[r].blob) # {} /\ faults' = faults
       \/ Fault
    /\ job' = [job EXCEPT ![r] = Idle]
    /\ IF r = Sweeper THEN phase' = "idle" /\ todo' = {} ELSE UNCHANGED sweep
    /\ UNCHANGED <<store, upload, saving>>

(***************************************************************************)
(* The backup job, time, and the server's death.                           *)
(***************************************************************************)
(* pg_advisory_lock, exclusive: not while a removal holds it shared. *)
BackupLocks ==
    /\ backup = "idle" /\ backups < Backups
    /\ \A r \in Removers : job[r].step # "removed"
    /\ backup' = "locked" /\ backups' = backups + 1
    /\ UNCHANGED <<store, upload, sweep, job, dumped, copied, uncopied, faults>>

(* pg_dump, one snapshot of the database. *)
BackupDumps ==
    /\ backup = "locked"
    /\ backup' = "copying"
    /\ dumped' = {b \in Blobs : Referenced(b)}
    /\ copied' = {} /\ uncopied' = Blobs
    /\ UNCHANGED <<store, upload, sweep, job, backups, faults>>

(* restic reads the blob directory file by file. *)
BackupCopies(b) ==
    /\ backup = "copying" /\ b \in uncopied
    /\ uncopied' = uncopied \ {b}
    /\ copied' = (IF b \in file THEN copied \cup {b} ELSE copied)
    /\ UNCHANGED <<store, upload, sweep, job, backup, dumped, backups, faults>>

(* All of it stored and the lock released (what it holds is of no further  *)
(* interest); or a command failed, and there is no backup.                 *)
BackupOver ==
    /\ backup' = "idle" /\ dumped' = {} /\ copied' = {} /\ uncopied' = {}
    /\ UNCHANGED <<store, upload, sweep, job, backups, faults>>
BackupEnds == backup = "copying" /\ uncopied = {} /\ BackupOver
BackupFails == backup # "idle" /\ BackupOver

(* sweepDelay has passed since the mark.  It is a day: longer than any     *)
(* upload takes from Put to its reference.                                 *)
MarkRipens(b) ==
    /\ mark[b] = "fresh" /\ Of(b, {"stored"}) = {}
    /\ mark' = [mark EXCEPT ![b] = "ripe"]
    /\ UNCHANGED <<file, row, tomb, upload, sweep, job, saving, faults>>

(* The server dies: its requests, its sweeper and its purge with it, and   *)
(* every open transaction rolls back.                                      *)
Crash ==
    /\ Fault
    /\ upload' = [u \in Uploads |->
                    IF upload[u].step \in {"installing", "stored", "stale"}
                    THEN Idle ELSE upload[u]]
    /\ job' = [r \in Removers |-> Idle]
    /\ phase' = "idle" /\ todo' = {}
    /\ UNCHANGED <<store, saving>>

Sweeps ==
    \/ SweepStarts \/ ListPurges \/ MarkUnreferenced \/ OpenMarked \/ SweepEnds
    \/ \E b \in Blobs : VisitOrphan(b) \/ ResumePurge(b) \/ PrepareMarked(b)

Removal(r) == OpenPurged(r) \/ RemoveBytes(r) \/ DeleteRow(r)

Next ==
    \/ \E u \in Uploads :
         \/ \E b \in Blobs : PutInstalls(u, b)
         \/ PutCommits(u) \/ PutFails(u) \/ InsertReference(u) \/ UploadRefused(u)
         \/ FinalizeIngest(u) \/ DropReference(u) \/ RecoveryEnds(u)
    \/ Sweeps \/ SweepFails
    \/ \E b \in Blobs : PreparePurge(b) \/ MarkRipens(b) \/ BackupCopies(b)
    \/ \E r \in Removers : Removal(r) \/ RemovalFails(r)
    \/ BackupLocks \/ BackupDumps \/ BackupEnds \/ BackupFails
    \/ Crash

Spec == Init /\ [][Next]_vars

(* The sweeper goes on: its ticker fires and its statements answer, and    *)
(* where it waits for a digest other uploads keep taking, the database     *)
(* grants its locks in the order they were asked for.  A removal answers   *)
(* or fails, an upload under way ends, the backup job ends, time passes.   *)
Fairness ==
    /\ SF_vars(Sweeps \/ Removal(Sweeper))
    /\ WF_vars((SweepFails \/ RemovalFails(Sweeper)) /\ faults' = faults)
    /\ WF_vars(Removal(Purger) \/ (RemovalFails(Purger) /\ faults' = faults))
    /\ \A u \in Uploads : WF_vars(PutCommits(u) \/ UploadRefused(u))
    /\ WF_vars(BackupDumps \/ BackupEnds \/ \E b \in Blobs : BackupCopies(b))
    /\ \A b \in Blobs : WF_vars(MarkRipens(b))

FairSpec == Spec /\ Fairness

-----------------------------------------------------------------------------
(* Every variable has its type, and an upload names a digest exactly when  *)
(* it is under way. *)
TypeOK ==
    /\ file \subseteq Blobs /\ row \subseteq Blobs /\ tomb \subseteq Purgeable
    /\ mark \in [Blobs -> {"none", "fresh", "ripe"}]
    /\ upload \in [Uploads -> {Idle} \cup {At(s, b) : s \in Steps \ {"idle"}, b \in Blobs}]
    /\ phase \in {"idle", "orphans", "purges", "delete"} /\ todo \subseteq Blobs
    /\ job \in [Removers -> {Idle} \cup
                  {At(s, b) : s \in {"prepared", "opened", "removed"}, b \in Blobs}]
    /\ backup \in {"idle", "locked", "copying"}
    /\ dumped \subseteq Blobs /\ copied \subseteq Blobs /\ uncopied \subseteq Blobs
    /\ faults \in 0..Faults /\ backups \in 0..Backups

(* What an upload was told is stored, and what an operation, a revision or *)
(* a media row refers to, keeps its bytes and its record until a purge     *)
(* orders otherwise, whatever the sweeper, a crash or another upload of    *)
(* the same bytes does meanwhile.                                          *)
BytesKept ==
    \A b \in Blobs \ tomb :
        Of(b, {"stored", "operation", "record"}) # {} => b \in file \cap row

(* The store stays sound: whatever the order of Put, sweep, purge, crash   *)
(* and failed statement, every reference has its bytes and its record.     *)
StoreSound == TypeOK /\ BytesKept

(* Every digest the database dump refers to is in the copied directory     *)
(* once restic has passed it: deletion is locked out between the two.      *)
(* Purged content apart.                                                   *)
BackupComplete == (dumped \ tomb) \ uncopied \subseteq copied

(* Bytes leave only when nothing refers to them or a purge ordered it: the *)
(* sweep commits expired references as broken before it deletes.           *)
RemovedOnlyWhenUnheld ==
    [][\A b \in file \ file' : b \in tomb \/ Holders(b) = {}]_vars

(* Content once purged stays gone: neither an upload already past its      *)
(* checks nor the recovery of orphans brings its file or its row back.     *)
PurgedStaysGone ==
    [][\A b \in tomb : (b \in file' => b \in file) /\ (b \in row' => b \in row)]_vars

(* A file moves only as it should: removeBytes deletes what is unheld or   *)
(* purged, and Put and RecordOrphans install nothing a purge has ordered   *)
(* away, although each decided before it touched the file.                 *)
FilesMoveAsOrdered == RemovedOnlyWhenUnheld /\ PurgedStaysGone

(* Bytes nobody refers to are collected: orphans of a failed upload,       *)
(* leftovers of an interrupted sweep, abandoned uploads.  Only a purge     *)
(* that a late reference keeps from ending stops the sweeper before that.  *)
UnusedBytesGo ==
    \A b \in Blobs : (b \in file /\ Of(b, Steps) = {})
        ~> (b \notin file \/ Of(b, Steps) # {} \/ \E c \in tomb : Holders(c) # {})

(* A purge, interrupted or not, ends with the bytes gone.  resumePurges    *)
(* stops at the first purge that fails: only another purge whose row a     *)
(* late reference keeps for good can stand before this one for ever.       *)
PurgedBytesGo ==
    \A b \in Purgeable :
        \/ []<>(b \notin tomb \/ b \notin file)
        \/ <>[](\E c \in tomb \ {b} : Holders(c) # {})

(* What should go goes: Sweep, run again and again, collects every file    *)
(* nobody needs and finishes every purge that was interrupted.             *)
BytesGo == UnusedBytesGo /\ PurgedBytesGo
=============================================================================
