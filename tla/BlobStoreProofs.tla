-------------------------- MODULE BlobStoreProofs --------------------------
(* Proofs about the content store, for any number of digests, uploads,     *)
(* faults and backups.                                                     *)
EXTENDS BlobStore, TLAPS

Removing == {"opened", "removed"}

(* A Put between its file and its commit has its file, and is not of a     *)
(* purged digest: the digest lock keeps both so.                           *)
InstallingHasFile ==
    \A u \in Uploads : upload[u].step = "installing" =>
        upload[u].blob \in file /\ upload[u].blob \notin tomb

(* The digest lock: a removal that is open runs beside no Put and no other *)
(* removal of its digest.                                                  *)
LockExcludes ==
    \A r \in Removers : job[r].step \in Removing =>
        /\ Of(job[r].blob, {"installing"}) = {}
        /\ \A q \in Removers \ {r} : job[q].step \in Removing => job[q].blob # job[r].blob

(* The purge, and the part of the sweep that resumes purges, remove only   *)
(* tombstoned digests.                                                     *)
PurgesAreOrdered ==
    /\ job[Purger].step # "idle" => job[Purger].blob \in tomb
    /\ job[Sweeper].step # "idle" => phase \in {"purges", "delete"}
    /\ job[Sweeper].step # "idle" /\ phase = "purges" => job[Sweeper].blob \in tomb
    /\ phase = "purges" => todo \subseteq tomb

(* A mark that is old enough outlived every upload that held the bytes.    *)
RipeIsUnclaimed == \A b \in Blobs : mark[b] = "ripe" => Of(b, {"stored"}) = {}

(* What the sweep has prepared stays without a reference for as long as    *)
(* its mark stands, and the mark stands once the deletion is open.         *)
SweptIsUnheld ==
    phase = "delete" /\ job[Sweeper].step # "idle" =>
        LET b == job[Sweeper].blob IN
        /\ mark[b] # "fresh"
        /\ job[Sweeper].step \in Removing => mark[b] = "ripe"
        /\ mark[b] = "ripe" => Holders(b) = {}

(* While restic reads the directory, what it has still to reach is there.  *)
DumpedIsThere == backup = "copying" => (dumped \ tomb) \cap uncopied \subseteq file

Claims == InstallingHasFile /\ LockExcludes /\ PurgesAreOrdered
          /\ RipeIsUnclaimed /\ SweptIsUnheld

StoreInv == TypeOK /\ BytesKept /\ Claims /\ DumpedIsThere /\ BackupComplete

-----------------------------------------------------------------------------
(* The empty store satisfies it. *)
LEMMA InitInv == Init => StoreInv
BY StoreAssumption
   DEF Init, StoreInv, TypeOK, BytesKept, Claims, DumpedIsThere, BackupComplete,
       InstallingHasFile, LockExcludes, PurgesAreOrdered, RipeIsUnclaimed, SweptIsUnheld,
       Of, Holders, Idle, At, Removing, Removers, Sweeper, Purger, Steps

(* Every step keeps the types. *)
LEMMA TypeStep == TypeOK /\ [Next]_vars => TypeOK'
<1> SUFFICES ASSUME TypeOK, [Next]_vars PROVE TypeOK'
  OBVIOUS
<1> USE StoreAssumption DEF TypeOK, store, sweep, saving
<1>1. ASSUME NEW u \in Uploads, NEW b \in Blobs, PutInstalls(u, b) PROVE TypeOK'
  BY <1>1 DEF PutInstalls, Steps, Idle, At, Removers
<1>2. ASSUME NEW u \in Uploads, PutCommits(u) PROVE TypeOK'
  BY <1>2 DEF PutCommits, Moves, Steps, Idle, At, Removers
<1>3. ASSUME NEW u \in Uploads, PutFails(u) PROVE TypeOK'
  BY <1>3 DEF PutFails, Fault, Steps, Idle, At, Removers
<1>4. ASSUME NEW u \in Uploads, InsertReference(u) PROVE TypeOK'
  BY <1>4 DEF InsertReference, Moves, Steps, Idle, At, Removers
<1>5. ASSUME NEW u \in Uploads, UploadRefused(u) PROVE TypeOK'
  BY <1>5 DEF UploadRefused, Steps, Idle, At, Removers
<1>6. ASSUME NEW u \in Uploads, FinalizeIngest(u) PROVE TypeOK'
  BY <1>6 DEF FinalizeIngest, Moves, Steps, Idle, At, Removers
<1>7. ASSUME NEW u \in Uploads, DropReference(u) PROVE TypeOK'
  BY <1>7 DEF DropReference, Steps, Idle, At, Removers
<1>8. ASSUME NEW u \in Uploads, RecoveryEnds(u) PROVE TypeOK'
  BY <1>8 DEF RecoveryEnds, Moves, Steps, Idle, At, Removers
<1>9. ASSUME SweepStarts PROVE TypeOK'
  BY <1>9 DEF SweepStarts, Steps, Idle, At, Removers
<1>10. ASSUME NEW b \in Blobs, VisitOrphan(b) PROVE TypeOK'
  BY <1>10 DEF VisitOrphan, Steps, Idle, At, Removers
<1>11. ASSUME SweepFails PROVE TypeOK'
  BY <1>11 DEF SweepFails, Fault, Steps, Idle, At, Removers
<1>12. ASSUME ListPurges PROVE TypeOK'
  BY <1>12 DEF ListPurges, Steps, Idle, At, Removers
<1>13. ASSUME NEW b \in Blobs, ResumePurge(b) PROVE TypeOK'
  BY <1>13 DEF ResumePurge, Steps, Idle, At, Removers
<1>14. ASSUME MarkUnreferenced PROVE TypeOK'
  BY <1>14 DEF MarkUnreferenced, Steps, Idle, At, Removers
<1>15. ASSUME NEW b \in Blobs, PrepareMarked(b) PROVE TypeOK'
  BY <1>15 DEF PrepareMarked, Steps, Idle, At, Removers
<1>16. ASSUME OpenMarked PROVE TypeOK'
  BY <1>16 DEF OpenMarked, Steps, Idle, At, Removers
<1>17. ASSUME SweepEnds PROVE TypeOK'
  BY <1>17 DEF SweepEnds, Steps, Idle, At, Removers
<1>18. ASSUME NEW b \in Blobs, PreparePurge(b) PROVE TypeOK'
  BY <1>18 DEF PreparePurge, Steps, Idle, At, Removers
<1>19. ASSUME NEW r \in Removers, OpenPurged(r) PROVE TypeOK'
  BY <1>19 DEF OpenPurged, Steps, Idle, At, Removers
<1>20. ASSUME NEW r \in Removers, RemoveBytes(r) PROVE TypeOK'
  BY <1>20 DEF RemoveBytes, Steps, Idle, At, Removers
<1>21. ASSUME NEW r \in Removers, DeleteRow(r) PROVE TypeOK'
  BY <1>21 DEF DeleteRow, Steps, Idle, At, Removers
<1>22. ASSUME NEW r \in Removers, RemovalFails(r) PROVE TypeOK'
  BY <1>22 DEF RemovalFails, Fault, Steps, Idle, At, Removers
<1>23. ASSUME BackupLocks PROVE TypeOK'
  BY <1>23 DEF BackupLocks, Steps, Idle, At, Removers
<1>24. ASSUME BackupDumps PROVE TypeOK'
  BY <1>24 DEF BackupDumps, Steps, Idle, At, Removers
<1>25. ASSUME NEW b \in Blobs, BackupCopies(b) PROVE TypeOK'
  BY <1>25 DEF BackupCopies, Steps, Idle, At, Removers
<1>26. ASSUME BackupEnds PROVE TypeOK'
  BY <1>26 DEF BackupEnds, BackupOver, Steps, Idle, At, Removers
<1>27. ASSUME BackupFails PROVE TypeOK'
  BY <1>27 DEF BackupFails, BackupOver, Steps, Idle, At, Removers
<1>28. ASSUME NEW b \in Blobs, MarkRipens(b) PROVE TypeOK'
  BY <1>28 DEF MarkRipens, Steps, Idle, At, Removers
<1>29. ASSUME Crash PROVE TypeOK'
  BY <1>29 DEF Crash, Fault, Steps, Idle, At, Removers
<1>30. CASE UNCHANGED vars
  BY <1>30 DEF vars
<1> QED
  BY <1>1, <1>2, <1>3, <1>4, <1>5, <1>6, <1>7, <1>8, <1>9, <1>10, <1>11, <1>12, <1>13, <1>14, <1>15, <1>16, <1>17, <1>18, <1>19, <1>20, <1>21, <1>22, <1>23, <1>24, <1>25, <1>26, <1>27, <1>28, <1>29, <1>30 DEF Next, Sweeps, Removal

(* Every step keeps it.  The conjuncts an action can disturb have a step   *)
(* of their own; the rest follow from what the action leaves unchanged.    *)

(* Every step keeps it.  The conjuncts an action can disturb have a step   *)
(* of their own; the rest follow from what the action leaves unchanged.    *)

(* Every step keeps it.  The conjuncts an action can disturb have a step   *)
(* of their own; the rest follow from what the action leaves unchanged.    *)
LEMMA InvStep == StoreInv /\ TypeOK' /\ [Next]_vars => StoreInv'
<1> SUFFICES ASSUME StoreInv, TypeOK', [Next]_vars PROVE StoreInv'
  OBVIOUS
<1> USE StoreAssumption DEF StoreInv, Claims, TypeOK, store, sweep, saving,
      Removers, Sweeper, Purger, Removing, Idle, At
<1>1. ASSUME NEW u \in Uploads, NEW b \in Blobs, PutInstalls(u, b) PROVE StoreInv'
  <2>1. BytesKept'
    BY <1>1 DEF PutInstalls, BytesKept, Of
  <2>2. InstallingHasFile'
    BY <1>1 DEF PutInstalls, InstallingHasFile, Of
  <2>3. LockExcludes'
    BY <1>1 DEF PutInstalls, LockExcludes, Of, DigestFree
  <2>4. RipeIsUnclaimed'
    BY <1>1 DEF PutInstalls, RipeIsUnclaimed, Of
  <2>5. SweptIsUnheld'
    BY <1>1 DEF PutInstalls, SweptIsUnheld, Holders, Of
  <2>6. PurgesAreOrdered' /\ DumpedIsThere' /\ BackupComplete'
    BY <1>1 DEF PutInstalls, PurgesAreOrdered, DumpedIsThere, BackupComplete
  <2> HIDE DEF TypeOK
  <2> QED
    BY <2>1, <2>2, <2>3, <2>4, <2>5, <2>6
<1>2. ASSUME NEW u \in Uploads, PutCommits(u) PROVE StoreInv'
  <2>1. BytesKept'
    BY <1>2 DEF PutCommits, Moves, BytesKept, Of, InstallingHasFile
  <2>2. InstallingHasFile'
    BY <1>2 DEF PutCommits, Moves, InstallingHasFile, Of
  <2>3. LockExcludes'
    BY <1>2 DEF PutCommits, Moves, LockExcludes, Of, DigestFree
  <2>4. RipeIsUnclaimed'
    BY <1>2 DEF PutCommits, Moves, RipeIsUnclaimed, Of
  <2>5. SweptIsUnheld'
    BY <1>2 DEF PutCommits, Moves, SweptIsUnheld, Holders, Of, LockExcludes
  <2>6. PurgesAreOrdered' /\ DumpedIsThere' /\ BackupComplete'
    BY <1>2 DEF PutCommits, Moves, PurgesAreOrdered, DumpedIsThere, BackupComplete
  <2> HIDE DEF TypeOK
  <2> QED
    BY <2>1, <2>2, <2>3, <2>4, <2>5, <2>6
<1>3. ASSUME NEW u \in Uploads, PutFails(u) PROVE StoreInv'
  BY <1>3
  DEF PutFails, Fault, BytesKept, InstallingHasFile, LockExcludes, PurgesAreOrdered,
      RipeIsUnclaimed, SweptIsUnheld, DumpedIsThere, BackupComplete, Of, Holders
<1>4. ASSUME NEW u \in Uploads, InsertReference(u) PROVE StoreInv'
  <2>1. BytesKept'
    BY <1>4 DEF InsertReference, Moves, BytesKept, Of
  <2>2. InstallingHasFile'
    BY <1>4 DEF InsertReference, Moves, InstallingHasFile, Of
  <2>3. LockExcludes'
    BY <1>4 DEF InsertReference, Moves, LockExcludes, Of, DigestFree
  <2>4. RipeIsUnclaimed'
    BY <1>4 DEF InsertReference, Moves, RipeIsUnclaimed, Of
  <2>5. SweptIsUnheld'
    BY <1>4 DEF InsertReference, Moves, SweptIsUnheld, Holders, Of, RipeIsUnclaimed
  <2>6. PurgesAreOrdered' /\ DumpedIsThere' /\ BackupComplete'
    BY <1>4 DEF InsertReference, Moves, PurgesAreOrdered, DumpedIsThere, BackupComplete
  <2> HIDE DEF TypeOK
  <2> QED
    BY <2>1, <2>2, <2>3, <2>4, <2>5, <2>6
<1>5. ASSUME NEW u \in Uploads, UploadRefused(u) PROVE StoreInv'
  BY <1>5
  DEF UploadRefused, BytesKept, InstallingHasFile, LockExcludes, PurgesAreOrdered,
      RipeIsUnclaimed, SweptIsUnheld, DumpedIsThere, BackupComplete, Of, Holders
<1>6. ASSUME NEW u \in Uploads, FinalizeIngest(u) PROVE StoreInv'
  <2>1. BytesKept'
    BY <1>6 DEF FinalizeIngest, Moves, BytesKept, Of
  <2>2. InstallingHasFile'
    BY <1>6 DEF FinalizeIngest, Moves, InstallingHasFile, Of
  <2>3. LockExcludes'
    BY <1>6 DEF FinalizeIngest, Moves, LockExcludes, Of, DigestFree
  <2>4. RipeIsUnclaimed'
    BY <1>6 DEF FinalizeIngest, Moves, RipeIsUnclaimed, Of
  <2>5. SweptIsUnheld'
    BY <1>6 DEF FinalizeIngest, Moves, SweptIsUnheld, Holders, Of
  <2>6. PurgesAreOrdered' /\ DumpedIsThere' /\ BackupComplete'
    BY <1>6 DEF FinalizeIngest, Moves, PurgesAreOrdered, DumpedIsThere, BackupComplete
  <2> HIDE DEF TypeOK
  <2> QED
    BY <2>1, <2>2, <2>3, <2>4, <2>5, <2>6
<1>7. ASSUME NEW u \in Uploads, DropReference(u) PROVE StoreInv'
  BY <1>7
  DEF DropReference, BytesKept, InstallingHasFile, LockExcludes, PurgesAreOrdered,
      RipeIsUnclaimed, SweptIsUnheld, DumpedIsThere, BackupComplete, Of, Holders
<1>8. ASSUME NEW u \in Uploads, RecoveryEnds(u) PROVE StoreInv'
  <2>1. BytesKept'
    BY <1>8 DEF RecoveryEnds, Moves, BytesKept, Of
  <2>2. InstallingHasFile'
    BY <1>8 DEF RecoveryEnds, Moves, InstallingHasFile, Of
  <2>3. LockExcludes'
    BY <1>8 DEF RecoveryEnds, Moves, LockExcludes, Of, DigestFree
  <2>4. RipeIsUnclaimed'
    BY <1>8 DEF RecoveryEnds, Moves, RipeIsUnclaimed, Of
  <2>5. SweptIsUnheld'
    BY <1>8 DEF RecoveryEnds, Moves, SweptIsUnheld, Holders, Of
  <2>6. PurgesAreOrdered' /\ DumpedIsThere' /\ BackupComplete'
    BY <1>8 DEF RecoveryEnds, Moves, PurgesAreOrdered, DumpedIsThere, BackupComplete
  <2> HIDE DEF TypeOK
  <2> QED
    BY <2>1, <2>2, <2>3, <2>4, <2>5, <2>6
<1>9. ASSUME SweepStarts PROVE StoreInv'
  BY <1>9
  DEF SweepStarts, BytesKept, InstallingHasFile, LockExcludes, PurgesAreOrdered,
      RipeIsUnclaimed, SweptIsUnheld, DumpedIsThere, BackupComplete, Of, Holders
<1>10. ASSUME NEW b \in Blobs, VisitOrphan(b) PROVE StoreInv'
  BY <1>10
  DEF VisitOrphan, BytesKept, InstallingHasFile, LockExcludes, PurgesAreOrdered,
      RipeIsUnclaimed, SweptIsUnheld, DumpedIsThere, BackupComplete, Of, Holders, DigestFree
<1>11. ASSUME SweepFails PROVE StoreInv'
  BY <1>11
  DEF SweepFails, Fault, BytesKept, InstallingHasFile, LockExcludes, PurgesAreOrdered,
      RipeIsUnclaimed, SweptIsUnheld, DumpedIsThere, BackupComplete, Of, Holders
<1>12. ASSUME ListPurges PROVE StoreInv'
  BY <1>12
  DEF ListPurges, BytesKept, InstallingHasFile, LockExcludes, PurgesAreOrdered,
      RipeIsUnclaimed, SweptIsUnheld, DumpedIsThere, BackupComplete, Of, Holders
<1>13. ASSUME NEW b \in Blobs, ResumePurge(b) PROVE StoreInv'
  BY <1>13
  DEF ResumePurge, BytesKept, InstallingHasFile, LockExcludes, PurgesAreOrdered,
      RipeIsUnclaimed, SweptIsUnheld, DumpedIsThere, BackupComplete, Of, Holders
<1>14. ASSUME MarkUnreferenced PROVE StoreInv'
  BY <1>14
  DEF MarkUnreferenced, BytesKept, InstallingHasFile, LockExcludes, PurgesAreOrdered,
      RipeIsUnclaimed, SweptIsUnheld, DumpedIsThere, BackupComplete, Of, Holders, Referenced
<1>15. ASSUME NEW b \in Blobs, PrepareMarked(b) PROVE StoreInv'
  BY <1>15
  DEF PrepareMarked, BytesKept, InstallingHasFile, LockExcludes, PurgesAreOrdered,
      RipeIsUnclaimed, SweptIsUnheld, DumpedIsThere, BackupComplete, Of, Holders, DigestFree, Referenced
<1>16. ASSUME OpenMarked PROVE StoreInv'
  BY <1>16
  DEF OpenMarked, BytesKept, InstallingHasFile, LockExcludes, PurgesAreOrdered,
      RipeIsUnclaimed, SweptIsUnheld, DumpedIsThere, BackupComplete, Of, Holders, DigestFree, Referenced
<1>17. ASSUME SweepEnds PROVE StoreInv'
  BY <1>17
  DEF SweepEnds, BytesKept, InstallingHasFile, LockExcludes, PurgesAreOrdered,
      RipeIsUnclaimed, SweptIsUnheld, DumpedIsThere, BackupComplete, Of, Holders
<1>18. ASSUME NEW b \in Blobs, PreparePurge(b) PROVE StoreInv'
  <2>1. BytesKept'
    BY <1>18 DEF PreparePurge, BytesKept, Of, Holders
  <2>2. InstallingHasFile'
    BY <1>18 DEF PreparePurge, InstallingHasFile, Of, DigestFree
  <2>3. LockExcludes'
    BY <1>18 DEF PreparePurge, LockExcludes, Of, DigestFree
  <2>4. PurgesAreOrdered'
    BY <1>18 DEF PreparePurge, PurgesAreOrdered
  <2>5. RipeIsUnclaimed'
    BY <1>18 DEF PreparePurge, RipeIsUnclaimed, Of
  <2>6. SweptIsUnheld'
    BY <1>18 DEF PreparePurge, SweptIsUnheld, Holders, Of
  <2>7. DumpedIsThere'
    BY <1>18 DEF PreparePurge, DumpedIsThere
  <2>8. BackupComplete'
    BY <1>18 DEF PreparePurge, BackupComplete
  <2> HIDE DEF TypeOK
  <2> QED
    BY <2>1, <2>2, <2>3, <2>4, <2>5, <2>6, <2>7, <2>8
<1>19. ASSUME NEW r \in Removers, OpenPurged(r) PROVE StoreInv'
  BY <1>19
  DEF OpenPurged, BytesKept, InstallingHasFile, LockExcludes, PurgesAreOrdered,
      RipeIsUnclaimed, SweptIsUnheld, DumpedIsThere, BackupComplete, Of, Holders, DigestFree
<1>20. ASSUME NEW r \in Removers, RemoveBytes(r) PROVE StoreInv'
  <2>1. BytesKept'
    BY <1>20 DEF RemoveBytes, BytesKept, Of, PurgesAreOrdered, SweptIsUnheld, RipeIsUnclaimed, Holders
  <2>2. InstallingHasFile'
    BY <1>20 DEF RemoveBytes, InstallingHasFile, Of, LockExcludes
  <2>3. LockExcludes'
    BY <1>20 DEF RemoveBytes, LockExcludes, Of, DigestFree
  <2>4. PurgesAreOrdered'
    BY <1>20 DEF RemoveBytes, PurgesAreOrdered
  <2>5. SweptIsUnheld'
    BY <1>20 DEF RemoveBytes, SweptIsUnheld, Holders, Of
  <2>6. DumpedIsThere'
    BY <1>20 DEF RemoveBytes, DumpedIsThere
  <2>7. RipeIsUnclaimed' /\ BackupComplete'
    BY <1>20 DEF RemoveBytes, RipeIsUnclaimed, Of, BackupComplete
  <2> HIDE DEF TypeOK
  <2> QED
    BY <2>1, <2>2, <2>3, <2>4, <2>5, <2>6, <2>7
<1>21. ASSUME NEW r \in Removers, DeleteRow(r) PROVE StoreInv'
  <2>1. BytesKept'
    BY <1>21 DEF DeleteRow, BytesKept, Of, LockExcludes, PurgesAreOrdered, SweptIsUnheld, RipeIsUnclaimed, Holders
  <2>2. InstallingHasFile'
    BY <1>21 DEF DeleteRow, InstallingHasFile, Of
  <2>3. LockExcludes'
    BY <1>21 DEF DeleteRow, LockExcludes, Of, DigestFree
  <2>4. PurgesAreOrdered'
    BY <1>21 DEF DeleteRow, PurgesAreOrdered
  <2>5. RipeIsUnclaimed'
    BY <1>21 DEF DeleteRow, RipeIsUnclaimed, Of
  <2>6. SweptIsUnheld'
    BY <1>21 DEF DeleteRow, SweptIsUnheld, Holders, Of, LockExcludes
  <2>7. DumpedIsThere' /\ BackupComplete'
    BY <1>21 DEF DeleteRow, DumpedIsThere, BackupComplete
  <2> HIDE DEF TypeOK
  <2> QED
    BY <2>1, <2>2, <2>3, <2>4, <2>5, <2>6, <2>7
<1>22. ASSUME NEW r \in Removers, RemovalFails(r) PROVE StoreInv'
  BY <1>22
  DEF RemovalFails, Fault, BytesKept, InstallingHasFile, LockExcludes, PurgesAreOrdered,
      RipeIsUnclaimed, SweptIsUnheld, DumpedIsThere, BackupComplete, Of, Holders
<1>23. ASSUME BackupLocks PROVE StoreInv'
  BY <1>23
  DEF BackupLocks, BytesKept, InstallingHasFile, LockExcludes, PurgesAreOrdered,
      RipeIsUnclaimed, SweptIsUnheld, DumpedIsThere, BackupComplete, Of, Holders
<1>24. ASSUME BackupDumps PROVE StoreInv'
  BY <1>24
  DEF BackupDumps, BytesKept, InstallingHasFile, LockExcludes, PurgesAreOrdered,
      RipeIsUnclaimed, SweptIsUnheld, DumpedIsThere, BackupComplete, Of, Holders, Referenced
<1>25. ASSUME NEW b \in Blobs, BackupCopies(b) PROVE StoreInv'
  BY <1>25
  DEF BackupCopies, BytesKept, InstallingHasFile, LockExcludes, PurgesAreOrdered,
      RipeIsUnclaimed, SweptIsUnheld, DumpedIsThere, BackupComplete, Of, Holders
<1>26. ASSUME BackupEnds PROVE StoreInv'
  BY <1>26
  DEF BackupEnds, BackupOver, BytesKept, InstallingHasFile, LockExcludes, PurgesAreOrdered,
      RipeIsUnclaimed, SweptIsUnheld, DumpedIsThere, BackupComplete, Of, Holders
<1>27. ASSUME BackupFails PROVE StoreInv'
  BY <1>27
  DEF BackupFails, BackupOver, BytesKept, InstallingHasFile, LockExcludes, PurgesAreOrdered,
      RipeIsUnclaimed, SweptIsUnheld, DumpedIsThere, BackupComplete, Of, Holders
<1>28. ASSUME NEW b \in Blobs, MarkRipens(b) PROVE StoreInv'
  BY <1>28
  DEF MarkRipens, BytesKept, InstallingHasFile, LockExcludes, PurgesAreOrdered,
      RipeIsUnclaimed, SweptIsUnheld, DumpedIsThere, BackupComplete, Of, Holders
<1>29. ASSUME Crash PROVE StoreInv'
  BY <1>29
  DEF Crash, Fault, BytesKept, InstallingHasFile, LockExcludes, PurgesAreOrdered,
      RipeIsUnclaimed, SweptIsUnheld, DumpedIsThere, BackupComplete, Of, Holders
<1>30. CASE UNCHANGED vars
  BY <1>30
  DEF vars, BytesKept, InstallingHasFile, LockExcludes, PurgesAreOrdered,
      RipeIsUnclaimed, SweptIsUnheld, DumpedIsThere, BackupComplete, Of, Holders
<1> HIDE DEF StoreInv, TypeOK
<1> QED
  BY <1>1, <1>2, <1>3, <1>4, <1>5, <1>6, <1>7, <1>8, <1>9, <1>10, <1>11,
     <1>12, <1>13, <1>14, <1>15, <1>16, <1>17, <1>18, <1>19, <1>20, <1>21,
     <1>22, <1>23, <1>24, <1>25, <1>26, <1>27, <1>28, <1>29, <1>30
  DEF Next, Sweeps, Removal

LEMMA AlwaysInv == Spec => []StoreInv
<1>1. StoreInv /\ [Next]_vars => StoreInv'
  BY TypeStep, InvStep DEF StoreInv
<1> QED
  BY InitInv, <1>1, PTL DEF Spec

-----------------------------------------------------------------------------
(* Whatever the order of Put, sweep, purge, crash and failed statement,    *)
(* what an upload was told is stored, and what an operation, a revision or *)
(* a media row refers to, has its file and its row until a purge orders it *)
(* away.                                                                   *)
THEOREM StoreStaysSound == Spec => []StoreSound
<1>1. StoreInv => StoreSound
  BY DEF StoreInv, StoreSound
<1> QED
  BY AlwaysInv, <1>1, PTL

(* A backup that passed a digest the dump refers to has its bytes:         *)
(* removeBytes and RecordOrphans wait for the exclusive lock the backup    *)
(* job holds from before pg_dump until restic has ended.                   *)
THEOREM BackupsAreComplete == Spec => []BackupComplete
<1>1. StoreInv => BackupComplete
  BY DEF StoreInv
<1> QED
  BY AlwaysInv, <1>1, PTL

(* The steps that can take a file away, and what each knows of it.         *)
LEMMA RemovalStep ==
    ASSUME StoreInv, [Next]_vars, NEW b \in file \ file'
    PROVE  b \in tomb \/ Holders(b) = {}
<1> USE DEF store, sweep, saving
<1>1. CASE \E c \in Blobs : VisitOrphan(c)
  BY <1>1 DEF VisitOrphan
<1>2. ASSUME NEW r \in Removers, RemoveBytes(r) PROVE b \in tomb \/ Holders(b) = {}
  <2>1. job[r].step = "opened" /\ b = job[r].blob
    BY <1>2 DEF RemoveBytes
  <2>2. CASE r = Purger \/ phase # "delete"
    BY <2>1, <2>2 DEF StoreInv, Claims, PurgesAreOrdered, Removers
  <2>3. CASE r = Sweeper /\ phase = "delete"
    BY <2>1, <2>3 DEF StoreInv, Claims, SweptIsUnheld, Removing
  <2> QED
    BY <2>2, <2>3 DEF Removers
<1>3. \/ file \subseteq file'
      \/ \E c \in Blobs : VisitOrphan(c)
      \/ \E r \in Removers : RemoveBytes(r)
  BY DEF Next, vars, Sweeps, Removal, PutInstalls, PutCommits, PutFails, InsertReference,
         UploadRefused, FinalizeIngest, DropReference, RecoveryEnds, SweepStarts, SweepFails,
         ListPurges, ResumePurge, MarkUnreferenced, PrepareMarked, OpenMarked, SweepEnds,
         PreparePurge, OpenPurged, DeleteRow, RemovalFails, BackupLocks, BackupDumps,
         BackupCopies, BackupEnds, BackupFails, BackupOver, MarkRipens, Crash
<1> QED
  BY <1>1, <1>2, <1>3

(* The steps that can bring a file or a row back.                          *)
LEMMA ReturnStep ==
    ASSUME StoreInv, [Next]_vars, NEW b \in tomb
    PROVE  (b \in file' => b \in file) /\ (b \in row' => b \in row)
<1> USE DEF store, sweep, saving
<1>1. ASSUME NEW u \in Uploads, NEW c \in Blobs, PutInstalls(u, c)
      PROVE  row' = row /\ file' \subseteq file \cup (Blobs \ tomb)
  BY <1>1 DEF PutInstalls
<1>2. ASSUME NEW u \in Uploads, PutCommits(u)
      PROVE  file' = file /\ b \in row' => b \in row
  BY <1>2 DEF PutCommits, StoreInv, Claims, InstallingHasFile
<1>3. ASSUME NEW c \in Blobs, VisitOrphan(c)
      PROVE  file' \subseteq file /\ (b \in row' => b \in row)
  BY <1>3 DEF VisitOrphan
<1>4. \/ file' \subseteq file /\ row' \subseteq row
      \/ \E u \in Uploads, c \in Blobs : PutInstalls(u, c)
      \/ \E u \in Uploads : PutCommits(u) /\ file' = file
      \/ \E c \in Blobs : VisitOrphan(c)
  BY DEF Next, vars, Sweeps, Removal, PutCommits, PutFails, InsertReference,
         UploadRefused, FinalizeIngest, DropReference, RecoveryEnds, SweepStarts, SweepFails,
         ListPurges, ResumePurge, MarkUnreferenced, PrepareMarked, OpenMarked, SweepEnds,
         PreparePurge, OpenPurged, RemoveBytes, DeleteRow, RemovalFails, BackupLocks,
         BackupDumps, BackupCopies, BackupEnds, BackupFails, BackupOver, MarkRipens, Crash
<1> QED
  BY <1>1, <1>2, <1>3, <1>4

(* A file goes only when a purge ordered it or nothing, an expired         *)
(* reference included, names it; and what a purge has ordered away comes   *)
(* back neither by an upload that was past its checks nor as an orphan.    *)
THEOREM FilesMoveOnOrders == Spec => FilesMoveAsOrdered
<1>1. StoreInv /\ [Next]_vars => [\A b \in file \ file' : b \in tomb \/ Holders(b) = {}]_vars
  BY RemovalStep
<1>2. StoreInv /\ [Next]_vars
        => [\A b \in tomb : (b \in file' => b \in file) /\ (b \in row' => b \in row)]_vars
  BY ReturnStep
<1>3. Spec => RemovedOnlyWhenUnheld
  BY AlwaysInv, <1>1, PTL DEF Spec, RemovedOnlyWhenUnheld
<1>4. Spec => PurgedStaysGone
  BY AlwaysInv, <1>2, PTL DEF Spec, PurgedStaysGone
<1> QED
  BY <1>3, <1>4 DEF FilesMoveAsOrdered
=============================================================================
