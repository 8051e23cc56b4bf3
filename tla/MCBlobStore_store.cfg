SPECIFICATION FairSpec
CONSTANTS
    Blobs = {b1, b2}
    Purgeable = {b1, b2}
    Uploads = {u1, u2}
    Faults = 2
    Backups = 1
INVARIANTS StoreSound BackupComplete
PROPERTIES FilesMoveAsOrdered BytesGo
CONSTRAINT Bounded
