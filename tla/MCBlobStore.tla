---------------------------- MODULE MCBlobStore ----------------------------
(* Small instances of BlobStore for TLC.                                   *)
EXTENDS BlobStore, TLC

(* Bound: a second digest comes in only while no backup has run, no more   *)
(* than one fault has struck and no asset is past recovery, and one of the *)
(* uploads sends it.                                                       *)
Second == Blobs \ {CHOOSE b \in Blobs : TRUE}
Spare == CHOOSE u \in Uploads : TRUE
InUse == file \cup row \cup tomb \cup {upload[u].blob : u \in Uploads}
Bounded ==
    \/ InUse \cap Second = {}
    \/ /\ backups = 0 /\ faults <= 1
       /\ \A u \in Uploads :
            /\ upload[u].step # "expired"
            /\ upload[u].blob \in Second => u = Spare
=============================================================================
