------------------------------ MODULE MCIngest ------------------------------
(* Small instances of Ingest for TLC.                                      *)
EXTENDS Ingest

CONSTANTS b1, b2, b3

(* The first file holds an image, the second is that image. *)
MCExtracts == [b \in Blobs |-> IF b = b1 THEN {b2} ELSE {}]
=============================================================================
