----------------------------- MODULE MCWaitHub -----------------------------
(* Small instances of WaitHub for TLC.                                     *)
EXTENDS WaitHub
=============================================================================
