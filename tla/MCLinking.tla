------------------------------ MODULE MCLinking ------------------------------
(* Small instances of Linking for TLC.                                     *)
EXTENDS Linking, TLC

Symmetry == Permutations(Users) \cup Permutations(Calls)
=============================================================================
