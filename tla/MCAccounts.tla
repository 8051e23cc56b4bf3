----------------------------- MODULE MCAccounts -----------------------------
(* Small instances of Accounts for TLC.                                    *)
EXTENDS Accounts, TLC

(* Two handles; the one Discord tries first sorts after the other.        *)
MCHandles == {1, 2}
MCCandidates == <<2, 1>>

Symmetry == Permutations(Users) \cup Permutations(Emails) \cup Permutations(Requests)
=============================================================================
