----------------------------- MODULE MCAccounts -----------------------------
(* Small instances of Accounts for TLC. *)
EXTENDS Accounts, TLC

Symmetry == Permutations(Browsers) \cup Permutations(Requests) \cup Permutations(Codes)

=============================================================================
