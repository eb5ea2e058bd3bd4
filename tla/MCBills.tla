------------------------------- MODULE MCBills -------------------------------
(* Small instances of Bills for TLC. *)
EXTENDS Bills, TLC

WebSymmetry == Permutations(Web)

\* Contents and bills are only ever compared with each other.
DataSymmetry == Permutations(Bills) \cup Permutations(Items) \cup Permutations(Infos)

=============================================================================
