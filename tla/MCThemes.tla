------------------------------ MODULE MCThemes ------------------------------
(* Small instances of Themes for TLC. *)
EXTENDS Themes, TLC

Symmetry == Permutations(Orgs) \cup Permutations(Users)

=============================================================================
