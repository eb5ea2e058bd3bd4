--------------------------- MODULE MCOrganizations ---------------------------
(* Small instances of Organizations for TLC. *)
EXTENDS Organizations, TLC

Symmetry == Permutations(Users) \cup Permutations(Invites)

=============================================================================
