----------------------------- MODULE MCBillings -----------------------------
(* A small instance of Billings for TLC, with the inputs of Checksum. *)
EXTENDS Checksum

extras == {<<>>, <<BillLine("water", "extra", 1)>>}

inputs == Samples

=============================================================================
