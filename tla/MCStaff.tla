------------------------------ MODULE MCStaff ------------------------------
(* Slots are interchangeable, and so are the newcomers. *)
EXTENDS Staff, TLC

Newcomers == Emails \ {IssuerAdmin, VerifierAdmin}

Symmetry == Permutations(Slots) \cup Permutations(Newcomers)
=============================================================================
