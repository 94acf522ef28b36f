-------------------------- MODULE MCMobileSessions --------------------------
(* Requests of a kind are interchangeable. *)
EXTENDS MobileSessions, TLC

Symmetry == Permutations(Wallets) \cup Permutations(Verifiers)
=============================================================================
