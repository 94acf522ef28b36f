--------------------------- MODULE MCFabricLedger ---------------------------
(* Transaction IDs and clients are interchangeable: nothing orders them.   *)
EXTENDS FabricLedger, TLC

Symmetry == Permutations(CredIDs) \cup Permutations(Clients)
=============================================================================
