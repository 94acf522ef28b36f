-------------------------- MODULE MCHolderRegistry --------------------------
(* The first person has all the phones; phones, key pairs and requests may *)
(* be exchanged.                                                           *)
EXTENDS HolderRegistry, TLC

CONSTANT p1

OwnedByFirst == [d \in Devices |-> p1]

Symmetry ==
  {d @@ k @@ r : d \in Permutations(Devices), k \in Permutations(WalletKeys),
                 r \in Permutations(Requests)}
=============================================================================
