--------------------------- MODULE MCSubscriptions ---------------------------
(* Requests of the portal are interchangeable, and so are status handlers; *)
(* the first credential is the first holder's and the second the second's, *)
(* so that credentials and holders may be exchanged together.              *)
EXTENDS Subscriptions, TLC

CONSTANTS c1, c2, h1, h2

OwnedBy == c1 :> h1 @@ c2 :> h2
OwnedByOne == c1 :> h1

Exchange == {c1 :> c1, c1 :> c2 @@ c2 :> c1 @@ h1 :> h2 @@ h2 :> h1}

Symmetry ==
  {x @@ p @@ r : x \in Exchange, p \in Permutations(Portals), r \in Permutations(Raisers)}
=============================================================================
